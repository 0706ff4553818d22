-------------------------- MODULE MessageExecuter ---------------------------
(***************************************************************************)
(* app_tasks/message_executer_task.c with the two tasks that do its work:  *)
(* a message that comes in over MQTT names a line of the command file; the *)
(* line is run on the micro controller (com, RpiHost) or on this system    *)
(* (exe, CliExecuter) and the result is sent over MQTT.  Every report      *)
(* interval the lines of the report file are run in the same way, one      *)
(* after the other, and messages that come in meanwhile go first.          *)
(*                                                                         *)
(* The three tasks share the main loop: a step is one run() of one of      *)
(* them.  A tick is the interval of the two executers, so each of them     *)
(* runs once in it, the host at least once.  The order is open, since the  *)
(* application registers the tasks.  Which lines the files hold is fixed;  *)
(* a line that does not name a type (other) is passed over.                *)
(***************************************************************************)
EXTENDS RpiHost, CliExecuter

CONSTANTS
  CommandFile,     \* [name -> line]
  ReportFile,      \* sequence of lines
  ExecTime,        \* MSG_EXECUTER_RESPONSE_TIMEOUT_MS, in ticks
  MaxMissed,       \* bound: times the report file cannot be opened
  MaxMessages      \* bound: messages that come in

ComLine == {"com", "com without data"}
ExeLine == {"exe", "exe without data"}
Line == ComLine \cup ExeLine \cup {"other"}

\* "must be more than the timeout of com / exe module !" (line 64)
ASSUME ExecuterAssumption ==
  /\ \A n \in DOMAIN CommandFile : CommandFile[n] \in Line
  /\ ReportFile \in Seq(Line)
  /\ ExecTime \in Nat /\ RequestTime + WaitTime < ExecTime
  /\ MaxMissed \in Nat
  /\ MaxMessages \in Nat

VARIABLES
  state,           \* msg_executer_task_state
  received,        \* msg_executer_received_command_name
  pending,         \* msg_executer_pending_command: the line found
  msg_received,    \* MSG_EXECUTER_STATUS_MSG_RECEIVED
  report_active,   \* MSG_EXECUTER_STATUS_REPORT_ACTIVE
  response,        \* _RESPONSE_RECEIVED and the response: whose it is
  timed_out,       \* _RESPONSE_TIMEOUT: the command it is about
  not_found,       \* _COMMAND_NOT_FOUND: the command it is about
  report,          \* lines read of the report file; 0 when it is closed
  report_due,      \* MSG_EXECUTER_REPORT_INTERVAL_TIMER is up
  op_age,          \* MSG_EXECUTER_OP_TIMER_elapsed()
  asker,           \* who wants the command in progress
  misled,          \* a wait was ended by the host's timeout for an earlier command
  ran,             \* tasks that had their turn in this tick
  missed,          \* failed attempts to open the report file so far
  messages         \* messages so far

evars == <<state, received, pending, msg_received, report_active, response,
           timed_out, not_found, report, report_due, op_age, asker>>
vars == <<evars, host, cli, misled, ran, missed, messages>>

Name == DOMAIN CommandFile \cup {"unknown"}
Waiting == {"wait_com", "wait_exe"}
Working == Waiting \cup {"timeout", "not_found", "send_response", "send_report"}

TypeOK ==
  /\ host \in HostType
  /\ cli \in CliType
  /\ state \in Working \cup {"wait_cfg", "idle", "open", "parse", "process_report",
                             "prepare_com", "prepare_exe"}
  /\ received \in Name
  /\ pending \in ComLine \cup ExeLine \cup {"none"}
  /\ msg_received \in BOOLEAN /\ report_active \in BOOLEAN
  /\ {response, timed_out, not_found} \subseteq Owner
  /\ report \in 0 .. Len(ReportFile)
  /\ report_due \in BOOLEAN
  /\ op_age \in 0 .. ExecTime
  /\ asker \in {"nobody", "message", "report"}
  /\ misled \in BOOLEAN
  /\ ran \subseteq {"executer", "cli", "host"}
  /\ missed \in 0 .. MaxMissed
  /\ messages \in 0 .. MaxMessages

Init ==
  /\ host = HostInit /\ cli = CliInit
  /\ state = "wait_cfg" /\ received = "unknown" /\ pending = "none"
  /\ msg_received = FALSE /\ report_active = FALSE
  /\ response = "none" /\ timed_out = "none" /\ not_found = "none"
  /\ report = 0 /\ report_due = FALSE /\ op_age = 0 /\ asker = "nobody"
  /\ misled = FALSE
  /\ ran = {} /\ missed = 0 /\ messages = 0

-----------------------------------------------------------------------------
\* What comes from outside.

\* CFG_PARSER_CFG_COMPLETE_SIGNAL, heard by the executer and by the host
CfgComplete ==
  /\ ~host.configured
  /\ host' = [host EXCEPT !.configured = TRUE]
  /\ UNCHANGED <<evars, cli, misled, ran, missed, messages>>

\* MQTT_MESSAGE_RECEIVED_SIGNAL; the name replaces that of a message before.
Message(n) ==
  /\ host.configured /\ messages < MaxMessages
  /\ messages' = messages + 1
  /\ received' = n
  /\ msg_received' = TRUE
  /\ UNCHANGED <<state, pending, report_active, response, timed_out, not_found,
                 report, report_due, op_age, asker, host, cli, misled, ran, missed>>

ReportTimer ==
  /\ ~report_due
  /\ report_due' = TRUE
  /\ UNCHANGED <<state, received, pending, msg_received, report_active, response,
                 timed_out, not_found, report, op_age, asker, host, cli, misled,
                 ran, missed, messages>>

\* msg_executer_task_get_state
ExecuterAwake == state # "idle" \/ msg_received \/ report_due

Tick ==
  /\ ExecuterAwake => "executer" \in ran
  /\ CliAwake => "cli" \in ran
  /\ HostAwake => "host" \in ran
  /\ ran' = {}
  /\ op_age' = IF op_age < ExecTime THEN op_age + 1 ELSE op_age
  /\ host' = HostTick(host)
  /\ UNCHANGED <<state, received, pending, msg_received, report_active, response,
                 timed_out, not_found, report, report_due, asker, cli,
                 misled, missed, messages>>

-----------------------------------------------------------------------------
\* The cases of msg_executer_task_run.  Outside is what only slots and other
\* tasks change.

Outside == <<received, report_due, timed_out, not_found, host, cli>>

\* TASK_STATE_WAIT_FOR_USER_CFG falls through to TASK_STATE_IDLE.
AtIdle == state = "idle" \/ (state = "wait_cfg" /\ host.configured)

StayIdle ==
  /\ AtIdle /\ ~msg_received /\ ~report_due
  /\ state' = "idle"
  /\ UNCHANGED <<pending, msg_received, report_active, response, report, op_age,
                 asker, Outside>>

WaitForCfg ==
  /\ state = "wait_cfg" /\ ~host.configured
  /\ UNCHANGED evars /\ UNCHANGED <<host, cli>>

\* Variants: the response of the last command is not forgotten; the message
\* is answered as the line of a report that it interrupted.
WrongTakeMessage ==
  /\ AtIdle /\ msg_received
  /\ msg_received' = FALSE /\ report_active' = FALSE
  /\ state' = "open"
  /\ UNCHANGED <<pending, response, report, op_age, asker, Outside>>

WrongTakeMessageInReport ==
  /\ AtIdle /\ msg_received
  /\ msg_received' = FALSE /\ response' = "none"
  /\ state' = "open"
  /\ UNCHANGED <<pending, report_active, report, op_age, asker, Outside>>

TakeMessage ==
  /\ AtIdle /\ msg_received
  /\ msg_received' = FALSE /\ report_active' = FALSE /\ response' = "none"
  /\ state' = "open"
  /\ UNCHANGED <<pending, report, op_age, asker, Outside>>

StartReport ==
  /\ AtIdle /\ ~msg_received /\ report_due
  /\ response' = "none"
  /\ state' = "process_report"
  /\ UNCHANGED <<pending, msg_received, report_active, report, op_age, asker, Outside>>

OpenFile ==
  /\ state = "open"
  /\ state' \in {"parse", "idle"}
  /\ UNCHANGED <<pending, msg_received, report_active, response, report, op_age,
                 asker, Outside>>

\* msg_executer_parse_line gives the type of a command to run.
Prepare(line) == IF line \in ComLine THEN "prepare_com" ELSE "prepare_exe"
Runnable(line) == line \in ComLine \cup ExeLine

\* msg_executer_parse_command_message finds a line with this name.
Found(name) == name \in DOMAIN CommandFile /\ Runnable(CommandFile[name])

ParseCommand ==
  /\ state = "parse"
  /\ IF Found(received)
     THEN /\ pending' = CommandFile[received]
          /\ state' = Prepare(pending')
     ELSE state' = "idle" /\ UNCHANGED pending
  /\ asker' = "message"
  /\ UNCHANGED <<msg_received, report_active, response, report, op_age, Outside>>

\* Variant: behind the last line the file begins again.
WrongNextLine ==
  IF \E i \in report + 1 .. Len(ReportFile) : Runnable(ReportFile[i])
  THEN {i \in report + 1 .. Len(ReportFile) : Runnable(ReportFile[i])}
  ELSE {i \in 1 .. Len(ReportFile) : Runnable(ReportFile[i])}

\* msg_executer_parse_report_command: the lines it has still to read
NextLine == {i \in report + 1 .. Len(ReportFile) : Runnable(ReportFile[i])}

\* PROCESS_REPORT_LIST: the next line that is a command
ReportLine ==
  /\ state = "process_report"
  /\ \E i \in NextLine :
       /\ \A j \in NextLine : i <= j
       /\ report' = i
       /\ pending' = ReportFile[i]
  /\ state' = Prepare(pending')
  /\ report_active' = TRUE
  /\ asker' = "report"
  /\ UNCHANGED <<msg_received, response, op_age, Outside>>

ReportEnd ==
  /\ state = "process_report"
  /\ NextLine = {}
  /\ report' = 0
  /\ report_active' = FALSE
  /\ report_due' = FALSE
  /\ state' = "idle"
  /\ UNCHANGED <<received, pending, msg_received, response, timed_out, not_found,
                 op_age, asker, host, cli>>

\* The report file cannot be opened, which counts as a line without command:
\* the task tries again at once, and looks at nothing else until it succeeds.
ReportMissing ==
  /\ state = "process_report" /\ report = 0
  /\ missed < MaxMissed
  /\ missed' = missed + 1
  /\ report_active' = TRUE
  /\ UNCHANGED <<state, pending, msg_received, response, report, op_age, asker, Outside>>

\* A command is issued: whatever is under way belongs to an earlier one.
Issue(h, c) ==
  /\ host' = h /\ cli' = c
  /\ response' = Age(response)
  /\ timed_out' = Age(timed_out)
  /\ not_found' = Age(not_found)
  /\ op_age' = 0

PrepareCom ==
  /\ state = "prepare_com" /\ pending = "com"
  /\ Issue(HostCommand(HostAged(host)), CliAged(cli))
  /\ state' = "wait_com"
  /\ UNCHANGED <<received, pending, msg_received, report_active, report, report_due,
                 asker>>

PrepareExe ==
  /\ state = "prepare_exe" /\ pending = "exe"
  /\ Issue(HostAged(host), CliCommand(CliAged(cli)))
  /\ state' = "wait_exe"
  /\ UNCHANGED <<received, pending, msg_received, report_active, report, report_due,
                 asker>>

PrepareFails ==
  /\ \/ state = "prepare_com" /\ pending = "com without data"
     \/ state = "prepare_exe" /\ pending = "exe without data"
  /\ state' = "idle"
  /\ UNCHANGED <<pending, msg_received, report_active, response, report, op_age,
                 asker, Outside>>

OpTimeout ==
  /\ state \in Waiting /\ op_age = ExecTime
  /\ state' = "timeout"
  /\ UNCHANGED <<pending, msg_received, report_active, response, report, op_age,
                 asker, Outside>>

HostTimeout ==
  /\ state = "wait_com" /\ op_age < ExecTime
  /\ timed_out # "none"
  /\ timed_out' = "none"
  /\ state' = "timeout"
  /\ UNCHANGED <<received, pending, msg_received, report_active, response, not_found,
                 report, report_due, op_age, asker, host, cli>>

CommandNotFound ==
  /\ state = "wait_exe" /\ op_age < ExecTime
  /\ not_found # "none"
  /\ not_found' = "none"
  /\ state' = "not_found"
  /\ UNCHANGED <<received, pending, msg_received, report_active, response, timed_out,
                 report, report_due, op_age, asker, host, cli>>

\* No verdict: the response is put into the answer, if there is one.
NoVerdict ==
  /\ op_age < ExecTime
  /\ \/ state = "wait_com" /\ timed_out = "none"
     \/ state = "wait_exe" /\ not_found = "none"

Send == IF report_active THEN "send_report" ELSE "send_response"

Answered ==
  /\ NoVerdict /\ response # "none"
  /\ state' = Send
  /\ UNCHANGED <<pending, msg_received, report_active, response, report, op_age,
                 asker, Outside>>

StillWaiting ==
  /\ NoVerdict /\ response = "none"
  /\ UNCHANGED evars /\ UNCHANGED <<host, cli>>

WrongPrepareVerdict ==             \* variant: only a report ends here
  /\ state \in {"timeout", "not_found"}
  /\ state' = IF state = "not_found" /\ ~report_active THEN state ELSE Send
  /\ UNCHANGED <<pending, msg_received, report_active, response, report, op_age,
                 asker, Outside>>

\* PREPARE_RESPONSE_TIMEOUT and PREPARE_RESPONSE_COMMAND_NOT_FOUND
PrepareVerdict ==
  /\ state \in {"timeout", "not_found"}
  /\ state' = IF state = "not_found" /\ ~report_active THEN "idle" ELSE Send
  /\ UNCHANGED <<pending, msg_received, report_active, response, report, op_age,
                 asker, Outside>>

SendResponse ==
  /\ state = "send_response"
  /\ response' = "none"
  /\ state' = "idle"
  /\ UNCHANGED <<pending, msg_received, report_active, report, op_age, asker, Outside>>

SendReport ==
  /\ state = "send_report"
  /\ state' = "idle"
  /\ UNCHANGED <<pending, msg_received, report_active, response, report, op_age,
                 asker, Outside>>

Case ==
  \/ WaitForCfg \/ StayIdle \/ TakeMessage \/ StartReport
  \/ OpenFile \/ ParseCommand
  \/ ReportLine \/ ReportEnd
  \/ PrepareCom \/ PrepareExe \/ PrepareFails
  \/ OpTimeout \/ HostTimeout \/ CommandNotFound \/ Answered \/ StillWaiting
  \/ PrepareVerdict \/ SendResponse \/ SendReport

\* msg_executer_task_run; it is misled when it takes the host's timeout for one
\* of the command it waits for, and the command was another.
Executer ==
  /\ "executer" \notin ran
  /\ ran' = ran \cup {"executer"}
  /\ UNCHANGED messages
  /\ \/ Case /\ UNCHANGED missed
     \/ ReportMissing
  /\ misled' = (misled \/ (timed_out = "earlier" /\ timed_out' = "none"))

-----------------------------------------------------------------------------
\* The other two tasks, and the slots of the executer that hear them.

Unheard == UNCHANGED <<response, timed_out, not_found>>

\* RPI_HOST_RESPONSE_RECEIVED_SLOT: ignored unless the executer waits for it.
HearResponse ==
  /\ response' = IF state = "wait_com" THEN host.sent ELSE response
  /\ UNCHANGED <<timed_out, not_found>>

\* RPI_HOST_RESPONSE_TIMEOUT_SLOT: heard in any state
HearTimeout ==
  /\ timed_out' = host.sent
  /\ UNCHANGED <<response, not_found>>

\* CLI_EXECUTER_COMMAND_RESPONSE_SLOT
HearOutput ==
  /\ response' = IF state = "wait_exe" THEN cli.response ELSE response
  /\ UNCHANGED <<timed_out, not_found>>

\* CLI_EXECUTER_COMMAND_NOT_FOUND_SLOT: heard in any state
HearNotFound ==
  /\ not_found' = cli.response
  /\ UNCHANGED <<response, timed_out>>

Host ==
  /\ \/ Unheard /\ (HostConfigures \/ HostWakes \/ HostSends \/ HostFinishes \/ HostWaits)
     \/ HostTimesOut /\ HearTimeout
     \/ HostReceives /\ HearResponse
  /\ ran' = ran \cup {"host"}
  /\ UNCHANGED <<state, received, pending, msg_received, report_active, report,
                 report_due, op_age, asker, cli, misled, missed, messages>>

\* While the program runs the main loop stands still, and all timers go on.
LoopStands ==
  /\ op_age' \in {op_age, ExecTime}
  /\ IF op_age' = op_age THEN UNCHANGED <<host, report_due>>
     ELSE /\ host' = [host EXCEPT !.age = HostMaxAge]
          /\ report_due' \in {report_due, TRUE}

Cli ==
  /\ "cli" \notin ran
  /\ \/ CliExecutes /\ Unheard /\ LoopStands
     \/ /\ UNCHANGED <<host, report_due, op_age>>
        /\ \/ CliTakes /\ Unheard
           \/ CliCloses("close") /\ HearOutput
           \/ CliCloses("close_on_fail") /\ HearNotFound
  /\ ran' = ran \cup {"cli"}
  /\ UNCHANGED <<state, received, pending, msg_received, report_active, report, asker,
                 misled, missed, messages>>

Next ==
  \/ CfgComplete \/ ReportTimer \/ Tick
  \/ \E n \in Name : Message(n)
  \/ Executer \/ Host \/ Cli

Spec == Init /\ [][Next]_vars

\* The main loop comes round to every task, and time passes.
FairSpec ==
  /\ Spec
  /\ WF_vars(Executer) /\ WF_vars(Host) /\ WF_vars(Cli) /\ WF_vars(Tick)

-----------------------------------------------------------------------------

\* The response that the executer takes for that of the command it waits for
\* is that of this command.  Nothing in a response says so: the code relies
\* on its timeouts and on forgetting a response that came too late.  Not
\* promised once it was misled: it then issues commands while the host is
\* still busy with the one before.
AnswerBelongs == state \in Waiting /\ ~misled => response # "earlier"

\* What a message asked for is answered as a response and what the report
\* asked for as a report, although messages come in between two lines of it.
AnswerGoesToAsker == state \in Working => (report_active <=> asker = "report")

\* The client is sent one command at a time: two that are in the buffer
\* together would go out as one, and none as an empty one.  Again not after
\* the executer was misled.
SendsOneCommand == [][HostSends /\ ~misled => Len(host.buffer) = 1]_vars

\* The executer, once configured, becomes idle again, whatever is lost.
BackToIdle == (state # "wait_cfg") ~> (state = "idle")

\* A report that was begun gets to the end of its file, although messages
\* go first.
ReportCompletes == (report # 0) ~> (report = 0)

\* "Waits unti the commincation command has finished or the commonad timeout
\* is over" (line 155): the verdict that ends the wait is not about an
\* earlier command.
VerdictBelongs ==
  /\ state = "wait_com" => timed_out # "earlier"
  /\ state = "wait_exe" => not_found # "earlier"

=============================================================================
