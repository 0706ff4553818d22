------------------------- MODULE CommandPath_proofs -------------------------
(***************************************************************************)
(* Proofs about the way of a command: from the message to the executer and *)
(* back (MessageExecuter), and over the link to the micro controller and   *)
(* back (RpiLink), for all files, numbers of messages, times and buffers.  *)
(*                                                                         *)
(* That the answer goes to who asked rests on no times: the flag           *)
(* REPORT_ACTIVE is set and unset at other places than the command is      *)
(* fetched at.  That the link mixes no answers up rests on times alone: a  *)
(* command has left the micro controller before the host gives it up.      *)
(* Fairness is needed for neither.                                         *)
(***************************************************************************)
EXTENDS MessageExecuter, RpiLink, SequenceTheorems, TLAPS

\* From the parser on, the flag tells the asker; while the command of a
\* message is still looked for, no report is active.
AskerInv ==
  /\ state \in Working \cup {"prepare_com", "prepare_exe"} =>
       (report_active <=> asker = "report")
  /\ state \in {"open", "parse"} => ~report_active

LEMMA AskerStart == Init => AskerInv
BY DEF Init, AskerInv, Working, Waiting

\* Steps of others than the executer leave the three variables alone.
LEMMA AskerKept ==
  ASSUME AskerInv, UNCHANGED <<state, report_active, asker>>
  PROVE  AskerInv'
BY DEF AskerInv

LEMMA AskerCase ==
  ASSUME AskerInv, Case
  PROVE  AskerInv'
<1>1. CASE WaitForCfg \/ StillWaiting
  BY <1>1, AskerKept DEF WaitForCfg, StillWaiting, evars
<1>2. CASE StayIdle
  BY <1>2 DEF StayIdle, AskerInv, Working, Waiting
<1>3. CASE TakeMessage
  BY <1>3 DEF TakeMessage, AskerInv, Working, Waiting
<1>4. CASE StartReport
  BY <1>4 DEF StartReport, AskerInv, Working, Waiting
<1>5. CASE OpenFile
  BY <1>5 DEF OpenFile, AskerInv, Working, Waiting
<1>6. CASE ParseCommand
  <2>1. /\ asker' = "message"
        /\ report_active' = report_active
        /\ ~report_active
        /\ state' \in {"idle", "prepare_com", "prepare_exe"}
    BY <1>6 DEF ParseCommand, AskerInv, Prepare
  <2>2. QED
    BY <2>1 DEF AskerInv, Working, Waiting
<1>7. CASE ReportLine
  <2>1. /\ asker' = "report"
        /\ report_active'
        /\ state' \in {"prepare_com", "prepare_exe"}
    BY <1>7 DEF ReportLine, Prepare
  <2>2. QED
    BY <2>1 DEF AskerInv, Working, Waiting
<1>8. CASE ReportEnd
  BY <1>8 DEF ReportEnd, AskerInv, Working, Waiting
<1>9. CASE PrepareCom \/ PrepareExe
  BY <1>9 DEF PrepareCom, PrepareExe, AskerInv, Working, Waiting
<1>10. CASE PrepareFails
  BY <1>10 DEF PrepareFails, AskerInv, Working, Waiting
<1>11. CASE OpTimeout \/ HostTimeout \/ CommandNotFound
  BY <1>11 DEF OpTimeout, HostTimeout, CommandNotFound, AskerInv, Working, Waiting
<1>12. CASE Answered
  <2>1. state \in Waiting
    BY <1>12 DEF Answered, NoVerdict, Waiting
  <2>2. QED
    BY <1>12, <2>1 DEF Answered, Send, AskerInv, Working, Waiting
<1>13. CASE PrepareVerdict
  BY <1>13 DEF PrepareVerdict, Send, AskerInv, Working, Waiting
<1>14. CASE SendResponse \/ SendReport
  BY <1>14 DEF SendResponse, SendReport, AskerInv, Working, Waiting
<1>15. QED
  BY <1>1, <1>2, <1>3, <1>4, <1>5, <1>6, <1>7, <1>8, <1>9, <1>10, <1>11, <1>12,
     <1>13, <1>14 DEF Case

LEMMA AskerStep ==
  ASSUME AskerInv, [Next]_vars
  PROVE  AskerInv'
<1>1. CASE Executer
  <2>1. CASE Case
    BY <2>1, AskerCase
  <2>2. CASE ReportMissing
    BY <2>2 DEF ReportMissing, AskerInv, Working, Waiting
  <2>3. QED
    BY <1>1, <2>1, <2>2 DEF Executer
<1>2. CASE Host \/ Cli
  BY <1>2, AskerKept DEF Host, Cli
<1>3. CASE CfgComplete \/ ReportTimer \/ Tick
  BY <1>3, AskerKept DEF CfgComplete, ReportTimer, Tick, evars
<1>4. CASE \E n \in Name : Message(n)
  BY <1>4, AskerKept DEF Message
<1>5. CASE UNCHANGED vars
  BY <1>5, AskerKept DEF vars, evars
<1>6. QED
  BY <1>1, <1>2, <1>3, <1>4, <1>5 DEF Next

\* The answer to a message is sent as a response and that to a line of the
\* report as a report, for every pair of files and any times.
THEOREM AskerIsAnswered == Spec => []AnswerGoesToAsker
<1>1. AskerInv => AnswerGoesToAsker
  BY DEF AskerInv, AnswerGoesToAsker
<1>2. QED
  BY <1>1, AskerStart, AskerStep, PTL DEF Spec

-----------------------------------------------------------------------------
(***************************************************************************)
(* The answer that is taken is that of the command waited for, as long as  *)
(* no stale timeout has ended a wait.  That is a matter of time: between   *)
(* the end of a wait and the next command the executer makes at least as   *)
(* many turns as the other two tasks need to get done with what they do,   *)
(* and while it waits for the host, its timer runs as far ahead of that of *)
(* the host as the request takes, so it does not give up first.            *)
(***************************************************************************)

\* What the proof needs to know of the types; the buffer of the host has room
\* for more than ever comes together.
HostShape ==
  [ state : {"wait_cfg", "sleep", "wait_command", "wait_response", "finish"},
    configured : BOOLEAN, pending : BOOLEAN, buffer : {<<>>, <<"this">>},
    sent : Owner, request : BOOLEAN, age : Nat ]

Shapes ==
  /\ host \in HostShape
  /\ cli \in CliType
  /\ state \in Working \cup {"wait_cfg", "idle", "open", "parse", "process_report",
                             "prepare_com", "prepare_exe"}
  /\ response \in Owner /\ timed_out \in Owner /\ not_found \in Owner
  /\ op_age \in 0 .. ExecTime

InTurn(task) == IF task \in ran THEN 1 ELSE 0

\* Ticks before the executer can issue the next command: a turn for each case
\* on the shortest way.
Distance ==
  IF state \in {"prepare_com", "prepare_exe"} THEN 0
  ELSE IF state \in {"parse", "process_report"} THEN 1
  ELSE IF state \in {"wait_cfg", "idle", "open"} THEN 2
  ELSE IF state = "timeout" THEN 4 ELSE 3
Left == Distance + InTurn("executer")

\* Ticks before the host is asleep with its turn to come, and before the shell
\* is idle, from where they were when the wait ended.
HostNeed == InTurn("host") + IF host.state = "sleep" THEN 0 ELSE 1
CliQuiet == cli.state = "idle" /\ ~cli.received
CliNeed ==
  IF CliQuiet THEN 0
  ELSE InTurn("cli") + IF cli.state = "execute" THEN 2
                       ELSE IF cli.state = "idle" THEN 3 ELSE 1

\* The host does nothing for anybody, or it is busy with the command waited
\* for and the timers of both tell how long.
HostQuiet ==
  /\ host.state \in {"wait_cfg", "sleep", "finish"}
  /\ ~host.pending
  /\ host.buffer = <<>>

ToWake ==
  /\ host.state = "sleep" /\ host.pending /\ host.buffer = <<"this">>
  /\ op_age = 0
  /\ "host" \notin ran

ToSend ==
  /\ host.state = "wait_command" /\ ~host.pending /\ host.buffer = <<"this">>
  /\ op_age = host.age /\ host.age <= RequestTime
  /\ "host" \in ran => host.age < RequestTime

ToReceive ==
  /\ host.state = "wait_response" /\ ~host.pending /\ host.buffer = <<>>
  /\ host.sent = "this"
  /\ op_age = RequestTime + host.age /\ host.age <= WaitTime
  /\ "host" \in ran => host.age < WaitTime

HostBusy ==
  /\ ToWake \/ ToSend \/ ToReceive
  /\ response = "none" /\ timed_out # "this"

\* A response is forgotten before the next command is looked for.
Forgotten ==
  /\ state \in {"open", "parse", "process_report", "prepare_com", "prepare_exe"} =>
       response = "none"
  /\ state \in Waiting => response # "earlier"

HostInTime ==
  /\ state # "wait_cfg" => host.configured
  /\ state = "wait_com" => HostQuiet \/ HostBusy
  /\ state # "wait_com" => HostQuiet
  /\ state \notin Waiting => HostNeed <= Left

CliInTime ==
  /\ cli.received => cli.state = "idle"
  /\ state = "wait_com" => CliQuiet
  /\ state \notin Waiting => CliNeed <= Left
  /\ state = "wait_exe" =>
       /\ cli.received \/ cli.state = "execute" => cli.command = "this"
       /\ cli.state \in {"close", "close_on_fail"} => cli.response = "this"

AnswerInv == Shapes /\ Forgotten /\ HostInTime /\ CliInTime

LEMMA AnswerStart == Init => AnswerInv
<1> SUFFICES ASSUME Init PROVE AnswerInv
  OBVIOUS
<1>1. Shapes
  BY ExecuterAssumption DEF Init, Shapes, HostShape, HostInit, CliType, CliInit, Owner
<1>2. Forgotten
  BY DEF Init, Forgotten, Waiting
<1>3. HostInTime
  BY DEF Init, HostInTime, HostQuiet, HostNeed, Left, Distance, InTurn, HostInit
<1>4. CliInTime
  BY DEF Init, CliInTime, CliNeed, CliQuiet, Left, Distance, InTurn, CliInit
<1>5. QED
  BY <1>1, <1>2, <1>3, <1>4 DEF AnswerInv

\* A case of the executer that issues no command, after which it does not wait
\* any more, and from which it has no longer way to go than one turn less.
LEMMA GoesOn ==
  ASSUME AnswerInv, HostQuiet, UNCHANGED <<host, cli, op_age>>,
         "executer" \notin ran, ran' = ran \cup {"executer"},
         state' \in (Working \ Waiting) \cup {"idle", "open", "parse", "process_report",
                                               "prepare_com", "prepare_exe"},
         state = "wait_cfg" => host.configured,
         state \in Waiting => state' \in Working,
         state \notin Waiting => Distance <= Distance' + 1,
         response' \in Owner, timed_out' \in Owner, not_found' \in Owner,
         Forgotten'
  PROVE  AnswerInv'
<1>1. Shapes'
  BY DEF AnswerInv, Shapes, Working, Waiting
<1>2. /\ InTurn("executer") = 0 /\ InTurn("executer")' = 1
      /\ InTurn("host")' = InTurn("host") /\ InTurn("host") \in {0, 1}
      /\ InTurn("cli")' = InTurn("cli") /\ InTurn("cli") \in {0, 1}
  BY DEF InTurn
<1>3. HostNeed' = HostNeed /\ HostNeed \in 0 .. 2
  BY <1>2 DEF HostNeed
<1>4. CliNeed' = CliNeed /\ CliNeed \in 0 .. 4
  BY <1>2 DEF CliNeed, CliQuiet
<1>5. HostNeed <= Left' /\ CliNeed <= Left'
  <2>0. HostNeed \in Nat /\ CliNeed \in Nat
    BY <1>3, <1>4
  <2>1. CASE state \in Waiting
    <3>1. Distance' \in {3, 4}
      BY <2>1 DEF Distance, Working, Waiting
    <3>2. QED
      BY <3>1, <1>2, <1>3, <1>4 DEF Left
  <2>2. CASE state \notin Waiting
    <3>1. Distance \in 0 .. 4 /\ Distance' \in 0 .. 4
      BY DEF Distance
    <3>2. HostNeed <= Distance /\ CliNeed <= Distance
      BY <2>2, <1>2, <3>1 DEF AnswerInv, HostInTime, CliInTime, Left
    <3>3. HostNeed <= Distance' + 1 /\ CliNeed <= Distance' + 1
      BY <2>2, <2>0, <3>1, <3>2 DEF Distance
    <3>4. QED
      BY <1>2, <3>3 DEF Left
  <2>3. QED
    BY <2>1, <2>2
<1>6. HostInTime'
  BY <1>3, <1>5 DEF AnswerInv, HostInTime, HostQuiet, Waiting
<1>7. CliInTime'
  BY <1>4, <1>5 DEF AnswerInv, CliInTime, Waiting
<1>8. QED
  BY <1>1, <1>6, <1>7 DEF AnswerInv

\* The waits end only when the host is quiet: one that is busy has answered
\* nothing yet, and is done before the executer gives up.
LEMMA BusyInTime ==
  ASSUME AnswerInv, HostBusy
  PROVE  op_age < ExecTime /\ response = "none" /\ timed_out # "this"
<1>1. op_age <= RequestTime + WaitTime
  BY HostAssumption DEF HostBusy, ToWake, ToSend, ToReceive, AnswerInv, Shapes, HostShape
<1>2. op_age < ExecTime
  BY <1>1, ExecuterAssumption, HostAssumption DEF AnswerInv, Shapes
<1>3. QED
  BY <1>2 DEF HostBusy

LEMMA StaysWaiting ==
  ASSUME AnswerInv, UNCHANGED <<host, cli, state, response, timed_out, not_found, op_age>>,
         state \in Waiting \/ (state = "wait_cfg" /\ ~host.configured),
         "executer" \notin ran, ran' = ran \cup {"executer"}
  PROVE  AnswerInv'
<1>1. Shapes' /\ Forgotten'
  BY DEF AnswerInv, Shapes, Forgotten
<1>2. /\ InTurn("host")' = InTurn("host") /\ InTurn("host") \in {0, 1}
      /\ InTurn("cli")' = InTurn("cli") /\ InTurn("cli") \in {0, 1}
      /\ InTurn("executer") = 0 /\ InTurn("executer")' = 1
  BY DEF InTurn
<1>3. HostQuiet' = HostQuiet /\ HostBusy' = HostBusy /\ CliQuiet' = CliQuiet
  BY DEF HostQuiet, HostBusy, ToWake, ToSend, ToReceive, CliQuiet
<1>4. state \notin Waiting => HostNeed' <= Left' /\ CliNeed' <= Left'
  <2>1. SUFFICES ASSUME state = "wait_cfg" PROVE HostNeed' <= Left' /\ CliNeed' <= Left'
    OBVIOUS
  <2>2. HostNeed <= 2 /\ CliNeed <= 2
    BY <1>2, <2>1 DEF AnswerInv, HostInTime, CliInTime, Left, Distance, Waiting
  <2>3. QED
    BY <1>2, <2>1, <2>2 DEF HostNeed, CliNeed, CliQuiet, Left, Distance
<1>5. HostInTime'
  BY <1>3, <1>4 DEF AnswerInv, HostInTime
<1>6. CliInTime'
  BY <1>3, <1>4 DEF AnswerInv, CliInTime
<1>7. QED
  BY <1>1, <1>5, <1>6 DEF AnswerInv

\* A command goes to the host, which is asleep with its turn to come and has
\* nothing in its buffer.
LEMMA ComIssued ==
  ASSUME AnswerInv, PrepareCom, "executer" \notin ran, ran' = ran \cup {"executer"}
  PROVE  AnswerInv'
<1>1. state = "prepare_com" /\ state' = "wait_com" /\ op_age' = 0
      /\ host' = HostCommand(HostAged(host)) /\ cli' = CliAged(cli)
      /\ response' = Age(response) /\ timed_out' = Age(timed_out)
      /\ not_found' = Age(not_found)
  BY DEF PrepareCom, Issue
<1>2. Left = 0
  BY <1>1 DEF Left, Distance, InTurn
<1>3. HostQuiet /\ host.state = "sleep" /\ "host" \notin ran
  BY <1>1, <1>2 DEF AnswerInv, HostInTime, HostNeed, InTurn, Waiting
<1>4. CliQuiet
  BY <1>1, <1>2 DEF AnswerInv, CliInTime, CliNeed, InTurn, Waiting
<1>5. host' = [host EXCEPT !.sent = Age(host.sent), !.pending = TRUE, !.buffer = <<"this">>]
  <2>1. host.buffer = <<>> /\ host \in HostShape
    BY <1>3 DEF HostQuiet, AnswerInv, Shapes
  <2>2. HostAged(host) = [host EXCEPT !.sent = Age(host.sent), !.buffer = <<>>]
    BY <2>1 DEF HostAged, HostShape
  <2>3. /\ HostAged(host).buffer = <<>>
        /\ Len(<<>>) < BufferSize
        /\ Append(<<>>, "this") = <<"this">>
    BY <2>1, <2>2, HostAssumption DEF HostShape
  <2>4. host' = [HostAged(host) EXCEPT !.pending = TRUE, !.buffer = <<"this">>]
    BY <1>1, <2>3 DEF HostCommand
  <2>5. QED
    BY <2>1, <2>2, <2>4 DEF HostShape
<1>6. /\ host'.state = "sleep" /\ host'.pending /\ host'.buffer = <<"this">>
      /\ host'.configured = host.configured
      /\ host' \in HostShape
  BY <1>3, <1>5 DEF AnswerInv, Shapes, HostShape, Owner, Age
<1>7. /\ cli'.state = cli.state /\ cli'.received = cli.received
      /\ cli' \in CliType
  BY <1>1 DEF CliAged, AnswerInv, Shapes, CliType, Owner, Age
<1>8. response' = "none" /\ timed_out' # "this"
  BY <1>1 DEF AnswerInv, Forgotten, Age
<1>9. Shapes'
  BY <1>1, <1>6, <1>7, <1>8, ExecuterAssumption, HostAssumption
     DEF AnswerInv, Shapes, Working, Waiting, Owner, Age
<1>10. Forgotten'
  BY <1>1, <1>8 DEF Forgotten, Waiting
<1>11. HostInTime'
  <2>1. ToWake'
    BY <1>1, <1>3, <1>6 DEF ToWake
  <2>2. QED
    BY <1>1, <1>6, <1>8, <2>1 DEF AnswerInv, HostInTime, HostBusy, Waiting
<1>12. CliInTime'
  BY <1>1, <1>4, <1>7 DEF CliInTime, CliQuiet, Waiting
<1>13. QED
  BY <1>9, <1>10, <1>11, <1>12 DEF AnswerInv

LEMMA ExeIssued ==
  ASSUME AnswerInv, PrepareExe, "executer" \notin ran, ran' = ran \cup {"executer"}
  PROVE  AnswerInv'
<1>1. state = "prepare_exe" /\ state' = "wait_exe" /\ op_age' = 0
      /\ host' = HostAged(host) /\ cli' = CliCommand(CliAged(cli))
      /\ response' = Age(response) /\ timed_out' = Age(timed_out)
      /\ not_found' = Age(not_found)
  BY DEF PrepareExe, Issue
<1>2. Left = 0
  BY <1>1 DEF Left, Distance, InTurn
<1>3. HostQuiet
  BY <1>1 DEF AnswerInv, HostInTime
<1>4. CliQuiet
  BY <1>1, <1>2 DEF AnswerInv, CliInTime, CliNeed, InTurn, Waiting
<1>5. host' = [host EXCEPT !.sent = Age(host.sent), !.buffer = <<>>]
  BY <1>1, <1>3 DEF HostQuiet, AnswerInv, Shapes, HostAged, HostShape
<1>6. /\ host'.state = host.state /\ host'.pending = host.pending /\ host'.buffer = <<>>
      /\ host'.configured = host.configured
      /\ host' \in HostShape
  BY <1>5 DEF AnswerInv, Shapes, HostShape, Owner, Age
<1>7. /\ cli'.state = "idle" /\ cli'.received /\ cli'.command = "this"
      /\ cli' \in CliType
  BY <1>1, <1>4 DEF CliAged, CliCommand, CliQuiet, AnswerInv, Shapes, CliType, Owner, Age
<1>8. response' = "none"
  BY <1>1 DEF AnswerInv, Forgotten, Age
<1>9. Shapes'
  BY <1>1, <1>6, <1>7, <1>8, ExecuterAssumption, HostAssumption
     DEF AnswerInv, Shapes, Working, Waiting, Owner, Age
<1>10. Forgotten'
  BY <1>1, <1>8 DEF Forgotten, Waiting
<1>11. HostInTime'
  BY <1>1, <1>3, <1>6 DEF AnswerInv, HostInTime, HostQuiet, Waiting
<1>12. CliInTime'
  BY <1>1, <1>7 DEF CliInTime, Waiting
<1>13. QED
  BY <1>9, <1>10, <1>11, <1>12 DEF AnswerInv

LEMMA AnswerCase ==
  ASSUME AnswerInv, Case \/ ReportMissing,
         "executer" \notin ran, ran' = ran \cup {"executer"},
         timed_out = "earlier" => timed_out' # "none"
  PROVE  AnswerInv'
<1> USE DEF Outside
<1>1. CASE WaitForCfg \/ StillWaiting
  BY <1>1, StaysWaiting DEF WaitForCfg, StillWaiting, NoVerdict, evars, Waiting
<1>2. CASE StayIdle \/ TakeMessage \/ StartReport
  <2>1. /\ UNCHANGED <<host, cli, op_age, timed_out, not_found>>
        /\ state \in {"wait_cfg", "idle"}
        /\ state = "wait_cfg" => host.configured
        /\ state' \in {"idle", "open", "process_report"}
        /\ response' \in {response, "none"}
        /\ state' # "idle" => response' = "none"
    BY <1>2 DEF StayIdle, TakeMessage, StartReport, AtIdle
  <2>2. HostQuiet
    BY <2>1 DEF AnswerInv, HostInTime
  <2>3. Distance <= Distance' + 1
    BY <2>1 DEF Distance
  <2>4. Forgotten'
    BY <2>1 DEF Forgotten, Waiting
  <2>5. QED
    BY <2>1, <2>2, <2>3, <2>4, GoesOn DEF AnswerInv, Shapes, Owner, Waiting
<1>3. CASE OpenFile \/ ParseCommand
  <2>1. /\ UNCHANGED <<host, cli, op_age, response, timed_out, not_found>>
        /\ \/ state = "open" /\ state' \in {"parse", "idle"}
           \/ state = "parse" /\ state' \in {"idle", "prepare_com", "prepare_exe"}
    BY <1>3 DEF OpenFile, ParseCommand, Prepare
  <2>2. HostQuiet
    BY <2>1 DEF AnswerInv, HostInTime
  <2>3. Distance <= Distance' + 1
    BY <2>1 DEF Distance
  <2>4. Forgotten'
    BY <2>1 DEF AnswerInv, Forgotten, Waiting
  <2>5. QED
    BY <2>1, <2>2, <2>3, <2>4, GoesOn DEF AnswerInv, Shapes, Waiting
<1>4. CASE ReportLine \/ ReportEnd \/ ReportMissing
  <2>1. /\ UNCHANGED <<host, cli, op_age, response, timed_out, not_found>>
        /\ state = "process_report"
        /\ state' \in {"process_report", "idle", "prepare_com", "prepare_exe"}
    BY <1>4 DEF ReportLine, ReportEnd, ReportMissing, Prepare
  <2>2. HostQuiet
    BY <2>1 DEF AnswerInv, HostInTime
  <2>3. Distance <= Distance' + 1
    BY <2>1 DEF Distance
  <2>4. Forgotten'
    BY <2>1 DEF AnswerInv, Forgotten, Waiting
  <2>5. QED
    BY <2>1, <2>2, <2>3, <2>4, GoesOn DEF AnswerInv, Shapes, Waiting
<1>5. CASE PrepareCom
  BY <1>5, ComIssued
<1>6. CASE PrepareExe
  BY <1>6, ExeIssued
<1>7. CASE PrepareFails \/ PrepareVerdict \/ SendResponse \/ SendReport
  <2>1. /\ UNCHANGED <<host, cli, op_age, timed_out, not_found>>
        /\ state \in {"prepare_com", "prepare_exe", "timeout", "not_found",
                      "send_response", "send_report"}
        /\ \/ state' = "idle" /\ state # "timeout"
           \/ state' \in {"send_response", "send_report"}
        /\ response' \in {response, "none"}
    BY <1>7 DEF PrepareFails, PrepareVerdict, SendResponse, SendReport, Send
  <2>2. HostQuiet
    BY <2>1 DEF AnswerInv, HostInTime
  <2>3. Distance <= Distance' + 1
    BY <2>1 DEF Distance
  <2>4. Forgotten'
    BY <2>1 DEF Forgotten, Waiting
  <2>5. QED
    BY <2>1, <2>2, <2>3, <2>4, GoesOn DEF AnswerInv, Shapes, Owner, Waiting, Working
<1>8. CASE OpTimeout \/ HostTimeout \/ CommandNotFound \/ Answered
  <2>1. /\ UNCHANGED <<host, cli, op_age, response>>
        /\ state \in Waiting
        /\ state' \in {"timeout", "not_found", "send_response", "send_report"}
        /\ timed_out' \in {timed_out, "none"}
        /\ not_found' \in {not_found, "none"}
    BY <1>8 DEF OpTimeout, HostTimeout, CommandNotFound, Answered, NoVerdict, Send, Waiting
  <2>2. HostQuiet
    <3>1. CASE state = "wait_exe"
      BY <3>1 DEF AnswerInv, HostInTime
    <3>2. CASE state = "wait_com"
      <4>1. ~HostBusy
        <5>1. \/ op_age = ExecTime \/ response # "none"
              \/ timed_out # "none" /\ timed_out' = "none"
          BY <1>8, <3>2 DEF OpTimeout, HostTimeout, CommandNotFound, Answered
        <5>2. timed_out \in Owner /\ op_age \in Nat /\ ExecTime \in Nat
          BY ExecuterAssumption DEF AnswerInv, Shapes
        <5>3. QED
          BY <5>1, <5>2, BusyInTime DEF Owner
      <4>2. QED
        BY <3>2, <4>1 DEF AnswerInv, HostInTime
    <3>3. QED
      BY <2>1, <3>1, <3>2 DEF Waiting
  <2>3. Forgotten'
    BY <2>1 DEF Forgotten, Waiting
  <2>4. QED
    BY <2>1, <2>2, <2>3, GoesOn DEF AnswerInv, Shapes, Owner, Waiting, Working
<1>9. QED
  BY <1>1, <1>2, <1>3, <1>4, <1>5, <1>6, <1>7, <1>8 DEF Case

\* Steps of others change neither what the executer is at nor its turn.
LEMMA AnswerHost ==
  ASSUME AnswerInv, Host
  PROVE  AnswerInv'
<1> USE DEF AnswerInv
<1>1. /\ UNCHANGED <<state, op_age, cli>>
      /\ ran' = ran \cup {"host"}
      /\ InTurn("executer")' = InTurn("executer") /\ InTurn("cli")' = InTurn("cli")
      /\ InTurn("host")' = 1 /\ InTurn("host") \in {0, 1}
      /\ InTurn("executer") \in {0, 1}
  BY DEF Host, InTurn
<1>2. Left' = Left /\ Left \in Nat
  BY <1>1 DEF Left, Distance
<1>3. CliInTime'
  <2>1. CliNeed' = CliNeed /\ CliQuiet' = CliQuiet
    BY <1>1 DEF CliNeed, CliQuiet
  <2>2. QED
    BY <1>1, <1>2, <2>1 DEF CliInTime
<1>4. CASE Unheard /\ (HostConfigures \/ HostFinishes)
  <2>1. /\ host' = [host EXCEPT !.state = "sleep", !.request = host'.request]
        /\ host.state \in {"wait_cfg", "finish"}
        /\ UNCHANGED <<response, timed_out, not_found>>
    BY <1>4 DEF HostConfigures, HostFinishes, Unheard, Shapes, HostShape
  <2>2. /\ host'.state = "sleep" /\ host'.pending = host.pending
        /\ host'.buffer = host.buffer /\ host'.configured = host.configured
        /\ host' \in HostShape
    BY <1>4, <2>1 DEF HostConfigures, HostFinishes, Shapes, HostShape
  <2>3. HostQuiet
    BY <2>1 DEF HostInTime, HostBusy, ToWake, ToSend, ToReceive
  <2>4. HostQuiet'
    BY <2>2, <2>3 DEF HostQuiet
  <2>5. state \notin Waiting => HostNeed' <= Left'
    BY <1>1, <1>2, <2>1, <2>2 DEF HostInTime, HostNeed
  <2>6. Shapes' /\ Forgotten' /\ HostInTime'
    BY <1>1, <2>1, <2>2, <2>4, <2>5 DEF Shapes, Forgotten, HostInTime
  <2>7. QED
    BY <1>3, <2>6
<1>5. CASE Unheard /\ HostWakes
  <2>1. /\ host' = [host EXCEPT !.state = "wait_command", !.pending = FALSE,
                                !.request = TRUE, !.age = 0]
        /\ host.state = "sleep" /\ host.pending
        /\ UNCHANGED <<response, timed_out, not_found>>
    BY <1>5 DEF HostWakes, Unheard
  <2>2. state = "wait_com" /\ ToWake /\ HostBusy
    BY <2>1 DEF HostInTime, HostQuiet, HostBusy, ToSend, ToReceive
  <2>3. /\ host'.state = "wait_command" /\ ~host'.pending /\ host'.age = 0
        /\ host'.buffer = <<"this">> /\ host'.configured = host.configured
        /\ host' \in HostShape
    BY <2>1, <2>2 DEF Shapes, HostShape, ToWake
  <2>4. ToSend'
    BY <1>1, <2>2, <2>3, HostAssumption DEF ToSend, ToWake
  <2>5. Shapes' /\ Forgotten' /\ HostInTime'
    BY <1>1, <2>1, <2>2, <2>3, <2>4 DEF Shapes, Forgotten, HostInTime, HostBusy, Waiting
  <2>6. QED
    BY <1>3, <2>5
<1>6. CASE Unheard /\ HostSends
  <2>1. /\ host' = [host EXCEPT !.state = "wait_response", !.buffer = <<>>, !.age = 0,
                      !.sent = IF host.buffer = <<"this">> THEN "this" ELSE "earlier"]
        /\ host.state = "wait_command" /\ host.age >= RequestTime
        /\ UNCHANGED <<response, timed_out, not_found>>
    BY <1>6 DEF HostSends, Unheard
  <2>2. state = "wait_com" /\ ToSend /\ HostBusy
    BY <2>1 DEF HostInTime, HostQuiet, HostBusy, ToWake, ToReceive
  <2>3. /\ host'.state = "wait_response" /\ ~host'.pending /\ host'.age = 0
        /\ host'.buffer = <<>> /\ host'.configured = host.configured
        /\ host'.sent = "this"
        /\ host' \in HostShape
    BY <2>1, <2>2 DEF Shapes, HostShape, ToSend, Owner
  <2>4. op_age = RequestTime
    BY <2>1, <2>2, HostAssumption DEF ToSend, Shapes, HostShape
  <2>5. ToReceive'
    BY <1>1, <2>3, <2>4, HostAssumption DEF ToReceive
  <2>6. Shapes' /\ Forgotten' /\ HostInTime'
    BY <1>1, <2>1, <2>2, <2>3, <2>5 DEF Shapes, Forgotten, HostInTime, HostBusy, Waiting
  <2>7. QED
    BY <1>3, <2>6
<1>7. CASE Unheard /\ HostWaits
  <2>1. UNCHANGED <<host, response, timed_out, not_found>>
    BY <1>7 DEF HostWaits, Unheard
  <2>2. \/ host.state = "wait_cfg" /\ ~host.configured
        \/ host.state = "wait_command" /\ host.age < RequestTime
        \/ host.state = "wait_response" /\ host.age < WaitTime
    BY <1>7 DEF HostWaits
  <2>3. HostQuiet' = HostQuiet
    BY <2>1 DEF HostQuiet
  <2>4. HostBusy => HostBusy'
    BY <1>1, <2>1, <2>2 DEF HostBusy, ToWake, ToSend, ToReceive
  <2>5. state \notin Waiting => HostNeed' <= Left'
    <3>1. SUFFICES ASSUME state \notin Waiting PROVE HostNeed' <= Left'
      OBVIOUS
    <3>2. HostQuiet
      BY <3>1 DEF HostInTime, Waiting
    <3>3. state = "wait_cfg"
      BY <2>2, <3>2 DEF HostInTime, HostQuiet
    <3>4. Left >= 2
      BY <1>1, <3>3 DEF Left, Distance
    <3>5. QED
      BY <1>1, <1>2, <3>4 DEF HostNeed
  <2>6. Shapes' /\ Forgotten' /\ HostInTime'
    BY <1>1, <2>1, <2>3, <2>4, <2>5 DEF Shapes, Forgotten, HostInTime
  <2>7. QED
    BY <1>3, <2>6
<1>8. CASE (HostTimesOut /\ HearTimeout) \/ (HostReceives /\ HearResponse)
  <2>1. state = "wait_com" /\ ToReceive /\ HostBusy
    BY <1>8 DEF HostTimesOut, HostReceives, HostInTime, HostQuiet, HostBusy, ToWake, ToSend
  <2>2. host.sent = "this" /\ host.buffer = <<>> /\ ~host.pending
    BY <2>1 DEF ToReceive
  <2>3. /\ response' \in {"none", "this"}
        /\ timed_out' \in Owner /\ not_found' \in Owner
    BY <1>8, <2>1, <2>2 DEF HearTimeout, HearResponse, HostBusy, Shapes, Owner
  <2>4. /\ host'.state \in {"sleep", "finish"} /\ ~host'.pending /\ host'.buffer = <<>>
        /\ host'.configured = host.configured
        /\ host' \in HostShape
    <3>1. CASE HostTimesOut
      BY <2>2, <3>1 DEF HostTimesOut, Shapes, HostShape
    <3>2. CASE HostReceives
      BY <2>2, <3>2 DEF HostReceives, Shapes, HostShape
    <3>3. QED
      BY <1>8, <3>1, <3>2
  <2>5. Shapes' /\ Forgotten' /\ HostInTime'
    BY <1>1, <2>1, <2>3, <2>4
       DEF Shapes, Forgotten, HostInTime, HostQuiet, Waiting, Owner
  <2>6. QED
    BY <1>3, <2>5
<1>9. QED
  BY <1>4, <1>5, <1>6, <1>7, <1>8 DEF Host

\* The shell is busy only while the executer waits for it, or for nobody.
LEMMA AnswerCli ==
  ASSUME AnswerInv, Cli
  PROVE  AnswerInv'
<1> USE DEF AnswerInv
<1>1. /\ UNCHANGED <<state, timed_out>>
      /\ "cli" \notin ran /\ ran' = ran \cup {"cli"}
      /\ InTurn("executer")' = InTurn("executer") /\ InTurn("host")' = InTurn("host")
      /\ InTurn("cli")' = 1 /\ InTurn("cli") = 0
      /\ InTurn("executer") \in {0, 1}
      /\ InTurn("host") \in {0, 1}
  BY DEF Cli, InTurn, Unheard, HearOutput, HearNotFound
<1>2. Left' = Left /\ Left \in Nat
  BY <1>1 DEF Left, Distance
<1>3. ~CliQuiet /\ state # "wait_com"
  BY DEF Cli, CliExecutes, CliTakes, CliCloses, CliQuiet, CliInTime
<1>4. HostQuiet
  BY <1>3 DEF HostInTime
<1>5. /\ host' \in HostShape /\ op_age' \in 0 .. ExecTime
      /\ host'.state = host.state /\ host'.pending = host.pending
      /\ host'.buffer = host.buffer /\ host'.configured = host.configured
  <2>1. \/ UNCHANGED <<host, op_age>>
        \/ host' = [host EXCEPT !.age = HostMaxAge] /\ op_age' = ExecTime
    BY DEF Cli, LoopStands
  <2>2. HostMaxAge \in Nat /\ ExecTime \in Nat
    BY HostAssumption, ExecuterAssumption DEF HostMaxAge
  <2>3. QED
    BY <2>1, <2>2 DEF Shapes, HostShape
<1>6. HostInTime'
  <2>1. HostNeed' = HostNeed
    BY <1>1, <1>5 DEF HostNeed
  <2>2. QED
    BY <1>1, <1>2, <1>3, <1>4, <1>5, <2>1 DEF HostInTime, HostQuiet
<1>7. CASE CliTakes /\ Unheard
  <2>1. /\ cli.state = "idle" /\ cli.received
        /\ cli'.state = "execute" /\ ~cli'.received
        /\ cli'.command = cli.command
        /\ cli' \in CliType
        /\ UNCHANGED <<response, timed_out, not_found>>
    BY <1>7 DEF CliTakes, Unheard, Shapes, CliType
  <2>2. CliNeed = 3 /\ CliNeed' = 3
    BY <1>1, <2>1 DEF CliNeed, CliQuiet
  <2>3. CliInTime'
    BY <1>1, <1>2, <1>3, <2>1, <2>2 DEF CliInTime
  <2>4. Shapes' /\ Forgotten'
    BY <1>1, <1>5, <2>1 DEF Shapes, Forgotten
  <2>5. QED
    BY <1>6, <2>3, <2>4
<1>8. CASE CliExecutes /\ Unheard
  <2>1. /\ cli.state = "execute"
        /\ cli'.state \in {"close", "close_on_fail"} /\ cli'.received = cli.received
        /\ cli'.response = cli.command
        /\ cli' \in CliType
        /\ UNCHANGED <<response, timed_out, not_found>>
    BY <1>8 DEF CliExecutes, CliOutcome, Unheard, Shapes, CliType
  <2>2. ~cli.received
    BY <2>1 DEF CliInTime
  <2>3. CliNeed = 2 /\ CliNeed' = 2
    BY <1>1, <2>1 DEF CliNeed, CliQuiet
  <2>4. CliInTime'
    BY <1>1, <1>2, <1>3, <2>1, <2>2, <2>3 DEF CliInTime
  <2>5. Shapes' /\ Forgotten'
    BY <1>1, <1>5, <2>1 DEF Shapes, Forgotten
  <2>6. QED
    BY <1>6, <2>4, <2>5
<1>9. CASE (CliCloses("close") /\ HearOutput) \/ (CliCloses("close_on_fail") /\ HearNotFound)
  <2>1. /\ cli.state \in {"close", "close_on_fail"}
        /\ cli' = [cli EXCEPT !.state = "idle"]
        /\ response' \in {response, cli.response}
        /\ state # "wait_exe" => response' = response
        /\ not_found' \in {not_found, cli.response}
    BY <1>9 DEF CliCloses, HearOutput, HearNotFound
  <2>2. ~cli.received
    BY <2>1 DEF CliInTime
  <2>3. cli'.state = "idle" /\ cli'.received = cli.received /\ cli' \in CliType
    BY <2>1 DEF Shapes, CliType
  <2>4. CliQuiet' /\ CliNeed' = 0
    BY <2>2, <2>3 DEF CliQuiet, CliNeed
  <2>5. CliInTime'
    BY <1>1, <1>2, <1>3, <2>2, <2>3, <2>4 DEF CliInTime
  <2>6. Forgotten'
    BY <1>1, <1>3, <2>1 DEF Forgotten, CliInTime, Waiting
  <2>7. Shapes'
    BY <1>1, <1>5, <2>1, <2>3 DEF Shapes, CliType
  <2>8. QED
    BY <1>6, <2>5, <2>6, <2>7
<1>10. QED
  BY <1>7, <1>8, <1>9 DEF Cli

\* A tick takes a turn from everybody.
LEMMA AnswerTick ==
  ASSUME AnswerInv, Tick
  PROVE  AnswerInv'
<1> USE DEF AnswerInv
<1>1. /\ UNCHANGED <<state, response, timed_out, not_found, cli>>
      /\ op_age' = IF op_age < ExecTime THEN op_age + 1 ELSE op_age
      /\ host' = HostTick(host)
      /\ ran' = {}
  BY DEF Tick
<1>2. /\ InTurn("executer")' = 0 /\ InTurn("host")' = 0 /\ InTurn("cli")' = 0
      /\ InTurn("executer") \in {0, 1} /\ InTurn("host") \in {0, 1}
      /\ InTurn("cli") \in {0, 1}
  BY <1>1 DEF InTurn
<1>3. /\ host'.state = host.state /\ host'.pending = host.pending
      /\ host'.buffer = host.buffer /\ host'.configured = host.configured
      /\ host'.sent = host.sent
      /\ host'.age = IF host.age < HostMaxAge THEN host.age + 1 ELSE host.age
      /\ host' \in HostShape
  BY <1>1 DEF HostTick, Shapes, HostShape
<1>4. Shapes' /\ Forgotten'
  <2>1. op_age' \in 0 .. ExecTime
    BY <1>1, ExecuterAssumption DEF Shapes
  <2>2. QED
    BY <1>1, <1>3, <2>1 DEF Shapes, Forgotten
<1>5. CliInTime'
  <2>1. CliQuiet' = CliQuiet
    BY <1>1 DEF CliQuiet
  <2>2. ASSUME state \notin Waiting
        PROVE  CliNeed' <= Left'
    <3>1. CASE CliQuiet
      <4>1. Left' \in {0, 1, 2, 3, 4}
        BY <1>2 DEF Left, Distance
      <4>2. CliNeed' = 0
        BY <2>1, <3>1 DEF CliNeed
      <4>3. QED
        BY <4>1, <4>2
    <3>2. CASE ~CliQuiet
      <4>1. InTurn("cli") = 1
        BY <3>2 DEF Tick, CliAwake, CliQuiet, InTurn
      <4>2. CliNeed <= Left
        BY <2>2 DEF CliInTime
      <4>3. QED
        BY <1>1, <1>2, <3>2, <4>1, <4>2 DEF CliNeed, CliQuiet, Left, Distance
    <3>3. QED
      BY <3>1, <3>2
  <2>3. QED
    BY <1>1, <2>1, <2>2 DEF CliInTime
<1>6. HostQuiet' = HostQuiet
  BY <1>3 DEF HostQuiet
<1>7. ASSUME state \notin Waiting
      PROVE  HostNeed' <= Left'
  <2>1. HostNeed <= Left
    BY <1>7 DEF HostInTime
  <2>2. HostAwake <=> host.state # "sleep"
    BY <1>7 DEF HostAwake, HostInTime, HostQuiet, Waiting
  <2>3. host.state # "sleep" => InTurn("host") = 1
    BY <2>2 DEF Tick, InTurn
  <2>4. QED
    BY <1>1, <1>2, <1>3, <2>1, <2>3 DEF HostNeed, Left, Distance
<1>8. HostBusy => HostBusy'
  <2>1. SUFFICES ASSUME HostBusy PROVE HostBusy'
    OBVIOUS
  <2>2. ~ToWake /\ "host" \in ran
    BY <2>1 DEF HostBusy, ToWake, ToSend, ToReceive, Tick, HostAwake
  <2>3. /\ op_age < ExecTime /\ op_age' = op_age + 1
        /\ response' = "none" /\ timed_out' # "this"
    BY <2>1, <1>1, BusyInTime
  <2>4. host.age < HostMaxAge => host'.age = host.age + 1
    BY <1>3
  <2>5. host.age \in Nat /\ op_age \in Nat
    BY ExecuterAssumption DEF Shapes, HostShape
  <2>6. CASE ToSend
    <3>1. host.age < RequestTime /\ op_age = host.age
      BY <2>2, <2>6 DEF ToSend
    <3>2. host.age < HostMaxAge
      BY <3>1, <2>5, HostAssumption DEF HostMaxAge
    <3>3. op_age' = host'.age /\ host'.age <= RequestTime
      BY <2>3, <2>4, <2>5, <3>1, <3>2, HostAssumption
    <3>4. ToSend'
      BY <1>1, <1>3, <2>6, <3>3 DEF ToSend
    <3>5. QED
      BY <2>3, <3>4 DEF HostBusy
  <2>7. CASE ToReceive
    <3>1. host.age < WaitTime /\ op_age = RequestTime + host.age
      BY <2>2, <2>7 DEF ToReceive
    <3>2. host.age < HostMaxAge
      BY <3>1, <2>5, HostAssumption DEF HostMaxAge
    <3>3. op_age' = RequestTime + host'.age /\ host'.age <= WaitTime
      BY <2>3, <2>4, <2>5, <3>1, <3>2, HostAssumption
    <3>4. ToReceive'
      BY <1>1, <1>3, <2>7, <3>3 DEF ToReceive
    <3>5. QED
      BY <2>3, <3>4 DEF HostBusy
  <2>8. QED
    BY <2>1, <2>2, <2>6, <2>7 DEF HostBusy
<1>9. HostInTime'
  BY <1>1, <1>3, <1>6, <1>7, <1>8 DEF HostInTime
<1>10. QED
  BY <1>4, <1>5, <1>9

LEMMA AnswerStep ==
  ASSUME ~misled => AnswerInv, [Next]_vars
  PROVE  ~misled' => AnswerInv'
<1>1. SUFFICES ASSUME ~misled' PROVE AnswerInv'
  OBVIOUS
<1>2. CASE Executer
  BY <1>1, <1>2, AnswerCase DEF Executer
<1>3. CASE Host
  BY <1>1, <1>3, AnswerHost DEF Host
<1>4. CASE Cli
  BY <1>1, <1>4, AnswerCli DEF Cli
<1>5. CASE Tick
  BY <1>1, <1>5, AnswerTick DEF Tick
<1>6. CASE CfgComplete
  <2>1. /\ UNCHANGED <<state, response, timed_out, not_found, op_age, cli, ran, misled>>
        /\ host' = [host EXCEPT !.configured = TRUE]
    BY <1>6 DEF CfgComplete, evars
  <2>2. AnswerInv
    BY <1>1, <2>1
  <2>3. /\ host'.state = host.state /\ host'.pending = host.pending
        /\ host'.buffer = host.buffer /\ host'.configured
        /\ host'.sent = host.sent /\ host'.age = host.age
        /\ host' \in HostShape
    BY <2>1, <2>2 DEF AnswerInv, Shapes, HostShape
  <2>4. /\ HostQuiet' = HostQuiet /\ HostBusy' = HostBusy /\ CliQuiet' = CliQuiet
        /\ HostNeed' = HostNeed /\ CliNeed' = CliNeed /\ Left' = Left
    BY <2>1, <2>3 DEF HostQuiet, HostBusy, ToWake, ToSend, ToReceive, CliQuiet, HostNeed,
                      CliNeed, Left, Distance, InTurn
  <2>5. QED
    BY <2>1, <2>2, <2>3, <2>4 DEF AnswerInv, Shapes, Forgotten, HostInTime, CliInTime
<1>7. CASE ReportTimer \/ (\E n \in Name : Message(n)) \/ UNCHANGED vars
  <2>1. UNCHANGED <<state, response, timed_out, not_found, op_age, host, cli, ran, misled>>
    BY <1>7 DEF ReportTimer, Message, vars, evars
  <2>2. AnswerInv
    BY <1>1, <2>1
  <2>3. /\ HostQuiet' = HostQuiet /\ HostBusy' = HostBusy /\ CliQuiet' = CliQuiet
        /\ HostNeed' = HostNeed /\ CliNeed' = CliNeed /\ Left' = Left
    BY <2>1 DEF HostQuiet, HostBusy, ToWake, ToSend, ToReceive, CliQuiet, HostNeed,
                CliNeed, Left, Distance, InTurn
  <2>4. QED
    BY <2>1, <2>2, <2>3 DEF AnswerInv, Shapes, Forgotten, HostInTime, CliInTime
<1>8. QED
  BY <1>2, <1>3, <1>4, <1>5, <1>6, <1>7 DEF Next

\* A response that is taken is that of the command waited for, until a stale
\* timeout has ended a wait: for all times of which the executer's is the
\* longest, by however little.
THEOREM AnswerIsTheRightOne == Spec => []AnswerBelongs
<1>1. Init => (~misled => AnswerInv)
  BY AnswerStart
<1>2. (~misled => AnswerInv) => AnswerBelongs
  BY DEF AnswerInv, Forgotten, AnswerBelongs
<1>3. QED
  BY <1>1, <1>2, AnswerStep, PTL DEF Spec

\* The bytes that go to the client are those of one command, until a stale
\* timeout has ended a wait.
THEOREM CommandsGoAlone == Spec => SendsOneCommand
<1>1. ASSUME ~misled => AnswerInv, [Next]_vars
      PROVE  [HostSends /\ ~misled => Len(host.buffer) = 1]_vars
  <2>1. SUFFICES ASSUME HostSends, ~misled PROVE Len(host.buffer) = 1
    OBVIOUS
  <2>2. host.state = "wait_command" /\ AnswerInv
    BY <1>1, <2>1 DEF HostSends
  <2>3. host.buffer = <<"this">>
    BY <2>2 DEF AnswerInv, HostInTime, HostQuiet, HostBusy, ToWake, ToSend, ToReceive
  <2>4. QED
    BY <2>3
<1>2. Init => (~misled => AnswerInv)
  BY AnswerStart
<1>3. QED
  BY <1>1, <1>2, AnswerStep, PTL DEF Spec, SendsOneCommand

-----------------------------------------------------------------------------
(***************************************************************************)
(* RpiLink: what becomes of the command that the host sent.                *)
(***************************************************************************)

\* Marks and frames are sequences of a bounded length.
LEMMA Bounded ==
  ASSUME NEW S, NEW n \in Nat, NEW x
  PROVE  x \in UNION {[1 .. m -> S] : m \in 0 .. n} <=> x \in Seq(S) /\ Len(x) <= n
<1>1. ASSUME x \in Seq(S), Len(x) <= n
      PROVE  x \in UNION {[1 .. m -> S] : m \in 0 .. n}
  <2>1. Len(x) \in 0 .. n /\ x \in [1 .. Len(x) -> S]
    BY <1>1, LenProperties
  <2>2. QED
    BY <2>1
<1>2. ASSUME NEW m \in 0 .. n, x \in [1 .. m -> S]
      PROVE  x \in Seq(S) /\ Len(x) <= n
  <2>1. x \in Seq(S)
    BY <1>2, SeqDef
  <2>2. Len(x) = m
    BY <1>2, <2>1
  <2>3. QED
    BY <2>1, <2>2
<1>3. QED
  BY <1>1, <1>2

\* Where a mark of an earlier command may be: not up to the place n, unless
\* the co-processor missed the command.
Fresh(marks, n) ==
  \A i \in 1 .. Len(marks) :
    marks[i] = "earlier" => call.kind = "routed" /\ (i > n \/ unheard)

\* What a handler adds to the answer: a buffer that is full stays as it is, and
\* one that was empty holds no more than what was added.
LEMMA FilledIs ==
  ASSUME NEW c \in ClientType, NEW data \in Seq(Owner)
  PROVE  \E x \in Seq(Owner) :
           /\ Filled(c, data) = [c EXCEPT !.answer = x]
           /\ Len(x) <= AnswerSize
           /\ Len(c.answer) = AnswerSize => Len(x) = AnswerSize
           /\ c.answer = <<>> /\ Fresh(data, 1) => Fresh(x, 1)
<1> DEFINE room == AnswerSize - Len(c.answer)
           n == IF Len(data) < room THEN Len(data) ELSE room
           part == SubSeq(data, 1, n)
<1>1. AnswerSize \in Nat
  BY ClientAssumption
<1>2. c.answer \in Seq(Owner) /\ Len(c.answer) <= AnswerSize /\ Len(c.answer) \in Nat
  <2>1. c.answer \in Marks
    BY DEF ClientType
  <2>2. c.answer \in Seq(Owner) /\ Len(c.answer) <= AnswerSize
    BY <1>1, <2>1, Bounded DEF Marks
  <2>3. QED
    BY <2>2, LenProperties
<1>3. Len(data) \in Nat
  BY LenProperties
<1>4. n \in Nat /\ n <= Len(data) /\ n <= room /\ room \in Nat
  <2> HIDE DEF part
  <2>1. room \in Nat
    BY <1>1, <1>2
  <2> HIDE DEF room
  <2>2. QED
    BY <1>3, <2>1
<1> HIDE DEF n
<1>5. \A i \in 1 .. n : data[i] \in Owner
  BY <1>3, <1>4, ElementOfSeq
<1>6. /\ part \in Seq(Owner) /\ Len(part) = n
      /\ \A i \in 1 .. n : part[i] = data[i]
  BY <1>4, <1>5, SubSeqProperties
<1> HIDE DEF part
<1>7. /\ c.answer \o part \in Seq(Owner)
      /\ Len(c.answer \o part) = Len(c.answer) + n
  BY <1>2, <1>6, ConcatProperties
<1>8. Filled(c, data) = [c EXCEPT !.answer = c.answer \o part]
  BY DEF Filled, n, part
<1>9. c.answer = <<>> /\ Fresh(data, 1) => Fresh(c.answer \o part, 1)
  <2>1. SUFFICES ASSUME c.answer = <<>>, Fresh(data, 1) PROVE Fresh(part, 1)
    BY <1>6, ConcatEmptySeq
  <2>2. QED
    BY <1>3, <1>4, <1>6, <2>1 DEF Fresh
<1>10. Len(c.answer \o part) <= AnswerSize
       /\ (Len(c.answer) = AnswerSize => Len(c.answer \o part) = AnswerSize)
  BY <1>1, <1>2, <1>4, <1>7
<1>11. QED
  BY <1>7, <1>8, <1>9, <1>10

\* The frame of an answer: its head is of the command the client works on.
LEMMA AnswerFrameIs ==
  ASSUME NEW c \in ClientType
  PROVE  /\ AnswerFrame(c) \in Frame
         /\ AnswerFrame(c) # <<>> /\ AnswerFrame(c)[1] = c.own
         /\ c.own = "this" /\ (Len(c.answer) < AnswerSize => Fresh(c.answer, 1))
              => Fresh(AnswerFrame(c), 2)
<1>1. AnswerSize \in Nat
  BY ClientAssumption
<1>2. c.answer \in Seq(Owner) /\ Len(c.answer) <= AnswerSize /\ Len(c.answer) \in Nat
  <2>1. c.answer \in Marks
    BY DEF ClientType
  <2>2. c.answer \in Seq(Owner) /\ Len(c.answer) <= AnswerSize
    BY <1>1, <2>1, Bounded DEF Marks
  <2>3. QED
    BY <2>2, LenProperties
<1> DEFINE rest == IF Len(c.answer) < AnswerSize THEN c.answer ELSE <<>>
           head == <<c.own>>
<1>3. rest \in Seq(Owner) /\ Len(rest) <= AnswerSize /\ Len(rest) \in Nat
  BY <1>1, <1>2
<1>4. Len(c.answer) < AnswerSize \/ Len(rest) = 0
  OBVIOUS
<1>5. head \in Seq(Owner) /\ Len(head) = 1 /\ head[1] = c.own
  BY DEF ClientType
<1>6. AnswerFrame(c) = head \o rest
  BY DEF AnswerFrame
<1>7. Len(c.answer) < AnswerSize => rest = c.answer
  OBVIOUS
<1> HIDE DEF rest, head
<1>8. /\ head \o rest \in Seq(Owner) /\ Len(head \o rest) = 1 + Len(rest)
      /\ \A i \in 1 .. 1 + Len(rest) :
           (head \o rest)[i] = IF i <= 1 THEN head[i] ELSE rest[i - 1]
  BY <1>3, <1>5, ConcatProperties
<1>9. head \o rest \in Frame
  <2>1. AnswerSize + 1 \in Nat /\ Len(head \o rest) <= AnswerSize + 1
    BY <1>1, <1>3, <1>8
  <2>2. QED
    BY <1>8, <2>1, Bounded DEF Frame
<1>10. (head \o rest)[1] = c.own
  BY <1>3, <1>5, <1>8
<1>11. head \o rest # <<>>
  BY <1>3, <1>8
<1>12. ASSUME c.own = "this", Len(c.answer) < AnswerSize => Fresh(c.answer, 1)
       PROVE  Fresh(head \o rest, 2)
  <2>1. \A i \in 1 .. Len(rest) :
          rest[i] = "earlier" => call.kind = "routed" /\ (i > 1 \/ unheard)
    BY <1>3, <1>4, <1>7, <1>12 DEF Fresh
  <2>2. ASSUME NEW i \in 1 .. 1 + Len(rest), (head \o rest)[i] = "earlier"
        PROVE  call.kind = "routed" /\ (i > 2 \/ unheard)
    <3>1. i # 1
      BY <1>5, <1>8, <1>12, <2>2
    <3>2. i - 1 \in 1 .. Len(rest) /\ rest[i - 1] = "earlier"
      BY <1>3, <1>8, <2>2, <3>1
    <3>3. call.kind = "routed" /\ (i - 1 > 1 \/ unheard)
      BY <2>1, <3>2
    <3>4. QED
      BY <1>3, <3>3
  <2>3. QED
    BY <1>8, <2>2 DEF Fresh
<1>13. QED
  BY <1>6, <1>9, <1>10, <1>11, <1>12

\* The longest times that the timers tell apart.
LEMMA LinkTimes ==
  /\ RequestTime \in Nat \ {0} /\ PollTime \in Nat \ {0} /\ WaitTime \in Nat
  /\ HostMaxAge \in Nat /\ WaitTime <= HostMaxAge /\ RequestTime <= HostMaxAge
  /\ PowerTime \in Nat /\ TransmitTime \in Nat /\ ProcessTime \in Nat
  /\ MaxStall \in Nat
  /\ RoutingMaxAge \in Nat /\ PowerTime <= RoutingMaxAge
  /\ TransmitTime <= RoutingMaxAge /\ ProcessTime <= RoutingMaxAge
  /\ CallTime \in Nat /\ CallTime < WaitTime
<1>1. /\ PowerTime \in Nat /\ TransmitTime \in Nat /\ ProcessTime \in Nat
      /\ RequestTime \in Nat \ {0} /\ PollTime \in Nat \ {0} /\ WaitTime \in Nat
      /\ MaxStall \in Nat
  BY CoproAssumption, HostAssumption, LinkAssumption
<1>2. HostMaxAge \in Nat /\ WaitTime <= HostMaxAge /\ RequestTime <= HostMaxAge
  BY <1>1 DEF HostMaxAge
<1> DEFINE times == {PowerTime, TransmitTime, ProcessTime}
<1>3. \E n \in times : \A m \in times : m <= n
  <2>1. PICK a \in times : a >= PowerTime /\ a >= TransmitTime
    BY <1>1
  <2>2. CASE a >= ProcessTime
    BY <1>1, <2>1, <2>2
  <2>3. CASE ~(a >= ProcessTime)
    BY <1>1, <2>1, <2>3
  <2>4. QED
    BY <2>2, <2>3
<1>4. RoutingMaxAge \in times /\ \A m \in times : m <= RoutingMaxAge
  BY <1>3 DEF RoutingMaxAge
<1>5. CallTime \in Nat /\ CallTime < WaitTime
  BY <1>1, LinkAssumption DEF CallTime
<1>6. QED
  BY <1>1, <1>2, <1>4, <1>5

-----------------------------------------------------------------------------

\* The host has a command to send, or waits for the response to one.
Asked == host.pending \/ host.state = "wait_command"
Sent == host.state = "wait_response"

HostEnd ==
  /\ host.state # "wait_cfg"
  /\ host.pending => host.state \in {"sleep", "finish"}
  /\ call.outcome = "open" <=> Asked \/ Sent
  /\ host.buffer = IF Asked THEN <<"this">> ELSE <<>>
  /\ host.request <=> host.state \in {"wait_command", "wait_response", "finish"}

BoardEnd ==
  /\ spi.on <=> client.state # "idle"
  /\ power = "rising" => routing.state = "power_on"
  /\ routing.flying => routing.state = "transmit"
  /\ client.response \/ client.answer = <<>> \/ Len(client.answer) = AnswerSize

\* Where the command, or the answer to it, is not.
Resting == routing.state \in {"idle", "finish"} /\ ~routing.queued
NoRequest == ~client.pending /\ ~client.requested
Empty == spi.rx = <<>> /\ spi.tx = <<>>
Quiet == NoRequest /\ ~client.response /\ Empty /\ Resting

\* The stages of a command that was sent, each with the time since then.
Lost == Quiet /\ executed = 0

Heard ==
  /\ NoRequest /\ ~client.response /\ Resting
  /\ spi.rx # <<>> /\ spi.rx[1] = [own |-> "this", kind |-> call.kind] /\ spi.tx = <<>>
  /\ executed = 0 /\ host.age <= stall

Ours == client.pending /\ client.own = "this" /\ ~client.response /\ Empty

Requested ==
  /\ Ours /\ client.requested /\ Resting
  /\ client.buffer = "this" /\ client.kind = call.kind
  /\ executed = 0 /\ host.age <= stall

Queued ==
  /\ Ours /\ ~client.requested /\ call.kind = "routed"
  /\ routing.state \in {"idle", "finish"} /\ routing.queued
  /\ client.buffer = "this"
  /\ executed = 0 /\ host.age <= stall

\* The ends of the waits of the routing, at the latest.
PoweredBy == MaxStall + PowerTime
WrittenBy == PoweredBy + MaxStall + TransmitTime
AskedBy == WrittenBy + MaxStall + ProcessTime

\* An answer the co-processor has is of the command it has executed, or it
\* missed the command.
CoproInv == copro = "this" => executed = 1
CoproKnows == (copro = "this" => executed = 1) /\ (copro = "earlier" => unheard)

Powering ==
  /\ routing.state = "power_on" /\ client.buffer = "this" /\ executed = 0
  /\ \/ /\ power = "rising"
        /\ host.age <= MaxStall + routing.age /\ routing.age <= PowerTime
     \/ power = "on" /\ host.age <= PoweredBy + stall

Transmitting ==
  /\ routing.state = "transmit"
  /\ IF routing.flying THEN routing.data = "this" /\ executed = 0 ELSE CoproKnows
  /\ \/ /\ routing.flying
        /\ host.age <= PoweredBy + MaxStall + routing.age /\ routing.age <= TransmitTime
     \/ host.age <= WrittenBy + stall /\ (~routing.flying \/ routing.age >= TransmitTime)

Processing ==
  /\ routing.state = "process" /\ CoproKnows
  /\ \/ host.age <= WrittenBy + MaxStall + routing.age /\ routing.age <= ProcessTime
     \/ host.age <= AskedBy + stall /\ routing.age >= ProcessTime

Reading ==
  /\ routing.state = "response" /\ host.age <= AskedBy + stall
  /\ routing.data = "this" => executed = 1
  /\ routing.data = "earlier" => unheard

Failing == routing.state = "timeout" /\ host.age <= AskedBy + stall

Routed ==
  /\ Ours /\ ~client.requested /\ ~routing.queued /\ call.kind = "routed"
  /\ Powering \/ Transmitting \/ Processing \/ Reading \/ Failing

Responding ==
  /\ NoRequest /\ Empty /\ Resting
  /\ client.response /\ client.own = "this"
  /\ client.ok => executed = 1 \/ unheard
  /\ host.age <= AskedBy + stall
  /\ Len(client.answer) < AnswerSize => Fresh(client.answer, 1)

Replied ==
  /\ NoRequest /\ ~client.response /\ Resting
  /\ spi.rx = <<>> /\ spi.tx # <<>> /\ spi.tx[1] = "this" /\ Fresh(spi.tx, 2)
  /\ spi.ok => executed = 1 \/ unheard
  /\ host.age <= CallTime

Stage == Lost \/ Heard \/ Requested \/ Queued \/ Routed \/ Responding \/ Replied

\* What a command has led to when it was answered.
Settled ==
  /\ call.outcome \in {"answered", "refused"} =>
       call.answer # <<>> /\ call.answer[1] = "this" /\ Fresh(call.answer, 2)
  /\ call.outcome = "answered" => executed = 1 \/ unheard

LinkInv ==
  /\ HostEnd /\ BoardEnd /\ Settled
  /\ IF Sent THEN Stage ELSE Quiet
  /\ Asked => executed = 0
  /\ executed \in {0, 1}

-----------------------------------------------------------------------------
(* The types *)

\* An empty buffer and one with the last command in it.
LEMMA BufferTypes ==
  /\ <<>> \in UNION {[1 .. n -> Owner] : n \in 0 .. BufferSize}
  /\ <<"this">> \in UNION {[1 .. n -> Owner] : n \in 0 .. BufferSize}
  /\ <<>> \in Marks /\ <<>> \in Frame
<1>1. AnswerSize \in Nat /\ AnswerSize + 1 \in Nat /\ BufferSize \in Nat /\ 1 <= BufferSize
  BY ClientAssumption, HostAssumption
<1>2. <<>> \in Seq(Owner) /\ Len(<<>>) = 0 /\ <<"this">> \in Seq(Owner) /\ Len(<<"this">>) = 1
  BY DEF Owner
<1>3. 0 <= BufferSize /\ 0 <= AnswerSize /\ 0 <= AnswerSize + 1
  BY <1>1
<1>4. /\ <<>> \in UNION {[1 .. n -> Owner] : n \in 0 .. BufferSize}
      /\ <<"this">> \in UNION {[1 .. n -> Owner] : n \in 0 .. BufferSize}
  BY <1>1, <1>2, <1>3, Bounded
<1>5. <<>> \in Marks /\ <<>> \in Frame
  BY <1>1, <1>2, <1>3, Bounded DEF Marks, Frame
<1>6. QED
  BY <1>4, <1>5

\* Marks stay marks when they grow older.
LEMMA AgedMarks ==
  /\ \A o \in Owner : Age(o) \in Owner
  /\ \A marks \in Marks : AllAged(marks) \in Marks /\ Len(AllAged(marks)) = Len(marks)
<1>1. \A o \in Owner : Age(o) \in Owner
  BY DEF Owner, Age
<1>2. ASSUME NEW marks \in Marks
      PROVE  AllAged(marks) \in Marks /\ Len(AllAged(marks)) = Len(marks)
  <2>1. PICK n \in 0 .. AnswerSize : marks \in [1 .. n -> Owner]
    BY DEF Marks
  <2>2. AllAged(marks) \in [1 .. n -> Owner]
    BY <1>1, <2>1 DEF AllAged
  <2>3. n \in Nat
    BY ClientAssumption
  <2>4. /\ marks \in Seq(Owner) /\ AllAged(marks) \in Seq(Owner)
    BY <2>1, <2>2, <2>3, SeqDef
  <2>5. Len(marks) = n /\ Len(AllAged(marks)) = n
    BY <2>1, <2>2, <2>3, <2>4
  <2>6. QED
    BY <2>2, <2>5 DEF Marks
<1>3. QED
  BY <1>1, <1>2

\* Before a command is issued the buffers are empty.
LEMMA IssuedWhenQuiet ==
  ASSUME LinkTypeOK, LinkInv, NEW k \in Kinds, IssueCommand(k)
  PROVE  /\ Quiet /\ ~Sent /\ ~Asked /\ host.state \in {"sleep", "finish"}
         /\ host' = [host EXCEPT !.sent = Age(@), !.buffer = <<"this">>, !.pending = TRUE]
         /\ client' = [client EXCEPT !.own = Age(@), !.buffer = Age(@), !.answer = AllAged(@)]
         /\ spi' = spi
         /\ routing' = [routing EXCEPT !.data = Age(@)]
<1>1. ~Sent /\ ~Asked
  BY DEF LinkInv, HostEnd, IssueCommand
<1>2. Quiet /\ host.buffer = <<>>
  BY <1>1 DEF LinkInv, HostEnd
<1>3. host.state \in {"sleep", "finish"}
  BY <1>1 DEF LinkInv, HostEnd, LinkTypeOK, HostType, Sent, Asked
<1>4. BufferSize \in Nat /\ 0 < BufferSize
  BY HostAssumption
<1>5. host' = [host EXCEPT !.sent = Age(@), !.buffer = <<"this">>, !.pending = TRUE]
  <2>1. [i \in DOMAIN host.buffer |-> Age(host.buffer[i])] = <<>>
    BY <1>2
  <2> DEFINE h == [host EXCEPT !.sent = Age(@), !.buffer = <<>>]
  <2>2. HostAged(host) = h
    BY <2>1 DEF HostAged
  <2>3. h.buffer = <<>>
    BY DEF LinkTypeOK, HostType
  <2>4. Len(<<>>) = 0 /\ Append(<<>>, "this") = <<"this">>
    OBVIOUS
  <2> HIDE DEF h
  <2>5. HostCommand(h) = [h EXCEPT !.pending = TRUE, !.buffer = <<"this">>]
    BY <1>4, <2>3, <2>4 DEF HostCommand
  <2> USE DEF h
  <2>6. [h EXCEPT !.pending = TRUE, !.buffer = <<"this">>]
          = [host EXCEPT !.sent = Age(@), !.buffer = <<"this">>, !.pending = TRUE]
    BY DEF LinkTypeOK, HostType
  <2>7. QED
    BY <2>2, <2>5, <2>6 DEF IssueCommand
<1>6. spi' = spi
  <2>1. spi.rx = <<>> /\ spi.tx = <<>>
    BY <1>2 DEF Quiet, Empty
  <2> DEFINE r == [i \in DOMAIN spi.rx |-> FrameAged(spi.rx[i])]
             x == AllAged(spi.tx)
  <2>2. r = spi.rx /\ x = spi.tx
    BY <2>1 DEF AllAged
  <2>3. SpiAged(spi) = [spi EXCEPT !.rx = r, !.tx = x]
    BY DEF SpiAged
  <2> HIDE DEF r, x
  <2>4. [spi EXCEPT !.rx = r, !.tx = x] = spi
    BY <2>2 DEF LinkTypeOK, SpiType
  <2>5. QED
    BY <2>3, <2>4 DEF IssueCommand
<1>7. QED
  BY <1>1, <1>2, <1>3, <1>5, <1>6 DEF IssueCommand, ClientAged, RoutingAged

LEMMA IssueTypes ==
  ASSUME LinkTypeOK, LinkInv, NEW k \in Kinds, IssueCommand(k)
  PROVE  LinkTypeOK'
<1>1. /\ host' = [host EXCEPT !.sent = Age(@), !.buffer = <<"this">>, !.pending = TRUE]
      /\ client' = [client EXCEPT !.own = Age(@), !.buffer = Age(@), !.answer = AllAged(@)]
      /\ spi' = spi
      /\ routing' = [routing EXCEPT !.data = Age(@)]
  BY IssuedWhenQuiet
<1>2. host' \in HostType
  BY <1>1, AgedMarks, BufferTypes DEF LinkTypeOK, HostType
<1>3. client' \in ClientType
  BY <1>1, AgedMarks DEF LinkTypeOK, ClientType
<1>4. routing' \in RoutingType /\ copro' \in Owner
  <2>1. routing' \in RoutingType
    BY <1>1, AgedMarks DEF LinkTypeOK, RoutingType
  <2>2. copro \in Owner /\ copro' = Age(copro)
    BY DEF LinkTypeOK, IssueCommand
  <2>3. QED
    BY <2>1, <2>2, AgedMarks
<1>5. call' \in [kind : Kind, outcome : Outcome, answer : Frame]
  BY BufferTypes, LinkAssumption DEF IssueCommand, Outcome
<1>6. executed' \in Nat /\ unheard' \in BOOLEAN /\ commands' \in 0 .. MaxCommands
  <2>1. commands \in 0 .. MaxCommands /\ commands < MaxCommands /\ MaxCommands \in Nat
    BY LinkAssumption DEF IssueCommand, LinkTypeOK
  <2>2. executed' = 0 /\ commands' = commands + 1
    BY DEF IssueCommand
  <2>3. unheard' \in BOOLEAN
    BY Zenon DEF IssueCommand
  <2>4. QED
    BY <2>1, <2>2, <2>3
<1>7. QED
  BY <1>1, <1>2, <1>3, <1>4, <1>5, <1>6 DEF IssueCommand, LinkTypeOK

LEMMA HostTypes ==
  ASSUME LinkTypeOK, LinkInv, HostTurn
  PROVE  LinkTypeOK'
<1>1. 0 \in 0 .. HostMaxAge /\ HostMaxAge \in Nat
  BY LinkTimes
<1>2. host' \in HostType
  <2>1. HostWakes => host' \in HostType
    BY <1>1 DEF HostWakes, LinkTypeOK, HostType
  <2>2. HostFinishes => host' \in HostType
    BY DEF HostFinishes, LinkTypeOK, HostType
  <2>3. HostReceives => host' \in HostType
    BY <1>1 DEF HostReceives, LinkTypeOK, HostType
  <2>4. HostTimesOut => host' \in HostType
    BY DEF HostTimesOut, LinkTypeOK, HostType
  <2>5. HostSends => host' \in HostType
    <3>1. (IF host.buffer = <<"this">> THEN "this" ELSE "earlier") \in Owner
      BY DEF Owner
    <3>2. QED
      BY <1>1, <3>1, BufferTypes DEF HostSends, LinkTypeOK, HostType
  <2>6. QED
    BY <2>1, <2>2, <2>3, <2>4, <2>5 DEF HostTurn, Outgoing, Incoming, TimesOut
<1>3. CASE (HostWakes \/ HostFinishes) /\ NobodyHears
  BY <1>2, <1>3 DEF HostTurn, NobodyHears, boardvars, LinkTypeOK
<1>4. CASE Outgoing
  <2>1. spi.tx = <<>>
    BY <1>4 DEF Outgoing, HostSends, LinkInv, Sent, Quiet, Empty
  <2> DEFINE frame == [own |-> host'.sent, kind |-> call.kind]
  <2>2. frame \in [own : Owner, kind : Kind]
    BY <1>2 DEF LinkTypeOK, HostType
  <2>3. <<frame>> \in UNION {[1 .. n -> [own : Owner, kind : Kind]] : n \in 0 .. 1}
    <3> HIDE DEF frame
    <3>1. <<frame>> \in [1 .. 1 -> [own : Owner, kind : Kind]]
      BY <2>2
    <3>2. QED
      BY <3>1
  <2>4. \A n \in 1 .. Len(<<>>) + 1 : SubSeq(<<>>, n, Len(<<>>)) = <<>>
    <3>1. Len(<<>>) = 0
      OBVIOUS
    <3>2. SubSeq(<<>>, 1, 0) = <<>>
      BY SubSeqEmpty
    <3>3. QED
      BY <3>1, <3>2
  <2>5. spi' = spi \/ spi' = [spi EXCEPT !.rx = <<frame>>, !.tx = <<>>]
    <3> HIDE DEF frame
    <3>1. SpiHears(frame)
      BY <1>4 DEF Outgoing, frame
    <3>2. QED
      BY <2>1, <2>4, <3>1 DEF SpiHears
  <2>6. spi' \in SpiType
    <3> HIDE DEF frame
    <3>1. QED
      BY <2>3, <2>5, BufferTypes DEF LinkTypeOK, SpiType
  <2>7. QED
    BY <1>2, <1>4, <2>6 DEF HostTurn, Outgoing, LinkTypeOK
<1>5. CASE Incoming
  <2>1. spi' \in SpiType
    BY <1>5, BufferTypes DEF Incoming, SpiEmptied, LinkTypeOK, SpiType
  <2>2. call' \in [kind : Kind, outcome : Outcome, answer : Frame]
    <3>1. spi.tx \in Frame
      BY DEF LinkTypeOK, SpiType
    <3>2. QED
      BY <1>5, <3>1 DEF Incoming, LinkTypeOK, Outcome
  <2>3. QED
    BY <1>2, <1>5, <2>1, <2>2 DEF HostTurn, Incoming, LinkTypeOK
<1>6. CASE TimesOut
  <2>1. call' \in [kind : Kind, outcome : Outcome, answer : Frame]
    BY <1>6 DEF TimesOut, LinkTypeOK, Outcome
  <2>2. QED
    BY <1>2, <1>6, <2>1 DEF HostTurn, TimesOut, boardvars, LinkTypeOK
<1>7. QED
  BY <1>3, <1>4, <1>5, <1>6 DEF HostTurn

LEMMA NoFrame == <<>> \in UNION {[1 .. n -> [own : Owner, kind : Kind]] : n \in 0 .. 1}
<1> DEFINE S == [own : Owner, kind : Kind]
<1> HIDE DEF S
<1>1. <<>> \in Seq(S) /\ Len(<<>>) <= 1 /\ 1 \in Nat
  OBVIOUS
<1>2. <<>> \in UNION {[1 .. n -> S] : n \in 0 .. 1}
  BY <1>1, Bounded
<1>3. QED
  BY <1>2 DEF S

\* What the client has when it has served a low request line.
LEMMA ServesTypes ==
  ASSUME LinkTypeOK, ClientServes(Low)
  PROVE  client' \in ClientType /\ spi' \in SpiType
<1> DEFINE s == IF client.state = "idle" THEN SpiSetUp ELSE spi
           c == [client EXCEPT !.state = "transmission"]
           answered == IF c.response THEN AnswerSent(c) ELSE c
<1>1. s \in SpiType
  BY NoFrame DEF SpiSetUp, LinkTypeOK, SpiType
<1>2. c \in ClientType
  BY DEF LinkTypeOK, ClientType
<1>3. answered \in ClientType
  <2> HIDE DEF c
  <2>1. QED
    BY <1>2, BufferTypes DEF AnswerSent, ClientType
<1>4. AnswerFrame(c) \in Frame /\ c.ok \in BOOLEAN
  BY <1>2, AnswerFrameIs DEF ClientType
<1>5. spi' = IF c.response
             THEN [s EXCEPT !.rx = <<>>, !.tx = AnswerFrame(c), !.ok = c.ok]
             ELSE [s EXCEPT !.rx = <<>>]
  BY DEF ClientServes
<1>7. spi' \in SpiType
  <2> HIDE DEF s, c
  <2>1. QED
    BY <1>1, <1>4, <1>5, NoFrame DEF SpiType
<1>8. client' = IF s.rx = <<>> THEN answered ELSE Announced(Received(answered, s.rx[1]))
  BY DEF ClientServes
<1>9. s.rx # <<>> => s.rx[1] \in [own : Owner, kind : Kind]
  <2> HIDE DEF s
  <2>1. PICK n \in 0 .. 1 : s.rx \in [1 .. n -> [own : Owner, kind : Kind]]
    BY <1>1 DEF SpiType
  <2>2. n = 0 \/ n = 1
    OBVIOUS
  <2>3. n = 0 => s.rx = <<>>
    BY <2>1
  <2>4. QED
    BY <2>1, <2>2, <2>3
<1>10. client' \in ClientType
  <2> HIDE DEF s, answered
  <2>1. QED
    BY <1>3, <1>8, <1>9 DEF Announced, Received, ClientType
<1>11. QED
  BY <1>7, <1>10

LEMMA ClientTypes ==
  ASSUME LinkTypeOK, ClientTurn
  PROVE  LinkTypeOK'
<1>1. 0 \in 0 .. SleepTime
  BY ClientAssumption
<1>2. client' \in ClientType /\ spi' \in SpiType
  <2>1. CASE ClientServes(Low)
    BY <2>1, ServesTypes
  <2>2. CASE ClientReleased(Low)
    BY <1>1, <2>2 DEF ClientReleased, LinkTypeOK, ClientType
  <2>3. CASE ClientCalledAgain(Low)
    BY <2>3 DEF ClientCalledAgain, LinkTypeOK, ClientType
  <2>4. CASE ClientSleeps(Low)
    BY <2>4, BufferTypes DEF ClientSleeps, SpiShutDown, LinkTypeOK, ClientType, SpiType
  <2>5. QED
    BY <2>1, <2>2, <2>3, <2>4 DEF ClientTurn
<1>3. QED
  BY <1>2 DEF ClientTurn, LinkTypeOK

\* Who answers fills the answer's buffer and hands over.
LEMMA FinishedTypes ==
  ASSUME NEW c \in ClientType, NEW data \in Seq(Owner), NEW ok \in BOOLEAN
  PROVE  /\ Finished(c, ok) \in ClientType
         /\ Filled(c, data) \in ClientType
         /\ Finished(Filled(c, data), ok) \in ClientType
<1>1. ASSUME NEW d \in ClientType PROVE Finished(d, ok) \in ClientType
  BY DEF Finished, ClientType
<1>2. PICK x \in Seq(Owner) : Filled(c, data) = [c EXCEPT !.answer = x] /\ Len(x) <= AnswerSize
  BY FilledIs
<1>3. x \in Marks
  BY <1>2, Bounded, ClientAssumption DEF Marks
<1>4. Filled(c, data) \in ClientType
  BY <1>2, <1>3 DEF ClientType
<1>5. QED
  BY <1>1, <1>4

LEMMA ControllerTypes ==
  ASSUME LinkTypeOK, ControllerTurn
  PROVE  LinkTypeOK'
<1>1. client' \in ClientType /\ routing' \in RoutingType
  <2> DEFINE c == [client EXCEPT !.requested = FALSE]
  <2>1. c \in ClientType
    BY DEF LinkTypeOK, ClientType
  <2> HIDE DEF c
  <2>2. CASE \E n \in 0 .. HandlerSize : Handles(n) /\ UNCHANGED routing
    <3>1. PICK n \in 0 .. HandlerSize : Handles(n)
      BY <2>2
    <3> DEFINE data == [i \in 1 .. n |-> client.own]
    <3>2. data \in Seq(Owner)
      <4>1. n \in Nat /\ client.own \in Owner
        BY ClientAssumption DEF LinkTypeOK, ClientType
      <4>2. data \in [1 .. n -> Owner]
        BY <4>1
      <4>3. QED
        BY <4>1, <4>2, SeqDef
    <3>3. client' = Finished(Filled(c, data), TRUE)
      BY <3>1 DEF Handles, c
    <3> HIDE DEF data
    <3>4. QED
      BY <2>1, <2>2, <3>2, <3>3, FinishedTypes DEF LinkTypeOK
  <2>3. CASE HandlerRefuses /\ UNCHANGED routing
    <3>1. <<>> \in Seq(Owner)
      OBVIOUS
    <3>2. client' = Finished(c, FALSE)
      BY <2>3 DEF HandlerRefuses, c
    <3>3. QED
      BY <2>1, <2>3, <3>1, <3>2, FinishedTypes DEF LinkTypeOK
  <2>4. CASE HandsOver
    BY <2>4, <2>1 DEF HandsOver, LinkTypeOK, RoutingType, c
  <2>5. QED
    BY <2>2, <2>3, <2>4 DEF ControllerTurn
<1>2. executed' \in Nat /\ power' = power
  BY DEF ControllerTurn, HandsOver, LinkTypeOK
<1>3. QED
  BY <1>1, <1>2 DEF ControllerTurn, LinkTypeOK

LEMMA OnStackTypes == OnStack \subseteq Owner
BY DEF OnStack, Owner

LEMMA RoutingTypes ==
  ASSUME LinkTypeOK, RoutingTurn
  PROVE  LinkTypeOK'
<1>1. 0 \in 0 .. RoutingMaxAge /\ 0 \in 0 .. CoproPollTime /\ "none" \in Owner
  BY LinkTimes, CoproAssumption DEF Owner
<1>2. <<>> \in Seq(Owner)
  OBVIOUS
<1>3. copro' \in Owner
  BY <1>1 DEF RoutingTurn, LinkTypeOK
<1>4. routing' \in RoutingType /\ client' \in ClientType /\ power' \in {"off", "rising", "on"}
  <2>1. CASE RoutingPowers
    BY <1>1, <2>1 DEF RoutingPowers, LinkTypeOK, RoutingType
  <2>2. CASE RoutingSends
    <3>1. client.buffer \in Owner
      BY DEF LinkTypeOK, ClientType
    <3>2. client' \in ClientType
      BY <1>1, <2>2 DEF RoutingSends, LinkTypeOK, ClientType
    <3>3. QED
      BY <1>1, <2>2, <3>1, <3>2 DEF RoutingSends, LinkTypeOK, RoutingType
  <2>3. CASE RoutingProceeds
    BY <1>1, <2>3 DEF RoutingProceeds, LinkTypeOK, RoutingType
  <2>4. CASE RoutingTimesOut
    BY <1>1, <2>4 DEF RoutingTimesOut, LinkTypeOK, RoutingType
  <2>5. CASE \E left \in OnStack : RoutingResponds(left)
    <3>1. PICK left \in Owner, n \in 0 .. AnswerSize :
            /\ RoutingResponds(left)
            /\ client' = Finished(Filled(client, [i \in 1 .. n |-> IF i = 1 THEN routing.data
                                                                   ELSE left]), TRUE)
      BY <2>5, OnStackTypes DEF RoutingResponds
    <3> DEFINE data == [i \in 1 .. n |-> IF i = 1 THEN routing.data ELSE left]
    <3>2. data \in Seq(Owner)
      <4>1. n \in Nat /\ routing.data \in Owner
        BY ClientAssumption DEF LinkTypeOK, RoutingType
      <4>2. data \in [1 .. n -> Owner]
        BY <1>1, <4>1
      <4>3. QED
        BY <4>1, <4>2, SeqDef
    <3> HIDE DEF data
    <3>3. client' \in ClientType
      BY <3>1, <3>2, FinishedTypes DEF LinkTypeOK, data
    <3>4. QED
      BY <1>1, <3>1, <3>3 DEF RoutingResponds, LinkTypeOK, RoutingType
  <2>6. CASE RoutingFindsNothing
    BY <1>1, <2>6 DEF RoutingFindsNothing, LinkTypeOK, RoutingType
  <2>7. CASE RoutingFails
    <3>1. client' \in ClientType
      BY <1>2, <2>7, FinishedTypes DEF RoutingFails, LinkTypeOK
    <3>2. QED
      BY <2>7, <3>1 DEF RoutingFails, LinkTypeOK, RoutingType
  <2>8. CASE RoutingFinishes
    BY <2>8 DEF RoutingFinishes, LinkTypeOK, RoutingType
  <2>9. CASE RoutingPollsInVain
    BY <1>1, <2>9 DEF RoutingPollsInVain, LinkTypeOK, RoutingType
  <2>10. CASE \E late \in BOOLEAN : RoutingPollsAnswer(late)
    BY <1>1, <2>10 DEF RoutingPollsAnswer, LinkTypeOK, RoutingType
  <2>11. QED
    BY <2>1, <2>2, <2>3, <2>4, <2>5, <2>6, <2>7, <2>8, <2>9, <2>10 DEF RoutingTurn
<1>5. QED
  BY <1>3, <1>4 DEF RoutingTurn, LinkTypeOK

LEMMA OtherTypes ==
  ASSUME LinkTypeOK, Bus \/ PowerUp \/ LinkTick
  PROVE  LinkTypeOK'
<1>1. CASE Bus
  <2>1. routing' \in RoutingType /\ copro' \in Owner
    BY <1>1 DEF Bus, CoproHears, CoproMisses, LinkTypeOK, RoutingType, Owner
  <2>2. executed' \in Nat /\ unheard' \in BOOLEAN
    <3>1. executed' \in {executed, executed + 0, executed + 1}
      BY <1>1 DEF Bus
    <3>2. unheard' \in BOOLEAN
      BY <1>1, Zenon DEF Bus, LinkTypeOK
    <3>3. executed \in Nat
      BY DEF LinkTypeOK
    <3>4. QED
      BY <3>1, <3>2, <3>3
  <2>3. QED
    BY <1>1, <2>1, <2>2 DEF Bus, LinkTypeOK
<1>2. CASE PowerUp
  BY <1>2 DEF PowerUp, LinkTypeOK
<1>3. CASE LinkTick
  <2>1. host' \in HostType
    <3>1. (IF host.age < HostMaxAge THEN host.age + 1 ELSE host.age) \in 0 .. HostMaxAge
      BY LinkTimes DEF LinkTypeOK, HostType
    <3>2. QED
      BY <1>3, <3>1 DEF LinkTick, HostTick, LinkTypeOK, HostType
  <2>2. client' \in ClientType
    <3>1. (IF client.age < SleepTime THEN client.age + 1 ELSE client.age) \in 0 .. SleepTime
      BY ClientAssumption DEF LinkTypeOK, ClientType
    <3>2. QED
      BY <1>3, <3>1 DEF LinkTick, ClientTick, LinkTypeOK, ClientType
  <2>3. routing' \in RoutingType
    <3>1. /\ (IF routing.age < RoutingMaxAge THEN routing.age + 1 ELSE routing.age)
                \in 0 .. RoutingMaxAge
          /\ (IF routing.poll < CoproPollTime THEN routing.poll + 1 ELSE routing.poll)
                \in 0 .. CoproPollTime
      BY LinkTimes, CoproAssumption DEF LinkTypeOK, RoutingType
    <3>2. QED
      BY <1>3, <3>1 DEF LinkTick, RoutingTick, LinkTypeOK, RoutingType
  <2>4. stall' \in 0 .. MaxStall
    BY <1>3, LinkTimes DEF LinkTick, LinkTypeOK
  <2>5. QED
    BY <1>3, <2>1, <2>2, <2>3, <2>4 DEF LinkTick, LinkTypeOK
<1>4. QED
  BY <1>1, <1>2, <1>3

\* A command that was received is answered, or refused, before the host gives up.
LEMMA AnswerInTime ==
  ASSUME LinkTypeOK, Stage
  PROVE  Lost \/ host.age < WaitTime
<1>1. /\ host.age \in Nat /\ stall \in Nat /\ stall <= MaxStall /\ routing.age \in Nat
  BY LinkTimes DEF LinkTypeOK, HostType, RoutingType
<1>2. /\ PowerTime \in Nat /\ TransmitTime \in Nat /\ ProcessTime \in Nat
      /\ MaxStall \in Nat /\ PollTime \in Nat /\ WaitTime \in Nat
      /\ PowerTime + TransmitTime + ProcessTime + PollTime + 5 * MaxStall < WaitTime
  BY LinkTimes DEF CallTime
<1>3. CASE Heard \/ Requested \/ Queued
  BY <1>1, <1>2, <1>3 DEF Heard, Requested, Queued
<1>4. CASE Responding
  BY <1>1, <1>2, <1>4 DEF Responding, AskedBy, WrittenBy, PoweredBy
<1>5. CASE Replied
  BY <1>1, <1>2, <1>5 DEF Replied, CallTime
<1>6. CASE Routed
  <2>1. CASE Powering
    BY <1>1, <1>2, <2>1 DEF Powering, PoweredBy
  <2>2. CASE Transmitting
    BY <1>1, <1>2, <2>2 DEF Transmitting, PoweredBy, WrittenBy
  <2>3. CASE Processing
    BY <1>1, <1>2, <2>3 DEF Processing, PoweredBy, WrittenBy, AskedBy
  <2>4. CASE Reading \/ Failing
    BY <1>1, <1>2, <2>4 DEF Reading, Failing, PoweredBy, WrittenBy, AskedBy
  <2>5. QED
    BY <1>6, <2>1, <2>2, <2>3, <2>4 DEF Routed
<1>7. QED
  BY <1>3, <1>4, <1>5, <1>6 DEF Stage

-----------------------------------------------------------------------------
(* The steps *)

\* The next command finds nothing of the last one.
LEMMA IssueKeeps ==
  ASSUME LinkTypeOK, LinkInv, NEW k \in Kinds, IssueCommand(k)
  PROVE  LinkInv'
<1>1. /\ Quiet /\ ~Sent /\ ~Asked /\ host.state \in {"sleep", "finish"}
      /\ host' = [host EXCEPT !.sent = Age(@), !.buffer = <<"this">>, !.pending = TRUE]
      /\ client' = [client EXCEPT !.own = Age(@), !.buffer = Age(@), !.answer = AllAged(@)]
      /\ spi' = spi
      /\ routing' = [routing EXCEPT !.data = Age(@)]
  BY IssuedWhenQuiet
<1>2. call'.outcome = "open" /\ executed' = 0 /\ power' = power
  BY DEF IssueCommand
<1>3. /\ host'.state = host.state /\ host'.pending /\ host'.buffer = <<"this">>
      /\ host'.request = host.request
  BY <1>1 DEF LinkTypeOK, HostType
<1>4. /\ client'.state = client.state /\ client'.pending = client.pending
      /\ client'.requested = client.requested /\ client'.response = client.response
      /\ client'.answer = AllAged(client.answer)
  BY <1>1 DEF LinkTypeOK, ClientType
<1>5. /\ routing'.state = routing.state /\ routing'.queued = routing.queued
      /\ routing'.flying = routing.flying
  BY <1>1 DEF LinkTypeOK, RoutingType
<1>6. HostEnd' /\ Asked' /\ ~Sent'
  BY <1>1, <1>2, <1>3 DEF HostEnd, Asked, Sent, LinkInv
<1>7. client'.answer = <<>> \/ Len(client'.answer) = AnswerSize
  <2>1. client.answer = <<>> \/ Len(client.answer) = AnswerSize
    BY <1>1 DEF LinkInv, BoardEnd, Quiet
  <2>2. client.answer = <<>> => AllAged(client.answer) = <<>>
    BY DEF AllAged
  <2>3. Len(AllAged(client.answer)) = Len(client.answer)
    BY AgedMarks DEF LinkTypeOK, ClientType
  <2>4. QED
    BY <1>4, <2>1, <2>2, <2>3
<1>8. BoardEnd'
  BY <1>1, <1>2, <1>4, <1>5, <1>7 DEF LinkInv, BoardEnd
<1>9. Quiet'
  BY <1>1, <1>4, <1>5 DEF Quiet, NoRequest, Empty, Resting
<1>10. Settled'
  BY <1>2 DEF Settled
<1>11. QED
  BY <1>2, <1>6, <1>8, <1>9, <1>10 DEF LinkInv

\* Stages depend on the host by its timer only.
LEMMA HostKeeps ==
  ASSUME LinkTypeOK, LinkInv, HostTurn
  PROVE  LinkInv'
<1>1. executed' = executed /\ unheard' = unheard /\ stall' = stall
  BY DEF HostTurn
<1>2. CASE HostWakes /\ NobodyHears
  <2>1. /\ host.state = "sleep" /\ host.pending /\ UNCHANGED <<boardvars, call>>
        /\ host' = [host EXCEPT !.state = "wait_command", !.pending = FALSE,
                                !.request = TRUE, !.age = 0]
    BY <1>2 DEF HostWakes, NobodyHears
  <2>2. /\ host'.state = "wait_command" /\ ~host'.pending /\ host'.request
        /\ host'.buffer = host.buffer
    BY <2>1 DEF LinkTypeOK, HostType
  <2>3. Asked /\ ~Sent /\ Asked' /\ ~Sent'
    BY <2>1, <2>2 DEF Asked, Sent
  <2>4. HostEnd'
    BY <2>1, <2>2, <2>3 DEF HostEnd, LinkInv
  <2>5. Quiet'
    BY <2>1, <2>3 DEF LinkInv, Quiet, NoRequest, Empty, Resting, boardvars
  <2>6. BoardEnd' /\ Settled'
    BY <1>1, <2>1 DEF LinkInv, BoardEnd, Settled, Fresh, boardvars
  <2>7. QED
    BY <1>1, <2>3, <2>4, <2>5, <2>6 DEF LinkInv
<1>3. CASE HostFinishes /\ NobodyHears
  <2>1. /\ host.state = "finish" /\ UNCHANGED <<boardvars, call>>
        /\ host' = [host EXCEPT !.state = "sleep", !.request = FALSE]
    BY <1>3 DEF HostFinishes, NobodyHears
  <2>2. /\ host'.state = "sleep" /\ host'.pending = host.pending /\ ~host'.request
        /\ host'.buffer = host.buffer
    BY <2>1 DEF LinkTypeOK, HostType
  <2>3. (Asked' <=> Asked) /\ ~Sent /\ ~Sent'
    BY <2>1, <2>2 DEF Asked, Sent
  <2>4. HostEnd'
    BY <2>1, <2>2, <2>3 DEF HostEnd, LinkInv
  <2>5. Quiet'
    BY <2>1, <2>3 DEF LinkInv, Quiet, NoRequest, Empty, Resting, boardvars
  <2>6. BoardEnd' /\ Settled'
    BY <1>1, <2>1 DEF LinkInv, BoardEnd, Settled, Fresh, boardvars
  <2>7. QED
    BY <1>1, <2>3, <2>4, <2>5, <2>6 DEF LinkInv
<1>4. CASE Outgoing
  <2>1. /\ host.state = "wait_command" /\ UNCHANGED <<client, routing, power, copro, fault, call>>
        /\ host' = [host EXCEPT !.state = "wait_response", !.buffer = <<>>, !.age = 0,
             !.sent = IF host.buffer = <<"this">> THEN "this" ELSE "earlier"]
    BY <1>4 DEF Outgoing, HostSends
  <2>2. Asked /\ ~Sent /\ host.buffer = <<"this">> /\ executed = 0 /\ Quiet /\ ~host.pending
    BY <2>1 DEF Asked, Sent, LinkInv, HostEnd
  <2>3. /\ host'.state = "wait_response" /\ ~host'.pending /\ host'.request = host.request
        /\ host'.buffer = <<>> /\ host'.age = 0 /\ host'.sent = "this"
    BY <2>1, <2>2 DEF LinkTypeOK, HostType
  <2>4. ~Asked' /\ Sent'
    BY <2>3 DEF Asked, Sent
  <2>5. HostEnd'
    BY <2>1, <2>2, <2>3, <2>4 DEF HostEnd, LinkInv
  <2> DEFINE frame == [own |-> host'.sent, kind |-> call.kind]
  <2>6. SpiHears(frame) /\ frame = [own |-> "this", kind |-> call.kind]
    BY <1>4, <2>3 DEF Outgoing
  <2> HIDE DEF frame
  <2>7. spi' = spi \/ spi' = [spi EXCEPT !.rx = <<frame>>, !.tx = <<>>]
    <3>1. spi.tx = <<>>
      BY <2>2 DEF Quiet, Empty
    <3>2. \A n \in 1 .. Len(<<>>) + 1 : SubSeq(<<>>, n, Len(<<>>)) = <<>>
      <4>1. Len(<<>>) = 0
        OBVIOUS
      <4>2. SubSeq(<<>>, 1, 0) = <<>>
        BY SubSeqEmpty
      <4>3. QED
        BY <4>1, <4>2
    <3>3. QED
      BY <2>6, <3>1, <3>2 DEF SpiHears
  <2>8. CASE spi' = spi
    <3>1. Lost'
      BY <1>1, <2>1, <2>2, <2>8 DEF Lost, Quiet, NoRequest, Empty, Resting
    <3>2. BoardEnd' /\ Settled'
      BY <1>1, <2>1, <2>8 DEF LinkInv, BoardEnd, Settled, Fresh
    <3>3. QED
      BY <1>1, <2>2, <2>4, <2>5, <3>1, <3>2 DEF LinkInv, Stage
  <2>9. CASE spi' = [spi EXCEPT !.rx = <<frame>>, !.tx = <<>>]
    <3>1. spi'.rx = <<frame>> /\ spi'.tx = <<>> /\ spi'.on = spi.on
      BY <2>9 DEF LinkTypeOK, SpiType
    <3>2. spi'.rx # <<>> /\ spi'.rx[1] = [own |-> "this", kind |-> call'.kind]
      BY <2>1, <2>6, <3>1
    <3>3. 0 <= stall
      BY LinkTimes DEF LinkTypeOK
    <3>4. Heard'
      BY <1>1, <2>1, <2>2, <2>3, <3>1, <3>2, <3>3 DEF Heard, Quiet, NoRequest, Resting
    <3>5. BoardEnd' /\ Settled'
      BY <1>1, <2>1, <3>1 DEF LinkInv, BoardEnd, Settled, Fresh
    <3>6. QED
      BY <1>1, <2>2, <2>4, <2>5, <3>4, <3>5 DEF LinkInv, Stage
  <2>10. QED
    BY <2>7, <2>8, <2>9
<1>5. CASE Incoming
  <2>1. /\ host.state = "wait_response" /\ spi.tx # <<>> /\ spi' = SpiEmptied
        /\ UNCHANGED <<client, routing, power, copro, fault>>
        /\ host' = [host EXCEPT !.state = "sleep", !.request = FALSE, !.age = 0]
        /\ call' = [call EXCEPT !.outcome = IF spi.ok THEN "answered" ELSE "refused",
                                !.answer = spi.tx]
    BY <1>5 DEF Incoming, HostReceives
  <2>2. Sent /\ ~host.pending
    BY <2>1 DEF Sent, LinkInv, HostEnd
  <2>3. Replied
    BY <2>1, <2>2 DEF LinkInv, Stage, Lost, Heard, Requested, Queued, Routed, Responding,
                      Quiet, Ours, Empty
  <2>4. /\ host'.state = "sleep" /\ ~host'.pending /\ ~host'.request
        /\ host'.buffer = host.buffer
    BY <2>1, <2>2 DEF LinkTypeOK, HostType
  <2>5. ~Asked' /\ ~Sent' /\ ~Asked
    BY <2>1, <2>2, <2>4 DEF Asked, Sent
  <2>6. /\ call'.answer = spi.tx /\ call'.kind = call.kind
        /\ call'.outcome = IF spi.ok THEN "answered" ELSE "refused"
    BY <2>1 DEF LinkTypeOK
  <2>7. HostEnd'
    BY <2>4, <2>5, <2>6 DEF HostEnd, LinkInv
  <2>8. spi'.rx = spi.rx /\ spi'.tx = <<>> /\ spi'.on = spi.on
    BY <2>1 DEF SpiEmptied, LinkTypeOK, SpiType
  <2>9. Quiet'
    BY <2>1, <2>3, <2>8 DEF Replied, Quiet, NoRequest, Empty, Resting
  <2>10. BoardEnd'
    BY <2>1, <2>8 DEF LinkInv, BoardEnd
  <2>11. Settled'
    BY <1>1, <2>3, <2>6 DEF Settled, Replied, Fresh
  <2>12. QED
    BY <1>1, <2>5, <2>7, <2>9, <2>10, <2>11 DEF LinkInv
<1>6. CASE TimesOut
  <2>1. /\ host.state = "wait_response" /\ host.age >= WaitTime /\ UNCHANGED boardvars
        /\ host' = [host EXCEPT !.state = "finish"]
        /\ call' = [call EXCEPT !.outcome = "given_up"]
    BY <1>6 DEF TimesOut, HostTimesOut
  <2>2. Sent /\ ~host.pending /\ host.request
    BY <2>1 DEF Sent, LinkInv, HostEnd
  <2>3. Lost
    <3>1. host.age \in Nat /\ WaitTime \in Nat
      BY LinkTimes DEF LinkTypeOK, HostType
    <3>2. Lost \/ host.age < WaitTime
      BY <2>2, AnswerInTime DEF LinkInv
    <3>3. QED
      BY <2>1, <3>1, <3>2
  <2>4. /\ host'.state = "finish" /\ ~host'.pending /\ host'.request
        /\ host'.buffer = host.buffer
    BY <2>1, <2>2 DEF LinkTypeOK, HostType
  <2>5. ~Asked' /\ ~Sent' /\ ~Asked
    BY <2>1, <2>2, <2>4 DEF Asked, Sent
  <2>6. call'.outcome = "given_up"
    BY <2>1 DEF LinkTypeOK
  <2>7. HostEnd'
    BY <2>4, <2>5, <2>6 DEF HostEnd, LinkInv
  <2>8. Quiet'
    BY <2>1, <2>3 DEF Lost, Quiet, NoRequest, Empty, Resting, boardvars
  <2>9. BoardEnd' /\ Settled'
    BY <2>1, <2>6 DEF LinkInv, BoardEnd, Settled, boardvars
  <2>10. QED
    BY <1>1, <2>5, <2>7, <2>8, <2>9 DEF LinkInv
<1>7. QED
  BY <1>2, <1>3, <1>4, <1>5, <1>6 DEF HostTurn

\* A step that leaves what the stages speak of leaves the stage.
LEMMA StageStays ==
  ASSUME client'.pending = client.pending, client'.requested = client.requested,
         client'.response = client.response, client'.own = client.own,
         client'.ok = client.ok, client'.buffer = client.buffer,
         client'.answer = client.answer, client'.kind = client.kind,
         spi'.rx = spi.rx, spi'.tx = spi.tx, spi'.ok = spi.ok,
         UNCHANGED <<host, routing, power, copro, call, executed, unheard, stall>>
  PROVE  /\ Quiet => Quiet'
         /\ Stage => Stage'
<1>1. Quiet => Quiet'
  BY DEF Quiet, NoRequest, Empty, Resting
<1>2. (Heard => Heard') /\ (Lost => Lost')
  BY <1>1 DEF Heard, NoRequest, Resting, Lost
<1>3. Ours => Ours'
  BY DEF Ours, Empty
<1>4. (Requested => Requested') /\ (Queued => Queued')
  BY <1>3 DEF Requested, Queued, Resting
<1>5. /\ Powering => Powering'
      /\ Processing => Processing'
      /\ Reading => Reading'
      /\ Failing => Failing'
  BY DEF Powering, Processing, Reading, Failing, PoweredBy, WrittenBy, AskedBy, CoproKnows
<1>6. Transmitting => Transmitting'
  BY DEF Transmitting, PoweredBy, WrittenBy, CoproKnows
<1>7. Routed => Routed'
  BY <1>3, <1>5, <1>6 DEF Routed
<1>8. Responding => Responding'
  BY DEF Responding, NoRequest, Empty, Resting, AskedBy, WrittenBy, PoweredBy, Fresh
<1>9. Replied => Replied'
  BY DEF Replied, NoRequest, Resting, CallTime, Fresh
<1>10. QED
  BY <1>1, <1>2, <1>4, <1>7, <1>8, <1>9 DEF Stage

\* The client serves the line: a command is taken over, an answer handed on.
LEMMA ServesKeeps ==
  ASSUME LinkTypeOK, LinkInv, ClientServes(Low),
         UNCHANGED <<host, routing, power, copro, fault, call, executed, unheard, stall, commands>>
  PROVE  LinkInv'
<1> DEFINE s == IF client.state = "idle" THEN SpiSetUp ELSE spi
           c == [client EXCEPT !.state = "transmission"]
           answered == IF c.response THEN AnswerSent(c) ELSE c
<1>1. /\ client' = IF s.rx = <<>> THEN answered ELSE Announced(Received(answered, s.rx[1]))
      /\ spi' = IF c.response
                THEN [s EXCEPT !.rx = <<>>, !.tx = AnswerFrame(c), !.ok = c.ok]
                ELSE [s EXCEPT !.rx = <<>>]
  BY DEF ClientServes
<1>2. /\ c.state = "transmission" /\ c.pending = client.pending
      /\ c.requested = client.requested /\ c.response = client.response
      /\ c.own = client.own /\ c.ok = client.ok /\ c.buffer = client.buffer
      /\ c.answer = client.answer /\ c.kind = client.kind
      /\ c \in ClientType
  BY DEF LinkTypeOK, ClientType
<1>3. /\ s \in SpiType /\ s.on /\ s.tx = spi.tx /\ s.ok = spi.ok
      /\ s.rx = spi.rx \/ s.rx = <<>>
  <2>1. client.state # "idle" => spi.on
    BY DEF LinkInv, BoardEnd
  <2>2. <<>> \in UNION {[1 .. n -> [own : Owner, kind : Kind]] : n \in 0 .. 1}
    BY NoFrame
  <2>3. QED
    BY <2>1, <2>2 DEF SpiSetUp, LinkTypeOK, SpiType
<1> HIDE DEF c, s
<1>4. spi'.on /\ spi'.rx = <<>>
  BY <1>1, <1>3 DEF SpiType
<1>5. client'.state = "transmission"
  BY <1>1, <1>2 DEF Announced, Received, AnswerSent, ClientType
<1>6. HostEnd' /\ Settled' /\ (Asked' => executed' = 0) /\ executed' \in {0, 1} /\ (Sent' <=> Sent)
  BY DEF LinkInv, HostEnd, Settled, Fresh, Asked, Sent
<1>7. SUFFICES /\ IF Sent THEN Stage' ELSE Quiet'
               /\ client'.response \/ client'.answer = <<>> \/ Len(client'.answer) = AnswerSize
  BY <1>4, <1>5, <1>6 DEF LinkInv, BoardEnd
<1>8. CASE ~client.response /\ s.rx = <<>>
  <2>1. client' = c /\ spi' = [s EXCEPT !.rx = <<>>]
    BY <1>1, <1>2, <1>8
  <2>2. spi'.tx = spi.tx /\ spi'.ok = spi.ok
    BY <1>3, <2>1 DEF SpiType
  <2>3. client.answer = <<>> \/ Len(client.answer) = AnswerSize
    BY <1>8 DEF LinkInv, BoardEnd
  <2>4. CASE spi.rx = <<>>
    <3>1. (Quiet => Quiet') /\ (Stage => Stage')
      BY <1>2, <1>4, <2>1, <2>2, <2>4, StageStays
    <3>2. QED
      BY <1>2, <2>1, <2>3, <3>1 DEF LinkInv
  <2>5. CASE spi.rx # <<>>
    <3>1. Sent /\ Heard
      BY <2>5 DEF LinkInv, Stage, Lost, Requested, Queued, Routed, Responding, Replied,
                  Quiet, Ours, Empty
    <3>2. Lost'
      BY <1>2, <1>4, <2>1, <2>2, <3>1 DEF Lost, Heard, Quiet, NoRequest, Empty, Resting
    <3>3. QED
      BY <1>2, <2>1, <2>3, <3>1, <3>2 DEF Stage
  <2>6. QED
    BY <2>4, <2>5
<1>9. CASE ~client.response /\ s.rx # <<>>
  <2>1. Sent /\ Heard /\ s.rx = spi.rx
    <3>1. s.rx = spi.rx
      BY <1>3, <1>9
    <3>2. QED
      BY <1>9, <3>1 DEF LinkInv, Stage, Lost, Requested, Queued, Routed, Responding, Replied,
                  Quiet, Ours, Empty
  <2>2. client' = Announced(Received(c, s.rx[1])) /\ spi' = [s EXCEPT !.rx = <<>>]
    BY <1>1, <1>2, <1>9
  <2>3. s.rx[1] = [own |-> "this", kind |-> call.kind]
    BY <2>1 DEF Heard
  <2>4. /\ client'.pending /\ client'.requested /\ client'.own = "this"
        /\ client'.buffer = "this" /\ client'.response = client.response
        /\ client'.answer = client.answer /\ client'.kind = call.kind
    BY <1>2, <2>2, <2>3 DEF Announced, Received, ClientType
  <2>5. spi'.tx = <<>>
    BY <1>3, <2>1, <2>2 DEF SpiType, Heard
  <2>6. Requested'
    BY <1>4, <1>9, <2>1, <2>4, <2>5 DEF Requested, Heard, Ours, Empty, Resting
  <2>7. client.answer = <<>> \/ Len(client.answer) = AnswerSize
    BY <1>9 DEF LinkInv, BoardEnd
  <2>8. QED
    BY <2>1, <2>4, <2>6, <2>7 DEF Stage
<1>10. CASE client.response
  <2>1. Sent /\ Responding
    BY <1>10 DEF LinkInv, Stage, Lost, Heard, Requested, Queued, Routed, Replied, Quiet, Ours
  <2>2. s.rx = <<>>
    BY <1>3, <2>1 DEF Responding, Empty
  <2>3. client' = AnswerSent(c) /\ spi' = [s EXCEPT !.rx = <<>>, !.tx = AnswerFrame(c), !.ok = c.ok]
    BY <1>1, <1>2, <1>10, <2>2
  <2>4. /\ ~client'.response /\ client'.pending = client.pending
        /\ client'.requested = client.requested
        /\ client'.answer = IF Len(client.answer) < AnswerSize THEN <<>> ELSE client.answer
    BY <1>2, <2>3 DEF AnswerSent, ClientType
  <2>5. spi'.tx = AnswerFrame(c) /\ spi'.ok = client.ok
    BY <1>2, <1>3, <2>3 DEF SpiType
  <2>6. AnswerFrame(c) # <<>> /\ AnswerFrame(c)[1] = "this" /\ Fresh(AnswerFrame(c), 2)
    BY <1>2, <2>1, AnswerFrameIs DEF Responding
  <2>7. host.age <= CallTime
    <3>1. host.age \in Nat /\ stall \in Nat /\ stall <= MaxStall
      BY LinkTimes DEF LinkTypeOK, HostType
    <3>2. QED
      BY <2>1, <3>1, LinkTimes DEF Responding, AskedBy, WrittenBy, PoweredBy, CallTime
  <2>8. Replied'
    BY <1>4, <2>1, <2>4, <2>5, <2>6, <2>7
       DEF Replied, Responding, NoRequest, Resting, Fresh, CallTime
  <2>9. Len(client.answer) < AnswerSize \/ Len(client.answer) = AnswerSize
    <3>1. client.answer \in Seq(Owner) /\ Len(client.answer) <= AnswerSize
      BY Bounded, ClientAssumption DEF LinkTypeOK, ClientType, Marks
    <3>2. Len(client.answer) \in Nat
      BY <3>1, LenProperties
    <3>3. QED
      BY <3>1, <3>2, ClientAssumption
  <2>10. QED
    BY <2>1, <2>4, <2>8, <2>9 DEF Stage
<1>11. QED
  BY <1>8, <1>9, <1>10

LEMMA ClientKeeps ==
  ASSUME LinkTypeOK, LinkInv, ClientTurn
  PROVE  LinkInv'
<1>1. UNCHANGED <<host, routing, power, copro, fault, call, executed, unheard, stall, commands>>
  BY DEF ClientTurn
<1>2. CASE ClientServes(Low)
  BY <1>1, <1>2, ServesKeeps
<1>3. HostEnd' /\ Settled' /\ (Asked' => executed' = 0) /\ executed' \in {0, 1} /\ (Sent' <=> Sent)
  BY <1>1 DEF LinkInv, HostEnd, Settled, Fresh, Asked, Sent
<1>4. SUFFICES ASSUME ClientReleased(Low) \/ ClientCalledAgain(Low) \/ ClientSleeps(Low)
               PROVE  LinkInv'
  BY <1>2 DEF ClientTurn
<1>5. /\ client'.pending = client.pending /\ client'.requested = client.requested
      /\ client'.response = client.response /\ client'.own = client.own
      /\ client'.ok = client.ok /\ client'.buffer = client.buffer
      /\ client'.answer = client.answer /\ client'.kind = client.kind
  BY <1>4 DEF ClientReleased, ClientCalledAgain, ClientSleeps, LinkTypeOK, ClientType
<1>6. spi'.rx = spi.rx /\ spi'.ok = spi.ok /\ (spi'.on <=> client'.state # "idle")
  BY <1>4 DEF ClientReleased, ClientCalledAgain, ClientSleeps, SpiShutDown, LinkTypeOK,
              ClientType, SpiType, LinkInv, BoardEnd
<1>7. spi'.tx = spi.tx
  <2>1. CASE ClientSleeps(Low)
    <3>1. ~Sent
      BY <2>1 DEF ClientSleeps, Low, LinkInv, HostEnd, Sent
    <3>2. spi.tx = <<>>
      BY <3>1 DEF LinkInv, Quiet, Empty
    <3>3. QED
      BY <2>1, <3>2 DEF ClientSleeps, SpiShutDown, LinkTypeOK, SpiType
  <2>2. QED
    BY <1>4, <2>1 DEF ClientReleased, ClientCalledAgain
<1>8. BoardEnd'
  BY <1>1, <1>5, <1>6 DEF LinkInv, BoardEnd
<1>9. (Quiet => Quiet') /\ (Stage => Stage')
  BY <1>1, <1>5, <1>6, <1>7, StageStays
<1>10. QED
  BY <1>3, <1>8, <1>9 DEF LinkInv

\* A handler answers or refuses, or the routing gets the command.
LEMMA ControllerKeeps ==
  ASSUME LinkTypeOK, LinkInv, ControllerTurn
  PROVE  /\ LinkInv'
         /\ executed' = executed \/ (Sent /\ executed = 0 /\ executed' = 1)
<1>1. /\ UNCHANGED <<host, spi, copro, fault, call, unheard, stall, commands>>
      /\ power' = power /\ client.requested
  BY DEF ControllerTurn, HandsOver, Handles, HandlerRefuses
<1>2. Sent /\ Requested
  BY <1>1 DEF LinkInv, Stage, Lost, Heard, Queued, Routed, Responding, Replied, Quiet, NoRequest
<1>3. /\ client.pending /\ client.own = "this" /\ ~client.response /\ Empty /\ Resting
      /\ client.buffer = "this" /\ executed = 0 /\ host.age <= stall
      /\ client.answer = <<>> \/ Len(client.answer) = AnswerSize
  BY <1>2 DEF Requested, Ours, LinkInv, BoardEnd
<1>4. HostEnd' /\ (Sent' <=> Sent) /\ (Asked' <=> Asked) /\ ~Asked /\ call.outcome = "open"
  BY <1>1, <1>2 DEF LinkInv, HostEnd, Asked, Sent
<1>5. Settled'
  BY <1>1, <1>4 DEF Settled
<1>6. host.age <= AskedBy + stall
  BY <1>3, LinkTimes DEF LinkTypeOK, HostType, AskedBy, WrittenBy, PoweredBy
<1> DEFINE c == [client EXCEPT !.requested = FALSE]
<1>7. /\ c \in ClientType /\ ~c.requested /\ c.pending /\ c.own = "this"
      /\ c.answer = client.answer /\ c.state = client.state
  BY <1>3 DEF LinkTypeOK, ClientType
<1> HIDE DEF c
<1>8. CASE HandsOver
  <2>1. client' = c /\ routing' = [routing EXCEPT !.queued = TRUE] /\ executed' = executed
    BY <1>8, <1>1 DEF HandsOver, ControllerTurn, Handles, HandlerRefuses, c
  <2>2. /\ client'.pending /\ client'.own = "this" /\ ~client'.response
        /\ ~client'.requested /\ client'.buffer = "this" /\ client'.answer = client.answer
        /\ client'.state = client.state
    BY <1>3, <2>1 DEF c, LinkTypeOK, ClientType
  <2>3. /\ routing'.queued /\ routing'.state = routing.state /\ routing'.flying = routing.flying
    BY <2>1 DEF LinkTypeOK, RoutingType
  <2>4. Queued'
    <3>1. call'.kind = "routed"
      BY <1>1, <1>2, <1>8 DEF HandsOver, Requested
    <3>2. QED
      BY <1>1, <1>3, <2>1, <2>2, <2>3, <3>1 DEF Queued, Ours, Empty, Resting
  <2>5. BoardEnd'
    <3>1. /\ spi' = spi /\ power' = power
          /\ client'.answer = <<>> \/ Len(client'.answer) = AnswerSize
      BY <1>1, <1>3, <2>2
    <3>2. QED
      BY <2>2, <2>3, <3>1 DEF LinkInv, BoardEnd
  <2>6. QED
    BY <1>2, <1>3, <1>4, <1>5, <2>1, <2>4, <2>5 DEF LinkInv, Stage
<1>9. CASE HandlerRefuses /\ UNCHANGED <<routing, power, executed>>
  <2>1. client' = [c EXCEPT !.pending = FALSE, !.response = TRUE, !.ok = FALSE]
    BY <1>7, <1>9 DEF HandlerRefuses, Finished, c
  <2>2. /\ ~client'.pending /\ client'.own = "this" /\ client'.response /\ ~client'.ok
        /\ ~client'.requested /\ client'.answer = client.answer
        /\ client'.state = client.state
    BY <1>7, <2>1 DEF ClientType
  <2>3. Len(<<>>) = 0
    OBVIOUS
  <2>4. Len(client.answer) < AnswerSize => Fresh(client.answer, 1)
    BY <1>3, <2>3, ClientAssumption DEF Fresh
  <2>5. Responding'
    BY <1>1, <1>3, <1>6, <1>9, <2>2, <2>4
       DEF Responding, NoRequest, Empty, Resting, Fresh, AskedBy, WrittenBy, PoweredBy
  <2>6. BoardEnd'
    BY <1>1, <1>9, <2>2 DEF LinkInv, BoardEnd
  <2>7. QED
    BY <1>2, <1>3, <1>4, <1>5, <1>9, <2>5, <2>6 DEF LinkInv, Stage
<1>10. CASE /\ \E n \in 0 .. HandlerSize : Handles(n)
            /\ executed' = executed + 1
            /\ UNCHANGED <<routing, power>>
  <2>1. PICK n \in 0 .. HandlerSize : Handles(n)
    BY <1>10
  <2> DEFINE data == [i \in 1 .. n |-> client.own]
  <2>2. data \in Seq(Owner) /\ Fresh(data, 1)
    <3>1. n \in Nat /\ "this" \in Owner
      BY ClientAssumption DEF Owner
    <3>2. data = [i \in 1 .. n |-> "this"]
      BY <1>3
    <3>3. [i \in 1 .. n |-> "this"] \in [1 .. n -> Owner]
      BY <3>1
    <3>4. [i \in 1 .. n |-> "this"] \in Seq(Owner) /\ Len([i \in 1 .. n |-> "this"]) = n
      BY <3>1, <3>3, SeqDef
    <3>5. QED
      BY <3>2, <3>4 DEF Fresh
  <2>3. client' = Finished(Filled(c, data), TRUE)
    BY <2>1 DEF Handles, c
  <2> HIDE DEF data
  <2>4. PICK x \in Seq(Owner) :
          /\ Filled(c, data) = [c EXCEPT !.answer = x]
          /\ Len(x) <= AnswerSize
          /\ Len(c.answer) = AnswerSize => Len(x) = AnswerSize
          /\ c.answer = <<>> /\ Fresh(data, 1) => Fresh(x, 1)
    BY <1>7, <2>2, FilledIs
  <2>5. /\ ~client'.pending /\ client'.own = "this" /\ client'.response
        /\ ~client'.requested /\ client'.answer = x /\ client'.state = client.state
    BY <1>7, <2>3, <2>4 DEF Finished, ClientType
  <2>6. Len(x) < AnswerSize => Fresh(x, 1)
    <3>1. Len(x) \in Nat /\ AnswerSize \in Nat
      BY ClientAssumption
    <3>2. QED
      BY <1>3, <1>7, <2>2, <2>4, <3>1
  <2>7. executed' = 1
    BY <1>3, <1>10
  <2>8. Responding'
    BY <1>1, <1>3, <1>6, <1>10, <2>5, <2>6, <2>7
       DEF Responding, NoRequest, Empty, Resting, Fresh, AskedBy, WrittenBy, PoweredBy
  <2>9. BoardEnd'
    BY <1>1, <1>10, <2>5 DEF LinkInv, BoardEnd
  <2>10. QED
    BY <1>2, <1>3, <1>4, <1>5, <2>7, <2>8, <2>9 DEF LinkInv, Stage
<1>11. QED
  BY <1>8, <1>9, <1>10 DEF ControllerTurn


\* Where the routing has work the command that was sent is there.
LEMMA WhenRouted ==
  ASSUME LinkTypeOK, LinkInv
  PROVE  /\ routing.queued => Sent /\ Queued
         /\ ~(routing.state \in {"idle", "finish"}) => Sent /\ Routed
<1>1. ASSUME ~Resting PROVE Sent /\ (Queued \/ Routed)
  <2>1. Sent /\ Stage
    BY <1>1 DEF LinkInv, Quiet
  <2>2. QED
    BY <1>1, <2>1 DEF Stage, Lost, Heard, Requested, Responding, Replied, Quiet
<1>2. Queued => routing.state \in {"idle", "finish"} /\ routing.queued
  BY DEF Queued
<1>3. Routed => ~routing.queued /\ ~(routing.state \in {"idle", "finish"})
  BY DEF Routed, Powering, Transmitting, Processing, Reading, Failing
<1>4. QED
  BY <1>1, <1>2, <1>3 DEF Resting

\* How long ago the command was sent at most, when a wait of the routing ends.
LEMMA RoutedInTime ==
  ASSUME LinkTypeOK
  PROVE  /\ host.age \in Nat /\ stall \in Nat /\ stall <= MaxStall /\ MaxStall \in Nat
         /\ routing.age \in Nat
         /\ PoweredBy \in Nat /\ WrittenBy \in Nat /\ AskedBy \in Nat
         /\ host.age <= stall => host.age <= MaxStall /\ host.age <= PoweredBy + MaxStall
         /\ Powering /\ power = "on" => host.age <= PoweredBy + MaxStall
         /\ Transmitting => host.age <= AskedBy + stall
         /\ Transmitting /\ ~routing.flying => host.age <= WrittenBy + MaxStall
         /\ Processing => host.age <= AskedBy + stall
<1>1. /\ host.age \in Nat /\ stall \in Nat /\ stall <= MaxStall /\ routing.age \in Nat
      /\ PowerTime \in Nat /\ TransmitTime \in Nat /\ ProcessTime \in Nat
      /\ MaxStall \in Nat
  BY LinkTimes DEF LinkTypeOK, HostType, RoutingType
<1>2. /\ PoweredBy = MaxStall + PowerTime
      /\ WrittenBy = MaxStall + PowerTime + MaxStall + TransmitTime
      /\ AskedBy = MaxStall + PowerTime + MaxStall + TransmitTime + MaxStall + ProcessTime
  BY <1>1 DEF PoweredBy, WrittenBy, AskedBy
<1>3. PoweredBy \in Nat /\ WrittenBy \in Nat /\ AskedBy \in Nat
  BY <1>1, <1>2
<1>4. host.age <= stall => host.age <= MaxStall /\ host.age <= PoweredBy + MaxStall
  BY <1>1, <1>2
<1>5. Powering /\ power = "on" => host.age <= PoweredBy + MaxStall
  BY <1>1, <1>3 DEF Powering
<1>6. Transmitting => host.age <= AskedBy + stall
  BY <1>1, <1>2 DEF Transmitting
<1>7. Transmitting /\ ~routing.flying => host.age <= WrittenBy + MaxStall
  BY <1>1, <1>3 DEF Transmitting
<1>8. Processing => host.age <= AskedBy + stall
  BY <1>1, <1>2 DEF Processing
<1>9. QED
  BY <1>1, <1>3, <1>4, <1>5, <1>6, <1>7, <1>8

\* What the routing does while it owns the command, up to its answer.
LEMMA RoutingKeeps ==
  ASSUME LinkTypeOK, LinkInv, RoutingTurn
  PROVE  LinkInv'
<1>1. UNCHANGED <<host, spi, fault, call, executed, unheard, stall, commands>>
  BY DEF RoutingTurn
<1>2. HostEnd' /\ Settled' /\ (Asked' => executed' = 0) /\ executed' \in {0, 1} /\ (Sent' <=> Sent)
  BY <1>1 DEF LinkInv, HostEnd, Settled, Fresh, Asked, Sent
<1>3. SUFFICES BoardEnd' /\ IF Sent THEN Stage' ELSE Quiet'
  BY <1>2 DEF LinkInv
<1>4. /\ power = "rising" => routing.state = "power_on"
      /\ routing.flying => routing.state = "transmit"
      /\ spi.on <=> client.state # "idle"
      /\ client.response \/ client.answer = <<>> \/ Len(client.answer) = AnswerSize
  BY DEF LinkInv, BoardEnd
<1>5. ASSUME Ours PROVE client.answer = <<>> \/ Len(client.answer) = AnswerSize
  BY <1>4, <1>5 DEF Ours
<1>6. CASE RoutingPowers
  <2>1. /\ routing' = [routing EXCEPT !.state = "power_on", !.queued = FALSE, !.age = 0]
        /\ power' = "rising" /\ client' = client /\ routing.state = "idle" /\ routing.queued
    BY <1>6 DEF RoutingPowers, Starts
  <2>2. Sent /\ Queued
    BY <2>1, WhenRouted
  <2>3. routing'.state = "power_on" /\ ~routing'.queued /\ routing'.age = 0 /\ ~routing'.flying
    BY <1>4, <2>1 DEF LinkTypeOK, RoutingType
  <2>4. /\ Ours' /\ ~client'.requested /\ client'.buffer = "this" /\ executed' = 0
        /\ call'.kind = "routed"
    BY <1>1, <2>1, <2>2 DEF Queued, Ours, Empty
  <2>5. host'.age <= MaxStall + routing'.age /\ routing'.age <= PowerTime
    <3>1. host.age <= stall
      BY <2>2 DEF Queued
    <3>2. host.age <= MaxStall
      BY <3>1, RoutedInTime
    <3>3. host.age \in Nat /\ MaxStall \in Nat /\ PowerTime \in Nat
      BY RoutedInTime, LinkTimes
    <3>4. host'.age = host.age
      BY <1>1
    <3>5. QED
      BY <2>3, <3>2, <3>3, <3>4
  <2>6. Routed'
    BY <2>1, <2>3, <2>4, <2>5 DEF Routed, Powering
  <2>7. BoardEnd'
    BY <1>1, <1>4, <2>1, <2>3 DEF BoardEnd
  <2>8. QED
    BY <2>2, <2>6, <2>7 DEF Stage
<1>7. CASE RoutingSends
  <2>1. /\ routing' = [routing EXCEPT !.state = "transmit", !.age = 0, !.flying = TRUE,
                         !.queued = @ /\ routing.state # "idle", !.data = client.buffer]
        /\ client' = [client EXCEPT !.buffer = "none"]
        /\ power = "on" /\ power' = power
        /\ (routing.state = "idle" /\ routing.queued) \/ routing.state = "power_on"
    BY <1>7 DEF RoutingSends, Starts
  <2>2. /\ Sent /\ Ours /\ ~client.requested /\ client.buffer = "this" /\ executed = 0
        /\ call.kind = "routed" /\ host.age <= PoweredBy + MaxStall
        /\ ~(routing.queued /\ routing.state # "idle")
    <3>1. CASE routing.state = "idle" /\ routing.queued
      BY <3>1, WhenRouted, RoutedInTime DEF Queued
    <3>2. CASE routing.state = "power_on"
      <4>1. Sent /\ Routed
        BY <3>2, WhenRouted
      <4>2. Powering /\ Ours /\ ~client.requested /\ ~routing.queued /\ call.kind = "routed"
        BY <3>2, <4>1 DEF Routed, Transmitting, Processing, Reading, Failing
      <4>3. QED
        BY <2>1, <4>1, <4>2, RoutedInTime DEF Powering
    <3>3. QED
      BY <2>1, <3>1, <3>2
  <2>3. /\ routing'.state = "transmit" /\ ~routing'.queued /\ routing'.age = 0
        /\ routing'.flying /\ routing'.data = "this"
    BY <2>1, <2>2 DEF LinkTypeOK, RoutingType
  <2>4. /\ client'.pending = client.pending /\ client'.own = client.own
        /\ client'.response = client.response /\ client'.requested = client.requested
        /\ client'.answer = client.answer /\ client'.state = client.state
    BY <2>1 DEF LinkTypeOK, ClientType
  <2>5. Ours' /\ ~client'.requested /\ call'.kind = "routed"
    BY <1>1, <2>2, <2>4 DEF Ours, Empty
  <2>6. host'.age <= PoweredBy + MaxStall + routing'.age /\ routing'.age <= TransmitTime
    BY <1>1, <2>2, <2>3, RoutedInTime, LinkTimes
  <2>7. Transmitting'
    BY <1>1, <2>2, <2>3, <2>6 DEF Transmitting, PoweredBy
  <2>8. Routed'
    BY <2>3, <2>5, <2>7 DEF Routed
  <2>9. BoardEnd'
    BY <1>1, <1>4, <2>1, <2>3, <2>4 DEF BoardEnd
  <2>10. QED
    BY <2>2, <2>8, <2>9 DEF Stage
<1>8. ASSUME ~(routing.state \in {"idle", "finish"})
      PROVE  /\ Sent /\ Ours /\ ~client.requested /\ ~routing.queued /\ Routed
             /\ call.kind = "routed"
  <2>1. Sent /\ Routed
    BY <1>8, WhenRouted
  <2>2. QED
    BY <2>1 DEF Routed
<1>9. CASE RoutingTimesOut
  <2>1. /\ routing' = [routing EXCEPT !.state = "timeout", !.flying = FALSE, !.data = "none"]
        /\ client' = client /\ power' = power
        /\ routing.state \in {"transmit", "process"}
    BY <1>9 DEF RoutingTimesOut, RoutingLate
  <2>2. /\ Sent /\ Ours /\ ~client.requested /\ ~routing.queued /\ call.kind = "routed"
        /\ (Transmitting \/ Processing)
    BY <1>8, <2>1 DEF Routed, Powering, Reading, Failing
  <2>3. routing'.state = "timeout" /\ ~routing'.queued /\ ~routing'.flying
    BY <2>1, <2>2 DEF LinkTypeOK, RoutingType
  <2>4. host.age <= AskedBy + stall
    BY <2>2, RoutedInTime
  <2>5. Failing'
    BY <1>1, <2>3, <2>4 DEF Failing, AskedBy, WrittenBy, PoweredBy
  <2>6. Ours' /\ ~client'.requested /\ call'.kind = "routed"
    BY <1>1, <2>1, <2>2 DEF Ours, Empty
  <2>7. Routed'
    BY <2>3, <2>5, <2>6 DEF Routed
  <2>8. BoardEnd'
    BY <1>1, <1>4, <2>1, <2>3 DEF BoardEnd
  <2>9. QED
    BY <2>2, <2>7, <2>8 DEF Stage
<1>10. CASE RoutingProceeds /\ copro' = copro
  <2>1. /\ routing' = [routing EXCEPT !.state = "process", !.age = 0, !.poll = 0, !.data = "none"]
        /\ client' = client /\ power' = power /\ copro' = copro
        /\ routing.state = "transmit" /\ ~routing.flying
    BY <1>10 DEF RoutingProceeds
  <2>2. /\ Sent /\ Ours /\ ~client.requested /\ ~routing.queued /\ call.kind = "routed"
        /\ Transmitting
    BY <1>8, <2>1 DEF Routed, Powering, Processing, Reading, Failing
  <2>3. /\ routing'.state = "process" /\ ~routing'.queued /\ ~routing'.flying
        /\ routing'.age = 0
    BY <2>1, <2>2 DEF LinkTypeOK, RoutingType
  <2>4. host'.age <= WrittenBy + MaxStall + routing'.age /\ routing'.age <= ProcessTime
    BY <1>1, <2>1, <2>2, <2>3, RoutedInTime, LinkTimes
  <2>5. CoproKnows'
    BY <1>1, <2>1, <2>2 DEF Transmitting, CoproKnows
  <2>6. Processing'
    BY <2>3, <2>4, <2>5 DEF Processing, WrittenBy, PoweredBy
  <2>7. Ours' /\ ~client'.requested /\ call'.kind = "routed"
    BY <1>1, <2>1, <2>2 DEF Ours, Empty
  <2>8. Routed'
    BY <2>3, <2>6, <2>7 DEF Routed
  <2>9. BoardEnd'
    BY <1>1, <1>4, <2>1, <2>3 DEF BoardEnd
  <2>10. QED
    BY <2>2, <2>8, <2>9 DEF Stage
<1>11. ASSUME Polls
       PROVE  /\ Sent /\ Ours /\ ~client.requested /\ ~routing.queued /\ Processing
              /\ call.kind = "routed"
              /\ routing.state = "process" /\ ~routing.flying /\ power # "rising"
  BY <1>4, <1>8, <1>11 DEF Polls, Routed, Powering, Transmitting, Reading, Failing
<1>12. CASE RoutingPollsInVain /\ copro' = copro
  <2>1. /\ routing' = [routing EXCEPT !.poll = 0]
        /\ client' = client /\ power' = power /\ copro' = copro /\ Polls
    BY <1>12 DEF RoutingPollsInVain
  <2>2. /\ routing'.state = routing.state /\ routing'.queued = routing.queued
        /\ routing'.flying = routing.flying /\ routing'.age = routing.age
    BY <2>1 DEF LinkTypeOK, RoutingType
  <2>3. Processing'
    BY <1>1, <1>11, <2>1, <2>2 DEF Processing, CoproKnows, AskedBy, WrittenBy, PoweredBy
  <2>4. Ours' /\ ~client'.requested /\ call'.kind = "routed"
    BY <1>1, <1>11, <2>1 DEF Ours, Empty
  <2>5. Routed'
    BY <1>11, <2>1, <2>2, <2>3, <2>4 DEF Routed
  <2>6. BoardEnd'
    BY <1>1, <1>4, <1>11, <2>1, <2>2 DEF BoardEnd
  <2>7. QED
    BY <1>11, <2>1, <2>5, <2>6 DEF Stage
<1>13. CASE copro # "none" /\ \E late \in BOOLEAN : RoutingPollsAnswer(late)
  <2>1. PICK late \in BOOLEAN : RoutingPollsAnswer(late)
    BY <1>13
  <2>2. /\ routing' = [routing EXCEPT !.state = "response", !.poll = 0,
                                      !.data = IF late THEN "none" ELSE copro]
        /\ client' = client /\ power' = power /\ Polls
    BY <2>1 DEF RoutingPollsAnswer
  <2>3. /\ routing'.state = "response" /\ routing'.queued = routing.queued
        /\ routing'.flying = routing.flying
        /\ routing'.data = IF late THEN "none" ELSE copro
    BY <2>2 DEF LinkTypeOK, RoutingType
  <2>4. CoproKnows /\ host.age <= AskedBy + stall
    BY <1>11, <2>2, RoutedInTime DEF Processing
  <2>5. Reading'
    BY <1>1, <2>3, <2>4 DEF Reading, CoproKnows, AskedBy, WrittenBy, PoweredBy
  <2>6. Ours' /\ ~client'.requested /\ call'.kind = "routed"
    BY <1>1, <1>11, <2>2 DEF Ours, Empty
  <2>7. Routed'
    BY <1>11, <2>2, <2>3, <2>5, <2>6 DEF Routed
  <2>8. BoardEnd'
    BY <1>1, <1>4, <1>11, <2>2, <2>3 DEF BoardEnd
  <2>9. QED
    BY <1>11, <2>2, <2>7, <2>8 DEF Stage
<1>14. CASE \E left \in OnStack : RoutingResponds(left)
  <2>0. PICK left \in Owner : RoutingResponds(left)
    BY <1>14, OnStackTypes
  <2>1. /\ routing.state = "response" /\ routing.data # "none" /\ power' = power
        /\ routing' = [routing EXCEPT !.state = "finish", !.data = "none"]
    BY <2>0 DEF RoutingResponds
  <2>2. /\ Sent /\ Ours /\ ~client.requested /\ ~routing.queued /\ Reading
        /\ call.kind = "routed"
        /\ power # "rising" /\ ~routing.flying
    BY <1>4, <1>8, <2>1 DEF Routed, Powering, Transmitting, Processing, Failing
  <2>3. /\ executed = 1 \/ unheard
        /\ routing.data \in Owner /\ (routing.data = "earlier" => unheard)
        /\ host.age <= AskedBy + stall
    BY <2>1, <2>2 DEF Reading, LinkTypeOK, RoutingType, Owner
  <2>4. PICK n \in 0 .. AnswerSize :
          client' = Finished(Filled(client, [i \in 1 .. n |-> IF i = 1 THEN routing.data
                                                                       ELSE left]),
                             TRUE)
    BY <2>0 DEF RoutingResponds
  <2> DEFINE data == [i \in 1 .. n |-> IF i = 1 THEN routing.data ELSE left]
  <2>5. data \in Seq(Owner) /\ Fresh(data, 1)
    <3>1. n \in Nat
      BY ClientAssumption
    <3>2. data \in [1 .. n -> Owner]
      BY <2>3
    <3>3. data \in Seq(Owner) /\ Len(data) = n
      BY <3>1, <3>2, SeqDef
    <3>4. \A i \in 1 .. n : data[i] = "earlier" => i > 1 \/ unheard
      BY <2>3
    <3> HIDE DEF data
    <3>5. QED
      BY <2>2, <3>3, <3>4 DEF Fresh
  <2>6. client' = Finished(Filled(client, data), TRUE)
    BY <2>4
  <2> HIDE DEF data
  <2>7. client \in ClientType
    BY DEF LinkTypeOK
  <2>8. PICK x \in Seq(Owner) :
          /\ Filled(client, data) = [client EXCEPT !.answer = x]
          /\ Len(x) <= AnswerSize
          /\ Len(client.answer) = AnswerSize => Len(x) = AnswerSize
          /\ client.answer = <<>> /\ Fresh(data, 1) => Fresh(x, 1)
    BY <2>5, <2>7, FilledIs
  <2>9. /\ ~client'.pending /\ client'.own = "this" /\ client'.response
        /\ ~client'.requested /\ client'.answer = x /\ client'.state = client.state
    BY <2>2, <2>6, <2>7, <2>8 DEF Finished, ClientType, Ours
  <2>10. Len(x) < AnswerSize => Fresh(x, 1)
    <3>1. Len(x) \in Nat /\ AnswerSize \in Nat
      BY ClientAssumption
    <3>2. QED
      BY <1>5, <2>2, <2>5, <2>8, <3>1
  <2>11. routing'.state = "finish" /\ ~routing'.queued /\ ~routing'.flying
    BY <2>1, <2>2 DEF LinkTypeOK, RoutingType
  <2>12. Responding'
    BY <1>1, <2>2, <2>3, <2>9, <2>10, <2>11
       DEF Responding, NoRequest, Ours, Empty, Resting, Fresh, AskedBy, WrittenBy, PoweredBy
  <2>13. BoardEnd'
    BY <1>1, <1>4, <2>1, <2>2, <2>9, <2>11 DEF BoardEnd
  <2>14. QED
    BY <2>2, <2>12, <2>13 DEF Stage
<1>15. CASE RoutingFindsNothing
  <2>1. /\ routing.state = "response" /\ client' = client /\ power' = power
        /\ routing' = [routing EXCEPT !.state = "timeout", !.poll = 0]
    BY <1>15 DEF RoutingFindsNothing
  <2>2. /\ Sent /\ Ours /\ ~client.requested /\ ~routing.queued /\ Reading
        /\ call.kind = "routed"
        /\ power # "rising" /\ ~routing.flying
    BY <1>4, <1>8, <2>1 DEF Routed, Powering, Transmitting, Processing, Failing
  <2>3. routing'.state = "timeout" /\ ~routing'.queued /\ ~routing'.flying
    BY <2>1, <2>2 DEF LinkTypeOK, RoutingType
  <2>4. Failing'
    BY <1>1, <2>2, <2>3 DEF Failing, Reading, AskedBy, WrittenBy, PoweredBy
  <2>5. Routed'
    BY <1>1, <2>1, <2>2, <2>3, <2>4 DEF Routed, Ours, Empty
  <2>6. BoardEnd'
    BY <1>1, <1>4, <2>1, <2>2, <2>3 DEF BoardEnd
  <2>7. QED
    BY <2>2, <2>5, <2>6 DEF Stage
<1>16. CASE RoutingFails
  <2>1. /\ routing.state = "timeout" /\ power' = power
        /\ routing' = [routing EXCEPT !.state = "finish"]
        /\ client' = Finished(client, FALSE)
    BY <1>16 DEF RoutingFails
  <2>2. /\ Sent /\ Ours /\ ~client.requested /\ ~routing.queued /\ Failing
        /\ call.kind = "routed"
        /\ power # "rising" /\ ~routing.flying
    BY <1>4, <1>8, <2>1 DEF Routed, Powering, Transmitting, Processing, Reading
  <2>3. /\ ~client'.pending /\ client'.own = "this" /\ client'.response /\ ~client'.ok
        /\ ~client'.requested /\ client'.answer = client.answer /\ client'.state = client.state
    BY <2>1, <2>2 DEF Finished, LinkTypeOK, ClientType, Ours
  <2>4. routing'.state = "finish" /\ ~routing'.queued /\ ~routing'.flying
    BY <2>1, <2>2 DEF LinkTypeOK, RoutingType
  <2>5. Len(client.answer) < AnswerSize => Fresh(client.answer, 1)
    <3>1. Len(<<>>) = 0
      OBVIOUS
    <3>2. QED
      BY <1>5, <2>2, <3>1, ClientAssumption DEF Fresh
  <2>6. Responding'
    BY <1>1, <2>2, <2>3, <2>4, <2>5
       DEF Responding, NoRequest, Ours, Empty, Resting, Fresh, Failing, AskedBy, WrittenBy,
           PoweredBy
  <2>7. BoardEnd'
    BY <1>1, <1>4, <2>1, <2>2, <2>3, <2>4 DEF BoardEnd
  <2>8. QED
    BY <2>2, <2>6, <2>7 DEF Stage
<1>17. CASE RoutingFinishes /\ copro' = copro
  <2>1. /\ routing.state = "finish" /\ client' = client /\ power' = power /\ copro' = copro
        /\ routing' = [routing EXCEPT !.state = "idle"]
    BY <1>17 DEF RoutingFinishes
  <2>2. /\ routing'.state = "idle" /\ routing'.queued = routing.queued
        /\ routing'.flying = routing.flying
    BY <2>1 DEF LinkTypeOK, RoutingType
  <2>3. ~Routed
    BY <2>1 DEF Routed, Powering, Transmitting, Processing, Reading, Failing
  <2>4. /\ NoRequest' = NoRequest /\ Empty' = Empty /\ Ours' = Ours
        /\ Resting => Resting'
    BY <1>1, <2>1, <2>2 DEF NoRequest, Empty, Resting, Ours
  <2>5. Quiet => Quiet'
    BY <2>1, <2>4 DEF Quiet
  <2>6. (Lost => Lost') /\ (Heard => Heard')
    BY <1>1, <2>1, <2>4, <2>5 DEF Lost, Heard
  <2>7. (Requested => Requested') /\ (Queued => Queued')
    BY <1>1, <2>1, <2>2, <2>4 DEF Requested, Queued
  <2>8. Responding => Responding'
    BY <1>1, <2>1, <2>4 DEF Responding, Fresh, AskedBy, WrittenBy, PoweredBy
  <2>9. Replied => Replied'
    BY <1>1, <2>1, <2>4 DEF Replied, Fresh, CallTime
  <2>10. IF Sent THEN Stage' ELSE Quiet'
    BY <2>3, <2>5, <2>6, <2>7, <2>8, <2>9 DEF Stage, LinkInv
  <2>11. BoardEnd'
    BY <1>1, <1>4, <2>1, <2>2 DEF BoardEnd
  <2>12. QED
    BY <2>10, <2>11
<1>18. QED
  BY <1>6, <1>7, <1>9, <1>10, <1>12, <1>13, <1>14, <1>15, <1>16, <1>17 DEF RoutingTurn

\* The co-processor has heard the command, or has missed it.
LEMMA BusKeeps ==
  ASSUME LinkTypeOK, LinkInv, CoproInv, Bus
  PROVE  /\ LinkInv'
         /\ Sent /\ executed = 0 /\ executed' \in {0, 1}
<1>1. /\ UNCHANGED <<host, client, spi, power, fault, call, stall, commands>>
      /\ routing.flying
      /\ routing' = [routing EXCEPT !.flying = FALSE]
  BY DEF Bus, CoproHears, CoproMisses
<1>2. routing.state = "transmit" /\ power # "rising"
  BY <1>1 DEF LinkInv, BoardEnd
<1>3. Sent /\ Ours /\ ~client.requested /\ ~routing.queued /\ call.kind = "routed" /\ Transmitting
  <2>1. Sent /\ Routed
    BY <1>2, WhenRouted
  <2>2. QED
    BY <1>2, <2>1 DEF Routed, Powering, Processing, Reading, Failing
<1>4. routing.data = "this" /\ executed = 0
  BY <1>1, <1>3 DEF Transmitting
<1>5. /\ executed' \in {0, 1} /\ (unheard => unheard')
      /\ copro' = "this" => executed' = 1
      /\ copro' = "earlier" => unheard'
  BY <1>4 DEF Bus, CoproHears, CoproMisses, CoproInv
<1>6. host.age <= WrittenBy + stall
  <2>1. /\ host.age \in Nat /\ stall \in Nat /\ routing.age \in Nat
        /\ MaxStall \in Nat /\ PowerTime \in Nat /\ TransmitTime \in Nat
    BY LinkTimes DEF LinkTypeOK, HostType, RoutingType
  <2>2. QED
    BY <1>3, <2>1 DEF Transmitting, WrittenBy, PoweredBy
<1>7. /\ routing'.state = "transmit" /\ ~routing'.queued /\ ~routing'.flying
  BY <1>1, <1>2, <1>3 DEF LinkTypeOK, RoutingType
<1>8. Transmitting'
  BY <1>1, <1>5, <1>6, <1>7 DEF Transmitting, CoproKnows, WrittenBy, PoweredBy
<1>9. Ours' /\ ~client'.requested /\ call'.kind = "routed"
  BY <1>1, <1>3 DEF Ours, Empty
<1>10. Routed'
  BY <1>7, <1>8, <1>9 DEF Routed
<1>11. HostEnd' /\ Sent' /\ ~Asked'
  BY <1>1, <1>3 DEF LinkInv, HostEnd, Sent, Asked
<1>12. BoardEnd'
  BY <1>1, <1>2, <1>7 DEF LinkInv, BoardEnd
<1>13. Settled'
  BY <1>1, <1>3 DEF LinkInv, HostEnd, Settled
<1>14. QED
  BY <1>3, <1>4, <1>5, <1>10, <1>11, <1>12, <1>13 DEF LinkInv, Stage

LEMMA PowerKeeps ==
  ASSUME LinkTypeOK, LinkInv, PowerUp
  PROVE  LinkInv'
<1>1. /\ UNCHANGED <<host, client, spi, routing, copro, fault, call, executed, unheard,
                   stall, commands>>
      /\ power = "rising" /\ power' = "on"
  BY DEF PowerUp
<1>2. routing.state = "power_on"
  BY <1>1 DEF LinkInv, BoardEnd
<1>3. Sent /\ Ours /\ ~client.requested /\ ~routing.queued /\ call.kind = "routed" /\ Powering
  <2>1. Sent /\ Routed
    BY <1>2, WhenRouted
  <2>2. QED
    BY <1>2, <2>1 DEF Routed, Transmitting, Processing, Reading, Failing
<1>4. host.age <= PoweredBy + stall
  <2>1. /\ host.age \in Nat /\ stall \in Nat /\ routing.age \in Nat
        /\ MaxStall \in Nat /\ PowerTime \in Nat
    BY LinkTimes DEF LinkTypeOK, HostType, RoutingType
  <2>2. QED
    BY <1>1, <1>3, <2>1 DEF Powering, PoweredBy
<1>5. Powering'
  BY <1>1, <1>3, <1>4 DEF Powering, PoweredBy
<1>6. Routed'
  BY <1>1, <1>3, <1>5 DEF Routed, Ours, Empty
<1>7. HostEnd' /\ Sent' /\ ~Asked' /\ Settled' /\ executed' \in {0, 1}
  BY <1>1, <1>3 DEF LinkInv, HostEnd, Sent, Asked, Settled, Fresh
<1>8. BoardEnd'
  BY <1>1 DEF LinkInv, BoardEnd
<1>9. QED
  BY <1>6, <1>7, <1>8 DEF LinkInv, Stage

\* Time goes on: a wait ends in time, and where there is something to do the
\* main loop is held up for MaxStall ticks at most.
LEMMA TickKeeps ==
  ASSUME LinkTypeOK, LinkInv, LinkTick
  PROVE  LinkInv'
<1>1. /\ UNCHANGED <<spi, power, copro, fault, call, executed, unheard, commands>>
      /\ host' = HostTick(host) /\ client' = ClientTick(client)
      /\ routing' = RoutingTick(routing)
      /\ ~HostDue /\ (BoardDue => stall' = stall + 1)
      /\ power = "rising" => routing.age < PowerTime
  BY DEF LinkTick
<1>2. /\ host'.state = host.state /\ host'.pending = host.pending
      /\ host'.buffer = host.buffer /\ host'.request = host.request
      /\ host'.age <= host.age + 1
  BY <1>1 DEF HostTick, LinkTypeOK, HostType
<1>3. /\ client'.pending = client.pending /\ client'.requested = client.requested
      /\ client'.response = client.response /\ client'.own = client.own
      /\ client'.ok = client.ok /\ client'.buffer = client.buffer
      /\ client'.answer = client.answer /\ client'.state = client.state
      /\ client'.kind = client.kind
  BY <1>1 DEF ClientTick, LinkTypeOK, ClientType
<1>4. /\ routing'.state = routing.state /\ routing'.queued = routing.queued
      /\ routing'.flying = routing.flying /\ routing'.data = routing.data
      /\ routing'.age = IF routing.age < RoutingMaxAge THEN routing.age + 1 ELSE routing.age
  BY <1>1 DEF RoutingTick, LinkTypeOK, RoutingType
<1>5. HostEnd' /\ (Sent' <=> Sent) /\ (Asked' <=> Asked) /\ Settled'
  BY <1>1, <1>2 DEF LinkInv, HostEnd, Sent, Asked, Settled, Fresh
<1>6. BoardEnd'
  BY <1>1, <1>3, <1>4 DEF LinkInv, BoardEnd
<1>7. NoRequest' = NoRequest /\ Empty' = Empty /\ Ours' = Ours /\ Resting' = Resting
  BY <1>1, <1>3, <1>4 DEF NoRequest, Empty, Ours, Resting
<1>8. Quiet => Quiet'
  BY <1>3, <1>7 DEF Quiet
<1>9. SUFFICES ASSUME Sent, Stage PROVE Stage'
  BY <1>1, <1>5, <1>6, <1>8 DEF LinkInv
<1>10. Low
  BY <1>9 DEF LinkInv, HostEnd, Sent, Low
<1>11. /\ host.age \in Nat /\ stall \in Nat /\ stall <= MaxStall /\ routing.age \in Nat
       /\ PowerTime \in Nat /\ TransmitTime \in Nat /\ ProcessTime \in Nat
       /\ PollTime \in Nat /\ MaxStall \in Nat
  BY LinkTimes DEF LinkTypeOK, HostType, RoutingType
<1>12. PICK h \in Nat : h = host'.age /\ h <= host.age + 1
  <2>1. host'.age \in Nat
    BY <1>1, LinkTimes DEF HostTick, LinkTypeOK, HostType
  <2>2. QED
    BY <1>2, <2>1
<1>13. PICK a \in Nat : a = routing'.age /\ a >= routing.age
                        /\ \A t \in {PowerTime, TransmitTime, ProcessTime} :
                             routing.age < t => a = routing.age + 1
  <2>1. RoutingMaxAge \in Nat
    BY LinkTimes
  <2>2. \A t \in {PowerTime, TransmitTime, ProcessTime} : t \in Nat /\ t <= RoutingMaxAge
    BY LinkTimes
  <2>3. \A t \in {PowerTime, TransmitTime, ProcessTime} :
          routing.age < t => routing.age < RoutingMaxAge
    BY <1>11, <2>1, <2>2
  <2>4. routing'.age \in Nat /\ routing'.age >= routing.age
    BY <1>4, <1>11
  <2>5. QED
    BY <1>4, <2>3, <2>4
<1>14. CASE Lost
  BY <1>1, <1>8, <1>14 DEF Stage, Lost
<1>15. CASE Heard
  <2>1. BoardDue
    BY <1>10, <1>15 DEF BoardDue, ClientDue, Heard
  <2>2. h <= stall'
    BY <1>1, <1>11, <1>12, <1>15, <2>1 DEF Heard
  <2>3. QED
    BY <1>1, <1>3, <1>7, <1>12, <1>15, <2>2 DEF Stage, Heard
<1>16. CASE Requested \/ Queued
  <2>1. BoardDue
    BY <1>16 DEF BoardDue, Requested, Queued, RoutingDue, Starts
  <2>2. h <= stall'
    BY <1>1, <1>11, <1>12, <1>16, <2>1 DEF Requested, Queued
  <2>3. (Requested => Requested') /\ (Queued => Queued')
    BY <1>1, <1>3, <1>4, <1>7, <1>12, <2>2 DEF Requested, Queued
  <2>4. QED
    BY <1>16, <2>3 DEF Stage
<1>17. CASE Routed
  <2>1. SUFFICES Powering' \/ Transmitting' \/ Processing' \/ Reading' \/ Failing'
    BY <1>1, <1>3, <1>4, <1>7, <1>17 DEF Stage, Routed
  <2>2. CASE Powering
    <3>1. CASE power = "rising"
      <4>1. /\ host.age <= MaxStall + routing.age /\ routing.age < PowerTime /\ a = routing.age + 1
        BY <1>1, <1>13, <2>2, <3>1 DEF Powering
      <4>2. h <= MaxStall + a /\ a <= PowerTime
        BY <1>11, <1>12, <4>1
      <4>3. QED
        BY <1>1, <1>3, <1>4, <1>12, <1>13, <2>2, <3>1, <4>2 DEF Powering
    <3>2. CASE power = "on" /\ host.age <= PoweredBy + stall
      <4>1. BoardDue
        BY <2>2, <3>2 DEF BoardDue, RoutingDue, Powering
      <4>2. h <= PoweredBy + stall'
        BY <1>1, <1>11, <1>12, <3>2, <4>1 DEF PoweredBy
      <4>3. QED
        BY <1>1, <1>3, <1>4, <1>12, <2>2, <3>2, <4>2 DEF Powering, PoweredBy
    <3>3. QED
      BY <2>2, <3>1, <3>2 DEF Powering
  <2>3. CASE Transmitting
    <3>1. routing.flying \/ BoardDue
      BY <2>3 DEF BoardDue, RoutingDue, Transmitting
    <3>2. routing.age >= TransmitTime => BoardDue
      BY <2>3 DEF BoardDue, RoutingDue, RoutingLate, Transmitting
    <3>3. \/ /\ routing.flying
             /\ h <= PoweredBy + MaxStall + a /\ a <= TransmitTime
          \/ h <= WrittenBy + stall' /\ (~routing.flying \/ a >= TransmitTime)
      <4>1. CASE routing.flying /\ routing.age < TransmitTime
                 /\ host.age <= PoweredBy + MaxStall + routing.age
        BY <1>11, <1>12, <1>13, <4>1 DEF PoweredBy
      <4>2. CASE /\ routing.flying /\ routing.age = TransmitTime
                 /\ host.age <= PoweredBy + MaxStall + routing.age
        BY <1>1, <1>11, <1>12, <1>13, <3>2, <4>2 DEF PoweredBy, WrittenBy
      <4>3. CASE /\ host.age <= WrittenBy + stall
                 /\ ~routing.flying \/ routing.age >= TransmitTime
        BY <1>1, <1>11, <1>12, <1>13, <3>1, <3>2, <4>3 DEF PoweredBy, WrittenBy
      <4>4. QED
        BY <1>11, <2>3, <4>1, <4>2, <4>3 DEF Transmitting
    <3>4. QED
      BY <1>1, <1>4, <1>12, <1>13, <2>3, <3>3
         DEF Transmitting, CoproKnows, PoweredBy, WrittenBy
  <2>4. CASE Processing
    <3>1. routing.age >= ProcessTime => BoardDue
      BY <2>4 DEF BoardDue, RoutingDue, RoutingLate, Processing
    <3>2. \/ h <= WrittenBy + MaxStall + a /\ a <= ProcessTime
          \/ h <= AskedBy + stall' /\ a >= ProcessTime
      <4>1. CASE routing.age < ProcessTime /\ host.age <= WrittenBy + MaxStall + routing.age
        BY <1>11, <1>12, <1>13, <4>1 DEF PoweredBy, WrittenBy
      <4>2. CASE routing.age = ProcessTime /\ host.age <= WrittenBy + MaxStall + routing.age
        BY <1>1, <1>11, <1>12, <1>13, <3>1, <4>2 DEF PoweredBy, WrittenBy, AskedBy
      <4>3. CASE host.age <= AskedBy + stall /\ routing.age >= ProcessTime
        BY <1>1, <1>11, <1>12, <1>13, <3>1, <4>3 DEF PoweredBy, WrittenBy, AskedBy
      <4>4. QED
        BY <1>11, <2>4, <4>1, <4>2, <4>3 DEF Processing
    <3>3. QED
      BY <1>1, <1>4, <1>12, <1>13, <2>4, <3>2
         DEF Processing, CoproKnows, PoweredBy, WrittenBy, AskedBy
  <2>5. CASE Reading \/ Failing
    <3>1. BoardDue
      BY <2>5 DEF BoardDue, RoutingDue, Reading, Failing
    <3>2. h <= AskedBy + stall'
      BY <1>1, <1>11, <1>12, <2>5, <3>1 DEF Reading, Failing, PoweredBy, WrittenBy, AskedBy
    <3>3. QED
      BY <1>1, <1>4, <1>12, <2>5, <3>2 DEF Reading, Failing, PoweredBy, WrittenBy, AskedBy
  <2>6. QED
    BY <1>17, <2>2, <2>3, <2>4, <2>5 DEF Routed
<1>18. CASE Responding
  <2>1. BoardDue
    BY <1>10, <1>18 DEF BoardDue, ClientDue, Responding
  <2>2. h <= AskedBy + stall'
    BY <1>1, <1>11, <1>12, <1>18, <2>1 DEF Responding, PoweredBy, WrittenBy, AskedBy
  <2>3. QED
    BY <1>1, <1>3, <1>7, <1>12, <1>18, <2>2
       DEF Stage, Responding, Fresh, PoweredBy, WrittenBy, AskedBy
<1>19. CASE Replied
  <2>1. host.age < PollTime
    BY <1>1, <1>9, <1>11, <1>19 DEF HostDue, Sent, Replied
  <2>2. h <= CallTime
    BY <1>11, <1>12, <2>1 DEF CallTime
  <2>3. QED
    BY <1>1, <1>3, <1>7, <1>12, <1>19, <2>2 DEF Stage, Replied, Fresh, CallTime
<1>20. QED
  BY <1>9, <1>14, <1>15, <1>16, <1>17, <1>18, <1>19 DEF Stage

LEMMA LinkStarts ==
  LinkInit => LinkTypeOK /\ LinkInv /\ CoproInv
<1> SUFFICES ASSUME LinkInit PROVE LinkTypeOK /\ LinkInv /\ CoproInv
  OBVIOUS
<1>1. /\ <<>> \in Marks /\ <<>> \in Frame
      /\ <<>> \in UNION {[1 .. n -> Owner] : n \in 0 .. BufferSize}
      /\ <<>> \in UNION {[1 .. n -> [own : Owner, kind : Kind]] : n \in 0 .. 1}
  BY BufferTypes, NoFrame
<1>2. /\ 0 \in 0 .. HostMaxAge /\ 0 \in 0 .. SleepTime /\ 0 \in 0 .. RoutingMaxAge
      /\ 0 \in 0 .. CoproPollTime /\ 0 \in 0 .. MaxStall /\ 0 \in 0 .. MaxCommands
  BY LinkTimes, ClientAssumption, CoproAssumption, LinkAssumption
<1>3. host \in HostType /\ host.state = "sleep" /\ ~host.pending /\ host.buffer = <<>> /\ ~host.request
  BY <1>1, <1>2 DEF LinkInit, HostInit, HostType, Owner
<1>4. client \in ClientType /\ spi \in SpiType /\ client = ClientInit /\ spi = SpiInit
  BY <1>1, <1>2 DEF LinkInit, ClientInit, SpiInit, ClientType, SpiType, Owner, Kind
<1>5. routing \in RoutingType
  BY <1>2 DEF LinkInit, RoutingInit, RoutingType, Owner
<1>6. call \in [kind : Kind, outcome : Outcome, answer : Frame]
  BY <1>1 DEF LinkInit, Kind, Outcome
<1>7. LinkTypeOK
  BY <1>2, <1>3, <1>4, <1>5, <1>6 DEF LinkInit, LinkTypeOK, Owner
<1>8. ~Asked /\ ~Sent
  BY <1>3 DEF Asked, Sent
<1>9. HostEnd
  BY <1>3, <1>8 DEF HostEnd, LinkInit
<1>10. BoardEnd /\ Settled
  BY <1>4 DEF LinkInit, BoardEnd, Settled, ClientInit, SpiInit, RoutingInit
<1>11. Quiet
  BY <1>4 DEF LinkInit, Quiet, NoRequest, Empty, Resting, ClientInit, SpiInit, RoutingInit
<1>12. QED
  BY <1>7, <1>8, <1>9, <1>10, <1>11 DEF LinkInv, CoproInv, LinkInit

\* A step in which no variable changes keeps the invariant.
LEMMA StillKeeps ==
  ASSUME LinkTypeOK, LinkInv, UNCHANGED linkvars
  PROVE  LinkTypeOK' /\ LinkInv'
<1>1. UNCHANGED <<host, client, spi, routing, power, copro, fault, call, executed, unheard,
                stall, commands>>
  BY DEF linkvars, boardvars
<1>2. LinkTypeOK'
  BY <1>1 DEF LinkTypeOK
<1>3. HostEnd' /\ BoardEnd' /\ Settled' /\ Sent' = Sent /\ Asked' = Asked
  BY <1>1 DEF LinkInv, HostEnd, BoardEnd, Settled, Fresh, Sent, Asked
<1>4. (Quiet => Quiet') /\ (Stage => Stage')
  BY <1>1, StageStays
<1>5. QED
  BY <1>1, <1>2, <1>3, <1>4 DEF LinkInv

\* Only hearing the command gives the co-processor an answer to it.
LEMMA CoproKeeps ==
  ASSUME LinkTypeOK, LinkInv, CoproInv, [LinkNext]_linkvars
  PROVE  CoproInv'
<1>1. CASE \E k \in Kinds : IssueCommand(k)
  BY <1>1 DEF IssueCommand, Age, CoproInv
<1>2. CASE HostTurn
  BY <1>2 DEF HostTurn, NobodyHears, Outgoing, Incoming, TimesOut, boardvars, CoproInv
<1>3. CASE ControllerTurn
  BY <1>3, ControllerKeeps DEF ControllerTurn, CoproInv
<1>4. CASE RoutingTurn
  BY <1>4 DEF RoutingTurn, CoproInv
<1>5. CASE Bus
  <2>1. Transmitting /\ routing.flying
    <3>1. routing.flying /\ routing.state = "transmit"
      BY <1>5 DEF Bus, CoproHears, CoproMisses, LinkInv, BoardEnd
    <3>2. Routed
      BY <3>1, WhenRouted
    <3>3. QED
      BY <3>1, <3>2 DEF Routed, Powering, Processing, Reading, Failing
  <2>2. executed = 0
    BY <2>1 DEF Transmitting
  <2>3. QED
    BY <1>5, <2>2 DEF Bus, CoproHears, CoproMisses, CoproInv
<1>6. CASE ClientTurn \/ PowerUp \/ LinkTick \/ UNCHANGED linkvars
  BY <1>6 DEF ClientTurn, PowerUp, LinkTick, linkvars, boardvars, CoproInv
<1>7. QED
  BY <1>1, <1>2, <1>3, <1>4, <1>5, <1>6 DEF LinkNext

LEMMA LinkKeeps ==
  ASSUME LinkTypeOK, LinkInv, CoproInv, [LinkNext]_linkvars
  PROVE  LinkTypeOK' /\ LinkInv' /\ CoproInv'
<1> SUFFICES LinkTypeOK' /\ LinkInv'
  BY CoproKeeps
<1>1. CASE \E k \in Kinds : IssueCommand(k)
  BY <1>1, IssueTypes, IssueKeeps
<1>2. CASE HostTurn
  BY <1>2, HostTypes, HostKeeps
<1>3. CASE ClientTurn
  BY <1>3, ClientTypes, ClientKeeps
<1>4. CASE ControllerTurn
  BY <1>4, ControllerTypes, ControllerKeeps
<1>5. CASE RoutingTurn
  BY <1>5, RoutingTypes, RoutingKeeps
<1>6. CASE Bus
  BY <1>6, OtherTypes, BusKeeps
<1>7. CASE PowerUp
  BY <1>7, OtherTypes, PowerKeeps
<1>8. CASE LinkTick
  BY <1>8, OtherTypes, TickKeeps
<1>9. CASE UNCHANGED linkvars
  BY <1>9, StillKeeps
<1>10. QED
  BY <1>1, <1>2, <1>3, <1>4, <1>5, <1>6, <1>7, <1>8, <1>9 DEF LinkNext

-----------------------------------------------------------------------------

\* Wherever the command is that was sent, it is there for no longer than its
\* stage allows, and when none was sent the micro controller is quiet.
THEOREM CommandHasItsPlace == LinkSpec => [](LinkTypeOK /\ LinkInv /\ CoproInv)
<1>1. LinkInit => LinkTypeOK /\ LinkInv /\ CoproInv
  BY LinkStarts
<1>2. (LinkTypeOK /\ LinkInv /\ CoproInv) /\ [LinkNext]_linkvars
        => (LinkTypeOK /\ LinkInv /\ CoproInv)'
  BY LinkKeeps
<1>3. QED
  BY <1>1, <1>2, PTL DEF LinkSpec

\* The response the host takes is the one to its command.  Data of an earlier
\* command are in it only when a co-processor was asked: behind the data read
\* from it, or, when it missed the command, these too.
THEOREM AnswersAreOfThisCommand == LinkSpec => []AnswersBelong
<1>1. LinkTypeOK /\ LinkInv => AnswersBelong
  <2>1. SUFFICES ASSUME LinkTypeOK, Settled, call.outcome \in {"answered", "refused"}
                 PROVE  /\ Head(call.answer) = "this"
                        /\ \A i \in DOMAIN call.answer :
                             call.answer[i] = "earlier" =>
                               call.kind = "routed" /\ (i > 2 \/ unheard)
    BY DEF LinkInv, AnswersBelong, HasResponse
  <2>2. call.answer \in Seq(Owner)
    <3>1. AnswerSize + 1 \in Nat
      BY ClientAssumption
    <3>2. QED
      BY <2>1, <3>1, Bounded DEF LinkTypeOK, Frame
  <2>3. call.answer # <<>> /\ call.answer[1] = "this" /\ Fresh(call.answer, 2)
    BY <2>1 DEF Settled
  <2>4. Head(call.answer) = "this"
    BY <2>2, <2>3
  <2>5. DOMAIN call.answer = 1 .. Len(call.answer)
    BY <2>2
  <2>6. QED
    BY <2>3, <2>4, <2>5 DEF Fresh
<1>2. QED
  BY <1>1, CommandHasItsPlace, PTL

\* Nothing of a command is left on the micro controller when it has its
\* outcome, be that a timeout of the host: it cannot answer the next one.
THEOREM NothingStays == LinkSpec => []NothingLeftBehind
<1>1. LinkInv => NothingLeftBehind
  BY DEF LinkInv, HostEnd, Quiet, NoRequest, Empty, Resting, NothingLeftBehind
<1>2. QED
  BY <1>1, CommandHasItsPlace, PTL

\* Each step of the link is one that the remote call allows, or is hidden.
LEMMA LinkStepAllowed ==
  ASSUME LinkTypeOK, LinkInv, CoproInv, LinkInv', [LinkNext]_linkvars
  PROVE  [Remote!Next]_(Remote!vars)
<1>1. CASE \E k \in Kinds : IssueCommand(k)
  <2>1. Remote!Ask
    BY <1>1 DEF IssueCommand, Remote!Ask
  <2>2. QED
    BY <2>1 DEF Remote!Next
<1>2. CASE HostTurn
  <2>1. executed' = executed /\ unheard' = unheard
    BY <1>2 DEF HostTurn
  <2>2. CASE ((HostWakes \/ HostFinishes) /\ NobodyHears) \/ Outgoing
    <3>1. call' = call
      BY <2>2 DEF NobodyHears, Outgoing
    <3>2. QED
      BY <2>1, <3>1 DEF Remote!vars
  <2>3. CASE Incoming
    <3>1. /\ Sent /\ call'.outcome = IF spi.ok THEN "answered" ELSE "refused"
      BY <2>3 DEF Incoming, HostReceives, Sent, LinkTypeOK
    <3>2. call.outcome = "open"
      BY <3>1 DEF LinkInv, HostEnd
    <3>3. call'.outcome = "answered" => executed = 1 \/ unheard
      BY <2>1 DEF LinkInv, Settled
    <3>4. Remote!Answer \/ Remote!Refuse
      BY <2>1, <3>1, <3>2, <3>3 DEF Remote!Answer, Remote!Refuse
    <3>5. QED
      BY <3>4 DEF Remote!Next
  <2>4. CASE TimesOut
    <3>1. /\ Sent /\ call'.outcome = "given_up" /\ host.age >= WaitTime
      BY <2>4 DEF TimesOut, HostTimesOut, Sent, LinkTypeOK
    <3>2. call.outcome = "open" /\ Stage
      BY <3>1 DEF LinkInv, HostEnd
    <3>3. executed = 0
      <4>1. host.age \in Nat /\ WaitTime \in Nat
        BY LinkTimes DEF LinkTypeOK, HostType
      <4>2. Lost
        BY <3>1, <3>2, <4>1, AnswerInTime
      <4>3. QED
        BY <4>2 DEF Lost
    <3>4. Remote!GiveUp
      BY <2>1, <3>1, <3>2, <3>3 DEF Remote!GiveUp
    <3>5. QED
      BY <3>4 DEF Remote!Next
  <2>5. QED
    BY <1>2, <2>2, <2>3, <2>4 DEF HostTurn
<1>3. CASE ClientTurn \/ RoutingTurn \/ PowerUp \/ LinkTick \/ UNCHANGED linkvars
  <2>1. call' = call /\ executed' = executed /\ unheard' = unheard
    BY <1>3 DEF ClientTurn, RoutingTurn, PowerUp, LinkTick, linkvars
  <2>2. QED
    BY <2>1 DEF Remote!vars
<1>4. CASE ControllerTurn \/ (Bus /\ unheard' = unheard)
  <2>1. /\ call' = call /\ unheard' = unheard
        /\ executed' = executed \/ (Sent /\ executed = 0 /\ executed' = 1)
    BY <1>4, ControllerKeeps, BusKeeps DEF ControllerTurn, Bus
  <2>2. Sent => call.outcome = "open"
    BY DEF LinkInv, HostEnd
  <2>3. Remote!Execute \/ executed' = executed
    BY <2>1, <2>2 DEF Remote!Execute
  <2>4. QED
    BY <2>1, <2>3 DEF Remote!Next, Remote!vars
<1>5. CASE Bus /\ unheard' # unheard
  <2>1. /\ call' = call /\ unheard' = TRUE /\ executed' = executed
        /\ Sent /\ executed = 0
    BY <1>5, BusKeeps DEF Bus
  <2>2. Remote!Miss
    BY <2>1 DEF LinkInv, HostEnd, Remote!Miss
  <2>3. QED
    BY <2>2 DEF Remote!Next
<1>6. QED
  BY <1>1, <1>2, <1>3, <1>4, <1>5 DEF LinkNext

\* The link implements the remote call but for its liveness: a command is
\* executed once at most, while it is open; what was answered was executed, or
\* the co-processor missed it; what was given up was not and never will be.
THEOREM LinkIsARemoteCall == LinkSpec => Remote!Safety
<1>1. LinkInit => Remote!Init
  BY DEF LinkInit, Remote!Init
<1>2. (LinkTypeOK /\ LinkInv /\ CoproInv) /\ LinkInv' /\ [LinkNext]_linkvars
        => [Remote!Next]_(Remote!vars)
  BY LinkStepAllowed
<1>3. QED
  BY <1>1, <1>2, CommandHasItsPlace, PTL DEF LinkSpec, Remote!Safety

=============================================================================
