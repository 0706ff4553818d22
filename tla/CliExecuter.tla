---------------------------- MODULE CliExecuter -----------------------------
(***************************************************************************)
(* app_tasks/cli_executer_task.c: runs a program of the host system and    *)
(* answers with its output.  Whether the shell finds and starts the        *)
(* program is up to the system.  cli_executer_open_process waits for the   *)
(* program to end, without a look at its timeout argument; how long the    *)
(* main loop stands still meanwhile is seen by the module that extends     *)
(* this one.                                                               *)
(***************************************************************************)
EXTENDS Ownership

VARIABLE cli

CliType ==
  [ state : {"idle", "execute", "close", "close_on_fail"},
    received : BOOLEAN,      \* CLI_EXECUTER_STATUS_COMMAND_RECEIVED
    command : Owner,         \* cli_executer_pending_command
    response : Owner ]       \* cli_executer_pending_response

CliInit ==
  [state |-> "idle", received |-> FALSE, command |-> "none", response |-> "none"]

CliAged(c) == [c EXCEPT !.command = Age(@), !.response = Age(@)]

\* COMMAND_RECEIVED_SLOT
CliCommand(c) == [c EXCEPT !.command = "this", !.received = TRUE]

\* cli_executer_task_get_state
CliAwake == cli.state # "idle" \/ cli.received

CliTakes ==
  /\ cli.state = "idle" /\ cli.received
  /\ cli' = [cli EXCEPT !.state = "execute", !.received = FALSE]

\* The shell knows the program and it starts, or not.
CliOutcome == {"close", "close_on_fail"}

\* TASK_STATE_EXECUTE_COMMAND
CliExecutes ==
  /\ cli.state = "execute"
  /\ \E next \in CliOutcome :
       cli' = [cli EXCEPT !.state = next, !.response = cli.command]

CliCloses(from) ==
  /\ cli.state = from
  /\ cli' = [cli EXCEPT !.state = "idle"]

=============================================================================
