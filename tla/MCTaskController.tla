-------------------------- MODULE MCTaskController --------------------------
(***************************************************************************)
(* Two tasks: one that keeps its interval, like the CLI executer, and an   *)
(* eager one with a higher priority, like the LCD controller.              *)
(***************************************************************************)
EXTENDS TaskController

MCInterval == [t \in Task |-> IF t \in Eager THEN 1 ELSE 2]
MCPriority == [t \in Task |-> IF t \in Eager THEN 0 ELSE 2]

=============================================================================
