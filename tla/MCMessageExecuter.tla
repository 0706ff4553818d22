-------------------------- MODULE MCMessageExecuter -------------------------
(***************************************************************************)
(* Files with lines of every kind.  The times keep the order of the code:  *)
(* the executer waits for little more than one tick longer than the host.  *)
(***************************************************************************)
EXTENDS MessageExecuter

MCCommandFile ==
  [n \in {"remote", "local", "bad"} |->
     CASE n = "remote" -> "com"
       [] n = "local" -> "exe"
       [] OTHER -> "com without data"]

MCReportFile == <<"com", "exe without data", "other", "exe">>

=============================================================================
