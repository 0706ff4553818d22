----------------------------- MODULE QeueUsers ------------------------------
(***************************************************************************)
(* Who shares a queue and its mutex: the clients of one main loop, whose   *)
(* calls nothing interrupts (Qeue), or the threads of the trace tool,      *)
(* which interrupt each other anywhere (TracePipeline).  A program has one *)
(* or the other.                                                           *)
(***************************************************************************)
EXTENDS Qeue, TracePipeline

VARIABLE threaded   \* the program is the trace tool

usersvars == <<threaded, vars, pipevars>>

UsersInit == threaded \in BOOLEAN /\ Init /\ PipelineInit

ThreadRuns(A) == threaded /\ A /\ UNCHANGED <<threaded, vars>>

UsersNext ==
  \/ ~threaded /\ Next /\ UNCHANGED <<threaded, pipevars>>
  \/ ThreadRuns(PipelineNext)

\* The system runs every thread again and again, and no access blocks.
UsersSpec ==
  /\ UsersInit /\ [][UsersNext]_usersvars
  /\ WF_usersvars(ThreadRuns(Read))
  /\ WF_usersvars(ThreadRuns(Parse))
  /\ WF_usersvars(ThreadRuns(PrintStep))
=============================================================================
