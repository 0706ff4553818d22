----------------------------- MODULE RemoteCall -----------------------------
(***************************************************************************)
(* What the link promises to whoever issues a command on the Raspberry Pi: *)
(* the command has one outcome; it is executed at most once and not after  *)
(* its outcome; "answered" says that it was executed, unless who was to    *)
(* execute it missed it, "given_up" that it was not and never will be.     *)
(* A command that is "refused", the answer with an error, may have been    *)
(* executed: a co-processor that is too late.                              *)
(***************************************************************************)
EXTENDS Naturals

VARIABLES outcome, executed, unheard

vars == <<outcome, executed, unheard>>

Init == outcome = "none" /\ executed = 0 /\ unheard = FALSE

Ask ==
  /\ outcome # "open"
  /\ outcome' = "open" /\ executed' = 0 /\ unheard' = FALSE

Execute ==
  /\ outcome = "open" /\ executed = 0
  /\ executed' = 1
  /\ UNCHANGED <<outcome, unheard>>

\* Only a command that is carried on to another device can be missed.
Miss ==
  /\ outcome = "open" /\ executed = 0
  /\ unheard' = TRUE
  /\ UNCHANGED <<outcome, executed>>

Answer ==
  /\ outcome = "open" /\ (executed = 1 \/ unheard)
  /\ outcome' = "answered"
  /\ UNCHANGED <<executed, unheard>>

Refuse ==
  /\ outcome = "open"
  /\ outcome' = "refused"
  /\ UNCHANGED <<executed, unheard>>

GiveUp ==
  /\ outcome = "open" /\ executed = 0
  /\ outcome' = "given_up"
  /\ UNCHANGED <<executed, unheard>>

Next == Ask \/ Execute \/ Miss \/ Answer \/ Refuse \/ GiveUp

Safety == Init /\ [][Next]_vars

\* Every command comes to an outcome.
Spec == Safety /\ WF_vars(Answer \/ Refuse \/ GiveUp)

=============================================================================
