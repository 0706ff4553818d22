----------------------------- MODULE Ownership ------------------------------
(***************************************************************************)
(* Commands, and all that comes of them (responses, timeouts, bytes on     *)
(* their way), are told apart by whether they are of the command that was  *)
(* issued last.  The code has no such mark: a response carries no hint of  *)
(* its command.                                                            *)
(***************************************************************************)

Owner == {"none", "this", "earlier"}

\* What becomes of a mark when the next command is issued.
Age(o) == IF o = "this" THEN "earlier" ELSE o

=============================================================================
