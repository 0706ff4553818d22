----------------------------- MODULE LocalMutex -----------------------------
(***************************************************************************)
(* The mutex of src/common/local_mutex.c: a flag and a ticket number.  A   *)
(* request that finds the flag set returns MUTEX_INVALID_ID; one that      *)
(* finds it clear sets it and returns the ticket, which the owner has to   *)
(* present to mutex_release.  Every release moves on to the next ticket.   *)
(*                                                                         *)
(* The operators are the two functions seen as one step each; QeueRace     *)
(* takes mutex_request apart into its loads and stores.                    *)
(***************************************************************************)
EXTENDS Naturals

CONSTANT MutexIdLast        \* MUTEX_ID_LAST_VALUE, 0xFE in the code

ASSUME MutexIdAssumption == MutexIdLast \in Nat /\ MutexIdLast >= 1

MutexInvalidId == 0         \* MUTEX_INVALID_ID
MutexIdFirst == 1           \* MUTEX_ID_FIRST_VALUE

MutexId == MutexInvalidId .. MutexIdLast

Mutex == [id : MutexId, is_requested : BOOLEAN]

\* Static memory and qeue_interface_init: no ticket was handed out yet.
MutexInit == [id |-> MutexInvalidId, is_requested |-> FALSE]

\* The ticket the next successful request hands out.
NextTicket(m) == IF m.id = MutexInvalidId THEN MutexIdFirst ELSE m.id

\* mutex_request: the mutex after the call, and what the call returns.
Request(m) ==
  IF m.is_requested THEN m ELSE [id |-> NextTicket(m), is_requested |-> TRUE]

WrongRequestResult(m) == NextTicket(m)      \* variant: the flag is not looked at

RequestResult(m) == IF m.is_requested THEN MutexInvalidId ELSE NextTicket(m)

\* mutex_release: only the current ticket opens the mutex.
Release(m, ticket) ==
  IF m.is_requested /\ m.id = ticket
  THEN [id |-> IF m.id = MutexIdLast THEN MutexIdFirst ELSE m.id + 1,
        is_requested |-> FALSE]
  ELSE m

=============================================================================
