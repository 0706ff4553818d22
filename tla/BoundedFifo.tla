---------------------------- MODULE BoundedFifo -----------------------------
(***************************************************************************)
(* What src/common/qeue_interface.h promises: a first-in first-out queue   *)
(* of at most Capacity objects that is modified only by the one client     *)
(* that has locked it ("The queue shall only be modified if it was locked  *)
(* successful").                                                           *)
(***************************************************************************)
EXTENDS Naturals, Sequences

CONSTANTS Client, Object, NoObject, NoClient, Capacity

VARIABLES
  items,    \* the queued objects, the oldest first
  holder,   \* the client that has locked the queue, or NoClient
  taken     \* the object each client took last

vars == <<items, holder, taken>>

Init ==
  /\ items = <<>>
  /\ holder = NoClient
  /\ taken = [c \in Client |-> NoObject]

Lock(c) ==
  /\ holder = NoClient
  /\ holder' = c
  /\ UNCHANGED <<items, taken>>

Unlock(c) ==
  /\ holder = c
  /\ holder' = NoClient
  /\ UNCHANGED <<items, taken>>

Put(c, o) ==
  /\ holder = c
  /\ Len(items) < Capacity
  /\ items' = Append(items, o)
  /\ UNCHANGED <<holder, taken>>

Take(c) ==
  /\ holder = c
  /\ items # <<>>
  /\ taken' = [taken EXCEPT ![c] = Head(items)]
  /\ items' = Tail(items)
  /\ UNCHANGED holder

Next ==
  \E c \in Client :
    \/ Lock(c)
    \/ Unlock(c)
    \/ Take(c)
    \/ \E o \in Object : Put(c, o)

Spec == Init /\ [][Next]_vars

=============================================================================
