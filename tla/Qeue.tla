-------------------------------- MODULE Qeue --------------------------------
(***************************************************************************)
(* One queue context shared by clients that run in one main loop, as those *)
(* of the LCD's line queue do: each takes the queue with mutex_get,        *)
(* changes it, and gives it back with mutex_release, now or in a later     *)
(* turn.  Nothing interrupts their calls, so a call is one step; between   *)
(* threads it is not (QeueRace, TracePipeline).                            *)
(***************************************************************************)
EXTENDS QeueInterface

CONSTANTS Client, NoClient

ASSUME ClientAssumption == NoClient \notin Client

VARIABLES
  qeue,        \* the QEUE_CONTEXT_TYPE
  locked,      \* locked[c]: mutex_get returned 1 to c and c has not released
  object_to    \* the object each client's deqeue was last handed

vars == <<qeue, locked, object_to>>

TypeOK ==
  /\ qeue \in Context
  /\ locked \in [Client -> BOOLEAN]
  /\ object_to \in [Client -> Object \cup {NoObject}]

Init ==
  /\ qeue = ContextInit
  /\ locked = [c \in Client |-> FALSE]
  /\ object_to = [c \in Client |-> NoObject]

-----------------------------------------------------------------------------

\* A client that is refused comes back in a later turn.
Get(c) ==
  /\ ~locked[c]
  /\ qeue' = MutexGet(qeue)
  /\ locked' = [locked EXCEPT ![c] = MutexGranted(qeue)]
  /\ UNCHANGED object_to

Put(c, o) ==
  /\ locked[c]
  /\ qeue' = Enqeue(qeue, o)
  /\ UNCHANGED <<locked, object_to>>

Take(c) ==
  /\ locked[c]
  /\ qeue' = Deqeue(qeue)
  /\ object_to' = IF IsEmpty(qeue) THEN object_to
                  ELSE [object_to EXCEPT ![c] = DeqeuedObject(qeue)]
  /\ UNCHANGED locked

GiveBack(c) ==
  /\ locked[c]
  /\ qeue' = MutexRelease(qeue)
  /\ locked' = [locked EXCEPT ![c] = FALSE]
  /\ UNCHANGED object_to

Next ==
  \E c \in Client :
    \/ Get(c)
    \/ \E o \in Object : Put(c, o)
    \/ Take(c)
    \/ GiveBack(c)

Spec == Init /\ [][Next]_vars

-----------------------------------------------------------------------------

\* The three counters never disagree about which slots hold objects, so no
\* object is overwritten before it was read and no slot is read twice
\* (enqeue and deqeue move one counter each and share the third).
CountersAgree == RingAgrees(qeue)

\* A queued object was written by some client: deqeue never copies a slot
\* that no enqeue filled.
OnlyWrittenSlotsAreRead ==
  \A i \in 1 .. qeue.element_counter : Contents(qeue)[i] \in Object

\* mutex_get answers 1 to one client of the main loop at a time, and while it has
\* done so the mutex is taken. Two threads can both get it: QeueRace!OneHolder.
MutualExclusion ==
  \A c \in Client : locked[c] =>
    /\ qeue.mutex.is_requested
    /\ \A d \in Client : locked[d] => d = c

\* "Releases the lock of a mutex": when the client that holds the queue calls
\* mutex_release, the queue is free again (qeue_interface.h:230).
ReleaseUnlocks ==
  [][\A c \in Client :
       locked[c] /\ ~locked'[c] => ~qeue'.mutex.is_requested]_vars

\* The queue implements the bounded first-in first-out queue of BoundedFifo.
Holder ==
  IF \E c \in Client : locked[c]
  THEN CHOOSE c \in Client : locked[c]
  ELSE NoClient

Fifo == INSTANCE BoundedFifo WITH
  items <- Contents(qeue), holder <- Holder, taken <- object_to,
  Capacity <- MaxSize

\* Objects leave the queue in the order they came in, each once, and only the
\* client that locked the queue puts or takes any.
ImplementsFifo == Fifo!Spec

=============================================================================
