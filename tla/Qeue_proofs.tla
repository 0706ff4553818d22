---------------------------- MODULE Qeue_proofs -----------------------------
(***************************************************************************)
(* Proofs about the queue of src/common/qeue_interface.c for every queue   *)
(* size, every set of clients and objects and every number of tickets: of  *)
(* the clients of one main loop, whose calls are whole, and of the three   *)
(* threads of the trace tool, which interrupt each other inside them.      *)
(***************************************************************************)
EXTENDS QeueUsers, SequenceTheorems, FiniteSetTheorems, TLAPS

-----------------------------------------------------------------------------
(* Lemmas on the operators of LocalMutex and QeueInterface.                *)

\* Asking for the mutex and returning it keep its type.
LEMMA MutexTypes ==
  ASSUME NEW m \in Mutex, NEW ticket \in MutexId
  PROVE  /\ Request(m) \in Mutex
         /\ Release(m, ticket) \in Mutex
         /\ RequestResult(m) \in MutexId
BY MutexIdAssumption
   DEF Mutex, MutexId, Request, Release, RequestResult, NextTicket,
       MutexInvalidId, MutexIdFirst

\* A request is granted exactly when the mutex was free, and takes it.
LEMMA RequestGrants ==
  ASSUME NEW m \in Mutex
  PROVE  /\ RequestResult(m) # MutexInvalidId <=> ~m.is_requested
         /\ Request(m).is_requested
BY MutexIdAssumption
   DEF Mutex, MutexId, Request, RequestResult, NextTicket, MutexInvalidId,
       MutexIdFirst

\* A counter that advances stays a slot number.
LEMMA AdvanceType == ASSUME NEW s \in Slot PROVE Advance(s) \in Slot
BY MaxSizeAssumption DEF Slot, Advance

\* Every call of the interface keeps the type of the context.
LEMMA ContextTypes ==
  ASSUME NEW q \in Context
  PROVE  /\ MutexGet(q) \in Context
         /\ MutexRelease(q) \in Context
         /\ Deqeue(q) \in Context
         /\ \A o \in Object : Enqeue(q, o) \in Context
<1>1. q.mutex \in Mutex /\ q.mutex_id \in MutexId
  BY DEF Context
<1>2. MutexGet(q) \in Context
  BY <1>1, MutexTypes DEF Context, MutexGet
<1>3. MutexRelease(q) \in Context
  BY <1>1, MutexTypes DEF Context, MutexRelease
<1>4. Deqeue(q) \in Context
  <2>1. CASE IsEmpty(q)
    BY <2>1 DEF Deqeue
  <2>2. CASE ~IsEmpty(q)
    <3>1. Advance(q.read_counter) \in Slot
      BY AdvanceType DEF Context
    <3>2. q.element_counter - 1 \in 0 .. MaxSize
      BY <2>2, MaxSizeAssumption DEF Context, IsEmpty
    <3>3. QED
      BY <2>2, <3>1, <3>2 DEF Context, Deqeue
  <2>3. QED
    BY <2>1, <2>2
<1>5. ASSUME NEW o \in Object PROVE Enqeue(q, o) \in Context
  <2>1. CASE IsFull(q)
    BY <2>1 DEF Enqeue
  <2>2. CASE ~IsFull(q)
    <3>1. Advance(q.write_counter) \in Slot
      BY AdvanceType DEF Context
    <3>2. q.element_counter + 1 \in 0 .. MaxSize
      BY <2>2, MaxSizeAssumption DEF Context, IsFull
    <3>3. [q.memory EXCEPT ![q.write_counter] = o]
            \in [Slot -> Object \cup {NoObject}]
      BY DEF Context
    <3>4. QED
      BY <2>2, <3>1, <3>2, <3>3 DEF Context, Enqeue
  <2>3. QED
    BY <2>1, <2>2
<1>6. QED
  BY <1>2, <1>3, <1>4, <1>5

\* The initial context is a context.
LEMMA ContextInitType == ContextInit \in Context
BY MaxSizeAssumption, MutexIdAssumption
   DEF ContextInit, Context, Slot, MutexInit, Mutex, MutexId, MutexInvalidId

-----------------------------------------------------------------------------
(* Type correctness.                                                       *)

\* In every run of any number of clients the context keeps its shape: counters
\* stay inside the ring and the ticket inside 0 .. MutexIdLast.
THEOREM TypeCorrect == Spec => []TypeOK
<1>1. Init => TypeOK
  BY ContextInitType DEF Init, TypeOK
<1>2. TypeOK /\ [Next]_vars => TypeOK'
  <2>1. SUFFICES ASSUME TypeOK, [Next]_vars PROVE TypeOK'
    OBVIOUS
  <2>2. qeue \in Context
    BY <2>1 DEF TypeOK
  <2>3. ASSUME NEW c \in Client, Get(c) PROVE TypeOK'
    <3>1. qeue' \in Context
      BY <2>2, <2>3, ContextTypes DEF Get
    <3>2. locked' \in [Client -> BOOLEAN]
      BY <2>1, <2>3 DEF TypeOK, Get, MutexGranted
    <3>3. QED
      BY <2>1, <2>3, <3>1, <3>2 DEF TypeOK, Get
  <2>4. ASSUME NEW c \in Client, NEW o \in Object, Put(c, o) PROVE TypeOK'
    BY <2>1, <2>2, <2>4, ContextTypes DEF TypeOK, Put
  <2>5. ASSUME NEW c \in Client, Take(c) PROVE TypeOK'
    <3>1. qeue' \in Context
      BY <2>2, <2>5, ContextTypes DEF Take
    <3>2. DeqeuedObject(qeue) \in Object \cup {NoObject}
      BY <2>2 DEF Context, DeqeuedObject
    <3>3. object_to' \in [Client -> Object \cup {NoObject}]
      BY <2>1, <2>5, <3>2 DEF TypeOK, Take
    <3>4. QED
      BY <2>1, <2>5, <3>1, <3>3 DEF TypeOK, Take
  <2>6. ASSUME NEW c \in Client, GiveBack(c) PROVE TypeOK'
    BY <2>1, <2>2, <2>6, ContextTypes DEF TypeOK, GiveBack
  <2>7. CASE UNCHANGED vars
    BY <2>1, <2>7 DEF TypeOK, vars
  <2>8. QED
    BY <2>1, <2>3, <2>4, <2>5, <2>6, <2>7 DEF Next
<1>3. QED
  BY <1>1, <1>2, PTL DEF Spec

-----------------------------------------------------------------------------
(* Mutual exclusion.                                                       *)

\* The mutex is taken exactly while some client holds a granted ticket, and the
\* context's mutex_id is then that ticket unless a refused client overwrote it.
LEMMA RefusedWhileTaken ==
  ASSUME NEW q \in Context
  PROVE  MutexGranted(q) => ~q.mutex.is_requested /\ MutexGet(q).mutex.is_requested
BY RequestGrants DEF Context, MutexGranted, MutexGet

\* Of clients whose calls are whole mutex_get answers 1 to one at a time; the
\* invariant needs that only a release of the ticket holder opens the mutex.
\* Threads are no such clients.
LEMMA OneHolder == Spec => []MutualExclusion
<1>1. Init => MutualExclusion
  BY DEF Init, MutualExclusion
<1>2. TypeOK /\ MutualExclusion /\ [Next]_vars => MutualExclusion'
  <2>1. SUFFICES ASSUME TypeOK, MutualExclusion, [Next]_vars
                 PROVE  MutualExclusion'
    OBVIOUS
  <2>2. qeue \in Context /\ locked \in [Client -> BOOLEAN]
    BY <2>1 DEF TypeOK
  <2>3. ASSUME NEW c \in Client, Get(c) PROVE MutualExclusion'
    <3>1. CASE MutexGranted(qeue)
      <4>1. ~qeue.mutex.is_requested /\ qeue'.mutex.is_requested
        BY <2>2, <2>3, <3>1, RefusedWhileTaken DEF Get
      <4>2. \A d \in Client : ~locked[d]
        BY <2>1, <4>1 DEF MutualExclusion
      <4>3. \A d \in Client : locked'[d] => d = c
        BY <2>2, <2>3, <4>2 DEF Get
      <4>4. QED
        BY <4>1, <4>3 DEF MutualExclusion
    <3>2. CASE ~MutexGranted(qeue)
      <4>1. qeue'.mutex.is_requested = qeue.mutex.is_requested
        BY <2>2, <2>3, <3>2, RequestGrants
           DEF Get, MutexGet, MutexGranted, Context, Request
      <4>2. \A d \in Client : locked'[d] => locked[d]
        BY <2>2, <2>3, <3>2 DEF Get
      <4>3. QED
        BY <2>1, <4>1, <4>2 DEF MutualExclusion
    <3>3. QED
      BY <3>1, <3>2
  <2>4. ASSUME NEW c \in Client, NEW o \in Object, Put(c, o)
        PROVE  MutualExclusion'
    <3>1. qeue'.mutex = qeue.mutex /\ locked' = locked
      BY <2>2, <2>4 DEF Put, Enqeue, Context
    <3>2. QED
      BY <2>1, <3>1 DEF MutualExclusion
  <2>5. ASSUME NEW c \in Client, Take(c) PROVE MutualExclusion'
    <3>1. qeue'.mutex = qeue.mutex /\ locked' = locked
      BY <2>2, <2>5 DEF Take, Deqeue, Context
    <3>2. QED
      BY <2>1, <3>1 DEF MutualExclusion
  <2>6. ASSUME NEW c \in Client, GiveBack(c) PROVE MutualExclusion'
    <3>1. \A d \in Client : ~locked'[d]
      BY <2>1, <2>2, <2>6 DEF GiveBack, MutualExclusion
    <3>2. QED
      BY <3>1 DEF MutualExclusion
  <2>7. CASE UNCHANGED vars
    BY <2>1, <2>7 DEF MutualExclusion, vars
  <2>8. QED
    BY <2>1, <2>3, <2>4, <2>5, <2>6, <2>7 DEF Next
<1>3. QED
  BY <1>1, <1>2, TypeCorrect, PTL DEF Spec

-----------------------------------------------------------------------------
(* The ring of slots as a sequence.                                        *)

Cell == Object \cup {NoObject}

\* The contents are a sequence of element_counter cells.
LEMMA ContentsType ==
  ASSUME NEW q \in Context
  PROVE  /\ q.element_counter \in Nat
         /\ \A i \in 1 .. q.element_counter : SlotAt(q, i) \in Slot
         /\ Contents(q) \in Seq(Cell)
         /\ Len(Contents(q)) = q.element_counter
         /\ \A i \in 1 .. q.element_counter :
              Contents(q)[i] = q.memory[SlotAt(q, i)]
<1>1. q.element_counter \in 0 .. MaxSize /\ q.read_counter \in Slot
  BY DEF Context
<1>2. \A i \in 1 .. q.element_counter : SlotAt(q, i) \in Slot
  BY <1>1, MaxSizeAssumption DEF Slot, SlotAt
<1>3. \A i \in 1 .. q.element_counter : q.memory[SlotAt(q, i)] \in Cell
  BY <1>2 DEF Context, Cell
<1>4. Contents(q) \in [1 .. q.element_counter -> Cell]
  BY <1>3 DEF Contents
<1>5. q.element_counter \in Nat
  BY <1>1, MaxSizeAssumption
<1>6. Contents(q) \in Seq(Cell) /\ Len(Contents(q)) = q.element_counter
  BY <1>4, <1>5
<1>7. QED
  BY <1>2, <1>5, <1>6 DEF Contents

\* With the counters in agreement the write position is the slot behind the
\* youngest object, and no queued object lies there unless the queue is full.
LEMMA WritePosition ==
  ASSUME NEW q \in Context, RingAgrees(q), ~IsFull(q)
  PROVE  /\ SlotAt(q, q.element_counter + 1) = q.write_counter
         /\ \A i \in 1 .. q.element_counter : SlotAt(q, i) # q.write_counter
<1>1. /\ q.element_counter \in 0 .. MaxSize /\ q.element_counter # MaxSize
      /\ q.read_counter \in 0 .. MaxSize - 1
      /\ q.write_counter \in 0 .. MaxSize - 1
      /\ MaxSize \in 1 .. 255
  BY MaxSizeAssumption DEF Context, Slot, IsFull
<1>2. SlotAt(q, q.element_counter + 1) = q.write_counter
  BY <1>1 DEF RingAgrees, SlotAt
<1>3. ASSUME NEW i \in 1 .. q.element_counter
      PROVE  SlotAt(q, i) # q.write_counter
  <2>1. CASE q.read_counter + i <= MaxSize
    <3>1. SlotAt(q, i) = q.read_counter + i - 1
      BY <2>1 DEF SlotAt
    <3>2. QED
      BY <1>1, <2>1, <3>1 DEF RingAgrees
  <2>2. CASE ~(q.read_counter + i <= MaxSize)
    <3>1. SlotAt(q, i) = q.read_counter + i - 1 - MaxSize
      BY <2>2 DEF SlotAt
    <3>2. QED
      BY <1>1, <2>2, <3>1 DEF RingAgrees
  <2>3. QED
    BY <2>1, <2>2
<1>4. QED
  BY <1>2, <1>3

\* enqeue appends the object and keeps the counters in agreement.
LEMMA EnqeueAppends ==
  ASSUME NEW q \in Context, RingAgrees(q), ~IsFull(q), NEW o \in Object
  PROVE  /\ RingAgrees(Enqeue(q, o))
         /\ Contents(Enqeue(q, o)) = Append(Contents(q), o)
<1> DEFINE r == Enqeue(q, o)
<1> DEFINE n == q.element_counter
<1>1. /\ r \in Context
      /\ r.read_counter = q.read_counter
      /\ r.write_counter = Advance(q.write_counter)
      /\ r.element_counter = n + 1
      /\ r.memory = [q.memory EXCEPT ![q.write_counter] = o]
  BY ContextTypes DEF Context, Enqeue
<1>2. /\ n \in 0 .. MaxSize - 1
      /\ q.read_counter \in 0 .. MaxSize - 1
      /\ q.write_counter \in 0 .. MaxSize - 1
      /\ MaxSize \in 1 .. 255
  BY MaxSizeAssumption DEF Context, Slot, IsFull
<1>3. RingAgrees(r)
  BY <1>1, <1>2 DEF RingAgrees, Advance
<1>4. \A i \in 1 .. n + 1 : SlotAt(r, i) = SlotAt(q, i)
  BY <1>1 DEF SlotAt
<1>5. /\ Contents(q) \in Seq(Cell) /\ Len(Contents(q)) = n
      /\ \A i \in 1 .. n : /\ Contents(q)[i] = q.memory[SlotAt(q, i)]
                           /\ SlotAt(q, i) \in Slot
  BY ContentsType
<1>6. /\ Contents(r) \in Seq(Cell) /\ Len(Contents(r)) = n + 1
      /\ \A i \in 1 .. n + 1 : Contents(r)[i] = r.memory[SlotAt(r, i)]
  BY <1>1, ContentsType
<1>7. \A i \in 1 .. n : Contents(r)[i] = Contents(q)[i]
  <2>1. SUFFICES ASSUME NEW i \in 1 .. n
                 PROVE  Contents(r)[i] = Contents(q)[i]
    OBVIOUS
  <2>2. Contents(r)[i] = r.memory[SlotAt(q, i)]
    BY <1>2, <1>4, <1>6
  <2>3. SlotAt(q, i) # q.write_counter
    BY WritePosition
  <2>4. r.memory[SlotAt(q, i)] = q.memory[SlotAt(q, i)]
    BY <1>1, <1>5, <2>3 DEF Context
  <2>5. QED
    BY <1>5, <2>2, <2>4
<1>8. Contents(r)[n + 1] = o
  <2>1. SlotAt(r, n + 1) = q.write_counter
    BY <1>2, <1>4, WritePosition
  <2>2. r.memory[q.write_counter] = o
    BY <1>1 DEF Context
  <2>3. QED
    BY <1>2, <1>6, <2>1, <2>2
<1>9. Contents(r) = Append(Contents(q), o)
  <2>1. /\ Append(Contents(q), o) \in Seq(Cell)
        /\ Len(Append(Contents(q), o)) = n + 1
        /\ \A i \in 1 .. n : Append(Contents(q), o)[i] = Contents(q)[i]
        /\ Append(Contents(q), o)[n + 1] = o
    BY <1>2, <1>5, AppendProperties DEF Cell
  <2>2. \A i \in 1 .. n + 1 : Contents(r)[i] = Append(Contents(q), o)[i]
    BY <1>2, <1>7, <1>8, <2>1
  <2> HIDE DEF r
  <2>3. QED
    BY <1>2, <1>6, <2>1, <2>2, SeqEqual
<1>10. QED
  BY <1>3, <1>9

\* deqeue hands out the oldest object and removes it.
LEMMA DeqeueTails ==
  ASSUME NEW q \in Context, RingAgrees(q), ~IsEmpty(q)
  PROVE  /\ RingAgrees(Deqeue(q))
         /\ Contents(q) # <<>>
         /\ Contents(Deqeue(q)) = Tail(Contents(q))
         /\ DeqeuedObject(q) = Head(Contents(q))
<1> DEFINE r == Deqeue(q)
<1> DEFINE n == q.element_counter
<1>1. /\ r \in Context
      /\ r.read_counter = Advance(q.read_counter)
      /\ r.write_counter = q.write_counter
      /\ r.element_counter = n - 1
      /\ r.memory = q.memory
  BY ContextTypes DEF Context, Deqeue
<1>2. /\ n \in 1 .. MaxSize
      /\ q.read_counter \in 0 .. MaxSize - 1
      /\ q.write_counter \in 0 .. MaxSize - 1
      /\ MaxSize \in 1 .. 255
  BY MaxSizeAssumption DEF Context, Slot, IsEmpty
<1>3. RingAgrees(r)
  BY <1>1, <1>2 DEF RingAgrees, Advance
<1>4. \A i \in 1 .. n - 1 : SlotAt(r, i) = SlotAt(q, i + 1)
  BY <1>1, <1>2 DEF SlotAt, Advance
<1>5. /\ Contents(q) \in Seq(Cell) /\ Len(Contents(q)) = n
      /\ \A i \in 1 .. n : Contents(q)[i] = q.memory[SlotAt(q, i)]
  BY ContentsType
<1>6. /\ Contents(r) \in Seq(Cell) /\ Len(Contents(r)) = n - 1
      /\ \A i \in 1 .. n - 1 : Contents(r)[i] = r.memory[SlotAt(r, i)]
  BY <1>1, ContentsType
<1>7. Contents(q) # <<>>
  BY <1>2, <1>5
<1>8. DeqeuedObject(q) = Head(Contents(q))
  <2>1. SlotAt(q, 1) = q.read_counter
    BY <1>2 DEF SlotAt
  <2>2. Head(Contents(q)) = Contents(q)[1]
    BY <1>5, <1>7
  <2>3. QED
    BY <1>2, <1>5, <2>1, <2>2 DEF DeqeuedObject
<1>9. Contents(r) = Tail(Contents(q))
  <2>1. /\ Tail(Contents(q)) \in Seq(Cell)
        /\ Len(Tail(Contents(q))) = n - 1
        /\ \A i \in 1 .. n - 1 : Tail(Contents(q))[i] = Contents(q)[i + 1]
    BY <1>5, <1>7, HeadTailProperties
  <2>2. \A i \in 1 .. n - 1 : Contents(r)[i] = Tail(Contents(q))[i]
    <3>1. SUFFICES ASSUME NEW i \in 1 .. n - 1
                   PROVE  Contents(r)[i] = Tail(Contents(q))[i]
      OBVIOUS
    <3>2. i + 1 \in 1 .. n
      BY <1>2
    <3>3. Contents(q)[i + 1] = q.memory[SlotAt(q, i + 1)]
      BY <1>5, <3>2
    <3>4. Contents(r)[i] = q.memory[SlotAt(q, i + 1)]
      BY <1>1, <1>4, <1>6
    <3>5. QED
      BY <2>1, <3>3, <3>4
  <2> HIDE DEF r
  <2>3. QED
    BY <1>2, <1>6, <2>1, <2>2, SeqEqual
<1>10. QED
  BY <1>3, <1>7, <1>8, <1>9

-----------------------------------------------------------------------------
(* The counters and the slots.                                             *)

RingInv == CountersAgree /\ OnlyWrittenSlotsAreRead

\* Taking and returning the mutex leave the ring alone.
LEMMA MutexLeavesRing ==
  ASSUME NEW q \in Context, NEW r \in Context,
         r.memory = q.memory, r.read_counter = q.read_counter,
         r.write_counter = q.write_counter,
         r.element_counter = q.element_counter
  PROVE  /\ RingAgrees(r) <=> RingAgrees(q)
         /\ Contents(r) = Contents(q)
BY DEF RingAgrees, Contents, SlotAt

LEMMA GetAndReleaseLeaveRing ==
  ASSUME NEW q \in Context
  PROVE  /\ RingAgrees(MutexGet(q)) <=> RingAgrees(q)
         /\ Contents(MutexGet(q)) = Contents(q)
         /\ MutexGet(q).element_counter = q.element_counter
         /\ RingAgrees(MutexRelease(q)) <=> RingAgrees(q)
         /\ Contents(MutexRelease(q)) = Contents(q)
         /\ MutexRelease(q).element_counter = q.element_counter
<1>1. /\ MutexGet(q) \in Context
      /\ MutexGet(q).memory = q.memory
      /\ MutexGet(q).read_counter = q.read_counter
      /\ MutexGet(q).write_counter = q.write_counter
      /\ MutexGet(q).element_counter = q.element_counter
  BY ContextTypes DEF MutexGet, Context
<1>2. /\ MutexRelease(q) \in Context
      /\ MutexRelease(q).memory = q.memory
      /\ MutexRelease(q).read_counter = q.read_counter
      /\ MutexRelease(q).write_counter = q.write_counter
      /\ MutexRelease(q).element_counter = q.element_counter
  BY ContextTypes DEF MutexRelease, Context
<1>3. QED
  BY <1>1, <1>2, MutexLeavesRing

\* One step of one client keeps the counters in agreement and every queued
\* slot written.
LEMMA RingStep ==
  ASSUME TypeOK, RingInv, [Next]_vars
  PROVE  RingInv'
<1>1. qeue \in Context
  BY DEF TypeOK
<1>2. RingAgrees(qeue)
  BY DEF RingInv, CountersAgree
<1>3. ASSUME NEW c \in Client, Get(c) PROVE RingInv'
  BY <1>1, <1>3, GetAndReleaseLeaveRing
     DEF RingInv, CountersAgree, OnlyWrittenSlotsAreRead, Get
<1>4. ASSUME NEW c \in Client, NEW o \in Object, Put(c, o) PROVE RingInv'
  <2>1. CASE IsFull(qeue)
    BY <1>4, <2>1
       DEF RingInv, CountersAgree, OnlyWrittenSlotsAreRead, Put, Enqeue
  <2>2. CASE ~IsFull(qeue)
    <3> DEFINE n == qeue.element_counter
    <3>1. /\ RingAgrees(qeue')
          /\ Contents(qeue') = Append(Contents(qeue), o)
      BY <1>1, <1>2, <1>4, <2>2, EnqeueAppends DEF Put
    <3>2. n \in Nat /\ qeue'.element_counter = n + 1
      BY <1>1, <1>4, <2>2, ContentsType DEF Put, Enqeue, Context
    <3>3. /\ Contents(qeue) \in Seq(Cell)
          /\ Len(Contents(qeue)) = n
      BY <1>1, ContentsType
    <3>4. \A i \in 1 .. n + 1 :
            Contents(qeue')[i] = IF i = n + 1 THEN o ELSE Contents(qeue)[i]
      BY <3>1, <3>2, <3>3, AppendProperties DEF Cell
    <3>5. \A i \in 1 .. n + 1 : Contents(qeue')[i] \in Object
      BY <3>2, <3>4 DEF RingInv, OnlyWrittenSlotsAreRead
    <3>6. QED
      BY <3>1, <3>2, <3>5 DEF RingInv, CountersAgree, OnlyWrittenSlotsAreRead
  <2>3. QED
    BY <2>1, <2>2
<1>5. ASSUME NEW c \in Client, Take(c) PROVE RingInv'
  <2>1. CASE IsEmpty(qeue)
    BY <1>5, <2>1
       DEF RingInv, CountersAgree, OnlyWrittenSlotsAreRead, Take, Deqeue
  <2>2. CASE ~IsEmpty(qeue)
    <3> DEFINE n == qeue.element_counter
    <3>1. /\ RingAgrees(qeue')
          /\ Contents(qeue) # <<>>
          /\ Contents(qeue') = Tail(Contents(qeue))
      BY <1>1, <1>2, <1>5, <2>2, DeqeueTails DEF Take
    <3>2. n \in Nat /\ qeue'.element_counter = n - 1
      BY <1>1, <1>5, <2>2, ContentsType DEF Take, Deqeue, Context
    <3>3. /\ Contents(qeue) \in Seq(Cell)
          /\ Len(Contents(qeue)) = n
      BY <1>1, ContentsType
    <3>4. \A i \in 1 .. n - 1 : Contents(qeue')[i] = Contents(qeue)[i + 1]
      BY <3>1, <3>2, <3>3, HeadTailProperties
    <3>5. \A i \in 1 .. n - 1 : Contents(qeue')[i] \in Object
      BY <3>2, <3>4 DEF RingInv, OnlyWrittenSlotsAreRead
    <3>6. QED
      BY <3>1, <3>2, <3>5 DEF RingInv, CountersAgree, OnlyWrittenSlotsAreRead
  <2>3. QED
    BY <2>1, <2>2
<1>6. ASSUME NEW c \in Client, GiveBack(c) PROVE RingInv'
  BY <1>1, <1>6, GetAndReleaseLeaveRing
     DEF RingInv, CountersAgree, OnlyWrittenSlotsAreRead, GiveBack
<1>7. CASE UNCHANGED vars
  BY <1>7 DEF RingInv, CountersAgree, OnlyWrittenSlotsAreRead, vars
<1>8. QED
  BY <1>3, <1>4, <1>5, <1>6, <1>7 DEF Next

\* The freshly built queue is empty, so both statements hold of it.
LEMMA RingStart == Init => RingInv
BY MaxSizeAssumption
   DEF Init, RingInv, CountersAgree, OnlyWrittenSlotsAreRead, ContextInit,
       RingAgrees

\* The read position, the write position and the number of elements always
\* describe the same run of slots.
THEOREM CountersNeverDisagree == Spec => []CountersAgree
<1>1. RingInv => CountersAgree
  BY DEF RingInv
<1>2. QED
  BY <1>1, RingStart, RingStep, TypeCorrect, PTL DEF Spec

\* deqeue never copies a slot that no enqeue has filled.
THEOREM OnlyWrittenSlots == Spec => []OnlyWrittenSlotsAreRead
<1>1. RingInv => OnlyWrittenSlotsAreRead
  BY DEF RingInv
<1>2. QED
  BY <1>1, RingStart, RingStep, TypeCorrect, PTL DEF Spec

-----------------------------------------------------------------------------
(* The queue implements BoundedFifo.                                       *)

\* The refinement mapping is the identity on what the clients were handed,
\* Contents for the items and the one client with a granted ticket for holder.
LEMMA HolderIs ==
  ASSUME MutualExclusion, NEW c \in Client, locked[c]
  PROVE  Holder = c
BY DEF MutualExclusion, Holder

LEMMA HolderNobody ==
  ASSUME \A c \in Client : ~locked[c]
  PROVE  Holder = NoClient
BY DEF Holder

LEMMA FifoStart == Init => Fifo!Init
<1>1. SUFFICES ASSUME Init PROVE Fifo!Init
  OBVIOUS
<1>2. qeue \in Context /\ qeue.element_counter = 0
  BY <1>1, ContextInitType DEF Init, ContextInit
<1>3. Contents(qeue) = <<>>
  BY <1>2, ContentsType
<1>4. Holder = NoClient
  BY <1>1, HolderNobody DEF Init
<1>5. QED
  BY <1>1, <1>3, <1>4 DEF Init, Fifo!Init

\* Every call is a step of BoundedFifo or changes nothing it can see: a
\* refused mutex_get, enqeue into a full queue, deqeue from an empty one.
LEMMA FifoStep ==
  ASSUME TypeOK, RingInv, MutualExclusion, MutualExclusion', [Next]_vars
  PROVE  [Fifo!Next]_(Fifo!vars)
<1>1. qeue \in Context /\ locked \in [Client -> BOOLEAN]
  BY DEF TypeOK
<1>2. RingAgrees(qeue)
  BY DEF RingInv, CountersAgree
<1>3. ASSUME NEW c \in Client, Get(c) PROVE [Fifo!Next]_(Fifo!vars)
  <2>1. Contents(qeue') = Contents(qeue) /\ object_to' = object_to
    BY <1>1, <1>3, GetAndReleaseLeaveRing DEF Get
  <2>2. CASE MutexGranted(qeue)
    <3>1. \A d \in Client : ~locked[d]
      BY <1>1, <2>2, RefusedWhileTaken DEF MutualExclusion
    <3>2. Holder = NoClient
      BY <3>1, HolderNobody
    <3>3. locked'[c]
      BY <1>1, <1>3, <2>2 DEF Get
    <3>4. Holder' = c
      BY <3>3 DEF MutualExclusion, Holder
    <3>5. Fifo!Lock(c)
      BY <2>1, <3>2, <3>4 DEF Fifo!Lock
    <3>6. QED
      BY <3>5 DEF Fifo!Next
  <2>3. CASE ~MutexGranted(qeue)
    <3>1. locked' = locked
      BY <1>1, <1>3, <2>3 DEF Get, MutexGranted
    <3>2. Holder' = Holder
      BY <3>1 DEF Holder
    <3>3. QED
      BY <2>1, <3>2 DEF Fifo!vars
  <2>4. QED
    BY <2>2, <2>3
<1>4. ASSUME NEW c \in Client, NEW o \in Object, Put(c, o)
      PROVE  [Fifo!Next]_(Fifo!vars)
  <2>1. Holder' = Holder /\ Holder = c /\ object_to' = object_to
    BY <1>4, HolderIs DEF Put, Holder
  <2>2. CASE IsFull(qeue)
    <3>1. Contents(qeue') = Contents(qeue)
      BY <1>4, <2>2 DEF Put, Enqeue
    <3>2. QED
      BY <2>1, <3>1 DEF Fifo!vars
  <2>3. CASE ~IsFull(qeue)
    <3>1. Contents(qeue') = Append(Contents(qeue), o)
      BY <1>1, <1>2, <1>4, <2>3, EnqeueAppends DEF Put
    <3>2. Len(Contents(qeue)) < MaxSize
      BY <1>1, <2>3, ContentsType, MaxSizeAssumption DEF Context, IsFull
    <3>3. Fifo!Put(c, o)
      BY <2>1, <3>1, <3>2 DEF Fifo!Put
    <3>4. QED
      BY <3>3 DEF Fifo!Next
  <2>4. QED
    BY <2>2, <2>3
<1>5. ASSUME NEW c \in Client, Take(c) PROVE [Fifo!Next]_(Fifo!vars)
  <2>1. Holder' = Holder /\ Holder = c
    BY <1>5, HolderIs DEF Take, Holder
  <2>2. CASE IsEmpty(qeue)
    <3>1. Contents(qeue') = Contents(qeue) /\ object_to' = object_to
      BY <1>5, <2>2 DEF Take, Deqeue
    <3>2. QED
      BY <2>1, <3>1 DEF Fifo!vars
  <2>3. CASE ~IsEmpty(qeue)
    <3>1. /\ Contents(qeue) # <<>>
          /\ Contents(qeue') = Tail(Contents(qeue))
          /\ DeqeuedObject(qeue) = Head(Contents(qeue))
      BY <1>1, <1>2, <1>5, <2>3, DeqeueTails DEF Take
    <3>2. object_to' = [object_to EXCEPT ![c] = Head(Contents(qeue))]
      BY <1>5, <2>3, <3>1 DEF Take
    <3>3. Fifo!Take(c)
      BY <2>1, <3>1, <3>2 DEF Fifo!Take
    <3>4. QED
      BY <3>3 DEF Fifo!Next
  <2>4. QED
    BY <2>2, <2>3
<1>6. ASSUME NEW c \in Client, GiveBack(c) PROVE [Fifo!Next]_(Fifo!vars)
  <2>1. Contents(qeue') = Contents(qeue) /\ object_to' = object_to
    BY <1>1, <1>6, GetAndReleaseLeaveRing DEF GiveBack
  <2>2. Holder = c
    BY <1>6, HolderIs DEF GiveBack
  <2>3. \A d \in Client : ~locked'[d]
    BY <1>1, <1>6 DEF GiveBack, MutualExclusion
  <2>4. Holder' = NoClient
    BY <2>3 DEF Holder
  <2>5. Fifo!Unlock(c)
    BY <2>1, <2>2, <2>4 DEF Fifo!Unlock
  <2>6. QED
    BY <2>5 DEF Fifo!Next
<1>7. CASE UNCHANGED vars
  BY <1>7 DEF vars, Fifo!vars, Holder
<1>8. QED
  BY <1>3, <1>4, <1>5, <1>6, <1>7 DEF Next

\* Objects leave the queue in the order they came in, each exactly once, and
\* only the client that has locked the queue changes it.
THEOREM QeueImplementsFifo == Spec => ImplementsFifo
<1>1. QED
  BY FifoStart, FifoStep, RingStart, RingStep, TypeCorrect, OneHolder, PTL
     DEF Spec, ImplementsFifo, Fifo!Spec

-----------------------------------------------------------------------------
(* The tracer's threads: the counter of a queue both of whose sides are    *)
(* inside it.                                                              *)

Field ==
  [element_counter : U8, mutex_id : U8, id : U8, is_requested : BOOLEAN]

\* What the test of enqeue or deqeue said is still so when the counter is loaded
\* (the other side moves it the other way), and what was loaded can be counted up
\* or down.
Room(t) ==
  IF Puts(t) THEN Called(t).element_counter < PipelineSize
  ELSE Called(t).element_counter # 0

Loaded(t) ==
  IF Puts(t) THEN local[t] < PipelineSize ELSE local[t] \in 1 .. PipelineSize

CountInv ==
  /\ CountersStayInRange
  /\ \A t \in Thread : pc[t] = "load" => Room(t)
  /\ \A t \in Thread : pc[t] = "store" => Loaded(t)

LEMMA PipelineStartType == PipelineInit => PipelineTypeOK /\ CountInv
<1>1. SUFFICES ASSUME PipelineInit PROVE PipelineTypeOK /\ CountInv
  OBVIOUS
<1>2. PipelineTypeOK
  <2>1. trace_qeues \in
          [{"raw", "parsed"} ->
             [element_counter : U8, mutex_id : U8, id : U8, is_requested : BOOLEAN]]
    BY <1>1 DEF PipelineInit, U8, MutexInvalidId
  <2>2. pc \in [Thread -> PC]
    BY <1>1 DEF PipelineInit, PC
  <2>3. /\ visits \in [Thread -> {"raw", "parsed"}]
        /\ visits["read"] = "raw" /\ visits["print"] = "parsed"
    BY <1>1 DEF PipelineInit, Thread
  <2>4. /\ local \in [Thread -> U8]
        /\ object_available \in BOOLEAN
        /\ asked \subseteq Thread
    <3>1. local \in [Thread -> U8]
      BY <1>1 DEF PipelineInit, U8
    <3>2. object_available \in BOOLEAN
      BY <1>1, Zenon DEF PipelineInit
    <3>3. asked \subseteq Thread
      BY <1>1 DEF PipelineInit
    <3>4. QED
      BY <3>1, <3>2, <3>3
  <2>5. terminated \in [Thread -> BOOLEAN] /\ received \in 0 .. MaxObjects
    BY <1>1, PipelineAssumption DEF PipelineInit
  <2>6. QED
    BY <2>1, <2>2, <2>3, <2>4, <2>5 DEF PipelineTypeOK
<1>3. CountInv
  BY <1>1, PipelineAssumption
     DEF PipelineInit, CountInv, CountersStayInRange, Thread
<1>4. QED
  BY <1>2, <1>3

\* An access that puts fields and a byte where they belong keeps the types.
LEMMA MovesKeepType ==
  ASSUME PipelineTypeOK, NEW t \in Thread, NEW from, NEW to \in PC, NEW q \in Field,
         NEW v \in U8, Moves(t, from, to, q, v), object_available' \in BOOLEAN
  PROVE  PipelineTypeOK'
BY DEF Moves, Goto, PipelineTypeOK, threadvars, Field, Thread

\* An access that does not count keeps what is known of the counters, if it knows
\* what the next place wants to be known.
LEMMA MovesKeepCount ==
  ASSUME PipelineTypeOK, CountInv, NEW t \in Thread, NEW from, NEW to,
         NEW q, NEW v, Moves(t, from, to, q, v),
         q.element_counter = Called(t).element_counter,
         to = "load" => Room(t),
         to = "store" => IF Puts(t) THEN v < PipelineSize ELSE v \in 1 .. PipelineSize
  PROVE  CountInv'
<1>1. /\ visits' = visits /\ pc' = [pc EXCEPT ![t] = to]
      /\ trace_qeues' = [trace_qeues EXCEPT ![visits[t]] = q]
      /\ local' = [local EXCEPT ![t] = v]
  BY DEF Moves, Goto
<1>2. /\ visits \in [Thread -> {"raw", "parsed"}] /\ DOMAIN trace_qeues = {"raw", "parsed"}
      /\ DOMAIN pc = Thread /\ DOMAIN local = Thread
  BY DEF PipelineTypeOK
<1>3. \A c \in {"raw", "parsed"} :
        trace_qeues'[c].element_counter = trace_qeues[c].element_counter
  BY <1>1, <1>2 DEF Called
<1>4. CountersStayInRange'
  BY <1>3 DEF CountInv, CountersStayInRange
<1>5. \A u \in Thread : Puts(u)' = Puts(u) /\ (Room(u)' <=> Room(u))
  BY <1>1, <1>2, <1>3 DEF Puts, Room, Called
<1>6. \A u \in Thread : pc'[u] = "load" => Room(u)'
  BY <1>1, <1>2, <1>5 DEF CountInv
<1>7. \A u \in Thread : pc'[u] = "store" => Loaded(u)'
  BY <1>1, <1>2, <1>5 DEF CountInv, Loaded
<1>8. QED
  BY <1>4, <1>6, <1>7 DEF CountInv

\* Two threads that call one queue are its two sides.
LEMMA TwoSides ==
  ASSUME PipelineTypeOK, NEW t \in Thread, NEW u \in Thread, t # u, visits[t] = visits[u]
  PROVE  Puts(t) # Puts(u)
BY DEF PipelineTypeOK, Puts, Thread

LEMMA CalledType ==
  ASSUME PipelineTypeOK, NEW t \in Thread
  PROVE  /\ Called(t) \in Field /\ Puts(t) \in BOOLEAN
         /\ visits[t] \in {"raw", "parsed"} /\ local[t] \in U8
BY DEF PipelineTypeOK, Called, Field, Puts, Thread

\* The store of a thread that loaded before the other side counted is wrong, but
\* it is in range and leaves the other side what its test has seen.
LEMMA CountKeeps ==
  ASSUME PipelineTypeOK, CountInv, NEW t \in Thread, Count(t)
  PROVE  PipelineTypeOK' /\ CountInv'
<1>1. Called(t) \in Field /\ visits[t] \in {"raw", "parsed"} /\ local[t] \in U8
  BY CalledType
<1>2. CASE Access(t, "load", "store", Called(t), Called(t).element_counter)
  <2>1. Room(t) /\ Called(t).element_counter <= PipelineSize
    BY <1>1, <1>2 DEF Access, Moves, CountInv, CountersStayInRange, Called
  <2>2. Called(t).element_counter \in U8
    BY <1>1 DEF Field
  <2>3. IF Puts(t) THEN Called(t).element_counter < PipelineSize
        ELSE Called(t).element_counter \in 1 .. PipelineSize
    BY <2>1, <2>2, PipelineAssumption DEF Room, U8
  <2>4. Moves(t, "load", "store", Called(t), Called(t).element_counter)
        /\ object_available' = object_available
    BY <1>2 DEF Access
  <2>5. CountInv'
    BY <2>3, <2>4, MovesKeepCount
  <2>6. PipelineTypeOK'
    <3>1. "store" \in PC /\ object_available' \in BOOLEAN
      BY <2>4 DEF PC, PipelineTypeOK
    <3>2. QED
      BY <1>1, <2>2, <2>4, <3>1, MovesKeepType
  <2>7. QED
    BY <2>5, <2>6
<1>3. CASE ~Access(t, "load", "store", Called(t), Called(t).element_counter)
  <2> DEFINE n == IF Puts(t) THEN (local[t] + 1) % 256 ELSE (local[t] + 255) % 256
             q == [Called(t) EXCEPT !.element_counter = n]
  <2>1. Moves(t, "store", "release", q, 0) /\ object_available' = object_available
    BY <1>3 DEF Count, Access
  <2>2. Loaded(t)
    BY <2>1 DEF Moves, CountInv
  <2>3. n = IF Puts(t) THEN local[t] + 1 ELSE local[t] - 1
    BY <1>1, <2>2, PipelineAssumption DEF Loaded, U8
  <2>4. /\ n \in U8 /\ n <= PipelineSize
        /\ Puts(t) => n # 0
        /\ ~Puts(t) => n < PipelineSize
    BY <1>1, <2>2, <2>3, PipelineAssumption DEF Loaded, U8
  <2>5. q \in Field /\ q.element_counter = n
    BY <1>1, <2>4 DEF Field
  <2> HIDE DEF n, q
  <2>6. /\ visits' = visits /\ pc' = [pc EXCEPT ![t] = "release"]
        /\ trace_qeues' = [trace_qeues EXCEPT ![visits[t]] = q]
        /\ local' = [local EXCEPT ![t] = 0]
    BY <2>1 DEF Moves, Goto
  <2>7. /\ visits \in [Thread -> {"raw", "parsed"}] /\ DOMAIN trace_qeues = {"raw", "parsed"}
        /\ DOMAIN pc = Thread /\ DOMAIN local = Thread
    BY DEF PipelineTypeOK
  <2>8. CountersStayInRange'
    BY <2>4, <2>5, <2>6, <2>7 DEF CountInv, CountersStayInRange
  <2>9. \A u \in Thread : Puts(u)' = Puts(u)
    BY <2>6 DEF Puts
  <2>10. ASSUME NEW u \in Thread, pc'[u] = "load" PROVE Room(u)'
    <3>1. u # t /\ Room(u)
      BY <2>6, <2>7, <2>10 DEF CountInv
    <3>2. CASE visits[u] = visits[t]
      <4>1. Puts(u) # Puts(t) /\ Puts(u) \in BOOLEAN /\ Puts(t) \in BOOLEAN
        BY <3>1, <3>2, TwoSides, CalledType
      <4>2. Called(u)'.element_counter = n
        BY <2>5, <2>6, <2>7, <3>2 DEF Called
      <4>3. QED
        BY <2>4, <2>9, <4>1, <4>2 DEF Room
    <3>3. CASE visits[u] # visits[t]
      BY <2>6, <2>7, <2>9, <3>1, <3>3 DEF Room, Called
    <3>4. QED
      BY <3>2, <3>3
  <2>11. ASSUME NEW u \in Thread, pc'[u] = "store" PROVE Loaded(u)'
    BY <2>6, <2>7, <2>9, <2>11 DEF CountInv, Loaded
  <2>12. CountInv'
    BY <2>8, <2>10, <2>11 DEF CountInv
  <2>13. PipelineTypeOK'
    <3>1. "release" \in PC /\ object_available' \in BOOLEAN /\ 0 \in U8
      BY <2>1 DEF PC, PipelineTypeOK, U8
    <3>2. QED
      BY <2>1, <2>5, <3>1, MovesKeepType
  <2>14. QED
    BY <2>12, <2>13
<1>4. QED
  BY <1>2, <1>3

\* An access of the mutex leaves the counters, and the types.
LEMMA AccessKeeps ==
  ASSUME PipelineTypeOK, CountInv, NEW t \in Thread, NEW from, NEW to \in PC,
         to \notin {"load", "store"}, NEW q \in Field,
         q.element_counter = Called(t).element_counter,
         NEW v \in U8, Access(t, from, to, q, v)
  PROVE  PipelineTypeOK' /\ CountInv'
<1>1. Moves(t, from, to, q, v) /\ object_available' \in BOOLEAN
  BY DEF Access, PipelineTypeOK
<1>2. PipelineTypeOK'
  BY <1>1, MovesKeepType
<1>3. CountInv'
  BY <1>1, MovesKeepCount
<1>4. QED
  BY <1>2, <1>3

\* The fields of the mutex may be set as the code does.
LEMMA FieldsSet ==
  ASSUME NEW q \in Field, NEW n \in U8, NEW b \in BOOLEAN
  PROVE  /\ q.id \in U8 /\ q.mutex_id \in U8 /\ q.is_requested \in BOOLEAN
         /\ q.element_counter \in U8
         /\ [q EXCEPT !.id = n] \in Field /\ [q EXCEPT !.mutex_id = n] \in Field
         /\ [q EXCEPT !.is_requested = b] \in Field
         /\ [q EXCEPT !.id = n].element_counter = q.element_counter
         /\ [q EXCEPT !.mutex_id = n].element_counter = q.element_counter
         /\ [q EXCEPT !.is_requested = b].element_counter = q.element_counter
BY DEF Field

LEMMA BytesOfTheMutex ==
  /\ 0 \in U8 /\ MutexInvalidId \in U8 /\ MutexIdFirst \in U8
  /\ \A n \in U8 : (n + 1) % 256 \in U8
BY DEF U8, MutexInvalidId, MutexIdFirst

LEMMA RequestKeeps ==
  ASSUME PipelineTypeOK, CountInv, NEW t \in Thread,
         RequestTest(t) \/ RequestTicket(t) \/ RequestSet(t) \/ Publish(t) \/ Check(t)
  PROVE  PipelineTypeOK' /\ CountInv'
<1> DEFINE q == Called(t)
<1>1. q \in Field /\ local[t] \in U8
  BY CalledType
<1> HIDE DEF q
<1>2. /\ q.id \in U8
      /\ [q EXCEPT !.id = MutexIdFirst] \in Field
      /\ [q EXCEPT !.id = MutexIdFirst].element_counter = q.element_counter
      /\ [q EXCEPT !.is_requested = TRUE] \in Field
      /\ [q EXCEPT !.is_requested = TRUE].element_counter = q.element_counter
      /\ [q EXCEPT !.mutex_id = local[t]] \in Field
      /\ [q EXCEPT !.mutex_id = local[t]].element_counter = q.element_counter
  BY <1>1, FieldsSet, BytesOfTheMutex
<1>3. \/ \E to \in {"publish", "ticket"} : Access(t, "test", to, q, MutexInvalidId)
      \/ \E to \in {"first", "set"} : Access(t, "ticket", to, q, 0)
      \/ Access(t, "first", "set", [q EXCEPT !.id = MutexIdFirst], 0)
      \/ Access(t, "set", "fetch", [q EXCEPT !.is_requested = TRUE], 0)
      \/ Access(t, "fetch", "publish", q, q.id)
      \/ Access(t, "publish", "check", [q EXCEPT !.mutex_id = local[t]], 0)
      \/ \E to \in {"look", "test", "loop"} : Access(t, "check", to, q, 0)
  BY DEF RequestTest, RequestTicket, RequestSet, Publish, Check, q
<1>4. q.element_counter = Called(t).element_counter
  BY DEF q
<1>5. {"publish", "ticket", "first", "set", "fetch", "check", "look", "test", "loop"}
        \subseteq PC \ {"load", "store"}
  BY DEF PC
<1>6. QED
  BY <1>1, <1>2, <1>3, <1>4, <1>5, BytesOfTheMutex, AccessKeeps

LEMMA ReleaseKeeps ==
  ASSUME PipelineTypeOK, CountInv, NEW t \in Thread,
         ReleaseTest(t) \/ ReleaseNext(t) \/ ReleaseFree(t)
  PROVE  PipelineTypeOK' /\ CountInv'
<1> DEFINE q == Called(t)
           m == (local[t] + 1) % 256
<1>1. q \in Field /\ local[t] \in U8
  BY CalledType
<1>2. m \in U8
  BY <1>1, BytesOfTheMutex
<1> HIDE DEF q, m
<1>3. /\ q.id \in U8 /\ q.mutex_id \in U8
      /\ [q EXCEPT !.id = MutexIdFirst] \in Field
      /\ [q EXCEPT !.id = MutexIdFirst].element_counter = q.element_counter
      /\ [q EXCEPT !.id = m] \in Field
      /\ [q EXCEPT !.id = m].element_counter = q.element_counter
      /\ [q EXCEPT !.is_requested = FALSE] \in Field
      /\ [q EXCEPT !.is_requested = FALSE].element_counter = q.element_counter
  BY <1>1, <1>2, FieldsSet, BytesOfTheMutex
<1>4. \/ Access(t, "release", "unlock", q, q.mutex_id)
      \/ \E to \in {"match", "return", "loop"}, v \in {local[t], 0} :
           Access(t, "unlock", to, q, v)
      \/ \E to \in {"next", "return", "loop"} : Access(t, "match", to, q, 0)
      \/ \E to \in {"wrap", "bump"} : Access(t, "next", to, q, 0)
      \/ Access(t, "wrap", "free", [q EXCEPT !.id = MutexIdFirst], 0)
      \/ Access(t, "bump", "moved", q, q.id)
      \/ Access(t, "moved", "free", [q EXCEPT !.id = m], 0)
      \/ \E to \in {"return", "loop"} :
           Access(t, "free", to, [q EXCEPT !.is_requested = FALSE], 0)
  BY DEF ReleaseTest, ReleaseNext, ReleaseFree, Back, q, m
<1>5. q.element_counter = Called(t).element_counter
  BY DEF q
<1>6. {"unlock", "match", "return", "loop", "next", "wrap", "bump", "free", "moved"}
        \subseteq PC \ {"load", "store"}
  BY DEF PC
<1>7. CASE \/ Access(t, "release", "unlock", q, q.mutex_id)
           \/ \E to \in {"match", "return", "loop"}, v \in {local[t], 0} :
                Access(t, "unlock", to, q, v)
           \/ \E to \in {"next", "return", "loop"} : Access(t, "match", to, q, 0)
  BY <1>1, <1>3, <1>5, <1>6, <1>7, BytesOfTheMutex, AccessKeeps
<1>8. CASE \/ \E to \in {"wrap", "bump"} : Access(t, "next", to, q, 0)
           \/ Access(t, "wrap", "free", [q EXCEPT !.id = MutexIdFirst], 0)
           \/ Access(t, "bump", "moved", q, q.id)
  BY <1>1, <1>3, <1>5, <1>6, <1>8, BytesOfTheMutex, AccessKeeps
<1>9. CASE \/ Access(t, "moved", "free", [q EXCEPT !.id = m], 0)
           \/ \E to \in {"return", "loop"} :
                Access(t, "free", to, [q EXCEPT !.is_requested = FALSE], 0)
  BY <1>1, <1>3, <1>5, <1>6, <1>9, BytesOfTheMutex, AccessKeeps
<1>10. QED
  BY <1>4, <1>7, <1>8, <1>9

LEMMA LookKeeps ==
  ASSUME PipelineTypeOK, CountInv, NEW t \in Thread, Look(t)
  PROVE  PipelineTypeOK' /\ CountInv'
<1>1. Called(t) \in Field /\ Puts(t) \in BOOLEAN /\ visits[t] \in {"raw", "parsed"}
  BY CalledType
<1>2. PICK to \in {"release", "load"} :
        /\ Moves(t, "look", to, Called(t), 0)
        /\ to = "load" =>
             Called(t).element_counter # (IF Puts(t) THEN PipelineSize ELSE 0)
  BY DEF Look
<1>3. object_available' \in BOOLEAN
  BY DEF Look, PipelineTypeOK
<1>4. Called(t).element_counter \in U8 /\ Called(t).element_counter <= PipelineSize
  BY <1>1 DEF Field, CountInv, CountersStayInRange, Called
<1>5. to = "load" => Room(t)
  BY <1>1, <1>2, <1>4, PipelineAssumption DEF Room, U8
<1>6. CountInv'
  BY <1>2, <1>5, MovesKeepCount
<1>7. to \in PC /\ 0 \in U8
  BY <1>2 DEF PC, U8
<1>8. PipelineTypeOK'
  BY <1>1, <1>2, <1>3, <1>7, MovesKeepType
<1>9. QED
  BY <1>6, <1>8

\* What a thread does outside the calls leaves the queues; none of its places is
\* inside deqeue or enqeue, and only there it matters which queue it visits.
LEMMA LoopKeeps ==
  ASSUME PipelineTypeOK, CountInv,
         \/ \E t \in Thread : LeaveLoop(t) \/ TakeLook(t) \/ MainTerminate(t)
         \/ ReadObject \/ ParseStartsOver \/ ParseObject \/ PrintStart
  PROVE  PipelineTypeOK' /\ CountInv'
<1>1. /\ trace_qeues' = trace_qeues /\ local' = local
      /\ \E t \in Thread : \E to \in {"loop", "test", "done"} :
           \/ pc' = [pc EXCEPT ![t] = to] /\ visits' = visits
           \/ /\ pc' = pc /\ visits' = visits
           \/ /\ t = "parse" /\ pc' = [pc EXCEPT ![t] = to]
              /\ \E c \in {"raw", "parsed"} : visits' = [visits EXCEPT ![t] = c]
  BY DEF LeaveLoop, TakeLook, MainTerminate, ReadObject, ParseStartsOver, ParseObject,
         PrintStart, Goto, Thread
<1>2. /\ visits \in [Thread -> {"raw", "parsed"}] /\ pc \in [Thread -> PC]
  BY DEF PipelineTypeOK
<1>3. \A u \in Thread : pc'[u] \in {"load", "store"} => pc'[u] = pc[u] /\ visits'[u] = visits[u]
  BY <1>1, <1>2
<1>4. CountInv'
  <2>1. \A u \in Thread : visits'[u] = visits[u] =>
          /\ Puts(u)' = Puts(u) /\ (Room(u)' <=> Room(u)) /\ (Loaded(u)' <=> Loaded(u))
    BY <1>1 DEF Puts, Room, Loaded, Called
  <2>2. QED
    BY <1>1, <1>3, <2>1 DEF CountInv, CountersStayInRange
<1>5. /\ trace_qeues' \in [{"raw", "parsed"} -> Field] /\ local' \in [Thread -> U8]
      /\ pc' \in [Thread -> PC] /\ visits' \in [Thread -> {"raw", "parsed"}]
      /\ visits'["read"] = "raw" /\ visits'["print"] = "parsed"
  BY <1>1, <1>2 DEF PipelineTypeOK, Field, PC, Thread
<1>6. /\ object_available' \in BOOLEAN /\ asked' \subseteq Thread
      /\ terminated' \in [Thread -> BOOLEAN] /\ received' \in 0 .. MaxObjects
  <2>1. /\ object_available' \in {object_available, FALSE}
        /\ \E S \in SUBSET Thread : asked' = asked \cup S
        /\ \/ terminated' = terminated
           \/ \E t \in Thread, b \in BOOLEAN : terminated' = [terminated EXCEPT ![t] = b]
        /\ received' = received \/ (received' = received + 1 /\ received < MaxObjects)
    <3> {} \in SUBSET Thread /\ asked = asked \cup {}
      OBVIOUS
    <3>1. ASSUME NEW t \in Thread, MainTerminate(t) PROVE <2>1!:
      <4>1. object_available' = object_available /\ received' = received
        BY <3>1 DEF MainTerminate
      <4>2. {t} \in SUBSET Thread /\ asked' = asked \cup {t}
        BY <3>1 DEF MainTerminate
      <4>3. terminated' = [terminated EXCEPT ![t] = TRUE]
        BY <3>1 DEF MainTerminate
      <4>4. QED
        BY <4>1, <4>2, <4>3
    <3>2. ASSUME UNCHANGED <<asked, received>>, object_available' \in {object_available, FALSE},
                 \/ terminated' = terminated
                 \/ PrintStart
          PROVE  <2>1!:
      <4>1. \E S \in SUBSET Thread : asked' = asked \cup S
        BY <3>2, Zenon
      <4>2. \/ terminated' = terminated
            \/ \E t \in Thread, b \in BOOLEAN : terminated' = [terminated EXCEPT ![t] = b]
        BY <3>2 DEF PrintStart, Thread
      <4>3. QED
        BY <3>2, <4>1, <4>2
    <3>3. CASE ReadObject
      <4>1. \E S \in SUBSET Thread : asked' = asked \cup S
        BY <3>3, Zenon DEF ReadObject
      <4>2. QED
        BY <3>3, <4>1 DEF ReadObject
    <3>4. QED
      BY <3>1, <3>2, <3>3 DEF LeaveLoop, TakeLook, ParseStartsOver, ParseObject, PrintStart,
         threadvars
  <2>2. /\ object_available \in BOOLEAN /\ asked \subseteq Thread
        /\ terminated \in [Thread -> BOOLEAN] /\ received \in 0 .. MaxObjects
    BY DEF PipelineTypeOK
  <2>3. object_available' \in BOOLEAN /\ asked' \subseteq Thread
    BY <2>1, <2>2
  <2>4. terminated' \in [Thread -> BOOLEAN]
    BY <2>1, <2>2
  <2>5. received' \in 0 .. MaxObjects
    BY <2>1, <2>2, PipelineAssumption
  <2>6. QED
    BY <2>3, <2>4, <2>5
<1>7. PipelineTypeOK'
  BY <1>5, <1>6 DEF PipelineTypeOK, Field
<1>8. QED
  BY <1>4, <1>7

LEMMA PipelineStep ==
  PipelineTypeOK /\ CountInv /\ [PipelineNext]_pipevars => PipelineTypeOK' /\ CountInv'
<1>1. SUFFICES ASSUME PipelineTypeOK, CountInv, [PipelineNext]_pipevars
               PROVE  PipelineTypeOK' /\ CountInv'
  OBVIOUS
<1>2. CASE UNCHANGED pipevars
  BY <1>1, <1>2 DEF pipevars, PipelineTypeOK, CountInv, CountersStayInRange, Room, Loaded,
       Called, Puts
<1>3. CASE \E t \in Thread : Call(t)
  BY <1>1, <1>3, RequestKeeps, LookKeeps, CountKeeps, ReleaseKeeps DEF Call
<1>4. CASE \/ \E t \in Thread : LeaveLoop(t) \/ TakeLook(t) \/ MainTerminate(t)
           \/ ReadObject \/ ParseStartsOver \/ ParseObject \/ PrintStart
  BY <1>1, <1>4, LoopKeeps
<1>5. QED
  BY <1>1, <1>2, <1>3, <1>4 DEF PipelineNext, Read, Parse, PrintStep, Thread

\* Queues of any size, any number of tickets and objects, and threads that
\* interrupt each other before every access to the queues: no counter passes the
\* size of its queue or turns below zero, although the mutex does not keep the two
\* sides apart and what they count may be wrong.
THEOREM CountersAreSafe == PipelineSpec => []CountersStayInRange
<1>1. CountInv => CountersStayInRange
  BY DEF CountInv
<1>2. QED
  BY <1>1, PipelineStartType, PipelineStep, PTL DEF PipelineSpec

-----------------------------------------------------------------------------
(* The two kinds of users.                                                 *)

\* A program has users of one kind; the queue of the main loop is a FIFO, and the
\* counters of the trace tool stay in range.
THEOREM UsersKeepTheirWord == UsersSpec => ImplementsFifo /\ []CountersStayInRange
<1>1. UsersInit => Init /\ PipelineInit
  BY DEF UsersInit
<1>2. [UsersNext]_usersvars => [Next]_vars /\ [PipelineNext]_pipevars
  BY DEF UsersNext, usersvars, ThreadRuns
<1>3. UsersSpec => Spec /\ PipelineSpec
  BY <1>1, <1>2, PTL DEF UsersSpec, Spec, PipelineSpec
<1>4. QED
  BY <1>3, QeueImplementsFifo, CountersAreSafe, PTL

=============================================================================
