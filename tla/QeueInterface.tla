--------------------------- MODULE QeueInterface ----------------------------
(***************************************************************************)
(* The data structure of src/common/qeue_interface.c: a queue context with *)
(* a ring of max_size slots, the three u8 counters and the embedded mutex. *)
(* Each operator is the context after a call of the function of that name. *)
(* Every queue of the program (trace objects, log lines, LCD lines, IR     *)
(* commands, MQTT messages) is such a context.                             *)
(***************************************************************************)
EXTENDS LocalMutex, Sequences

CONSTANTS
  MaxSize,     \* max_num_of_elements of QEUE_INTERFACE_BUILD_QEUE
  Object,      \* the objects callers enqueue
  NoObject     \* a slot that was never written

\* max_size is a u8, and a queue without a slot is never built.
ASSUME MaxSizeAssumption == MaxSize \in 1 .. 255
ASSUME ObjectAssumption == NoObject \notin Object

Slot == 0 .. MaxSize - 1

Context ==
  [ memory : [Slot -> Object \cup {NoObject}],
    write_counter : Slot,
    read_counter : Slot,
    element_counter : 0 .. MaxSize,
    mutex_id : MutexId,
    mutex : Mutex ]

ContextInit ==
  [ memory |-> [s \in Slot |-> NoObject],
    write_counter |-> 0,
    read_counter |-> 0,
    element_counter |-> 0,
    mutex_id |-> MutexInvalidId,
    mutex |-> MutexInit ]

IsEmpty(q) == q.element_counter = 0
IsFull(q) == q.element_counter = MaxSize

\* counter += 1, then back to 0 at the end of the memory.
Advance(counter) == IF counter + 1 = MaxSize THEN 0 ELSE counter + 1

\* Variants of enqeue, each with one slip: the oldest object is overwritten when
\* the queue is full, the write position is moved before the copy.
WrongEnqeueOverwriting(q, o) ==
  [q EXCEPT !.memory = [q.memory EXCEPT ![q.write_counter] = o],
            !.write_counter = Advance(q.write_counter),
            !.element_counter = IF IsFull(q) THEN MaxSize ELSE q.element_counter + 1]

WrongEnqeueAdvanceFirst(q, o) ==
  IF IsFull(q) THEN q
  ELSE [q EXCEPT !.memory = [q.memory EXCEPT ![Advance(q.write_counter)] = o],
                 !.write_counter = Advance(q.write_counter),
                 !.element_counter = q.element_counter + 1]

Enqeue(q, o) ==
  IF IsFull(q) THEN q
  ELSE [q EXCEPT !.memory = [q.memory EXCEPT ![q.write_counter] = o],
                 !.write_counter = Advance(q.write_counter),
                 !.element_counter = q.element_counter + 1]

\* Variant: the element counter is not taken back.
WrongDeqeue(q) ==
  IF IsEmpty(q) THEN q
  ELSE [q EXCEPT !.read_counter = Advance(q.read_counter)]

Deqeue(q) ==
  IF IsEmpty(q) THEN q
  ELSE [q EXCEPT !.read_counter = Advance(q.read_counter),
                 !.element_counter = q.element_counter - 1]

\* What qeue_interface_deqeue copies to the caller's object.
DeqeuedObject(q) == q.memory[q.read_counter]

\* The result of mutex_request goes to the one mutex_id of the context, also
\* when the request failed.
MutexGet(q) ==
  [q EXCEPT !.mutex_id = RequestResult(q.mutex), !.mutex = Request(q.mutex)]

\* Return value of qeue_interface_mutex_get.
MutexGranted(q) == RequestResult(q.mutex) # MutexInvalidId

MutexRelease(q) == [q EXCEPT !.mutex = Release(q.mutex, q.mutex_id)]

-----------------------------------------------------------------------------

\* The i-th oldest object sits i slots behind the read position.
SlotAt(q, i) ==
  IF q.read_counter + i <= MaxSize
  THEN q.read_counter + i - 1
  ELSE q.read_counter + i - 1 - MaxSize

\* The queue as the caller sees it, the oldest object first.
Contents(q) ==
  [i \in 1 .. q.element_counter |-> q.memory[SlotAt(q, i)]]

\* The counters agree: element_counter slots lie between the read and the
\* write position.
RingAgrees(q) ==
  \/ q.read_counter + q.element_counter = q.write_counter
  \/ q.read_counter + q.element_counter = q.write_counter + MaxSize

=============================================================================
