------------------------------ MODULE QeueRace ------------------------------
(***************************************************************************)
(* One queue context used by a producer and a consumer, with the calls of  *)
(* qeue_interface.c and local_mutex.c taken apart into the loads and       *)
(* stores of their volatile fields.  Nothing in either file makes a call   *)
(* atomic, so it depends on who runs the two sides what may interleave:    *)
(*                                                                         *)
(*   - the two trace threads take the mutex around every change;           *)
(*   - mqtt_interface.c takes none: the MQTT library's thread enqueues in  *)
(*     messageArrived_Callback, the main loop dequeues;                    *)
(*   - log, LCD and IR queues are only touched by the main loop, where a   *)
(*     call runs to its end before the next one starts.                    *)
(*                                                                         *)
(* write_counter is used by the producer only and read_counter by the      *)
(* consumer only, so each is moved in the step that copies the object.     *)
(***************************************************************************)
EXTENDS Naturals

CONSTANTS
  MaxSize,      \* slots of the queue, 1 to 255
  MaxSent,      \* bound of the model: objects the producer offers
  MutexIdLast,  \* MUTEX_ID_LAST_VALUE
  Locking,      \* the two sides take the mutex
  Preemptive    \* the two sides run on different threads

LM == INSTANCE LocalMutex

Thread == {"producer", "consumer"}
Object == 1 .. MaxSent + 1      \* the i-th object that enqeue accepted is i
Unwritten == 0

VARIABLES
  memory, write_counter, read_counter, element_counter,
  mutex, mutex_id,
  pc,       \* where each thread is
  result,   \* local: what mutex_request returned
  loaded,   \* local: the element_counter it is about to change
  holds,    \* mutex_get answered 1 and release was not called yet
  accepted, \* number of objects enqeue took
  taken     \* the object the consumer took last

qeueVars == <<memory, write_counter, read_counter, element_counter>>
vars == <<qeueVars, mutex, mutex_id, pc, result, loaded, holds, accepted, taken>>

Slot == 0 .. MaxSize - 1

PC == {"idle", "test", "set", "publish", "check", "look", "copy", "load",
       "store", "release", "free"}

\* No slot outside the memory is ever addressed and the element counter
\* neither passes zero nor the size of the queue, however the two sides
\* interleave: only one side moves each position, and each side tests the
\* counter before the step that the other side cannot undo.
TypeOK ==
  /\ memory \in [Slot -> Object \cup {Unwritten}]
  /\ write_counter \in Slot
  /\ read_counter \in Slot
  /\ element_counter \in 0 .. MaxSize
  /\ mutex \in LM!Mutex
  /\ mutex_id \in LM!MutexId
  /\ pc \in [Thread -> PC]
  /\ result \in [Thread -> LM!MutexId]
  /\ loaded \in [Thread -> 0 .. MaxSize]
  /\ holds \in [Thread -> BOOLEAN]
  /\ accepted \in 0 .. MaxSent
  /\ taken \in Object \cup {Unwritten}

Init ==
  /\ memory = [s \in Slot |-> Unwritten]
  /\ write_counter = 0
  /\ read_counter = 0
  /\ element_counter = 0
  /\ mutex = LM!MutexInit
  /\ mutex_id = LM!MutexInvalidId
  /\ pc = [t \in Thread |-> "idle"]
  /\ result = [t \in Thread |-> LM!MutexInvalidId]
  /\ loaded = [t \in Thread |-> 0]
  /\ holds = [t \in Thread |-> FALSE]
  /\ accepted = 0
  /\ taken = Unwritten

Goto(t, place) == pc' = [pc EXCEPT ![t] = place]

\* counter += 1, and back to 0 at the end of the memory
Advance(counter) == IF counter + 1 = MaxSize THEN 0 ELSE counter + 1

\* What a thread does after its section, with or without a mutex to return.
Leave == IF Locking THEN "release" ELSE "idle"

-----------------------------------------------------------------------------

\* The producer has a message; the consumer looks at is_empty first, which
\* none of them protects.
Begin(t) ==
  /\ pc[t] = "idle"
  /\ t = "producer" => accepted < MaxSent
  /\ t = "consumer" => element_counter # 0
  /\ ~Preemptive => \A u \in Thread : pc[u] = "idle"
  /\ Goto(t, IF Locking THEN "test" ELSE "look")
  /\ UNCHANGED <<qeueVars, mutex, mutex_id, result, loaded, holds, accepted, taken>>

\* mutex_request: if (p_mutex->is_requested != 0) return MUTEX_INVALID_ID
RequestTest(t) ==
  /\ pc[t] = "test"
  /\ IF mutex.is_requested
     THEN result' = [result EXCEPT ![t] = LM!MutexInvalidId] /\ Goto(t, "publish")
     ELSE UNCHANGED result /\ Goto(t, "set")
  /\ UNCHANGED <<qeueVars, mutex, mutex_id, loaded, holds, accepted, taken>>

\* mutex_request: is_requested = 1, return id
RequestSet(t) ==
  /\ pc[t] = "set"
  /\ mutex' = [id |-> LM!NextTicket(mutex), is_requested |-> TRUE]
  /\ result' = [result EXCEPT ![t] = LM!NextTicket(mutex)]
  /\ Goto(t, "publish")
  /\ UNCHANGED <<qeueVars, mutex_id, loaded, holds, accepted, taken>>

\* mutex_get: p_qeue_context->mutex_id = mutex_request(..)
Publish(t) ==
  /\ pc[t] = "publish"
  /\ mutex_id' = result[t]
  /\ Goto(t, "check")
  /\ UNCHANGED <<qeueVars, mutex, result, loaded, holds, accepted, taken>>

\* mutex_get: the answer is taken from the shared mutex_id, read back.
Check(t) ==
  /\ pc[t] = "check"
  /\ LET granted == mutex_id # LM!MutexInvalidId IN
       /\ holds' = [holds EXCEPT ![t] = granted]
       /\ Goto(t, IF granted THEN "look"
                  ELSE IF t = "producer" THEN "test" ELSE "idle")
  /\ UNCHANGED <<qeueVars, mutex, mutex_id, result, loaded, accepted, taken>>

\* enqeue: element_counter == max_size; deqeue: element_counter == 0
Look(t) ==
  /\ pc[t] = "look"
  /\ Goto(t, IF element_counter = (IF t = "producer" THEN MaxSize ELSE 0)
             THEN Leave ELSE "copy")
  /\ UNCHANGED <<qeueVars, mutex, mutex_id, result, loaded, holds, accepted, taken>>

CopyIn ==
  /\ pc["producer"] = "copy"
  /\ memory' = [memory EXCEPT ![write_counter] = accepted + 1]
  /\ write_counter' = Advance(write_counter)
  /\ accepted' = accepted + 1
  /\ Goto("producer", "load")
  /\ UNCHANGED <<read_counter, element_counter, mutex, mutex_id, result,
                 loaded, holds, taken>>

CopyOut ==
  /\ pc["consumer"] = "copy"
  /\ taken' = memory[read_counter]
  /\ read_counter' = Advance(read_counter)
  /\ Goto("consumer", "load")
  /\ UNCHANGED <<memory, write_counter, element_counter, mutex, mutex_id,
                 result, loaded, holds, accepted>>

\* element_counter += 1 and -= 1: a load, then a store.
Load(t) ==
  /\ pc[t] = "load"
  /\ loaded' = [loaded EXCEPT ![t] = element_counter]
  /\ Goto(t, "store")
  /\ UNCHANGED <<qeueVars, mutex, mutex_id, result, holds, accepted, taken>>

Store(t) ==
  /\ pc[t] = "store"
  /\ element_counter' = IF t = "producer" THEN loaded[t] + 1 ELSE loaded[t] - 1
  /\ Goto(t, Leave)
  /\ UNCHANGED <<memory, write_counter, read_counter, mutex, mutex_id, result,
                 loaded, holds, accepted, taken>>

\* mutex_release: the two tests ...
ReleaseTest(t) ==
  /\ pc[t] = "release"
  /\ holds' = [holds EXCEPT ![t] = FALSE]
  /\ Goto(t, IF mutex.is_requested /\ mutex.id = mutex_id THEN "free" ELSE "idle")
  /\ UNCHANGED <<qeueVars, mutex, mutex_id, result, loaded, accepted, taken>>

\* ... and the two stores
Free(t) ==
  /\ pc[t] = "free"
  /\ mutex' = [id |-> IF mutex.id = MutexIdLast THEN LM!MutexIdFirst
                      ELSE mutex.id + 1,
               is_requested |-> FALSE]
  /\ Goto(t, "idle")
  /\ UNCHANGED <<qeueVars, mutex_id, result, loaded, holds, accepted, taken>>

Next ==
  \/ \E t \in Thread :
       \/ Begin(t)
       \/ RequestTest(t) \/ RequestSet(t) \/ Publish(t) \/ Check(t)
       \/ Look(t) \/ Load(t) \/ Store(t)
       \/ ReleaseTest(t) \/ Free(t)
  \/ CopyIn
  \/ CopyOut

Spec == Init /\ [][Next]_vars

-----------------------------------------------------------------------------

\* "Locks the queue for synchronized operations": mutex_get does not answer 1
\* to both sides, as mutex_request hands out one valid id at a time
\* (qeue_interface.h:221, local_mutex.h:97).
OneHolder == ~(holds["producer"] /\ holds["consumer"])

\* "Removes the next element in line from the queue, if available": the
\* consumer takes what the producer put, each object once and in order
\* (qeue_interface.h:212).
NextInLine == [][taken' # taken => taken' = taken + 1 /\ taken' <= accepted]_vars

=============================================================================
