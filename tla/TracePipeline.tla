--------------------------- MODULE TracePipeline ----------------------------
(***************************************************************************)
(* The tracer's three threads (app_tasks/thread_*_trace_object.c) and the  *)
(* two queues between them:                                                *)
(*                                                                         *)
(*   driver -> read -> RAW_TRACE_OBJECT_QEUE -> parse                      *)
(*                     -> TRACE_OBJECT_QEUE -> print -> console            *)
(*                                                                         *)
(* The threads are preemptive, so one step is one access to a volatile     *)
(* field of a queue, in the order of qeue_interface.c and local_mutex.c,   *)
(* and any number of steps of the others fit between two of them.  What    *)
(* the objects are is left out: two threads can pass the test of           *)
(* mutex_request together, and which object is then lost or taken twice    *)
(* QeueRace shows.  The module asks what remains true all the same.        *)
(*                                                                         *)
(* The application that starts and terminates the threads is not part of   *)
(* the repository: MainTerminate does what thread_interface_terminate asks *)
(* of a thread, at any moment.                                             *)
(***************************************************************************)
EXTENDS LocalMutex

CONSTANTS
  PipelineSize,    \* max_num_of_elements of both queues, a u8
  MaxObjects,      \* bound of the model: trace objects that arrive
  MayTerminate,    \* bound of the model: the threads the application terminates
  EarlyTerminate   \* terminate may be called before the thread's first step

ASSUME PipelineAssumption ==
  /\ PipelineSize \in 1 .. 255
  /\ MutexIdLast <= 254
  /\ MaxObjects \in Nat
  /\ MayTerminate \subseteq {"read", "parse", "print"}
  /\ EarlyTerminate \in BOOLEAN

Thread == {"read", "parse", "print"}

VARIABLES
  trace_qeues,  \* the volatile fields of both queues but the two positions,
                \* which one thread each moves
  pc,
  visits,       \* the queue each thread calls
  local,        \* the value a thread has loaded and not used yet
  object_available,   \* the parse thread's: deqeue returned 1
  asked,        \* the threads the application has asked to terminate
  terminated,   \* the TERMINATED bit of the thread's module status
  received      \* objects the driver delivered

pipevars == <<trace_qeues, pc, visits, local, object_available, asked, terminated, received>>
threadvars == <<asked, terminated, received>>

U8 == 0 .. 255
PC == {"start", "loop", "test", "ticket", "first", "set", "fetch", "publish", "check",
       "look", "load", "store", "release", "unlock", "match", "next", "wrap", "bump",
       "moved", "free", "return", "done"}

PipelineTypeOK ==
  /\ trace_qeues \in [{"raw", "parsed"} ->
                 [element_counter : U8, mutex_id : U8, id : U8, is_requested : BOOLEAN]]
  /\ pc \in [Thread -> PC]
  /\ visits \in [Thread -> {"raw", "parsed"}]
  /\ visits["read"] = "raw" /\ visits["print"] = "parsed"
  /\ local \in [Thread -> U8]
  /\ object_available \in BOOLEAN
  /\ asked \subseteq Thread
  /\ terminated \in [Thread -> BOOLEAN]
  /\ received \in 0 .. MaxObjects

PipelineInit ==
  /\ trace_qeues = [q \in {"raw", "parsed"} |->
               [element_counter |-> 0, mutex_id |-> MutexInvalidId,
                id |-> MutexInvalidId, is_requested |-> FALSE]]
  /\ pc = [t \in Thread |-> IF t = "print" THEN "start" ELSE "loop"]
  /\ visits = [t \in Thread |-> IF t = "print" THEN "parsed" ELSE "raw"]
  /\ local = [t \in Thread |-> 0]
  /\ object_available = FALSE
  /\ asked = {}
  /\ terminated = [t \in Thread |-> FALSE]
  /\ received = 0

Goto(t, place) == pc' = [pc EXCEPT ![t] = place]

\* The thread puts into the queue it calls; otherwise it takes from it.
Puts(t) == t = "read" \/ (t = "parse" /\ visits[t] = "parsed")

Called(t) == trace_qeues[visits[t]]

\* Thread t goes from one place to the next with one access to its queue, which
\* leaves q in the queue and v in t's hands.
Moves(t, from, to, q, v) ==
  /\ pc[t] = from
  /\ Goto(t, to)
  /\ trace_qeues' = [trace_qeues EXCEPT ![visits[t]] = q]
  /\ local' = [local EXCEPT ![t] = v]
  /\ UNCHANGED <<visits, threadvars>>

Access(t, from, to, q, v) == Moves(t, from, to, q, v) /\ UNCHANGED object_available

-----------------------------------------------------------------------------
(* mutex_get: mutex_request, its result by way of the shared mutex_id      *)

RequestTest(t) == LET q == Called(t) IN
  Access(t, "test", IF q.is_requested THEN "publish" ELSE "ticket", q, MutexInvalidId)

\* if (id == MUTEX_INVALID_ID) id = MUTEX_ID_FIRST_VALUE
RequestTicket(t) == LET q == Called(t) IN
  \/ Access(t, "ticket", IF q.id = MutexInvalidId THEN "first" ELSE "set", q, 0)
  \/ Access(t, "first", "set", [q EXCEPT !.id = MutexIdFirst], 0)

\* is_requested = 1; return id
RequestSet(t) == LET q == Called(t) IN
  \/ Access(t, "set", "fetch", [q EXCEPT !.is_requested = TRUE], 0)
  \/ Access(t, "fetch", "publish", q, q.id)

Publish(t) == LET q == Called(t) IN
  Access(t, "publish", "check", [q EXCEPT !.mutex_id = local[t]], 0)

WrongCheck(t) == LET q == Called(t) IN   \* variant: who takes spins as who puts
  Access(t, "check", IF q.mutex_id # MutexInvalidId THEN "look" ELSE "test", q, 0)

\* The answer is mutex_id, read back.  Who puts asks again until it is not 0;
\* who takes starts its loop over (continue).
Check(t) == LET q == Called(t) IN
  Access(t, "check", IF q.mutex_id # MutexInvalidId THEN "look"
                        ELSE IF Puts(t) THEN "test" ELSE "loop", q, 0)

-----------------------------------------------------------------------------
(* enqeue, deqeue                                                          *)

WrongLook(t) == LET q == Called(t) IN    \* variant: enqeue does not look
  /\ Moves(t, "look", IF ~Puts(t) /\ q.element_counter = 0 THEN "release" ELSE "load", q, 0)
  /\ object_available' =
       IF t = "parse" /\ ~Puts(t) THEN q.element_counter # 0 ELSE object_available

\* is_full() or deqeue's own test.  Only the other side moves the counter in
\* between, downwards: enqeue's test then agrees with is_full.
Look(t) == LET q == Called(t) IN
  /\ Moves(t, "look", IF q.element_counter = (IF Puts(t) THEN PipelineSize ELSE 0)
                       THEN "release" ELSE "load", q, 0)
  /\ object_available' =
       IF t = "parse" /\ ~Puts(t) THEN q.element_counter # 0 ELSE object_available

\* element_counter += 1 or -= 1
Count(t) == LET q == Called(t) IN
  \/ Access(t, "load", "store", q, q.element_counter)
  \/ Access(t, "store", "release",
          [q EXCEPT !.element_counter =
             IF Puts(t) THEN (local[t] + 1) % 256 ELSE (local[t] + 255) % 256], 0)

-----------------------------------------------------------------------------
(* mutex_release                                                           *)

\* After it the parse thread looks at what deqeue returned; the loops of the
\* others are at their end.
Back(t) == IF t = "parse" THEN "return" ELSE "loop"

\* mutex_release(&mutex, mutex_id): the argument is read at the call; two tests.
ReleaseTest(t) == LET q == Called(t) IN
  \/ Access(t, "release", "unlock", q, q.mutex_id)
  \/ Access(t, "unlock", IF q.is_requested THEN "match" ELSE Back(t), q,
            IF q.is_requested THEN local[t] ELSE 0)
  \/ Access(t, "match", IF q.id = local[t] THEN "next" ELSE Back(t), q, 0)

\* The next ticket: id = MUTEX_ID_FIRST_VALUE or id += 1.
ReleaseNext(t) == LET q == Called(t) IN
  \/ Access(t, "next", IF q.id = MutexIdLast THEN "wrap" ELSE "bump", q, 0)
  \/ Access(t, "wrap", "free", [q EXCEPT !.id = MutexIdFirst], 0)
  \/ Access(t, "bump", "moved", q, q.id)
  \/ Access(t, "moved", "free", [q EXCEPT !.id = (local[t] + 1) % 256], 0)

ReleaseFree(t) == LET q == Called(t) IN
  Access(t, "free", Back(t), [q EXCEPT !.is_requested = FALSE], 0)

\* One access of thread t inside a call of its queue.
Call(t) ==
  \/ RequestTest(t) \/ RequestTicket(t) \/ RequestSet(t) \/ Publish(t) \/ Check(t)
  \/ Look(t) \/ Count(t)
  \/ ReleaseTest(t) \/ ReleaseNext(t) \/ ReleaseFree(t)

-----------------------------------------------------------------------------
(* The loops                                                               *)

\* The top of each thread's loop: leave when the terminated bit is set.
LeaveLoop(t) ==
  /\ pc[t] = "loop"
  /\ terminated[t]
  /\ Goto(t, "done")
  /\ UNCHANGED <<trace_qeues, visits, local, object_available, threadvars>>

\* main_read_trace_object_raw returned 1.
ReadObject ==
  /\ pc["read"] = "loop"
  /\ ~terminated["read"]
  /\ received < MaxObjects
  /\ received' = received + 1
  /\ Goto("read", "test")
  /\ UNCHANGED <<trace_qeues, visits, local, object_available, asked, terminated>>

\* is_empty() is asked without the mutex.
TakeLook(t) ==
  /\ pc[t] = "loop"
  /\ ~terminated[t]
  /\ trace_qeues[visits[t]].element_counter # 0
  /\ Goto(t, "test")
  /\ UNCHANGED <<trace_qeues, visits, local, object_available, threadvars>>

\* The parse thread has emptied its hands in the other queue, or deqeue returned
\* 0, or tracer_parse_object did: it starts over.
ParseStartsOver ==
  /\ pc["parse"] = "return"
  /\ Goto("parse", "loop")
  /\ visits' = [visits EXCEPT !["parse"] = "raw"]
  /\ object_available' = FALSE
  /\ UNCHANGED <<trace_qeues, local, threadvars>>

\* tracer_parse_object returned 1: on to TRACE_OBJECT_QEUE.
ParseObject ==
  /\ pc["parse"] = "return"
  /\ visits["parse"] = "raw"
  /\ object_available
  /\ Goto("parse", "test")
  /\ visits' = [visits EXCEPT !["parse"] = "parsed"]
  /\ object_available' = FALSE
  /\ UNCHANGED <<trace_qeues, local, threadvars>>

\* thread_print_trace_object_run starts with status_unset(TERMINATED).
PrintStart ==
  /\ pc["print"] = "start"
  /\ terminated' = [terminated EXCEPT !["print"] = FALSE]
  /\ Goto("print", "loop")
  /\ UNCHANGED <<trace_qeues, visits, local, object_available, asked, received>>

Read == LeaveLoop("read") \/ ReadObject \/ Call("read")
Parse ==
  LeaveLoop("parse") \/ TakeLook("parse") \/ Call("parse") \/ ParseStartsOver \/ ParseObject
PrintStep ==
  PrintStart \/ LeaveLoop("print") \/ TakeLook("print") \/ Call("print")

\* thread_interface_terminate: the thread's terminate() sets its bit, then the
\* caller waits in pthread_join and asks nothing of the other threads.
MainTerminate(t) ==
  /\ t \in MayTerminate \ asked
  /\ \A u \in asked : pc[u] = "done"
  /\ EarlyTerminate \/ pc[t] # "start"
  /\ asked' = asked \cup {t}
  /\ terminated' = [terminated EXCEPT ![t] = TRUE]
  /\ UNCHANGED <<trace_qeues, pc, visits, local, object_available, received>>

PipelineNext == Read \/ Parse \/ PrintStep \/ \E t \in Thread : MainTerminate(t)

\* The trace tool on its own.
PipelineSpec == PipelineInit /\ [][PipelineNext]_pipevars

-----------------------------------------------------------------------------

\* Although both sides of a queue can be inside it together and each counts with
\* a load and a store, the counter never passes the size of the queue and never
\* turns from 0 to 255, after which deqeue would run on through a queue that holds
\* nothing (qeue_interface.c:70-83, 113-127).
CountersStayInRange ==
  \A q \in {"raw", "parsed"} : trace_qeues[q].element_counter <= PipelineSize

\* A thread that was asked to terminate ends, and with it the pthread_join the
\* application waits in.
TerminateEnds(t) == t \in asked ~> pc[t] = "done"

\* "terminates the thread by calling the terminate() method"
\* (thread_interface.h:254), said of the read thread: it must not stay in its
\* wait for a mutex that nobody gives back.
ReadEnds == TerminateEnds("read")

\* The same of the print thread, which resets the bit when it starts.
PrintEnds == TerminateEnds("print")

=============================================================================
