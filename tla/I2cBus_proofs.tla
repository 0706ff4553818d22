--------------------------- MODULE I2cBus_proofs ----------------------------
(***************************************************************************)
(* Proofs about the shared two-wire bus for any number of tickets, ADS1115 *)
(* channels and PCA9670 instances, and whatever goes wrong on the bus.     *)
(***************************************************************************)
EXTENDS I2cBus, TLAPS

\* Where a task is in its run(), and the stage it has stored for the next one.
LabelFits(t) ==
  running = t =>
    \/ label = task[t].stage
    \/ t = "sht31" /\ label = "init" /\ task[t].stage = "start"
    \/ t = "sht31" /\ label = "cancel" /\ task[t].stage = "process"
    \/ t = "ads1115" /\ label = "stop" /\ task[t].stage \in {"poll", "get", "process"}
    \/ t = "pca9670" /\ label = "load" /\ task[t].stage = "process"

\* The expander's task asks in the run in which it starts, and is not refused.
Asking(t) ==
  t = "pca9670" /\ At(t, "request") /\ task[t].stage = "request" /\ task[t].op_timer = 0

\* The mutex is taken as long as somebody holds it, the holder has its ticket,
\* and a task that is not at the start of its work is the holder.
LocksAgree ==
  /\ mutex.is_requested <=> holder # NoTask
  /\ holder # NoTask => task[holder].id = mutex.id /\ mutex.id # MutexInvalidId
  /\ \A t \in Board : LabelFits(t)
  /\ holder # NoTask => task[holder].stage \notin {"idle", "request"}
  /\ \A t \in Board : task[t].stage # "idle" => holder = t \/ Asking(t)

\* A read of n bytes into an empty buffer: what came in and what is still to
\* come is the answer, of which nothing is there while the byte after the read
\* before is clocked.
Reading(d, n) ==
  /\ d.old = 0 /\ d.got <= n
  /\ d.rx_active => d.got + d.todo = n /\ d.todo # 0
  /\ d.rx_active /\ d.transfer = "tail" => d.got = 0

\* The read was started while that byte was clocked: it is all there is.
Missed(d) == ~d.rx_active /\ d.old = 1 /\ d.got = 0

\* What the driver may be busy with while a task is at a place of its run().
Fits(d, place, n) ==
  /\ d.rx_active => place \in {"poll", "process", "stop"}
  /\ Available(d) # 0 => place \in {"poll", "process"}
  /\ place \in {"poll", "process"} => Reading(d, n) \/ Missed(d)
  /\ d.tx_active => place \in {"init", "start", "completion", "get"}

\* Every answer of a sensor has more than one byte.
LongReads(d) == d.transfer # "last" /\ (d.transfer = "address" => d.todo # 1)

\* The driver with task t at a place, unless a byte came in too late.
Agrees(d, late, place, t) ==
  LongReads(d) /\ (~late => Fits(d, place, AnswerLength(t)))

Place == IF running = holder THEN label ELSE task[holder].stage

DriverAgrees ==
  /\ holder = NoTask => \A t \in {"sht31", "ads1115"} : Agrees(driver, torn, "idle", t)
  /\ holder # NoTask => Agrees(driver, torn, Place, holder)

\* The expander is not on the board of the sensors.
Alone == "pca9670" \in Board => Board = {"pca9670"}

BoardInv ==
  /\ TypeOK
  /\ LocksAgree
  /\ "pca9670" \notin Board => DriverAgrees

BusInv == Board \in Boards /\ (Alone => BoardInv)

-----------------------------------------------------------------------------

LEMMA DriverTypes ==
  ASSUME NEW d \in Driver
  PROVE  /\ Configure(d) \in Driver /\ PowerOff(d) \in Driver
         /\ StartTx(d) \in Driver /\ \A n \in Nat : StartRx(d, n) \in Driver
         /\ StopTx(d) \in Driver /\ StopRx(d) \in Driver /\ EmptyRx(d) \in Driver
         /\ \A n \in Nat : Take(d, n) \in Driver
         /\ IsrTxDone(d) \in Driver /\ IsrAddress(d) \in Driver
         /\ IsrRxByte(d) \in Driver /\ IsrRxEnd(d) \in Driver
         /\ IsrRxNack(d) \in Driver /\ IsrBusError(d) \in Driver
<1>1. /\ Configure(d) \in Driver /\ PowerOff(d) \in Driver
      /\ StopTx(d) \in Driver /\ StopRx(d) \in Driver /\ EmptyRx(d) \in Driver
      /\ IsrTxDone(d) \in Driver /\ IsrAddress(d) \in Driver
      /\ IsrRxNack(d) \in Driver /\ IsrBusError(d) \in Driver
  BY DEF Driver, Transfer, Configure, PowerOff, StopTx, StopRx, EmptyRx, IsrTxDone,
         IsrAddress, IsrRxNack, IsrBusError
<1>2. Available(d) \in Nat /\ Started(d, "tx") \in Transfer /\ Started(d, "address") \in Transfer
  BY DEF Driver, Transfer, Available, Started
<1>3. StartTx(d) \in Driver /\ \A n \in Nat : StartRx(d, n) \in Driver
  <2>1. \A old, got, n \in Nat, s \in Transfer :
          /\ [d EXCEPT !.tx_active = TRUE, !.transfer = s] \in Driver
          /\ [d EXCEPT !.rx_active = TRUE, !.old = old, !.got = got, !.todo = n,
                       !.transfer = s] \in Driver
    BY DEF Driver
  <2>2. 0 \in Nat
    OBVIOUS
  <2>3. QED
    BY <1>2, <2>1, <2>2 DEF StartTx, StartRx
<1>4. \A n \in Nat : Take(d, n) \in Driver
  <2>1. \A old, got \in Nat : [d EXCEPT !.old = old, !.got = got] \in Driver
    BY DEF Driver
  <2>2. \A n \in Nat : Minus(d.old, n) \in Nat /\ Minus(d.got, Minus(n, d.old)) \in Nat
    BY DEF Driver, Minus
  <2>3. QED
    BY <2>1, <2>2 DEF Take
<1>5. IsrRxByte(d) \in Driver
  <2> DEFINE got == IF Keeps(d) THEN d.got + 1 ELSE d.got
             left == Minus(d.todo, 1)
             active == d.rx_active /\ left # 0
             next == IF left = 0 THEN "tail" ELSE "rx"
  <2>1. got \in Nat /\ left \in Nat /\ active \in BOOLEAN /\ next \in Transfer
    BY DEF Driver, Minus, Transfer
  <2>2. IsrRxByte(d) = [d EXCEPT !.got = got, !.todo = left, !.rx_active = active,
                                 !.transfer = next]
    BY DEF IsrRxByte, Driver
  <2> HIDE DEF got, left, active, next
  <2>3. QED
    BY <2>1, <2>2 DEF Driver
<1>6. IsrRxEnd(d) \in Driver
  <2> DEFINE old == IF Keeps(d) /\ d.transfer = "tail" THEN d.old + 1 ELSE d.old
             got == IF Keeps(d) /\ d.transfer = "last" THEN d.got + 1 ELSE d.got
  <2>1. old \in Nat /\ got \in Nat
    BY DEF Driver
  <2>2. IsrRxEnd(d) = [d EXCEPT !.old = old, !.got = got, !.rx_active = FALSE,
                                !.tx_active = FALSE, !.transfer = "none"]
    BY DEF IsrRxEnd, Driver
  <2> HIDE DEF old, got
  <2>3. QED
    BY <2>1, <2>2 DEF Driver, Transfer
<1>7. QED
  BY <1>1, <1>3, <1>4, <1>5, <1>6

\* No transfer is marked and the buffer is empty: the driver fits any place.
Quiet(d) == IsReady(d) /\ Available(d) = 0

LEMMA QuietFits ==
  ASSUME NEW d \in Driver, NEW n \in {2, 6}, Quiet(d)
  PROVE  /\ \A place : Fits(d, place, n)
         /\ \A place \in {"init", "start", "completion", "get"} : Fits(StartTx(d), place, n)
         /\ \A place \in {"poll", "process"} : Fits(StartRx(d, n), place, n)
<1>1. \A place : Fits(d, place, n)
  BY DEF Driver, Quiet, IsReady, Available, Fits, Reading
<1>2. \A place \in {"init", "start", "completion", "get"} : Fits(StartTx(d), place, n)
  BY DEF Driver, Quiet, IsReady, Available, Fits, StartTx
<1>3. \A place \in {"poll", "process"} : Fits(StartRx(d, n), place, n)
  BY DEF Driver, Quiet, IsReady, Available, Fits, StartRx, Reading
<1>4. QED
  BY <1>1, <1>2, <1>3

\* How the calls of a task lead to a quiet driver.
LEMMA QuietCalls ==
  ASSUME NEW d \in Driver, NEW n \in {2, 6}, NEW place, Fits(d, place, n)
  PROVE  /\ place \notin {"poll", "process", "stop"} => Quiet(StopTx(d))
         /\ place \notin {"poll", "process", "stop"} /\ IsReady(d) => Quiet(d)
         /\ place = "stop" => Quiet(StopRx(d))
         /\ place = "cancel" => Quiet(PowerOff(d))
         /\ place = "idle" => Quiet(Configure(d)) /\ Quiet(d)
         /\ place \in {"poll", "process"} /\ Available(d) >= n =>
              /\ d.old = 0
              /\ \A m \in Nat : m >= n => Quiet(Take(d, m))
<1>1. /\ place \notin {"poll", "process", "stop"} => Quiet(StopTx(d))
      /\ place \notin {"poll", "process", "stop"} /\ IsReady(d) => Quiet(d)
      /\ place = "stop" => Quiet(StopRx(d))
  BY DEF Driver, Fits, Quiet, IsReady, Available, StopTx, StopRx
<1>2. /\ place = "cancel" => Quiet(PowerOff(d))
      /\ place = "idle" => Quiet(Configure(d)) /\ Quiet(d)
  BY DEF Driver, Fits, Quiet, IsReady, Available, PowerOff, Configure
<1>3. ASSUME place \in {"poll", "process"}, Available(d) >= n
      PROVE  d.old = 0 /\ \A m \in Nat : m >= n => Quiet(Take(d, m))
  <2>1. Reading(d, n) /\ ~d.tx_active
    BY <1>3 DEF Driver, Fits, Missed, Available
  <2>2. d.old = 0 /\ d.got = n /\ ~d.rx_active
    BY <1>3, <2>1 DEF Driver, Reading, Available
  <2>3. ASSUME NEW m \in Nat, m >= n PROVE Quiet(Take(d, m))
    BY <2>1, <2>2, <2>3 DEF Driver, Quiet, IsReady, Available, Take, Minus
  <2>4. QED
    BY <2>2, <2>3
<1>4. QED
  BY <1>1, <1>2, <1>3

\* What the calls of a task make of the driver fits the place the task goes to.
LEMMA CallsAgree ==
  ASSUME NEW d \in Driver, NEW late \in BOOLEAN, NEW t \in {"sht31", "ads1115"}, NEW place,
         Agrees(d, late, place, t)
  PROVE  /\ place \notin {"poll", "process", "stop"} /\ IsReady(d) =>
              /\ \A next \in {"start", "completion", "get"} : Agrees(StartTx(d), late, next, t)
              /\ \A next \in {"poll", "process"} :
                   Agrees(StartRx(d, AnswerLength(t)), late, next, t)
         /\ IsReady(d) => Agrees(StartTx(EmptyRx(d)), FALSE, "start", t)
         /\ place \notin {"poll", "process", "stop"} => Agrees(StopTx(d), late, "cancel", t)
         /\ Agrees(EmptyRx(StopRx(StopTx(d))), FALSE, "cancel", t)
         /\ Agrees(EmptyRx(StopTx(d)), FALSE, "stop", t)
         /\ place = "stop" => Agrees(StopRx(d), late, "cancel", t)
         /\ place \in {"poll", "process"} /\ Available(d) >= AnswerLength(t) =>
              \A m \in Nat : m >= AnswerLength(t) =>
                /\ \A next : Agrees(Take(d, m), late, next, t)
                /\ Agrees(StartTx(Take(d, m)), late, "get", t)
<1> DEFINE n == AnswerLength(t)
<1>1. n \in {2, 6} /\ n \in Nat
  BY DEF AnswerLength
<1>2. LongReads(d) /\ (~late => Fits(d, place, n))
  BY DEF Agrees
<1> HIDE DEF n
<1>3. \A e \in Driver : Quiet(e) => Fits(StartTx(e), "start", n) /\ Fits(StartTx(e), "get", n)
                                  /\ Fits(StartTx(e), "completion", n)
                                  /\ Fits(StartRx(e, n), "poll", n)
                                  /\ Fits(StartRx(e, n), "process", n)
                                  /\ \A next : Fits(e, next, n)
  BY <1>1, QuietFits
<1>4. \A e \in Driver : LongReads(e) =>
        /\ LongReads(StartTx(e)) /\ LongReads(StartRx(e, n)) /\ LongReads(StopTx(e))
        /\ LongReads(StopRx(e)) /\ LongReads(EmptyRx(e)) /\ \A m : LongReads(Take(e, m))
  BY <1>1 DEF Driver, LongReads, StartTx, StartRx, Started, StopTx, StopRx, EmptyRx, Take
<1>5. /\ EmptyRx(d) \in Driver /\ StopTx(d) \in Driver /\ StopRx(d) \in Driver
      /\ StopRx(StopTx(d)) \in Driver /\ EmptyRx(StopRx(StopTx(d))) \in Driver
      /\ EmptyRx(StopTx(d)) \in Driver /\ \A m \in Nat : Take(d, m) \in Driver
  BY DriverTypes
<1>6. /\ IsReady(d) => Quiet(EmptyRx(d))
      /\ Quiet(EmptyRx(StopRx(StopTx(d))))
      /\ Fits(EmptyRx(StopTx(d)), "stop", n)
  BY DEF Driver, Quiet, IsReady, Available, EmptyRx, StopTx, StopRx, Fits
<1>7. ~late =>
        /\ place \notin {"poll", "process", "stop"} => Quiet(StopTx(d))
        /\ place \notin {"poll", "process", "stop"} /\ IsReady(d) => Quiet(d)
        /\ place = "stop" => Quiet(StopRx(d))
        /\ place \in {"poll", "process"} /\ Available(d) >= n =>
             \A m \in Nat : m >= n => Quiet(Take(d, m))
  BY <1>1, <1>2, QuietCalls
<1>8. ASSUME place \notin {"poll", "process", "stop"}, IsReady(d)
      PROVE  /\ \A next \in {"start", "completion", "get"} : Agrees(StartTx(d), late, next, t)
             /\ \A next \in {"poll", "process"} : Agrees(StartRx(d, n), late, next, t)
  BY <1>2, <1>3, <1>4, <1>7, <1>8 DEF Agrees, n
<1>9. IsReady(d) => Agrees(StartTx(EmptyRx(d)), FALSE, "start", t)
  BY <1>2, <1>3, <1>4, <1>5, <1>6 DEF Agrees, n
<1>10. /\ place \notin {"poll", "process", "stop"} => Agrees(StopTx(d), late, "cancel", t)
       /\ place = "stop" => Agrees(StopRx(d), late, "cancel", t)
  BY <1>2, <1>3, <1>4, <1>5, <1>7 DEF Agrees, n
<1>11. /\ Agrees(EmptyRx(StopRx(StopTx(d))), FALSE, "cancel", t)
       /\ Agrees(EmptyRx(StopTx(d)), FALSE, "stop", t)
  BY <1>2, <1>3, <1>4, <1>5, <1>6 DEF Agrees, n
<1>12. ASSUME place \in {"poll", "process"}, Available(d) >= n, NEW m \in Nat, m >= n
       PROVE  /\ \A next : Agrees(Take(d, m), late, next, t)
              /\ Agrees(StartTx(Take(d, m)), late, "get", t)
  <2>1. Take(d, m) \in Driver /\ LongReads(Take(d, m)) /\ LongReads(StartTx(Take(d, m)))
    BY <1>2, <1>4, <1>5
  <2>2. ~late => Quiet(Take(d, m))
    BY <1>7, <1>12
  <2>3. QED
    BY <1>3, <2>1, <2>2 DEF Agrees, n
<1>13. QED
  BY <1>8, <1>9, <1>10, <1>11, <1>12 DEF n

\* The same, one call at a time, as a task makes it at its label.
LEMMA SendAgrees ==
  ASSUME NEW d \in Driver, NEW late \in BOOLEAN, NEW t \in {"sht31", "ads1115"}, NEW place,
         Agrees(d, late, place, t), place \notin {"poll", "process", "stop"}, IsReady(d),
         NEW next \in {"start", "completion", "get"}
  PROVE  Agrees(StartTx(d), late, next, t)
BY CallsAgree

LEMMA ReadAgrees ==
  ASSUME NEW d \in Driver, NEW late \in BOOLEAN, NEW t \in {"sht31", "ads1115"}, NEW place,
         Agrees(d, late, place, t), place \notin {"poll", "process", "stop"}, IsReady(d),
         NEW next \in {"poll", "process"}
  PROVE  Agrees(StartRx(d, AnswerLength(t)), late, next, t)
BY CallsAgree

LEMMA GiveUpAgrees ==
  ASSUME NEW d \in Driver, NEW late \in BOOLEAN, NEW t \in {"sht31", "ads1115"}, NEW place,
         Agrees(d, late, place, t), place \notin {"poll", "process", "stop"}
  PROVE  Agrees(StopTx(d), late, "cancel", t)
BY CallsAgree

LEMMA TakeAgrees ==
  ASSUME NEW d \in Driver, NEW late \in BOOLEAN, NEW t \in {"sht31", "ads1115"}, NEW place,
         Agrees(d, late, place, t), place \in {"poll", "process"},
         Available(d) >= AnswerLength(t), NEW m \in Nat, m >= AnswerLength(t), NEW next
  PROVE  /\ Take(d, m) \in Driver /\ StartTx(Take(d, m)) \in Driver
         /\ Agrees(Take(d, m), late, next, t)
         /\ Agrees(StartTx(Take(d, m)), late, "get", t)
BY CallsAgree, DriverTypes

\* The interrupt keeps the driver fit for the place a task is at, but for a
\* byte that comes in before stop_rx.
LEMMA InterruptsFit ==
  ASSUME NEW d \in Driver, NEW late \in BOOLEAN, NEW t \in {"sht31", "ads1115"}, NEW place,
         Agrees(d, late, place, t),
         NEW e, \/ d.transfer = "tx" /\ e = IsrTxDone(d)
                \/ d.transfer = "address" /\ e = IsrAddress(d)
                \/ d.transfer = "rx" /\ e = IsrRxByte(d)
                \/ d.transfer \in {"last", "tail"} /\ e = IsrRxEnd(d)
                \/ e = IsrRxNack(d) \/ e = IsrBusError(d)
  PROVE  Agrees(e, late \/ (place = "stop" /\ Available(e) > Available(d)), place, t)
<1> DEFINE n == AnswerLength(t)
<1>1. n \in {2, 6}
  BY DEF AnswerLength
<1>2. LongReads(d) /\ (~late => Fits(d, place, n))
  BY DEF Agrees
<1> HIDE DEF n
<1>3. LongReads(e)
  BY <1>2 DEF Driver, LongReads, IsrTxDone, IsrAddress, IsrRxByte, IsrRxEnd, IsrRxNack, IsrBusError
<1>4. ASSUME ~late, ~(place = "stop" /\ Available(e) > Available(d))
      PROVE  Fits(e, place, n)
  <2>1. Fits(d, place, n)
    BY <1>2, <1>4
  <2>2. CASE \/ d.transfer = "tx" /\ e = IsrTxDone(d)
             \/ d.transfer = "address" /\ e = IsrAddress(d)
             \/ e = IsrRxNack(d) \/ e = IsrBusError(d)
    BY <1>1, <2>1, <2>2
       DEF Driver, Fits, Reading, Missed, Available, IsrTxDone, IsrAddress, IsrRxNack, IsrBusError
  <2>3. CASE d.transfer = "rx" /\ e = IsrRxByte(d)
    BY <1>1, <1>4, <2>1, <2>3, RxBufferAssumption
       DEF Driver, Fits, Reading, Missed, Available, IsrRxByte, Keeps, Minus
  <2>4. CASE d.transfer \in {"last", "tail"} /\ e = IsrRxEnd(d)
    BY <1>1, <1>2, <1>4, <2>1, <2>4, RxBufferAssumption
       DEF Driver, Fits, Reading, Missed, Available, IsrRxEnd, Keeps, LongReads
  <2>5. QED
    BY <2>2, <2>3, <2>4
<1>5. QED
  BY <1>3, <1>4 DEF Agrees, n

LEMMA MutexCalls ==
  ASSUME NEW m \in Mutex
  PROVE  /\ Request(m) \in Mutex /\ RequestResult(m) \in MutexId
         /\ RequestResult(m) # MutexInvalidId =>
              ~m.is_requested /\ Request(m).is_requested /\ Request(m).id = RequestResult(m)
         /\ RequestResult(m) = MutexInvalidId => m.is_requested
         /\ \A ticket : Release(m, ticket) \in Mutex
         /\ m.is_requested => ~Release(m, m.id).is_requested
BY MutexIdAssumption
   DEF Mutex, MutexId, MutexInvalidId, MutexIdFirst, NextTicket, Request, RequestResult,
       Release

\* Task t goes on with other data, the other tasks keep theirs.
Change(t, data) ==
  /\ data \in TaskData /\ data.index <= Last[t]
  /\ Board' = Board
  /\ task'[t] = data
  /\ \A u \in Board : u # t => task'[u] = task[u]

LEMMA SetChanges ==
  ASSUME NEW t \in Board, NEW data \in TaskData, data.index <= Last[t], Set(t, data)
  PROVE  Change(t, data)
BY DEF Change, Set, Board

LEMMA ChangeTypes ==
  ASSUME TypeOK, NEW t \in Board, NEW data, Change(t, data)
  PROVE  /\ Board' = Board
         /\ \A u \in Board : task'[u] \in TaskData /\ task'[u].index <= Last[u]
BY DEF TypeOK, Change

\* A task that is past the start of its work holds the bus.
LEMMA WorkerHolds ==
  ASSUME BoardInv, NEW t \in Board, running = t, label \notin {"idle", "request"}
  PROVE  /\ holder = t /\ t # NoTask
         /\ task[t] \in TaskData /\ task[t].index <= Last[t]
         /\ task[t].stage \notin {"idle", "request"}
         /\ driver \in Driver
         /\ "pca9670" \notin Board =>
              Agrees(driver, torn, label, t) /\ t \in {"sht31", "ads1115"}
<1>1. TypeOK /\ LocksAgree /\ t # NoTask
  BY BusAssumption DEF BoardInv, TypeOK, Task
<1>2. holder = t
  BY <1>1, BusAssumption DEF LocksAgree, LabelFits, Asking, At
<1>3. "pca9670" \notin Board => t \in {"sht31", "ads1115"}
  BY <1>1, BusAssumption DEF TypeOK
<1>4. QED
  BY <1>1, <1>2, <1>3 DEF LocksAgree, BoardInv, DriverAgrees, Place, TypeOK

\* The holder goes on in its work: to the next case, or to a break.
LEMMA WorkKeeps ==
  ASSUME BoardInv, NEW t \in Board, NEW data,
         running = t, label \notin {"idle", "request"},
         Change(t, data), data.id = task[t].id, data.stage \notin {"idle", "request"},
         UNCHANGED <<mutex, holder, wants, is_on, pin_changed>>, converted' \in BOOLEAN,
         \/ running' = NoTask /\ label' = "idle"
         \/ running' = t /\ label' \in Label \ {"idle", "request"} /\ LabelFits(t)',
         driver' \in Driver, user' \in {t, NoTask}, torn' \in BOOLEAN,
         "pca9670" \notin Board =>
           /\ running' = t => Agrees(driver', torn', label', t)
           /\ running' # t => Agrees(driver', torn', data.stage, t)
  PROVE  BoardInv'
<1>1. TypeOK /\ LocksAgree /\ \A u \in Board : u # NoTask
  BY BusAssumption DEF BoardInv, TypeOK, Task
<1>2. holder = t
  BY WorkerHolds
<1>3. /\ Board' = Board
      /\ \A u \in Board : task'[u] \in TaskData /\ task'[u].index <= Last[u]
  BY <1>1, ChangeTypes
<1>4. TypeOK'
  BY <1>1, <1>3 DEF TypeOK, Stage, Label
<1>5. LocksAgree'
  <2>1. mutex'.is_requested <=> holder' # NoTask
    BY <1>1 DEF LocksAgree
  <2>2. task'[holder'].id = mutex'.id /\ mutex'.id # MutexInvalidId
        /\ task'[holder'].stage \notin {"idle", "request"}
    BY <1>1, <1>2 DEF LocksAgree, Change
  <2>3. \A u \in Board : LabelFits(u)'
    <3>1. ASSUME NEW u \in Board PROVE LabelFits(u)'
      <4>1. CASE running' = NoTask
        BY <1>1, <4>1 DEF LabelFits
      <4>2. CASE running' = t /\ LabelFits(t)'
        BY <4>2 DEF LabelFits
      <4>3. QED
        BY <4>1, <4>2
    <3>2. QED
      BY <3>1
  <2>4. ASSUME NEW u \in Board, task'[u].stage # "idle" PROVE holder' = u
    <3>1. CASE u = t
      BY <1>2, <3>1
    <3>2. CASE u # t
      BY <1>1, <1>2, <2>4, <3>2 DEF Change, LocksAgree, Asking, At
    <3>3. QED
      BY <3>1, <3>2
  <2>5. QED
    BY <1>3, <2>1, <2>2, <2>3, <2>4 DEF LocksAgree
<1>6. "pca9670" \notin Board => DriverAgrees'
  BY <1>1, <1>2 DEF DriverAgrees, Place, Change
<1>7. QED
  BY <1>3, <1>4, <1>5, <1>6 DEF BoardInv

LEMMA NextStage ==
  ASSUME BoardInv, NEW t \in Board, running = t, label \notin {"idle", "request"},
         NEW data \in TaskData, NEW s \in Stage \ {"idle", "request"},
         data.index <= Last[t], data.id = task[t].id, data.stage = s, Set(t, data),
         GoOn(s) \/ Break,
         UNCHANGED <<mutex, holder, wants, is_on, pin_changed>>, converted' \in BOOLEAN,
         driver' \in Driver, user' \in {t, NoTask}, torn' \in BOOLEAN,
         "pca9670" \notin Board => Agrees(driver', torn', s, t)
  PROVE  BoardInv'
<1>1. Change(t, data) /\ t # NoTask
  BY SetChanges, WorkerHolds
<1>2. CASE GoOn(s)
  <2>1. running' = t /\ label' = s /\ LabelFits(t)'
    BY <1>1, <1>2 DEF GoOn, LabelFits, Change
  <2>2. QED
    BY <1>1, <2>1, WorkKeeps DEF Label
<1>3. CASE Break
  <2>1. running' = NoTask /\ label' = "idle" /\ running' # t
    BY <1>1, <1>3 DEF Break
  <2>2. QED
    BY <1>1, <2>1, WorkKeeps
<1>4. QED
  BY <1>2, <1>3

LEMMA WaitKeeps ==
  ASSUME BoardInv, NEW t \in Board, running = t, label \notin {"idle", "request"}, Wait(t),
         "pca9670" \notin Board => Agrees(driver, torn, task[t].stage, t)
  PROVE  BoardInv'
<1>1. /\ task[t] \in TaskData /\ task[t].index <= Last[t] /\ driver \in Driver
      /\ task[t].stage \notin {"idle", "request"}
      /\ t # NoTask /\ converted \in BOOLEAN /\ torn \in BOOLEAN
  BY WorkerHolds DEF BoardInv, TypeOK
<1>2. Change(t, task[t])
  BY <1>1 DEF Wait, Change, Board
<1>3. QED
  BY <1>1, <1>2, WorkKeeps DEF Wait, Break, NoCall, Local

\* A task comes back to the case it is in, or to the one behind "init".
LEMMA SameStage ==
  ASSUME BoardInv, NEW t \in Board, running = t,
         \/ label \in {"start", "get", "process", "completion", "poll"}
         \/ t = "ads1115" /\ label = "init"
  PROVE  task[t].stage = label
BY DEF BoardInv, LocksAgree, LabelFits

LEMMA GiveUpKeeps ==
  ASSUME BoardInv, NEW t \in Board, running = t, label \notin {"idle", "request"},
         NEW d \in Driver, GiveUp(t, d),
         "pca9670" \notin Board => Agrees(d, torn, "cancel", t)
  PROVE  BoardInv'
<1> DEFINE data == [task[t] EXCEPT !.stage = "cancel"]
<1>1. /\ task[t] \in TaskData /\ task[t].index <= Last[t] /\ t # NoTask
      /\ converted \in BOOLEAN /\ torn \in BOOLEAN
  BY WorkerHolds DEF BoardInv, TypeOK
<1>2. /\ data \in TaskData /\ data.index <= Last[t]
      /\ data.id = task[t].id /\ data.stage = "cancel"
  BY <1>1 DEF TaskData, Stage
<1>3. Change(t, data)
  BY <1>2, SetChanges DEF GiveUp, Goto
<1> HIDE DEF data
<1>4. QED
  BY <1>1, <1>2, <1>3, WorkKeeps DEF GiveUp, Break, Call, Local

\* A task that is given the mutex becomes the holder of a quiet bus.
LEMMA GrantedKeeps ==
  ASSUME BoardInv, NEW t \in Board, NEW data, running = t,
         data \in TaskData, data.index <= Last[t], data.stage \notin {"idle", "request"},
         Granted(t, data),
         wants' \subseteq Board, UNCHANGED <<is_on, converted>>, pin_changed' \in BOOLEAN,
         \/ running' = NoTask /\ label' = "idle"
         \/ /\ running' = t /\ label' \in Stage \ {"idle", "request"}
            /\ label' = data.stage \/ (t = "sht31" /\ label' = "init" /\ data.stage = "start")
  PROVE  BoardInv'
<1> DEFINE new == [data EXCEPT !.id = RequestResult(mutex)]
<1>1. TypeOK /\ LocksAgree /\ \A u \in Board : u # NoTask
  BY BusAssumption DEF BoardInv, TypeOK, Task
<1>2. mutex \in Mutex /\ driver \in Driver
  BY <1>1 DEF TypeOK
<1>3. /\ mutex' \in Mutex /\ RequestResult(mutex) \in MutexId
      /\ ~mutex.is_requested /\ mutex'.is_requested /\ mutex'.id = RequestResult(mutex)
      /\ RequestResult(mutex) # MutexInvalidId
  BY <1>2, MutexCalls DEF Granted
<1>4. /\ new \in TaskData /\ new.index <= Last[t] /\ new.id = mutex'.id
      /\ new.stage = data.stage
  BY <1>3 DEF TaskData
<1>5. Change(t, new)
  BY <1>4, SetChanges DEF Granted
<1> HIDE DEF new
<1>6. /\ Board' = Board
      /\ \A u \in Board : task'[u] \in TaskData /\ task'[u].index <= Last[u]
  BY <1>1, <1>5, ChangeTypes
<1>7. /\ driver' = Configure(driver) /\ driver' \in Driver /\ user' = t /\ holder' = t
      /\ torn' = torn /\ torn \in BOOLEAN
  BY <1>1, <1>2, DriverTypes DEF Granted, Call, TypeOK
<1>8. TypeOK'
  BY <1>1, <1>3, <1>6, <1>7 DEF TypeOK, Stage, Label
<1>9. holder = NoTask
  BY <1>1, <1>3 DEF LocksAgree
<1>10. LocksAgree'
  <2>1. task'[t] = new
    BY <1>5 DEF Change
  <2>2. \A u \in Board : LabelFits(u)'
    BY <1>1, <1>4, <2>1 DEF LabelFits
  <2>3. ASSUME NEW u \in Board, u # t PROVE task'[u].stage = "idle"
    BY <1>1, <1>5, <1>9, <2>3 DEF Change, LocksAgree, Asking, At
  <2>4. QED
    BY <1>1, <1>3, <1>4, <1>6, <1>7, <2>1, <2>2, <2>3 DEF LocksAgree
<1>11. "pca9670" \notin Board => DriverAgrees'
  <2>1. SUFFICES ASSUME "pca9670" \notin Board PROVE DriverAgrees'
    OBVIOUS
  <2>2. t \in {"sht31", "ads1115"} /\ holder' # NoTask
    BY <1>1, <1>7, <2>1, BusAssumption DEF TypeOK
  <2>3. Agrees(driver, torn, "idle", t)
    BY <1>9, <2>1, <2>2 DEF BoardInv, DriverAgrees
  <2>4. \A place : Agrees(driver', torn', place, t)
    <3>1. AnswerLength(t) \in {2, 6}
      BY <2>2 DEF AnswerLength
    <3>2. LongReads(driver')
      BY <1>2, <1>7, <2>3 DEF Agrees, LongReads, Configure, Driver
    <3>3. ~torn => Quiet(driver')
      BY <1>2, <1>7, <2>3, <3>1, QuietCalls DEF Agrees
    <3>4. QED
      BY <1>7, <3>1, <3>2, <3>3, QuietFits DEF Agrees
  <2>5. QED
    BY <1>7, <2>2, <2>4 DEF DriverAgrees
<1>12. QED
  BY <1>6, <1>8, <1>10, <1>11 DEF BoardInv

\* A task that is refused stays where it is.
LEMMA RefusedKeeps ==
  ASSUME BoardInv, NEW t \in Board, running = t, label = "idle", Refused(t)
  PROVE  BoardInv'
<1> DEFINE new == [task[t] EXCEPT !.id = MutexInvalidId]
<1>1. TypeOK /\ LocksAgree /\ \A u \in Board : u # NoTask
  BY BusAssumption DEF BoardInv, TypeOK, Task
<1>2. task[t] \in TaskData /\ task[t].index <= Last[t] /\ mutex \in Mutex
  BY <1>1 DEF TypeOK
<1>3. /\ new \in TaskData /\ new.index <= Last[t] /\ new.stage = task[t].stage
  BY <1>2, MutexIdAssumption DEF TaskData, MutexId, MutexInvalidId
<1>4. Change(t, new)
  BY <1>3, SetChanges DEF Refused
<1> HIDE DEF new
<1>5. /\ Board' = Board
      /\ \A u \in Board : task'[u] \in TaskData /\ task'[u].index <= Last[u]
  BY <1>1, <1>4, ChangeTypes
<1>6. /\ running' = NoTask /\ label' = "idle" /\ user' = NoTask
      /\ UNCHANGED <<driver, mutex, holder, is_on, wants, converted, pin_changed, torn>>
  BY DEF Refused, Break, NoCall, Local
<1>7. TypeOK'
  BY <1>1, <1>5, <1>6 DEF TypeOK, Stage
<1>8. holder # t
  BY <1>1 DEF LocksAgree, LabelFits
<1>9. \A u \in Board : task'[u].stage = task[u].stage /\ (u # t => task'[u] = task[u])
  BY <1>3, <1>4 DEF Change
<1>10. holder # NoTask => holder \in Board
  BY <1>1 DEF TypeOK
<1>11. LocksAgree'
  <2>1. \A u \in Board : LabelFits(u)'
    BY <1>1, <1>6 DEF LabelFits
  <2>2. ASSUME NEW u \in Board, task'[u].stage # "idle" PROVE holder' = u
    BY <1>1, <1>6, <1>9, <2>2 DEF LocksAgree, Asking, At
  <2>3. QED
    BY <1>1, <1>5, <1>6, <1>8, <1>9, <1>10, <2>1, <2>2 DEF LocksAgree
<1>12. "pca9670" \notin Board => DriverAgrees'
  BY <1>6, <1>8, <1>9, <1>10, <1>1 DEF BoardInv, DriverAgrees, Place
<1>13. QED
  BY <1>5, <1>7, <1>11, <1>12 DEF BoardInv

\* The holder gives a quiet bus back.
LEMMA LeaveKeeps ==
  ASSUME BoardInv, NEW t \in Board, NEW data, running = t, label = "cancel",
         data \in TaskData, data.index <= Last[t], data.stage = "idle",
         Set(t, data), Leave(t), Break,
         wants' \subseteq Board, UNCHANGED <<is_on, converted, pin_changed>>
  PROVE  BoardInv'
<1>1. TypeOK /\ LocksAgree /\ \A u \in Board : u # NoTask
  BY BusAssumption DEF BoardInv, TypeOK, Task
<1>2. /\ holder = t /\ driver \in Driver
      /\ "pca9670" \notin Board =>
           Agrees(driver, torn, "cancel", t) /\ t \in {"sht31", "ads1115"}
  BY WorkerHolds
<1>3. Change(t, data)
  BY SetChanges
<1>4. /\ Board' = Board
      /\ \A u \in Board : task'[u] \in TaskData /\ task'[u].index <= Last[u]
  BY <1>1, <1>3, ChangeTypes
<1>5. mutex.is_requested /\ mutex.id = task[t].id /\ mutex \in Mutex
  BY <1>1, <1>2 DEF LocksAgree, TypeOK
<1>6. mutex' \in Mutex /\ ~mutex'.is_requested /\ holder' = NoTask
  BY <1>5, MutexCalls DEF Leave
<1>7. /\ driver' = PowerOff(driver) /\ driver' \in Driver /\ user' = t
      /\ torn' = torn /\ torn \in BOOLEAN
  BY <1>1, <1>2, DriverTypes DEF Leave, Call, TypeOK
<1>8. TypeOK'
  BY <1>1, <1>4, <1>6, <1>7 DEF TypeOK, Stage, Label, Break
<1>9. LocksAgree'
  <2>1. \A u \in Board : LabelFits(u)'
    BY <1>1 DEF LabelFits, Break
  <2>2. ASSUME NEW u \in Board PROVE task'[u].stage = "idle"
    BY <1>1, <1>2, <1>3 DEF Change, LocksAgree, Asking, At
  <2>3. QED
    BY <1>4, <1>6, <2>1, <2>2 DEF LocksAgree
<1>10. "pca9670" \notin Board => DriverAgrees'
  <2>1. SUFFICES ASSUME "pca9670" \notin Board PROVE DriverAgrees'
    OBVIOUS
  <2>2. AnswerLength(t) \in {2, 6}
    BY <1>2, <2>1 DEF AnswerLength
  <2>3. LongReads(driver')
    BY <1>2, <1>7, <2>1 DEF Agrees, LongReads, PowerOff, Driver
  <2>4. ~torn => Quiet(driver')
    BY <1>2, <1>7, <2>1, <2>2, QuietCalls DEF Agrees
  <2>5. \A n \in {2, 6} : ~torn => Fits(driver', "idle", n)
    BY <1>7, <2>4, QuietFits
  <2>6. \A u \in {"sht31", "ads1115"} : AnswerLength(u) \in {2, 6}
    BY DEF AnswerLength
  <2>7. QED
    BY <1>6, <1>7, <2>3, <2>5, <2>6 DEF DriverAgrees, Agrees
<1>11. QED
  BY <1>4, <1>8, <1>9, <1>10 DEF BoardInv

\* The data of a task with another stage: nothing else, the timer of the
\* operation or of the task reset, another index.
Staged(r, s) == [r EXCEPT !.stage = s]
Restarted(r, s) == [r EXCEPT !.stage = s, !.op_timer = 0]
Timed(r, s) == [r EXCEPT !.stage = s, !.task_timer = FALSE]
Indexed(r, s, n) == [r EXCEPT !.stage = s, !.index = n]
RestartedAt(r, s, n) == [r EXCEPT !.stage = s, !.op_timer = 0, !.index = n]

LEMMA NewStage ==
  ASSUME NEW r \in TaskData, NEW s \in Stage
  PROVE  \A e \in {Staged(r, s), Restarted(r, s), Timed(r, s)} :
           e \in TaskData /\ e.id = r.id /\ e.index = r.index /\ e.stage = s
<1>1. LET e == Staged(r, s)
      IN  e \in TaskData /\ e.id = r.id /\ e.index = r.index /\ e.stage = s
  BY DEF Staged, TaskData
<1>2. LET e == Restarted(r, s)
      IN  e \in TaskData /\ e.id = r.id /\ e.index = r.index /\ e.stage = s
  <2> DEFINE zero == 0
  <2>1. zero \in 0 .. 2
    OBVIOUS
  <2> HIDE DEF zero
  <2>2. Restarted(r, s) = [r EXCEPT !.stage = s, !.op_timer = zero]
    BY DEF zero, Restarted
  <2>3. QED
    BY <2>1, <2>2 DEF TaskData
<1>3. LET e == Timed(r, s)
      IN  e \in TaskData /\ e.id = r.id /\ e.index = r.index /\ e.stage = s
  BY DEF Timed, TaskData
<1>4. QED
  BY <1>1, <1>2, <1>3

LEMMA NewIndex ==
  ASSUME NEW r \in TaskData, NEW s \in Stage, NEW i \in Nat
  PROVE  /\ Indexed(r, s, i) \in TaskData /\ Indexed(r, s, i).id = r.id
         /\ Indexed(r, s, i).index = i /\ Indexed(r, s, i).stage = s
         /\ RestartedAt(r, s, i) \in TaskData /\ RestartedAt(r, s, i).id = r.id
         /\ RestartedAt(r, s, i).index = i /\ RestartedAt(r, s, i).stage = s
<1>1. /\ Indexed(r, s, i) \in TaskData /\ Indexed(r, s, i).id = r.id
      /\ Indexed(r, s, i).index = i /\ Indexed(r, s, i).stage = s
  BY DEF Indexed, TaskData
<1>2. /\ RestartedAt(r, s, i) \in TaskData /\ RestartedAt(r, s, i).id = r.id
      /\ RestartedAt(r, s, i).index = i /\ RestartedAt(r, s, i).stage = s
  <2> DEFINE zero == 0
  <2>1. zero \in 0 .. 2
    OBVIOUS
  <2> HIDE DEF zero
  <2>2. RestartedAt(r, s, i) = [r EXCEPT !.stage = s, !.op_timer = zero, !.index = i]
    BY DEF zero, RestartedAt
  <2>3. QED
    BY <2>1, <2>2 DEF TaskData
<1>3. QED
  BY <1>1, <1>2

-----------------------------------------------------------------------------
(* The cases of the run() of each task.                                    *)

LEMMA ShtKeeps ==
  ASSUME BoardInv, "sht31" \in Board, ShtIdle("sht31") \/ ShtInit("sht31") \/ ShtStart("sht31")
           \/ ShtGet("sht31") \/ ShtProcess("sht31") \/ ShtCancel("sht31")
  PROVE  BoardInv'
<1> DEFINE t == "sht31"
<1>1. /\ t \in Board /\ task[t] \in TaskData /\ task[t].index <= Last[t] /\ task[t].index \in Nat
      /\ Last[t] \in Nat
      /\ driver \in Driver /\ converted \in BOOLEAN /\ pin_changed \in BOOLEAN
      /\ torn \in BOOLEAN /\ AnswerLength(t) \in Nat
      /\ wants \cup {t} \subseteq Board /\ wants \ {t} \subseteq Board
  BY BusAssumption DEF BoardInv, TypeOK, TaskData, Task, AnswerLength
<1>0. t \in {"sht31", "ads1115"}
  OBVIOUS
<1>2. ASSUME running = t, label \notin {"idle", "request"}, "pca9670" \notin Board
      PROVE  Agrees(driver, torn, label, t)
  BY <1>1, <1>2, WorkerHolds
<1> HIDE DEF t
<1>3. CASE ShtIdle(t)
  <2>1. running = t /\ label = "idle"
    BY <1>3 DEF ShtIdle, At
  <2>2. CASE Refused(t)
    BY <1>1, <2>1, <2>2, RefusedKeeps
  <2>3. CASE ~Refused(t)
    <3> DEFINE data == Timed(task[t], "start")
    <3>1. data \in TaskData /\ data.index <= Last[t] /\ data.stage = "start"
      <4>1. "start" \in Stage
        BY DEF Stage
      <4>2. QED
        BY <1>1, <4>1, NewStage
    <3>2. /\ Granted(t, data) /\ wants' = wants \cup {t} /\ GoOn("init")
          /\ UNCHANGED <<is_on, converted, pin_changed>>
      BY <1>3, <2>3 DEF ShtIdle, Timed
    <3> HIDE DEF data
    <3>3. QED
      BY <1>1, <2>1, <3>1, <3>2, GrantedKeeps DEF GoOn, Stage, t
  <2>4. QED
    BY <2>2, <2>3
<1>4. CASE ShtInit(t)
  <2>1. running = t /\ label = "init"
    BY <1>4 DEF ShtInit, At
  <2>2. CASE ~(is_on /\ IsReady(driver))
    <3>1. Wait(t)
      BY <1>4, <2>2 DEF ShtInit
    <3>2. task[t].stage \in {"init", "start"}
      BY <1>1, <2>1 DEF BoardInv, LocksAgree, LabelFits, t
    <3>3. "pca9670" \notin Board => Agrees(driver, torn, task[t].stage, t)
      BY <1>1, <1>2, <2>1, <3>2 DEF Agrees, Fits
    <3>4. QED
      BY <1>1, <2>1, <3>1, <3>2, <3>3, WaitKeeps
  <2>3. CASE is_on /\ IsReady(driver)
    <3> DEFINE data == Timed(task[t], "start")
    <3>1. data \in TaskData /\ data.index <= Last[t] /\ data.id = task[t].id /\ data.stage = "start"
      <4>1. "start" \in Stage
        BY DEF Stage
      <4>2. QED
        BY <1>1, <4>1, NewStage
    <3> HIDE DEF data
    <3>2. /\ Set(t, data) /\ driver' = StartTx(EmptyRx(driver)) /\ user' = t /\ torn' = FALSE /\ GoOn("start")
          /\ UNCHANGED <<mutex, holder, wants, is_on, pin_changed>> /\ converted' \in BOOLEAN
      BY <1>1, <1>4, <2>3 DEF ShtInit, CallClears, Local, data, Timed
    <3>3. driver' \in Driver /\ ("pca9670" \notin Board => Agrees(driver', torn', "start", t))
      BY <1>0, <1>1, <1>2, <2>1, <2>3, <3>2, DriverTypes, CallsAgree
    <3>4. QED
      BY <1>1, <2>1, <3>1, <3>2, <3>3, NextStage DEF Stage
  <2>4. QED
    BY <2>2, <2>3
<1>5. CASE ShtStart(t)
  <2>1. running = t /\ label = "start"
    BY <1>5 DEF ShtStart, At
  <2>2. CASE ~IsReady(driver) /\ ~task[t].task_timer
    BY <1>1, <1>2, <1>5, <2>1, <2>2, SameStage, WaitKeeps DEF ShtStart
  <2>3. CASE ~IsReady(driver) /\ task[t].task_timer
    <3> DEFINE d == StopTx(driver)
    <3>1. d \in Driver /\ ("pca9670" \notin Board => Agrees(d, torn, "cancel", t))
      <4>1. "pca9670" \notin Board => Agrees(driver, torn, label, t)
        BY <1>2, <2>1
      <4>2. label \notin {"poll", "process", "stop"}
        BY <2>1
      <4>3. StopTx(driver) \in Driver
        BY <1>1, DriverTypes
      <4>4. "pca9670" \notin Board => Agrees(StopTx(driver), torn, "cancel", t)
        BY <1>0, <1>1, <4>1, <4>2, GiveUpAgrees
      <4>5. QED
        BY <4>3, <4>4
    <3>2. GiveUp(t, d)
      BY <1>5, <2>3 DEF ShtStart
    <3> HIDE DEF d
    <3>3. QED
      BY <1>1, <2>1, <3>1, <3>2, GiveUpKeeps
  <2>4. CASE IsReady(driver)
    <3> DEFINE data == Restarted(task[t], "get")
    <3>1. data \in TaskData /\ data.index <= Last[t] /\ data.id = task[t].id /\ data.stage = "get"
      <4>1. "get" \in Stage
        BY DEF Stage
      <4>2. QED
        BY <1>1, <4>1, NewStage
    <3> HIDE DEF data
    <3>2. /\ Set(t, data) /\ driver' = StartTx(driver) /\ user' = t /\ torn' = torn /\ GoOn("get")
          /\ UNCHANGED <<mutex, holder, wants, is_on, pin_changed>> /\ converted' \in BOOLEAN
      BY <1>1, <1>5, <2>4 DEF ShtStart, Call, Local, data, Restarted
    <3>3. driver' \in Driver /\ ("pca9670" \notin Board => Agrees(driver', torn', "get", t))
      <4>1. "pca9670" \notin Board => Agrees(driver, torn, label, t)
        BY <1>2, <2>1
      <4>2. label \notin {"poll", "process", "stop"} /\ IsReady(driver)
        BY <2>1, <2>4
      <4>3. StartTx(driver) \in Driver
        BY <1>1, DriverTypes
      <4>4. "pca9670" \notin Board => Agrees(StartTx(driver), torn, "get", t)
        BY <1>0, <1>1, <4>1, <4>2, SendAgrees
      <4>5. QED
        BY <4>3, <4>4, <3>2
    <3>4. QED
      BY <1>1, <2>1, <3>1, <3>2, <3>3, NextStage DEF Stage
  <2>5. QED
    BY <2>2, <2>3, <2>4
<1>6. CASE ShtGet(t)
  <2>1. running = t /\ label = "get"
    BY <1>6 DEF ShtGet, At
  <2>2. CASE IF IsReady(driver) THEN task[t].op_timer = 0 ELSE ~task[t].task_timer
    BY <1>1, <1>2, <1>6, <2>1, <2>2, SameStage, WaitKeeps DEF ShtGet
  <2>3. CASE ~IsReady(driver) /\ task[t].task_timer
    <3> DEFINE d == StopTx(driver)
    <3>1. d \in Driver /\ ("pca9670" \notin Board => Agrees(d, torn, "cancel", t))
      <4>1. "pca9670" \notin Board => Agrees(driver, torn, label, t)
        BY <1>2, <2>1
      <4>2. label \notin {"poll", "process", "stop"}
        BY <2>1
      <4>3. StopTx(driver) \in Driver
        BY <1>1, DriverTypes
      <4>4. "pca9670" \notin Board => Agrees(StopTx(driver), torn, "cancel", t)
        BY <1>0, <1>1, <4>1, <4>2, GiveUpAgrees
      <4>5. QED
        BY <4>3, <4>4
    <3>2. GiveUp(t, d)
      BY <1>6, <2>3 DEF ShtGet
    <3> HIDE DEF d
    <3>3. QED
      BY <1>1, <2>1, <3>1, <3>2, GiveUpKeeps
  <2>4. CASE IsReady(driver) /\ task[t].op_timer # 0
    <3> DEFINE data == Restarted(task[t], "process")
    <3>1. data \in TaskData /\ data.index <= Last[t] /\ data.id = task[t].id /\ data.stage = "process"
      <4>1. "process" \in Stage
        BY DEF Stage
      <4>2. QED
        BY <1>1, <4>1, NewStage
    <3> HIDE DEF data
    <3>2. /\ Set(t, data) /\ driver' = StartRx(driver, AnswerLength(t)) /\ user' = t /\ torn' = torn /\ GoOn("process")
          /\ UNCHANGED <<mutex, holder, wants, is_on, pin_changed>> /\ converted' \in BOOLEAN
      BY <1>1, <1>6, <2>4 DEF ShtGet, Call, Local, data, Restarted
    <3>3. driver' \in Driver /\ ("pca9670" \notin Board => Agrees(driver', torn', "process", t))
      <4>1. "pca9670" \notin Board => Agrees(driver, torn, label, t)
        BY <1>2, <2>1
      <4>2. label \notin {"poll", "process", "stop"} /\ IsReady(driver)
        BY <2>1, <2>4
      <4>3. StartRx(driver, AnswerLength(t)) \in Driver
        BY <1>1, DriverTypes
      <4>4. "pca9670" \notin Board => Agrees(StartRx(driver, AnswerLength(t)), torn, "process", t)
        BY <1>0, <1>1, <4>1, <4>2, ReadAgrees
      <4>5. QED
        BY <4>3, <4>4, <3>2
    <3>4. QED
      BY <1>1, <2>1, <3>1, <3>2, <3>3, NextStage DEF Stage
  <2>5. QED
    BY <2>2, <2>3, <2>4
<1>7. CASE ShtProcess(t)
  <2>1. running = t /\ label = "process"
    BY <1>7 DEF ShtProcess, At
  <2>2. CASE ~Enough(t) /\ task[t].op_timer # 2
    BY <1>1, <1>2, <1>7, <2>1, <2>2, SameStage, WaitKeeps DEF ShtProcess
  <2>3. CASE ~Enough(t) /\ task[t].op_timer = 2
    <3> DEFINE data == Staged(task[t], "cancel")
    <3>1. data \in TaskData /\ data.index <= Last[t] /\ data.id = task[t].id /\ data.stage = "cancel"
      <4>1. "cancel" \in Stage
        BY DEF Stage
      <4>2. QED
        BY <1>1, <4>1, NewStage
    <3> HIDE DEF data
    <3>2. /\ Set(t, data) /\ driver' = EmptyRx(StopRx(StopTx(driver))) /\ user' = t
          /\ torn' = FALSE /\ Break
          /\ UNCHANGED <<mutex, holder, wants, is_on, pin_changed>> /\ converted' \in BOOLEAN
      BY <1>1, <1>7, <2>3 DEF ShtProcess, CallClears, Local, data, Staged, Goto
    <3>3. driver' \in Driver /\ ("pca9670" \notin Board => Agrees(driver', torn', "cancel", t))
      BY <1>0, <1>1, <1>2, <2>1, <3>2, DriverTypes, CallsAgree
    <3>4. QED
      BY <1>1, <2>1, <3>1, <3>2, <3>3, NextStage DEF Stage
  <2>4. CASE Enough(t)
    <3>1. /\ driver' = Take(driver, AnswerLength(t)) /\ user' = t /\ torn' = torn
          /\ GoOn("cancel") /\ UNCHANGED <<task, converted>>
          /\ UNCHANGED <<mutex, holder, wants, is_on, pin_changed>>
      BY <1>7, <2>4 DEF ShtProcess, Call, Local
    <3>2. task[t].stage \notin {"idle", "request"} /\ LabelFits(t) /\ t # NoTask
      BY <1>1, <2>1, WorkerHolds DEF BoardInv, LocksAgree
    <3>3. Change(t, task[t])
      BY <1>1, <3>1 DEF Change, Board
    <3>4. task[t].stage = "process" /\ LabelFits(t)'
      BY <2>1, <3>1, <3>2 DEF LabelFits, GoOn, t
    <3>5. driver' \in Driver /\ ("pca9670" \notin Board => Agrees(driver', torn', "cancel", t))
      <4>1. "pca9670" \notin Board => Agrees(driver, torn, label, t)
        BY <1>2, <2>1
      <4>2. label \in {"poll", "process"} /\ Available(driver) >= AnswerLength(t)
            /\ AnswerLength(t) \in Nat /\ AnswerLength(t) >= AnswerLength(t)
        BY <1>1, <2>1, <2>4 DEF Enough
      <4>3. driver' \in Driver
        BY <1>1, <4>2, <3>1, DriverTypes
      <4>4. "pca9670" \notin Board => Agrees(Take(driver, AnswerLength(t)), torn, "cancel", t)
        BY <1>0, <1>1, <4>1, <4>2, TakeAgrees
      <4>5. QED
        BY <4>3, <4>4, <3>1
    <3>6. running' = t /\ label' = "cancel"
      BY <2>1, <3>1 DEF GoOn
    <3>7. QED
      BY <1>1, <2>1, <3>1, <3>2, <3>3, <3>4, <3>5, <3>6, WorkKeeps DEF Label, Stage
  <2>5. QED
    BY <2>2, <2>3, <2>4
<1>8. CASE ShtCancel(t)
  <2>1. running = t /\ label = "cancel"
    BY <1>8 DEF ShtCancel, At
  <2> DEFINE data == [task[t] EXCEPT !.stage = "idle", !.task_timer = FALSE, !.sleeping = TRUE]
  <2>2. data \in TaskData /\ data.index <= Last[t] /\ data.stage = "idle"
    BY <1>1 DEF TaskData, Stage
  <2>3. /\ Set(t, data) /\ Leave(t) /\ Break /\ wants' \subseteq Board
        /\ UNCHANGED <<is_on, converted, pin_changed>>
    BY <1>1, <1>8 DEF ShtCancel
  <2> HIDE DEF data
  <2>4. QED
    BY <1>1, <2>1, <2>2, <2>3, LeaveKeeps
<1>9. QED
  BY <1>3, <1>4, <1>5, <1>6, <1>7, <1>8 DEF t

\* The first half of a wait that timed out: the buffer is empty, the receiver on.
LEMMA StopKeeps ==
  ASSUME BoardInv, NEW t \in Board, t = "ads1115", running = t,
         label \in {"poll", "get", "process"}, task[t].stage = label,
         task[t].op_timer = 2, AdsGivesUp(t)
  PROVE  BoardInv'
<1>1. /\ task[t] \in TaskData /\ task[t].index <= Last[t] /\ t # NoTask
      /\ task[t].stage \notin {"idle", "request"}
      /\ driver \in Driver /\ converted \in BOOLEAN /\ torn \in BOOLEAN
      /\ "pca9670" \notin Board => Agrees(driver, torn, label, t)
  BY WorkerHolds DEF BoardInv, TypeOK
<1>2. /\ driver' = EmptyRx(StopTx(driver)) /\ user' = t /\ torn' = FALSE
      /\ running' = t /\ label' = "stop" /\ UNCHANGED <<task, converted>>
      /\ UNCHANGED <<mutex, holder, wants, is_on, pin_changed>>
  BY DEF AdsGivesUp, CallClears, GoOn, Local
<1>3. Change(t, task[t])
  BY <1>1, <1>2 DEF Change, Board
<1>4. LabelFits(t)'
  BY <1>2 DEF LabelFits
<1>5. driver' \in Driver /\ ("pca9670" \notin Board => Agrees(driver', torn', "stop", t))
  BY <1>1, <1>2, DriverTypes, CallsAgree
<1>6. QED
  BY <1>1, <1>2, <1>3, <1>4, <1>5, WorkKeeps DEF Label, Stage

LEMMA AdsKeeps ==
  ASSUME BoardInv, "ads1115" \in Board, AdsIdle("ads1115") \/ AdsInit("ads1115") \/ AdsStart("ads1115")
           \/ AdsCompletion("ads1115") \/ AdsPoll("ads1115") \/ AdsGet("ads1115")
           \/ AdsProcess("ads1115") \/ AdsStop("ads1115") \/ AdsCancel("ads1115")
  PROVE  BoardInv'
<1> DEFINE t == "ads1115"
<1>1. /\ t \in Board /\ task[t] \in TaskData /\ task[t].index <= Last[t] /\ task[t].index \in Nat
      /\ Last[t] \in Nat
      /\ driver \in Driver /\ converted \in BOOLEAN /\ pin_changed \in BOOLEAN
      /\ torn \in BOOLEAN /\ AnswerLength(t) \in Nat
      /\ wants \cup {t} \subseteq Board /\ wants \ {t} \subseteq Board
  BY BusAssumption DEF BoardInv, TypeOK, TaskData, Task, AnswerLength
<1>0. t \in {"sht31", "ads1115"}
  OBVIOUS
<1>2. ASSUME running = t, label \notin {"idle", "request"}, "pca9670" \notin Board
      PROVE  Agrees(driver, torn, label, t)
  BY <1>1, <1>2, WorkerHolds
<1> HIDE DEF t
<1>3. CASE AdsIdle(t)
  <2>1. running = t /\ label = "idle"
    BY <1>3 DEF AdsIdle, At
  <2>2. CASE Refused(t)
    BY <1>1, <2>1, <2>2, RefusedKeeps
  <2>3. CASE ~Refused(t)
    <3> DEFINE data == Timed(task[t], "init")
    <3>1. data \in TaskData /\ data.index <= Last[t] /\ data.stage = "init"
      <4>1. "init" \in Stage
        BY DEF Stage
      <4>2. QED
        BY <1>1, <4>1, NewStage
    <3>2. /\ Granted(t, data) /\ wants' = wants \cup {t} /\ GoOn("init")
          /\ UNCHANGED <<is_on, converted, pin_changed>>
      BY <1>3, <2>3 DEF AdsIdle, Timed
    <3> HIDE DEF data
    <3>3. QED
      BY <1>1, <2>1, <3>1, <3>2, GrantedKeeps DEF GoOn, Stage
  <2>4. QED
    BY <2>2, <2>3
<1>4. CASE AdsInit(t)
  <2>1. running = t /\ label = "init"
    BY <1>4 DEF AdsInit, At
  <2>2. CASE ~(is_on /\ IsReady(driver) /\ task[t].task_timer)
    BY <1>1, <1>2, <1>4, <2>1, <2>2, SameStage, WaitKeeps DEF AdsInit, t
  <2>3. CASE is_on /\ IsReady(driver) /\ task[t].task_timer
    <3> DEFINE data == Restarted(task[t], "start")
    <3>1. data \in TaskData /\ data.index <= Last[t] /\ data.id = task[t].id /\ data.stage = "start"
      <4>1. "start" \in Stage
        BY DEF Stage
      <4>2. QED
        BY <1>1, <4>1, NewStage
    <3> HIDE DEF data
    <3>2. /\ Set(t, data) /\ driver' = StartTx(driver) /\ user' = t /\ torn' = torn /\ GoOn("start")
          /\ UNCHANGED <<mutex, holder, wants, is_on, pin_changed>> /\ converted' \in BOOLEAN
      BY <1>1, <1>4, <2>3 DEF AdsInit, Call, Local, data, Restarted
    <3>3. driver' \in Driver /\ ("pca9670" \notin Board => Agrees(driver', torn', "start", t))
      <4>1. "pca9670" \notin Board => Agrees(driver, torn, label, t)
        BY <1>2, <2>1
      <4>2. label \notin {"poll", "process", "stop"} /\ IsReady(driver)
        BY <2>1, <2>3
      <4>3. StartTx(driver) \in Driver
        BY <1>1, DriverTypes
      <4>4. "pca9670" \notin Board => Agrees(StartTx(driver), torn, "start", t)
        BY <1>0, <1>1, <4>1, <4>2, SendAgrees
      <4>5. QED
        BY <4>3, <4>4, <3>2
    <3>4. QED
      BY <1>1, <2>1, <3>1, <3>2, <3>3, NextStage DEF Stage
  <2>4. QED
    BY <2>2, <2>3
<1>5. CASE AdsStart(t)
  <2>1. running = t /\ label = "start"
    BY <1>5 DEF AdsStart, At
  <2>2. CASE ~IsReady(driver) /\ task[t].op_timer # 2
    BY <1>1, <1>2, <1>5, <2>1, <2>2, SameStage, WaitKeeps DEF AdsStart
  <2>3. CASE ~IsReady(driver) /\ task[t].op_timer = 2
    <3> DEFINE d == StopTx(driver)
    <3>1. d \in Driver /\ ("pca9670" \notin Board => Agrees(d, torn, "cancel", t))
      <4>1. "pca9670" \notin Board => Agrees(driver, torn, label, t)
        BY <1>2, <2>1
      <4>2. label \notin {"poll", "process", "stop"}
        BY <2>1
      <4>3. StopTx(driver) \in Driver
        BY <1>1, DriverTypes
      <4>4. "pca9670" \notin Board => Agrees(StopTx(driver), torn, "cancel", t)
        BY <1>0, <1>1, <4>1, <4>2, GiveUpAgrees
      <4>5. QED
        BY <4>3, <4>4
    <3>2. GiveUp(t, d)
      BY <1>5, <2>3 DEF AdsStart
    <3> HIDE DEF d
    <3>3. QED
      BY <1>1, <2>1, <3>1, <3>2, GiveUpKeeps
  <2>4. CASE IsReady(driver)
    <3> DEFINE data == Staged(task[t], "completion")
    <3>1. data \in TaskData /\ data.index <= Last[t] /\ data.id = task[t].id /\ data.stage = "completion"
      <4>1. "completion" \in Stage
        BY DEF Stage
      <4>2. QED
        BY <1>1, <4>1, NewStage
    <3> HIDE DEF data
    <3>2. /\ Set(t, data) /\ driver' = StartTx(driver) /\ user' = t /\ torn' = torn /\ GoOn("completion")
          /\ UNCHANGED <<mutex, holder, wants, is_on, pin_changed>> /\ converted' \in BOOLEAN
      BY <1>1, <1>5, <2>4 DEF AdsStart, Call, Local, data, Staged, Goto
    <3>3. driver' \in Driver /\ ("pca9670" \notin Board => Agrees(driver', torn', "completion", t))
      <4>1. "pca9670" \notin Board => Agrees(driver, torn, label, t)
        BY <1>2, <2>1
      <4>2. label \notin {"poll", "process", "stop"} /\ IsReady(driver)
        BY <2>1, <2>4
      <4>3. StartTx(driver) \in Driver
        BY <1>1, DriverTypes
      <4>4. "pca9670" \notin Board => Agrees(StartTx(driver), torn, "completion", t)
        BY <1>0, <1>1, <4>1, <4>2, SendAgrees
      <4>5. QED
        BY <4>3, <4>4, <3>2
    <3>4. QED
      BY <1>1, <2>1, <3>1, <3>2, <3>3, NextStage DEF Stage
  <2>5. QED
    BY <2>2, <2>3, <2>4
<1>6. CASE AdsCompletion(t)
  <2>1. running = t /\ label = "completion"
    BY <1>6 DEF AdsCompletion, At
  <2>2. CASE ~IsReady(driver)
    BY <1>1, <1>2, <1>6, <2>1, <2>2, SameStage, WaitKeeps DEF AdsCompletion
  <2>3. CASE IsReady(driver)
    <3> DEFINE data == Restarted(task[t], "poll")
    <3>1. data \in TaskData /\ data.index <= Last[t] /\ data.id = task[t].id /\ data.stage = "poll"
      <4>1. "poll" \in Stage
        BY DEF Stage
      <4>2. QED
        BY <1>1, <4>1, NewStage
    <3> HIDE DEF data
    <3>2. /\ Set(t, data) /\ driver' = StartRx(driver, AnswerLength(t)) /\ user' = t /\ torn' = torn /\ GoOn("poll")
          /\ UNCHANGED <<mutex, holder, wants, is_on, pin_changed>> /\ converted' \in BOOLEAN
      BY <1>1, <1>6, <2>3 DEF AdsCompletion, Call, Local, data, Restarted
    <3>3. driver' \in Driver /\ ("pca9670" \notin Board => Agrees(driver', torn', "poll", t))
      <4>1. "pca9670" \notin Board => Agrees(driver, torn, label, t)
        BY <1>2, <2>1
      <4>2. label \notin {"poll", "process", "stop"} /\ IsReady(driver)
        BY <2>1, <2>3
      <4>3. StartRx(driver, AnswerLength(t)) \in Driver
        BY <1>1, DriverTypes
      <4>4. "pca9670" \notin Board => Agrees(StartRx(driver, AnswerLength(t)), torn, "poll", t)
        BY <1>0, <1>1, <4>1, <4>2, ReadAgrees
      <4>5. QED
        BY <4>3, <4>4, <3>2
    <3>4. QED
      BY <1>1, <2>1, <3>1, <3>2, <3>3, NextStage DEF Stage
  <2>4. QED
    BY <2>2, <2>3
<1>7. CASE AdsPoll(t)
  <2>1. running = t /\ label = "poll"
    BY <1>7 DEF AdsPoll, At
  <2>2. CASE ~Enough(t) /\ task[t].op_timer # 2
    BY <1>1, <1>2, <1>7, <2>1, <2>2, SameStage, WaitKeeps DEF AdsPoll, AdsGivesUp
  <2>3. CASE ~Enough(t) /\ task[t].op_timer = 2
    <3>1. AdsGivesUp(t) /\ task[t].stage = "poll"
      BY <1>1, <1>7, <2>1, <2>3, SameStage DEF AdsPoll
    <3>2. QED
      BY <1>1, <2>1, <2>3, <3>1, StopKeeps DEF t
  <2>4. CASE Enough(t) /\ ~converted
    <3> DEFINE data == Staged(task[t], "completion")
    <3>1. data \in TaskData /\ data.index <= Last[t] /\ data.id = task[t].id /\ data.stage = "completion"
      <4>1. "completion" \in Stage
        BY DEF Stage
      <4>2. QED
        BY <1>1, <4>1, NewStage
    <3> HIDE DEF data
    <3>2. /\ Set(t, data) /\ driver' = Take(driver, ConfigCommandLength) /\ user' = t /\ torn' = torn /\ Break
          /\ UNCHANGED <<mutex, holder, wants, is_on, pin_changed>> /\ converted' \in BOOLEAN
      BY <1>1, <1>7, <2>4 DEF AdsPoll, Call, Local, data, Staged, Goto
    <3>3. driver' \in Driver /\ ("pca9670" \notin Board => Agrees(driver', torn', "completion", t))
      <4>1. "pca9670" \notin Board => Agrees(driver, torn, label, t)
        BY <1>2, <2>1
      <4>2. label \in {"poll", "process"} /\ Available(driver) >= AnswerLength(t)
            /\ ConfigCommandLength \in Nat /\ ConfigCommandLength >= AnswerLength(t)
        BY <1>1, <2>1, <2>4 DEF Enough, ConfigCommandLength, AnswerLength, t
      <4>3. driver' \in Driver
        BY <1>1, <4>2, <3>2, DriverTypes
      <4>4. "pca9670" \notin Board => Agrees(Take(driver, ConfigCommandLength), torn, "completion", t)
        BY <1>0, <1>1, <4>1, <4>2, TakeAgrees
      <4>5. QED
        BY <4>3, <4>4, <3>2
    <3>4. QED
      BY <1>1, <2>1, <3>1, <3>2, <3>3, NextStage DEF Stage
  <2>5. CASE Enough(t) /\ converted
    <3> DEFINE data == Restarted(task[t], "get")
    <3>1. data \in TaskData /\ data.index <= Last[t] /\ data.id = task[t].id /\ data.stage = "get"
      <4>1. "get" \in Stage
        BY DEF Stage
      <4>2. QED
        BY <1>1, <4>1, NewStage
    <3> HIDE DEF data
    <3>2. /\ Set(t, data) /\ driver' = StartTx(Take(driver, ConfigCommandLength)) /\ user' = t /\ torn' = torn /\ GoOn("get")
          /\ UNCHANGED <<mutex, holder, wants, is_on, pin_changed>> /\ converted' \in BOOLEAN
      BY <1>1, <1>7, <2>5 DEF AdsPoll, Call, Local, data, Restarted
    <3>3. driver' \in Driver /\ ("pca9670" \notin Board => Agrees(driver', torn', "get", t))
      <4>1. "pca9670" \notin Board => Agrees(driver, torn, label, t)
        BY <1>2, <2>1
      <4>2. label \in {"poll", "process"} /\ Available(driver) >= AnswerLength(t)
            /\ ConfigCommandLength \in Nat /\ ConfigCommandLength >= AnswerLength(t)
        BY <1>1, <2>1, <2>5 DEF Enough, ConfigCommandLength, AnswerLength, t
      <4>3. driver' \in Driver
        BY <1>1, <4>2, <3>2, DriverTypes
      <4>4. "pca9670" \notin Board => Agrees(StartTx(Take(driver, ConfigCommandLength)), torn, "get", t)
        BY <1>0, <1>1, <4>1, <4>2, TakeAgrees
      <4>5. QED
        BY <4>3, <4>4, <3>2
    <3>4. QED
      BY <1>1, <2>1, <3>1, <3>2, <3>3, NextStage DEF Stage
  <2>6. QED
    BY <2>2, <2>3, <2>4, <2>5
<1>8. CASE AdsGet(t)
  <2>1. running = t /\ label = "get"
    BY <1>8 DEF AdsGet, At
  <2>2. CASE IF IsReady(driver) THEN task[t].op_timer = 0 ELSE task[t].op_timer # 2
    BY <1>1, <1>2, <1>8, <2>1, <2>2, SameStage, WaitKeeps DEF AdsGet, AdsGivesUp
  <2>3. CASE ~IsReady(driver) /\ task[t].op_timer = 2
    <3>1. AdsGivesUp(t) /\ task[t].stage = "get"
      BY <1>1, <1>8, <2>1, <2>3, SameStage DEF AdsGet
    <3>2. QED
      BY <1>1, <2>1, <2>3, <3>1, StopKeeps DEF t
  <2>4. CASE IsReady(driver) /\ task[t].op_timer # 0
    <3> DEFINE data == Restarted(task[t], "process")
    <3>1. data \in TaskData /\ data.index <= Last[t] /\ data.id = task[t].id /\ data.stage = "process"
      <4>1. "process" \in Stage
        BY DEF Stage
      <4>2. QED
        BY <1>1, <4>1, NewStage
    <3> HIDE DEF data
    <3>2. /\ Set(t, data) /\ driver' = StartRx(driver, AnswerLength(t)) /\ user' = t /\ torn' = torn /\ GoOn("process")
          /\ UNCHANGED <<mutex, holder, wants, is_on, pin_changed>> /\ converted' \in BOOLEAN
      BY <1>1, <1>8, <2>4 DEF AdsGet, Call, Local, data, Restarted
    <3>3. driver' \in Driver /\ ("pca9670" \notin Board => Agrees(driver', torn', "process", t))
      <4>1. "pca9670" \notin Board => Agrees(driver, torn, label, t)
        BY <1>2, <2>1
      <4>2. label \notin {"poll", "process", "stop"} /\ IsReady(driver)
        BY <2>1, <2>4
      <4>3. StartRx(driver, AnswerLength(t)) \in Driver
        BY <1>1, DriverTypes
      <4>4. "pca9670" \notin Board => Agrees(StartRx(driver, AnswerLength(t)), torn, "process", t)
        BY <1>0, <1>1, <4>1, <4>2, ReadAgrees
      <4>5. QED
        BY <4>3, <4>4, <3>2
    <3>4. QED
      BY <1>1, <2>1, <3>1, <3>2, <3>3, NextStage DEF Stage
  <2>5. QED
    BY <2>2, <2>3, <2>4
<1>9. CASE AdsProcess(t)
  <2>1. running = t /\ label = "process"
    BY <1>9 DEF AdsProcess, At
  <2>2. CASE ~Enough(t) /\ task[t].op_timer # 2
    BY <1>1, <1>2, <1>9, <2>1, <2>2, SameStage, WaitKeeps DEF AdsProcess, AdsGivesUp
  <2>3. CASE ~Enough(t) /\ task[t].op_timer = 2
    <3>1. AdsGivesUp(t) /\ task[t].stage = "process"
      BY <1>1, <1>9, <2>1, <2>3, SameStage DEF AdsProcess
    <3>2. QED
      BY <1>1, <2>1, <2>3, <3>1, StopKeeps DEF t
  <2>4. CASE Enough(t) /\ task[t].index < Last[t]
    <3> DEFINE next == task[t].index + 1
               data == Indexed(task[t], "init", next)
    <3>1. data \in TaskData /\ data.index <= Last[t] /\ data.id = task[t].id /\ data.stage = "init"
      <4>1. "init" \in Stage
        BY DEF Stage
      <4>2. next \in Nat /\ next <= Last[t]
        BY <1>1, <2>4
      <4> HIDE DEF next
      <4>3. data \in TaskData /\ data.id = task[t].id /\ data.index = next /\ data.stage = "init"
        <5>1. task[t] \in TaskData
          BY <1>1
        <5>2. QED
          BY <4>1, <4>2, <5>1, NewIndex
      <4> HIDE DEF data
      <4>4. QED
        BY <4>2, <4>3
    <3> HIDE DEF data
    <3>2. /\ Set(t, data) /\ driver' = Take(driver, AnswerLength(t)) /\ user' = t /\ torn' = torn /\ Break
          /\ UNCHANGED <<mutex, holder, wants, is_on, pin_changed>> /\ converted' \in BOOLEAN
      BY <1>1, <1>9, <2>4 DEF AdsProcess, Call, Local, data, Indexed
    <3>3. driver' \in Driver /\ ("pca9670" \notin Board => Agrees(driver', torn', "init", t))
      <4>1. "pca9670" \notin Board => Agrees(driver, torn, label, t)
        BY <1>2, <2>1
      <4>2. label \in {"poll", "process"} /\ Available(driver) >= AnswerLength(t)
            /\ AnswerLength(t) \in Nat /\ AnswerLength(t) >= AnswerLength(t)
        BY <1>1, <2>1, <2>4 DEF Enough
      <4>3. driver' \in Driver
        BY <1>1, <4>2, <3>2, DriverTypes
      <4>4. "pca9670" \notin Board => Agrees(Take(driver, AnswerLength(t)), torn, "init", t)
        BY <1>0, <1>1, <4>1, <4>2, TakeAgrees
      <4>5. QED
        BY <4>3, <4>4, <3>2
    <3>4. QED
      BY <1>1, <2>1, <3>1, <3>2, <3>3, NextStage DEF Stage
  <2>5. CASE Enough(t) /\ ~(task[t].index < Last[t])
    <3> DEFINE data == Staged(task[t], "cancel")
    <3>1. data \in TaskData /\ data.index <= Last[t] /\ data.id = task[t].id /\ data.stage = "cancel"
      <4>1. "cancel" \in Stage
        BY DEF Stage
      <4>2. QED
        BY <1>1, <4>1, NewStage
    <3> HIDE DEF data
    <3>2. /\ Set(t, data) /\ driver' = Take(driver, AnswerLength(t)) /\ user' = t /\ torn' = torn /\ GoOn("cancel")
          /\ UNCHANGED <<mutex, holder, wants, is_on, pin_changed>> /\ converted' \in BOOLEAN
      BY <1>1, <1>9, <2>5 DEF AdsProcess, Call, Local, data, Staged, Goto
    <3>3. driver' \in Driver /\ ("pca9670" \notin Board => Agrees(driver', torn', "cancel", t))
      <4>1. "pca9670" \notin Board => Agrees(driver, torn, label, t)
        BY <1>2, <2>1
      <4>2. label \in {"poll", "process"} /\ Available(driver) >= AnswerLength(t)
            /\ AnswerLength(t) \in Nat /\ AnswerLength(t) >= AnswerLength(t)
        BY <1>1, <2>1, <2>5 DEF Enough
      <4>3. driver' \in Driver
        BY <1>1, <4>2, <3>2, DriverTypes
      <4>4. "pca9670" \notin Board => Agrees(Take(driver, AnswerLength(t)), torn, "cancel", t)
        BY <1>0, <1>1, <4>1, <4>2, TakeAgrees
      <4>5. QED
        BY <4>3, <4>4, <3>2
    <3>4. QED
      BY <1>1, <2>1, <3>1, <3>2, <3>3, NextStage DEF Stage
  <2>6. QED
    BY <2>2, <2>3, <2>4, <2>5
<1>10. CASE AdsCancel(t)
  <2>1. running = t /\ label = "cancel"
    BY <1>10 DEF AdsCancel, At
  <2> DEFINE data == [task[t] EXCEPT !.stage = "idle", !.task_timer = FALSE, !.sleeping = TRUE, !.index = 0]
  <2>2. data \in TaskData /\ data.index <= Last[t] /\ data.stage = "idle"
    <3> DEFINE zero == 0
    <3>1. zero \in Nat /\ zero <= Last[t]
      BY <1>1
    <3> HIDE DEF zero
    <3>2. data = [task[t] EXCEPT !.stage = "idle", !.task_timer = FALSE, !.sleeping = TRUE,
                                 !.index = zero]
      BY DEF zero
    <3> HIDE DEF data
    <3>3. QED
      BY <1>1, <3>1, <3>2 DEF TaskData, Stage
  <2>3. /\ Set(t, data) /\ Leave(t) /\ Break /\ wants' \subseteq Board
        /\ UNCHANGED <<is_on, converted, pin_changed>>
    BY <1>1, <1>10 DEF AdsCancel
  <2> HIDE DEF data
  <2>4. QED
    BY <1>1, <2>1, <2>2, <2>3, LeaveKeeps
<1>11. CASE AdsStop(t)
  <2>1. running = t /\ label = "stop"
    BY <1>11 DEF AdsStop, At
  <2> DEFINE d == StopRx(driver)
  <2>2. d \in Driver /\ ("pca9670" \notin Board => Agrees(d, torn, "cancel", t))
    BY <1>0, <1>1, <1>2, <2>1, DriverTypes, CallsAgree
  <2>3. GiveUp(t, d)
    BY <1>11 DEF AdsStop
  <2> HIDE DEF d
  <2>4. QED
    BY <1>1, <2>1, <2>2, <2>3, GiveUpKeeps
<1>12. QED
  BY <1>3, <1>4, <1>5, <1>6, <1>7, <1>8, <1>9, <1>10, <1>11 DEF t

LEMMA PcaKeeps ==
  ASSUME BoardInv, Board = {"pca9670"}, PcaIdle("pca9670") \/ PcaRequest("pca9670") \/ PcaWrite("pca9670")
           \/ PcaRead("pca9670") \/ PcaProcess("pca9670")
           \/ PcaLoad("pca9670") \/ PcaCancel("pca9670")
  PROVE  BoardInv'
<1> DEFINE t == "pca9670"
<1>1. /\ t \in Board /\ task[t] \in TaskData /\ task[t].index <= Last[t] /\ task[t].index \in Nat
      /\ Last[t] \in Nat
      /\ driver \in Driver /\ converted \in BOOLEAN /\ pin_changed \in BOOLEAN
      /\ torn \in BOOLEAN /\ AnswerLength(t) \in Nat
      /\ wants \cup {t} \subseteq Board /\ wants \ {t} \subseteq Board
  BY BusAssumption DEF BoardInv, TypeOK, TaskData, Task, AnswerLength
<1>2. "pca9670" \in Board
  OBVIOUS
<1> HIDE DEF t
<1>3. CASE PcaIdle(t)
  <2>1. running = t /\ label = "idle" /\ TypeOK /\ LocksAgree /\ t # NoTask
    BY <1>1, <1>3, BusAssumption DEF PcaIdle, At, BoardInv, TypeOK, Task
  <2>2. holder = NoTask /\ ~mutex.is_requested
    BY <1>1, <2>1 DEF LocksAgree, LabelFits, TypeOK, t
  <2> DEFINE zero == 0
             data == RestartedAt(task[t], "request", zero)
  <2>3. data \in TaskData /\ data.index <= Last[t] /\ data.stage = "request"
    <3>1. zero \in Nat /\ zero <= Last[t] /\ "request" \in Stage /\ task[t] \in TaskData
      BY <1>1 DEF Stage
    <3> HIDE DEF zero
    <3>2. data \in TaskData /\ data.index = zero /\ data.stage = "request"
      BY <3>1, NewIndex
    <3> HIDE DEF data
    <3>3. QED
      BY <3>1, <3>2
  <2>4. data.op_timer = 0
    <3>1. "op_timer" \in DOMAIN task[t]
      BY <1>1 DEF TaskData
    <3>2. QED
      BY <3>1 DEF RestartedAt
  <2>5. /\ Set(t, data) /\ running' = t /\ label' = "request" /\ user' = NoTask
        /\ UNCHANGED <<mutex, driver, torn, holder, is_on, wants, converted, pin_changed>>
    BY <1>3, <2>1 DEF PcaIdle, RestartedAt, GoOn, NoCall, Local
  <2> HIDE DEF data
  <2>6. Change(t, data) /\ Board' = Board
    BY <1>1, <2>3, <2>5, SetChanges DEF Change
  <2>7. \A u \in Board : task'[u] \in TaskData /\ task'[u].index <= Last[u]
    BY <1>1, <2>1, <2>6, ChangeTypes
  <2>8. TypeOK'
    BY <1>1, <2>1, <2>5, <2>6, <2>7 DEF TypeOK, Stage, Label
  <2>9. LocksAgree'
    <3>1. LabelFits(t)' /\ Asking(t)'
      BY <2>3, <2>4, <2>5, <2>6 DEF LabelFits, Asking, At, Change, t
    <3>2. QED
      BY <2>2, <2>5, <2>6, <3>1 DEF LocksAgree, t
  <2>10. QED
    BY <1>1, <2>6, <2>8, <2>9 DEF BoardInv, t
<1>4. CASE PcaRequest(t)
  <2>1. running = t /\ label = "request" /\ TypeOK /\ LocksAgree /\ t # NoTask
    BY <1>1, <1>4, BusAssumption DEF PcaRequest, At, BoardInv, TypeOK, Task
  <2>2. task[t].stage = "request" /\ holder = NoTask /\ task[t].op_timer = 0 /\ mutex \in Mutex
    BY <1>1, <2>1 DEF LocksAgree, LabelFits, TypeOK, Asking, t
  <2>3. ~Refused(t)
    BY <2>1, <2>2, MutexCalls DEF Refused, LocksAgree
  <2> DEFINE data == Restarted(task[t], IF pin_changed THEN "write" ELSE "read")
  <2>4. /\ Granted(t, data) /\ UNCHANGED <<is_on, wants, converted>> /\ pin_changed' = FALSE
        /\ IF pin_changed THEN GoOn("write") ELSE Break
    BY <1>4, <2>2, <2>3 DEF PcaRequest, Restarted
  <2> DEFINE s == IF pin_changed THEN "write" ELSE "read"
  <2>5. s \in {"write", "read"} /\ s \in Stage
    BY DEF Stage
  <2> HIDE DEF s
  <2>6. data \in TaskData /\ data.index <= Last[t] /\ data.stage = s
    <3>1. data = Restarted(task[t], s)
      BY DEF s
    <3> HIDE DEF data
    <3>2. QED
      BY <1>1, <2>5, <3>1, NewStage
  <2> HIDE DEF data
  <2>7. GoOn(s) \/ Break
    BY <2>4 DEF s
  <2>8. data.stage \notin {"idle", "request"} /\ s \in Stage \ {"idle", "request"}
    BY <2>5, <2>6
  <2>9. wants' \subseteq Board /\ pin_changed' \in BOOLEAN
    BY <1>1, <2>4
  <2>10. \/ running' = NoTask /\ label' = "idle"
         \/ running' = t /\ label' = s
    BY <2>1, <2>7 DEF GoOn, Break
  <2>11. QED
    BY <1>1, <2>1, <2>4, <2>6, <2>8, <2>9, <2>10, GrantedKeeps
<1>5. CASE PcaWrite(t)
  <2>1. running = t /\ label = "write"
    BY <1>5 DEF PcaWrite, At
  <2>2. CASE task[t].op_timer = 2
    <3> DEFINE data == Staged(task[t], "cancel")
    <3>1. data \in TaskData /\ data.index <= Last[t] /\ data.id = task[t].id /\ data.stage = "cancel"
      <4>1. "cancel" \in Stage
        BY DEF Stage
      <4>2. QED
        BY <1>1, <4>1, NewStage
    <3> HIDE DEF data
    <3>2. /\ Set(t, data) /\ driver' = driver /\ torn' = torn /\ user' = NoTask /\ Break
          /\ UNCHANGED <<mutex, holder, wants, is_on, pin_changed>> /\ converted' \in BOOLEAN
      BY <1>1, <1>5, <2>2 DEF PcaWrite, NoCall, Local, data, Staged, Goto
    <3>3. driver' \in Driver /\ "pca9670" \in Board
      BY <1>1, <1>2, <2>1, <2>2, <3>2, DriverTypes
    <3>4. QED
      BY <1>1, <2>1, <3>1, <3>2, <3>3, NextStage DEF Stage
  <2>3. CASE task[t].op_timer # 2 /\ ~IsReady(driver)
    BY <1>1, <1>5, <2>1, <2>3, WaitKeeps DEF PcaWrite
  <2>4. CASE task[t].op_timer # 2 /\ IsReady(driver)
    <3> DEFINE data == Restarted(task[t], "read")
    <3>1. data \in TaskData /\ data.index <= Last[t] /\ data.id = task[t].id /\ data.stage = "read"
      <4>1. "read" \in Stage
        BY DEF Stage
      <4>2. QED
        BY <1>1, <4>1, NewStage
    <3> HIDE DEF data
    <3>2. /\ Set(t, data) /\ driver' = StartTx(EmptyRx(driver)) /\ user' = t /\ torn' = FALSE /\ GoOn("read")
          /\ UNCHANGED <<mutex, holder, wants, is_on, pin_changed>> /\ converted' \in BOOLEAN
      BY <1>1, <1>5, <2>4 DEF PcaWrite, CallClears, Local, data, Restarted
    <3>3. driver' \in Driver /\ "pca9670" \in Board
      BY <1>1, <1>2, <2>1, <2>4, <3>2, DriverTypes
    <3>4. QED
      BY <1>1, <2>1, <3>1, <3>2, <3>3, NextStage DEF Stage
  <2>5. QED
    BY <2>2, <2>3, <2>4
<1>6. CASE PcaRead(t)
  <2>1. running = t /\ label = "read"
    BY <1>6 DEF PcaRead, At
  <2>2. CASE task[t].op_timer = 2
    <3> DEFINE d == StopTx(driver)
    <3>1. d \in Driver /\ "pca9670" \in Board
      BY <1>1, <1>2, <2>1, DriverTypes
    <3>2. GiveUp(t, d)
      BY <1>6, <2>2 DEF PcaRead
    <3> HIDE DEF d
    <3>3. QED
      BY <1>1, <2>1, <3>1, <3>2, GiveUpKeeps
  <2>3. CASE task[t].op_timer # 2 /\ ~IsReady(driver)
    BY <1>1, <1>6, <2>1, <2>3, WaitKeeps DEF PcaRead
  <2>4. CASE task[t].op_timer # 2 /\ IsReady(driver)
    <3> DEFINE data == Restarted(task[t], "process")
    <3>1. data \in TaskData /\ data.index <= Last[t] /\ data.id = task[t].id /\ data.stage = "process"
      <4>1. "process" \in Stage
        BY DEF Stage
      <4>2. QED
        BY <1>1, <4>1, NewStage
    <3> HIDE DEF data
    <3>2. /\ Set(t, data) /\ driver' = StartRx(driver, AnswerLength(t)) /\ user' = t /\ torn' = torn /\ GoOn("process")
          /\ UNCHANGED <<mutex, holder, wants, is_on, pin_changed>> /\ converted' \in BOOLEAN
      BY <1>1, <1>6, <2>4 DEF PcaRead, Call, Local, data, Restarted
    <3>3. driver' \in Driver /\ "pca9670" \in Board
      BY <1>1, <1>2, <2>1, <2>4, <3>2, DriverTypes
    <3>4. QED
      BY <1>1, <2>1, <3>1, <3>2, <3>3, NextStage DEF Stage
  <2>5. QED
    BY <2>2, <2>3, <2>4
<1>7. CASE PcaProcess(t)
  <2>1. running = t /\ label = "process"
    BY <1>7 DEF PcaProcess, At
  <2>2. CASE task[t].op_timer = 2
    <3> DEFINE d == StopTx(driver)
    <3>1. d \in Driver /\ "pca9670" \in Board
      BY <1>1, <1>2, <2>1, DriverTypes
    <3>2. GiveUp(t, d)
      BY <1>7, <2>2 DEF PcaProcess
    <3> HIDE DEF d
    <3>3. QED
      BY <1>1, <2>1, <3>1, <3>2, GiveUpKeeps
  <2>3. CASE task[t].op_timer # 2 /\ ~Enough(t)
    BY <1>1, <1>7, <2>1, <2>3, WaitKeeps DEF PcaProcess
  <2>4. CASE task[t].op_timer # 2 /\ Enough(t)
    <3>1. /\ driver' = Take(driver, AnswerLength(t)) /\ user' = t /\ torn' = torn /\ GoOn("load") /\ UNCHANGED <<task, converted>>
          /\ UNCHANGED <<mutex, holder, wants, is_on, pin_changed>>
      BY <1>7, <2>4 DEF PcaProcess, Call, Local
    <3>2. task[t].stage \notin {"idle", "request"} /\ LabelFits(t)
      BY <1>1, <2>1, WorkerHolds DEF BoardInv, LocksAgree
    <3>3. Change(t, task[t])
      BY <1>1, <3>1 DEF Change, Board
    <3>4. LabelFits(t)'
      BY <2>1, <3>1, <3>2 DEF LabelFits, GoOn, t
    <3>5. driver' \in Driver
      BY <1>1, <3>1, DriverTypes
    <3>6. QED
      BY <1>1, <2>1, <3>1, <3>2, <3>3, <3>4, <3>5, WorkKeeps DEF Label, GoOn, Stage, t
  <2>5. QED
    BY <2>2, <2>3, <2>4
<1>8. CASE PcaLoad(t)
  <2>1. running = t /\ label = "load"
    BY <1>8 DEF PcaLoad, At
  <2>2. CASE task[t].index < Last[t]
    <3> DEFINE next == task[t].index + 1
               data == RestartedAt(task[t], "write", next)
    <3>1. data \in TaskData /\ data.index <= Last[t] /\ data.id = task[t].id /\ data.stage = "write"
      <4>1. "write" \in Stage
        BY DEF Stage
      <4>2. next \in Nat /\ next <= Last[t]
        BY <1>1, <2>2
      <4> HIDE DEF next
      <4>3. data \in TaskData /\ data.id = task[t].id /\ data.index = next /\ data.stage = "write"
        <5>1. task[t] \in TaskData
          BY <1>1
        <5>2. QED
          BY <4>1, <4>2, <5>1, NewIndex
      <4> HIDE DEF data
      <4>4. QED
        BY <4>2, <4>3
    <3> HIDE DEF data
    <3>2. /\ Set(t, data) /\ driver' = driver /\ torn' = torn /\ user' = NoTask /\ Break
          /\ UNCHANGED <<mutex, holder, wants, is_on, pin_changed>> /\ converted' \in BOOLEAN
      BY <1>1, <1>8, <2>2 DEF PcaLoad, NoCall, Local, data, RestartedAt
    <3>3. driver' \in Driver /\ "pca9670" \in Board
      BY <1>1, <1>2, <2>1, <2>2, <3>2, DriverTypes
    <3>4. QED
      BY <1>1, <2>1, <3>1, <3>2, <3>3, NextStage DEF Stage
  <2>3. CASE ~(task[t].index < Last[t])
    <3> DEFINE data == Staged(task[t], "cancel")
    <3>1. data \in TaskData /\ data.index <= Last[t] /\ data.id = task[t].id /\ data.stage = "cancel"
      <4>1. "cancel" \in Stage
        BY DEF Stage
      <4>2. QED
        BY <1>1, <4>1, NewStage
    <3> HIDE DEF data
    <3>2. /\ Set(t, data) /\ driver' = driver /\ torn' = torn /\ user' = NoTask /\ GoOn("cancel")
          /\ UNCHANGED <<mutex, holder, wants, is_on, pin_changed>> /\ converted' \in BOOLEAN
      BY <1>1, <1>8, <2>3 DEF PcaLoad, NoCall, Local, data, Staged, Goto
    <3>3. driver' \in Driver /\ "pca9670" \in Board
      BY <1>1, <1>2, <2>1, <2>3, <3>2, DriverTypes
    <3>4. QED
      BY <1>1, <2>1, <3>1, <3>2, <3>3, NextStage DEF Stage
  <2>4. QED
    BY <2>2, <2>3
<1>9. CASE PcaCancel(t)
  <2>1. running = t /\ label = "cancel"
    BY <1>9 DEF PcaCancel, At
  <2> DEFINE data == [task[t] EXCEPT !.stage = "idle", !.task_timer = FALSE, !.sleeping = TRUE]
  <2>2. data \in TaskData /\ data.index <= Last[t] /\ data.stage = "idle"
    BY <1>1 DEF TaskData, Stage
  <2>3. /\ Set(t, data) /\ Leave(t) /\ Break /\ wants' \subseteq Board
        /\ UNCHANGED <<is_on, converted, pin_changed>>
    BY <1>1, <1>9 DEF PcaCancel
  <2> HIDE DEF data
  <2>4. QED
    BY <1>1, <2>1, <2>2, <2>3, LeaveKeeps
<1>10. QED
  BY <1>3, <1>4, <1>5, <1>6, <1>7, <1>8, <1>9 DEF t

-----------------------------------------------------------------------------
(* What happens between two cases.                                         *)

\* A task is called, or time passes for it: it is where it was.
LEMMA CallKeeps ==
  ASSUME BoardInv, NEW t \in Board, NEW data \in TaskData, running = NoTask,
         data.stage = task[t].stage, data.id = task[t].id, data.index = task[t].index,
         Set(t, data), NoCall, Local,
         \/ UNCHANGED <<running, label>>
         \/ running' = t /\ label' = task[t].stage
  PROVE  BoardInv'
<1>1. TypeOK /\ LocksAgree /\ label = "idle" /\ \A u \in Board : u # NoTask
  BY BusAssumption DEF BoardInv, TypeOK, Task
<1>2. /\ task[t] \in TaskData /\ task[t].index <= Last[t] /\ task[t].stage \in Stage
      /\ data.index <= Last[t]
  BY <1>1 DEF TypeOK, TaskData
<1>3. Change(t, data)
  BY <1>2, SetChanges
<1>4. /\ Board' = Board
      /\ \A u \in Board : task'[u] \in TaskData /\ task'[u].index <= Last[u]
  BY <1>1, <1>3, ChangeTypes
<1>5. \A u \in Board : task'[u].stage = task[u].stage /\ task'[u].id = task[u].id
  BY <1>3 DEF Change
<1>6. /\ user' = NoTask
      /\ UNCHANGED <<driver, torn, mutex, holder, is_on, wants, converted, pin_changed>>
  BY DEF NoCall, Local
<1>7. running' \in {t, NoTask} /\ label' \in Stage /\ (running' = NoTask => label' = "idle")
  BY <1>1, <1>2 DEF Stage
<1>8. TypeOK'
  BY <1>1, <1>4, <1>6, <1>7 DEF TypeOK, Label
<1>9. holder # NoTask => holder \in Board
  BY <1>1 DEF TypeOK
<1>10. LocksAgree'
  <2>1. \A u \in Board : LabelFits(u)'
    BY <1>1, <1>5 DEF LabelFits
  <2>2. ASSUME NEW u \in Board, task'[u].stage # "idle" PROVE holder' = u
    BY <1>1, <1>5, <1>6, <2>2 DEF LocksAgree, Asking, At
  <2>3. QED
    BY <1>1, <1>4, <1>5, <1>6, <1>9, <2>1, <2>2 DEF LocksAgree
<1>11. "pca9670" \notin Board => DriverAgrees'
  <2>1. holder # NoTask => Place' = Place
    BY <1>1, <1>4, <1>5, <1>6, <1>7, <1>9 DEF Place
  <2>2. QED
    BY <1>6, <2>1 DEF BoardInv, DriverAgrees
<1>12. QED
  BY <1>4, <1>8, <1>10, <1>11 DEF BoardInv

\* The interrupt, the supply, the converter and the pins.
LEMMA OutsideKeeps ==
  ASSUME BoardInv,
         UNCHANGED <<mutex, task, wants, running, label, holder>>,
         is_on' \in BOOLEAN, converted' \in BOOLEAN, pin_changed' \in BOOLEAN,
         user' \in {user, NoTask}, UNCHANGED <<driver, torn>> \/ TransferDone \/ TransferFails
  PROVE  BoardInv'
<1>1. TypeOK /\ LocksAgree /\ driver \in Driver /\ torn \in BOOLEAN /\ Board' = Board
      /\ holder \in Board \cup {NoTask}
  BY DEF BoardInv, TypeOK, Board
<1>2. CASE UNCHANGED <<driver, torn>>
  <2>1. TypeOK'
    BY <1>1, <1>2 DEF TypeOK
  <2>2. LocksAgree'
    BY <1>1 DEF LocksAgree, LabelFits, Asking, At
  <2>3. "pca9670" \notin Board => DriverAgrees'
    BY <1>2 DEF BoardInv, DriverAgrees, Place
  <2>4. QED
    BY <1>1, <2>1, <2>2, <2>3 DEF BoardInv
<1>3. CASE TransferDone \/ TransferFails
  <2> DEFINE d == driver
             e == driver'
  <2>1. /\ \/ d.transfer = "tx" /\ e = IsrTxDone(d)
           \/ d.transfer = "address" /\ e = IsrAddress(d)
           \/ d.transfer = "rx" /\ e = IsrRxByte(d)
           \/ d.transfer \in {"last", "tail"} /\ e = IsrRxEnd(d)
           \/ e = IsrRxNack(d) \/ e = IsrBusError(d)
        /\ torn' = (torn \/ (label = "stop" /\ Available(e) > Available(d)))
    BY <1>3 DEF TransferDone, TransferFails, Interrupt
  <2>2. driver' \in Driver /\ torn' \in BOOLEAN
    BY <1>1, <2>1, DriverTypes
  <2>3. TypeOK'
    BY <1>1, <2>2 DEF TypeOK
  <2>4. LocksAgree'
    BY <1>1 DEF LocksAgree, LabelFits, Asking, At
  <2>5. ASSUME NEW t \in {"sht31", "ads1115"}, NEW place, Agrees(d, torn, place, t),
               place = "stop" => label = "stop"
        PROVE  Agrees(e, torn', place, t)
    <3>1. Agrees(e, torn \/ (place = "stop" /\ Available(e) > Available(d)), place, t)
      BY <1>1, <2>1, <2>5, InterruptsFit
    <3>2. QED
      BY <2>1, <2>5, <3>1 DEF Agrees
  <2>6. "pca9670" \notin Board => DriverAgrees'
    <3>1. SUFFICES ASSUME "pca9670" \notin Board PROVE DriverAgrees'
      OBVIOUS
    <3>2. holder # NoTask => holder \in {"sht31", "ads1115"}
      BY <1>1, <3>1, BusAssumption DEF TypeOK
    <3>3. holder # NoTask => (Place = "stop" => label = "stop") /\ Place' = Place
      BY <1>1 DEF Place, TypeOK, TaskData, Stage
    <3>4. DriverAgrees
      BY <3>1 DEF BoardInv
    <3>5. ASSUME holder = NoTask, NEW t \in {"sht31", "ads1115"}
          PROVE  Agrees(e, torn', "idle", t)
      BY <2>5, <3>4, <3>5 DEF DriverAgrees
    <3>6. ASSUME holder # NoTask PROVE Agrees(e, torn', Place, holder)
      BY <2>5, <3>2, <3>3, <3>4, <3>6 DEF DriverAgrees
    <3>7. QED
      BY <3>3, <3>5, <3>6 DEF DriverAgrees
  <2>7. QED
    BY <1>1, <2>3, <2>4, <2>6 DEF BoardInv
<1>4. QED
  BY <1>2, <1>3

LEMMA QuietKeeps ==
  ASSUME BoardInv,
         \/ TransferDone \/ TransferFails \/ Power \/ Convert \/ ChangePin
         \/ \E t \in Board : Begin(t) \/ TaskTimer(t) \/ OpTimer(t)
         \/ UNCHANGED vars
  PROVE  BoardInv'
<1>1. is_on \in BOOLEAN /\ converted \in BOOLEAN /\ pin_changed \in BOOLEAN /\ TypeOK
  BY DEF BoardInv, TypeOK
<1>2. CASE TransferDone \/ TransferFails
  BY <1>1, <1>2, OutsideKeeps DEF TransferDone, TransferFails, Interrupt
<1>3. CASE Power \/ Convert \/ ChangePin
  BY <1>1, <1>3, OutsideKeeps DEF Power, Convert, ChangePin
<1>4. CASE UNCHANGED vars
  BY <1>1, <1>4, OutsideKeeps DEF vars
<1>5. ASSUME NEW t \in Board, Begin(t) \/ TaskTimer(t) \/ OpTimer(t) PROVE BoardInv'
  <2>1. task[t] \in TaskData /\ running = NoTask
    BY <1>1, <1>5 DEF TypeOK, Begin, TaskTimer, OpTimer
  <2>2. CASE Begin(t)
    <3> DEFINE data == [task[t] EXCEPT !.sleeping = FALSE]
    <3>1. /\ data \in TaskData
          /\ data.stage = task[t].stage /\ data.id = task[t].id /\ data.index = task[t].index
      BY <2>1 DEF TaskData
    <3>2. Set(t, data) /\ NoCall /\ Local /\ running' = t /\ label' = task[t].stage
      BY <2>2 DEF Begin
    <3> HIDE DEF data
    <3>3. QED
      BY <2>1, <3>1, <3>2, CallKeeps
  <2>3. CASE TaskTimer(t)
    <3> DEFINE data == [task[t] EXCEPT !.task_timer = TRUE]
    <3>1. /\ data \in TaskData
          /\ data.stage = task[t].stage /\ data.id = task[t].id /\ data.index = task[t].index
      BY <2>1 DEF TaskData
    <3>2. Set(t, data) /\ NoCall /\ Local /\ UNCHANGED <<running, label>>
      BY <2>3 DEF TaskTimer
    <3> HIDE DEF data
    <3>3. QED
      BY <2>1, <3>1, <3>2, CallKeeps
  <2>4. CASE OpTimer(t)
    <3> DEFINE later == task[t].op_timer + 1
               data == [task[t] EXCEPT !.op_timer = later]
    <3>1. later \in 0 .. 2
      BY <2>1, <2>4 DEF TaskData, OpTimer
    <3>2. Set(t, data) /\ NoCall /\ Local /\ UNCHANGED <<running, label>>
      BY <2>4 DEF OpTimer
    <3> HIDE DEF later
    <3>3. /\ data \in TaskData
          /\ data.stage = task[t].stage /\ data.id = task[t].id /\ data.index = task[t].index
      BY <2>1, <3>1 DEF TaskData
    <3> HIDE DEF data
    <3>4. QED
      BY <2>1, <3>2, <3>3, CallKeeps
  <2>5. QED
    BY <1>5, <2>2, <2>3, <2>4
<1>6. QED
  BY <1>2, <1>3, <1>4, <1>5

-----------------------------------------------------------------------------
(* The invariant.                                                          *)

\* No task is added to the board or taken from it.
LEMMA BoardStays == ASSUME [Next]_vars PROVE Board' = Board
<1>1. ASSUME NEW t, NEW data, Set(t, data) PROVE Board' = Board
  BY <1>1 DEF Set, Board
<1>2. ASSUME UNCHANGED task PROVE Board' = Board
  BY <1>2 DEF Board
<1>3. CASE Sht31
  BY <1>1, <1>2, <1>3
     DEF Sht31, ShtIdle, ShtInit, ShtStart, ShtGet, ShtProcess, ShtCancel, Refused, Granted,
         GiveUp, Wait, Goto
<1>4. CASE Ads1115
  BY <1>1, <1>2, <1>4
     DEF Ads1115, AdsIdle, AdsInit, AdsStart, AdsCompletion, AdsPoll, AdsGet, AdsProcess,
         AdsStop, AdsGivesUp, AdsCancel, Refused, Granted, GiveUp, Wait, Goto
<1>5. CASE Pca9670
  BY <1>1, <1>2, <1>5
     DEF Pca9670, PcaIdle, PcaRequest, PcaWrite, PcaRead, PcaProcess, PcaLoad, PcaCancel,
         Refused, Granted, GiveUp, Wait, Goto
<1>6. CASE TransferDone \/ TransferFails \/ Power \/ Convert \/ ChangePin \/ UNCHANGED vars
  BY <1>2, <1>6 DEF TransferDone, TransferFails, Interrupt, Power, Convert, ChangePin, vars
<1>7. CASE \E t \in Board : Begin(t) \/ TaskTimer(t) \/ OpTimer(t)
  BY <1>1, <1>7 DEF Begin, TaskTimer, OpTimer
<1>8. QED
  BY <1>3, <1>4, <1>5, <1>6, <1>7 DEF Next, Case

LEMMA BusStarts == ASSUME Init PROVE BusInv
<1> DEFINE zero == 0
           fresh == [stage |-> "idle", sleeping |-> TRUE, task_timer |-> FALSE,
                     op_timer |-> zero, id |-> MutexInvalidId, index |-> zero]
<1>1. PICK b \in Boards : task = [t \in b |-> fresh]
  BY DEF Init
<1>2. Board = b /\ \A t \in b : task[t] = fresh
  BY <1>1 DEF Board
<1>3. \A t \in Board : /\ task[t] \in TaskData /\ task[t].index <= Last[t]
                       /\ task[t].stage = "idle"
  <2>1. zero \in 0 .. 2 /\ zero \in Nat /\ \A n \in Nat : zero <= n
    OBVIOUS
  <2>2. \A t \in Board : Last[t] \in Nat
    BY <1>2, BusAssumption DEF Task
  <2> HIDE DEF zero
  <2>3. fresh \in TaskData /\ fresh.index = zero /\ fresh.stage = "idle"
    BY <2>1, MutexIdAssumption DEF TaskData, Stage, MutexId, MutexInvalidId
  <2> HIDE DEF fresh
  <2>4. QED
    BY <1>2, <2>1, <2>2, <2>3
<1> HIDE DEF fresh
<1>4. TypeOK
  <2>1. mutex \in Mutex
    BY MutexIdAssumption DEF Init, Mutex, MutexInit, MutexId, MutexInvalidId
  <2>2. driver \in Driver
    BY DEF Init, Driver, DriverInit, Transfer
  <2>3. QED
    BY <1>2, <1>3, <2>1, <2>2 DEF Init, TypeOK, Stage, Label
<1>5. NoTask \notin Board
  BY <1>2, BusAssumption DEF Task
<1>6. LocksAgree
  BY <1>3, <1>5 DEF Init, LocksAgree, LabelFits, MutexInit
<1>7. DriverAgrees
  BY DEF Init, DriverAgrees, DriverInit, Agrees, LongReads, Fits, Available, Reading
<1>8. QED
  BY <1>2, <1>4, <1>6, <1>7 DEF BusInv, BoardInv

LEMMA BusStep == ASSUME BusInv, [Next]_vars PROVE BusInv'
<1>1. Board' = Board
  BY BoardStays
<1>2. SUFFICES ASSUME Alone PROVE BoardInv'
  BY <1>1 DEF BusInv, Alone
<1>3. BoardInv
  BY <1>2 DEF BusInv
<1>4. CASE Sht31
  BY <1>3, <1>4, ShtKeeps DEF Sht31
<1>5. CASE Ads1115
  BY <1>3, <1>5, AdsKeeps DEF Ads1115
<1>6. CASE Pca9670
  BY <1>2, <1>3, <1>6, PcaKeeps DEF Pca9670, Alone
<1>7. QED
  BY <1>3, <1>4, <1>5, <1>6, QuietKeeps DEF Next, Case

LEMMA BusHolds == Spec => []BusInv
<1>1. Init => BusInv
  BY BusStarts
<1>2. BusInv /\ [Next]_vars => BusInv'
  BY BusStep
<1>3. QED
  BY <1>1, <1>2, PTL DEF Spec

-----------------------------------------------------------------------------
(* What a user of the bus may rely on.                                     *)

\* On a board of sensors no transfer is marked as active while nobody holds
\* the mutex, however the transfers of the task before ended and whenever the
\* interrupt came, but for a byte between clear_rx_buffer and stop_rx: the next
\* task finds the driver ready (FreeMeansReady).
THEOREM FreeBusIsReady == Spec => []FreeMeansReady
<1>1. ASSUME BusInv, holder = NoTask, "pca9670" \notin Board, ~torn PROVE IsReady(driver)
  <2>1. Agrees(driver, torn, "idle", "sht31")
    BY <1>1 DEF BusInv, Alone, BoardInv, DriverAgrees
  <2>2. QED
    BY <1>1, <2>1 DEF Agrees, Fits, IsReady
<1>2. BusInv => FreeMeansReady
  BY <1>1 DEF FreeMeansReady
<1>3. QED
  BY <1>2, BusHolds, PTL

\* The answer a sensor's task takes from the receive buffer has no byte of an
\* older transfer in front, although a transfer goes on for a byte after its
\* read is done and that byte is kept when the next read has begun
\* (AnswerIsOwn).
THEOREM AnswersAreOwn == Spec => []AnswerIsOwn
<1>1. ASSUME BusInv, "pca9670" \notin Board, NEW t \in Board, running = t,
             label \in {"poll", "process"}, Enough(t), ~torn
      PROVE  driver.old = 0
  <2>2. BoardInv
    BY <1>1 DEF BusInv, Alone
  <2>3. Agrees(driver, torn, label, t) /\ driver \in Driver /\ t \in {"sht31", "ads1115"}
    BY <1>1, <2>2, WorkerHolds
  <2>4. AnswerLength(t) \in {2, 6}
    BY <2>3 DEF AnswerLength
  <2>5. QED
    BY <1>1, <2>3, <2>4, QuietCalls DEF Agrees, Enough
<1>2. BusInv => AnswerIsOwn
  BY <1>1 DEF AnswerIsOwn
<1>3. QED
  BY <1>2, BusHolds, PTL

\* The makefiles put either the sensors or the expander on a board
\* (EXPANSION_BOARD_CFG).
ExpanderAlone == \A b \in Boards : "pca9670" \in b => b = {"pca9670"}

LEMMA HolderStep ==
  ASSUME BusInv, Alone, Next
  PROVE  user' # NoTask => user' \in {holder, holder'}
<1>1. BoardInv
  BY DEF BusInv
<1>2. ASSUME NEW t \in Board, running = t, label \notin {"idle", "request"}
      PROVE  holder = t
  BY <1>1, <1>2, WorkerHolds
<1>3. CASE Sht31
  <2>1. PICK t \in Board : ShtIdle(t) \/ ShtInit(t) \/ ShtStart(t) \/ ShtGet(t)
                           \/ ShtProcess(t) \/ ShtCancel(t)
    BY <1>3 DEF Sht31
  <2>2. CASE ShtIdle(t)
    BY <2>2 DEF ShtIdle, Refused, Granted, NoCall, Call
  <2>3. CASE ShtInit(t) \/ ShtStart(t) \/ ShtGet(t) \/ ShtProcess(t) \/ ShtCancel(t)
    <3>1. holder = t
      BY <1>2, <2>3 DEF ShtInit, ShtStart, ShtGet, ShtProcess, ShtCancel, At
    <3>2. user' \in {t, NoTask}
      BY <2>3 DEF ShtInit, ShtStart, ShtGet, ShtProcess, ShtCancel, Wait, GiveUp, Goto, Leave, Call, CallClears,
                  NoCall
    <3>3. QED
      BY <3>1, <3>2
  <2>4. QED
    BY <2>1, <2>2, <2>3
<1>4. CASE Ads1115
  <2>1. PICK t \in Board : AdsIdle(t) \/ AdsInit(t) \/ AdsStart(t) \/ AdsCompletion(t)
                           \/ AdsPoll(t) \/ AdsGet(t) \/ AdsProcess(t) \/ AdsStop(t)
                           \/ AdsCancel(t)
    BY <1>4 DEF Ads1115
  <2>2. CASE AdsIdle(t)
    BY <2>2 DEF AdsIdle, Refused, Granted, NoCall, Call
  <2>3. CASE AdsInit(t) \/ AdsStart(t) \/ AdsCompletion(t) \/ AdsPoll(t) \/ AdsGet(t)
             \/ AdsProcess(t) \/ AdsStop(t) \/ AdsCancel(t)
    <3>1. holder = t
      BY <1>2, <2>3 DEF AdsInit, AdsStart, AdsCompletion, AdsPoll, AdsGet, AdsProcess,
                        AdsStop, AdsCancel, At
    <3>2. user' \in {t, NoTask}
      BY <2>3 DEF AdsInit, AdsStart, AdsCompletion, AdsPoll, AdsGet, AdsProcess, AdsCancel,
                  AdsStop, AdsGivesUp, Wait, GiveUp, Leave, Call, CallClears, NoCall
    <3>3. QED
      BY <3>1, <3>2
  <2>4. QED
    BY <2>1, <2>2, <2>3
<1>5. CASE Pca9670
  <2>1. PICK t \in Board : PcaIdle(t) \/ PcaRequest(t) \/ PcaWrite(t) \/ PcaRead(t)
                           \/ PcaProcess(t) \/ PcaLoad(t) \/ PcaCancel(t)
    BY <1>5 DEF Pca9670
  <2>2. CASE PcaIdle(t) \/ PcaRequest(t)
    BY <2>2 DEF PcaIdle, PcaRequest, Refused, Granted, NoCall, Call
  <2>3. CASE PcaWrite(t) \/ PcaRead(t) \/ PcaProcess(t) \/ PcaLoad(t) \/ PcaCancel(t)
    <3>1. holder = t
      BY <1>2, <2>3 DEF PcaWrite, PcaRead, PcaProcess, PcaLoad, PcaCancel, At
    <3>2. user' \in {t, NoTask}
      BY <2>3 DEF PcaWrite, PcaRead, PcaProcess, PcaLoad, PcaCancel, Wait, GiveUp, Leave, Call, CallClears,
                  NoCall
    <3>3. QED
      BY <3>1, <3>2
  <2>4. QED
    BY <2>1, <2>2, <2>3
<1>6. CASE \/ TransferDone \/ TransferFails \/ Power \/ Convert \/ ChangePin
           \/ \E t \in Board : Begin(t) \/ TaskTimer(t) \/ OpTimer(t)
  BY <1>6 DEF TransferDone, TransferFails, Interrupt, Power, Convert, ChangePin, Begin,
              TaskTimer, OpTimer, NoCall
<1>7. QED
  BY <1>3, <1>4, <1>5, <1>6 DEF Next, Case

\* With the expander on a board of its own every call of the driver is made
\* by the task that holds the mutex before or after the call, also on the
\* paths where a wait timed out (OnlyHolderDrives).
THEOREM HolderDrives ==
  ASSUME ExpanderAlone
  PROVE  Spec => OnlyHolderDrives
<1>1. BusInv => Alone
  BY DEF BusInv, Alone, ExpanderAlone
<1>2. BusInv /\ [Next]_vars => [user' # NoTask => user' \in {holder, holder'}]_vars
  BY <1>1, HolderStep
<1>3. QED
  BY <1>2, BusHolds, PTL DEF Spec, OnlyHolderDrives

=============================================================================
