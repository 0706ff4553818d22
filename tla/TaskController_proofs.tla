----------------------- MODULE TaskController_proofs ------------------------
(***************************************************************************)
(* Proofs about the scheduler for any tasks, intervals and ranges of the   *)
(* clock: it does not put the CPU to sleep over a task that is awake, and  *)
(* a task that keeps its interval is not run before it is over.            *)
(***************************************************************************)
EXTENDS TaskController, TLAPS

\* The difference of two values n and r of a clock with C values.
LEMMA ElapsedValue ==
  ASSUME NEW C \in Nat \ {0}, NEW n \in 0 .. C - 1, NEW r \in 0 .. C - 1
  PROVE  (n + C - r) % C = IF n >= r THEN n - r ELSE n + C - r
<1> DEFINE x == n + C - r
<1>1. CASE n >= r
  <2>1. x \in C .. 2 * C - 1
    BY <1>1
  <2>2. x % C = x - C
    <3> HIDE DEF x
    <3> QED BY <2>1
  <2>3. QED
    BY <1>1, <2>2
<1>2. CASE ~(n >= r)
  <2>1. x \in 0 .. C - 1
    BY <1>2
  <2>2. x % C = x
    <3> HIDE DEF x
    <3> QED BY <2>1
  <2>3. QED
    BY <1>2, <2>2
<1>3. QED
  BY <1>1, <1>2

\* A tick makes the difference one longer, unless it was the longest there is:
\* then the clock has come round to the reference.
LEMMA ElapsedTick ==
  ASSUME NEW C \in Nat \ {0}, NEW n \in 0 .. C - 1, NEW r \in 0 .. C - 1,
         (n + C - r) % C < C - 1
  PROVE  (((n + 1) % C) + C - r) % C = ((n + C - r) % C) + 1
<1>1. (n + 1) % C = IF n = C - 1 THEN 0 ELSE n + 1
  OBVIOUS
<1>2. (n + 1) % C \in 0 .. C - 1
  BY <1>1
<1> DEFINE m == (n + 1) % C
<1>3. (m + C - r) % C = IF m >= r THEN m - r ELSE m + C - r
  <2> HIDE DEF m
  <2> QED BY <1>2, ElapsedValue DEF m
<1>4. (n + C - r) % C = IF n >= r THEN n - r ELSE n + C - r
  BY ElapsedValue
<1>5. QED
  BY <1>1, <1>3, <1>4

\* What _update_last_run_time does to the types.
LEMMA UpdateTypes ==
  ASSUME TypeOK, NEW t \in Task, UpdateLastRunTime(t)
  PROVE  /\ last_run_time' \in [Task -> 0 .. ClockRange - 1]
         /\ new_run_timeout' \in [Task -> 0 .. ClockRange - 1]
         /\ age' \in [Task -> 0 .. MaxAge]
<1>1. ScheduleInterval(t) \in 0 .. ClockRange - 1
  BY ControllerAssumption DEF ScheduleInterval
<1>2. 0 \in 0 .. MaxAge /\ now \in 0 .. ClockRange - 1
  BY ControllerAssumption DEF MaxAge, TypeOK
<1>3. QED
  BY <1>1, <1>2 DEF UpdateLastRunTime, TypeOK

\* The list, the clock and the records of the tasks stay within their types.
THEOREM TypeCorrect == Spec => []TypeOK
<1> USE ControllerAssumption
<1>1. Init => TypeOK
  <2>1. <<>> \in Seq(Task) /\ 0 \in 0 .. Len(<<>>) + 1
    OBVIOUS
  <2>2. 0 \in 0 .. ClockRange - 1 /\ 0 \in 0 .. MaxAge /\ 0 \in 0 .. MaxRound
    BY DEF MaxAge
  <2> SUFFICES ASSUME Init PROVE TypeOK
    OBVIOUS
  <2>3. state \in [Task -> State]
    BY DEF Init, State
  <2>4. list \in Seq(Task) /\ act \in 0 .. Len(list) + 1
    BY <2>1 DEF Init
  <2>5. /\ last_run_time \in [Task -> 0 .. ClockRange - 1]
        /\ new_run_timeout \in [Task -> 0 .. ClockRange - 1]
        /\ age \in [Task -> 0 .. MaxAge]
    BY <2>2 DEF Init
  <2>6. QED
    BY <2>2, <2>3, <2>4, <2>5 DEF Init, TypeOK
<1>2. TypeOK /\ [Next]_vars => TypeOK'
  <2> SUFFICES ASSUME TypeOK, [Next]_vars PROVE TypeOK'
    OBVIOUS
  <2>1. ASSUME NEW t \in Task, Register(t) PROVE TypeOK'
    <3>1. ScheduleInterval(t) \in 0 .. ClockRange - 1
      BY DEF ScheduleInterval
    <3>2. Append(list, t) \in Seq(Task) /\ Len(Append(list, t)) = Len(list) + 1
      BY DEF TypeOK
    <3>3. act' \in 0 .. Len(list') + 1
      BY <2>1, <3>2 DEF Register, TypeOK
    <3>4. /\ last_run_time' \in [Task -> 0 .. ClockRange - 1]
          /\ new_run_timeout' \in [Task -> 0 .. ClockRange - 1]
          /\ age' \in [Task -> 0 .. MaxAge]
      BY <2>1, <3>1 DEF Register, TypeOK, MaxAge
    <3>5. QED
      BY <2>1, <3>2, <3>3, <3>4 DEF Register, TypeOK
  <2>2. ASSUME BeginRound PROVE TypeOK'
    <3>1. act' \in 0 .. Len(list') + 1
      BY <2>2 DEF BeginRound, TypeOK
    <3>2. QED
      BY <2>2, <3>1, 0 \in 0 .. MaxRound DEF BeginRound, TypeOK
  <2>3. ASSUME NEW t \in Task, SkipNotDue(t) \/ SkipSleeping(t) \/ Run(t) PROVE TypeOK'
    <3>1. act' \in 0 .. Len(list') + 1
      <4>1. act' = act + 1 /\ list' = list /\ act \in 1 .. Len(list)
        BY <2>3 DEF SkipNotDue, SkipSleeping, Run, InRound
      <4>2. Len(list) \in Nat
        BY DEF TypeOK
      <4>3. QED
        BY <4>1, <4>2
    <3>2. CASE SkipNotDue(t)
      BY <3>1, <3>2 DEF SkipNotDue, TypeOK
    <3>3. CASE SkipSleeping(t)
      BY <3>1, <3>3, UpdateTypes DEF SkipSleeping, TypeOK
    <3>4. CASE Run(t)
      <4>1. state' \in [Task -> State]
        BY <3>4 DEF Run, TypeOK
      <4>2. stay_awake' \in BOOLEAN
        BY <3>4 DEF Run, TypeOK
      <4>3. QED
        BY <3>1, <3>4, <4>1, <4>2, UpdateTypes DEF Run, TypeOK
    <3>5. QED
      BY <2>3, <3>2, <3>3, <3>4
  <2>4. ASSUME EndRound PROVE TypeOK'
    <3>1. act' \in 0 .. Len(list') + 1
      BY <2>4 DEF EndRound, TypeOK
    <3>2. QED
      BY <2>4, <3>1 DEF EndRound, TypeOK
  <2>5. ASSUME NEW t \in Task, Wake(t) PROVE TypeOK'
    <3>1. state' \in [Task -> State]
      BY <2>5 DEF Wake, TypeOK, State
    <3>2. QED
      BY <2>5, <3>1 DEF Wake, TypeOK
  <2>6. ASSUME Tick PROVE TypeOK'
    <3>1. now' \in 0 .. ClockRange - 1
      BY <2>6 DEF Tick, TypeOK
    <3>2. AllRegistered /\ ~asleep => lag < MaxRound
      BY <2>6 DEF Tick
    <3>3. lag' \in 0 .. MaxRound
      BY <2>6, <3>2 DEF Tick, TypeOK
    <3>4. age' \in [Task -> 0 .. MaxAge]
      <4>1. ASSUME NEW t \in Task PROVE age'[t] \in 0 .. MaxAge
        <5>1. age[t] \in 0 .. MaxAge /\ MaxAge \in Nat
          BY DEF TypeOK, MaxAge
        <5>2. age'[t] = IF age[t] < MaxAge THEN age[t] + 1 ELSE age[t]
          BY <2>6 DEF Tick
        <5>3. QED
          BY <5>1, <5>2
      <4>2. QED
        BY <2>6, <4>1 DEF Tick
    <3>5. QED
      BY <2>6, <3>1, <3>3, <3>4 DEF Tick, TypeOK
  <2>7. ASSUME UNCHANGED vars PROVE TypeOK'
    BY <2>7 DEF vars, TypeOK
  <2>8. QED
    BY <2>1, <2>2, <2>3, <2>4, <2>5, <2>6, <2>7 DEF Next, Schedule
<1>3. QED
  BY <1>1, <1>2, PTL DEF Spec

-----------------------------------------------------------------------------

\* In a round, the tasks behind act sleep, keep the CPU awake or are excused.
RoundInv ==
  /\ SleepsOverNoReadyTask
  /\ act > 0 =>
       /\ ~asleep /\ AllRegistered
       /\ \A i \in 1 .. act - 1 :
            state[list[i]] = "sleeping" \/ stay_awake \/ list[i] \in excused

\* Whatever wakes when, the CPU is put to sleep only when each task sleeps, was
\* not due or woke after its visit.
THEOREM NeverSleepsOverReady == Spec => []SleepsOverNoReadyTask
<1>1. Init => RoundInv
  BY DEF Init, RoundInv, SleepsOverNoReadyTask
<1>2. TypeOK /\ RoundInv /\ [Next]_vars => RoundInv'
  <2> SUFFICES ASSUME TypeOK, RoundInv, [Next]_vars PROVE RoundInv'
    OBVIOUS
  <2>1. ASSUME NEW t \in Task, Register(t) PROVE RoundInv'
    BY <2>1 DEF Register, RoundInv, SleepsOverNoReadyTask, TypeOK
  <2>2. ASSUME BeginRound PROVE RoundInv'
    BY <2>2 DEF BeginRound, RoundInv, SleepsOverNoReadyTask, AllRegistered
  <2>3. ASSUME NEW t \in Task, SkipNotDue(t) \/ SkipSleeping(t) \/ Run(t) PROVE RoundInv'
    <3>1. /\ act \in 1 .. Len(list) /\ list[act] = t /\ act' = act + 1
          /\ list' = list /\ asleep' = asleep /\ ~asleep /\ AllRegistered
      BY <2>3 DEF SkipNotDue, SkipSleeping, Run, InRound, RoundInv
    <3>2. ASSUME NEW i \in 1 .. act
          PROVE  state'[list[i]] = "sleeping" \/ stay_awake' \/ list[i] \in excused'
      <4>1. list[i] \in Task
        <5>1. list \in Seq(Task) /\ i \in 1 .. Len(list)
          <6>1. Len(list) \in Nat /\ list \in Seq(Task)
            BY DEF TypeOK
          <6>2. QED
            BY <3>1, <6>1
        <5>2. QED
          BY <5>1
      <4>2. CASE SkipNotDue(t)
        BY <3>1, <4>2 DEF SkipNotDue, RoundInv
      <4>3. CASE SkipSleeping(t)
        BY <3>1, <4>3 DEF SkipSleeping, RoundInv
      <4>4. CASE Run(t)
        <5>1. CASE list[i] = t
          <6>1. stay_awake' \/ state'[t] = "sleeping"
            BY <4>4 DEF Run
          <6>2. QED
            BY <5>1, <6>1
        <5>2. CASE list[i] # t
          <6>1. state'[list[i]] = state[list[i]]
            BY <4>1, <4>4, <5>2 DEF Run, TypeOK
          <6>2. i \in 1 .. act - 1
            BY <3>1, <5>2
          <6>3. QED
            <7>1. state[list[i]] = "sleeping" \/ stay_awake \/ list[i] \in excused
              BY <3>1, <6>2 DEF RoundInv
            <7>2. excused' = excused /\ (stay_awake => stay_awake')
              BY <4>4 DEF Run
            <7>3. QED
              BY <6>1, <7>1, <7>2
        <5>3. QED
          BY <5>1, <5>2
      <4>5. QED
        BY <2>3, <4>2, <4>3, <4>4
    <3>3. AllRegistered'
      BY <3>1 DEF AllRegistered
    <3>4. act' - 1 = act
      BY <3>1
    <3>5. QED
      BY <3>1, <3>2, <3>3, <3>4 DEF RoundInv, SleepsOverNoReadyTask
  <2>4. ASSUME EndRound PROVE RoundInv'
    <3>1. act = Len(list) + 1 /\ act > 0 /\ AllRegistered
      BY <2>4 DEF EndRound, RoundInv, TypeOK
    <3>2. ASSUME asleep', NEW t \in Task, state'[t] # "sleeping" PROVE t \in excused'
      <4>1. ~stay_awake /\ state[t] # "sleeping" /\ excused' = excused
        BY <2>4, <3>2 DEF EndRound
      <4>2. PICK i \in 1 .. Len(list) : list[i] = t
        BY <3>1 DEF AllRegistered, Contains
      <4>3. i \in 1 .. act - 1
        BY <3>1, <4>2 DEF TypeOK
      <4>4. QED
        BY <3>1, <4>1, <4>2, <4>3 DEF RoundInv
    <3>3. ~(act' > 0)
      BY <2>4 DEF EndRound
    <3>4. QED
      BY <3>2, <3>3 DEF RoundInv, SleepsOverNoReadyTask
  <2>5. ASSUME NEW t \in Task, Wake(t) PROVE RoundInv'
    <3>1. /\ ~asleep' /\ act' = act /\ list' = list /\ stay_awake' = stay_awake
          /\ excused' = excused \cup {t} /\ state' = [state EXCEPT ![t] = "running"]
      BY <2>5 DEF Wake
    <3>2. ASSUME act > 0, NEW i \in 1 .. act - 1
          PROVE  state'[list[i]] = "sleeping" \/ stay_awake' \/ list[i] \in excused'
      <4>1. state[list[i]] = "sleeping" \/ stay_awake \/ list[i] \in excused
        BY <3>2 DEF RoundInv
      <4>2. list[i] \in Task
        BY <3>2 DEF TypeOK
      <4>3. QED
        BY <3>1, <4>1, <4>2 DEF TypeOK
    <3>3. AllRegistered => AllRegistered'
      BY <3>1 DEF AllRegistered
    <3>4. QED
      BY <3>1, <3>2, <3>3 DEF RoundInv, SleepsOverNoReadyTask
  <2>6. ASSUME Tick PROVE RoundInv'
    BY <2>6 DEF Tick, RoundInv, SleepsOverNoReadyTask, AllRegistered
  <2>7. ASSUME UNCHANGED vars PROVE RoundInv'
    BY <2>7 DEF vars, RoundInv, SleepsOverNoReadyTask, AllRegistered
  <2>8. QED
    BY <2>1, <2>2, <2>3, <2>4, <2>5, <2>6, <2>7 DEF Next, Schedule
<1>3. RoundInv => SleepsOverNoReadyTask
  BY DEF RoundInv
<1>4. QED
  BY <1>1, <1>2, <1>3, TypeCorrect, PTL DEF Spec

-----------------------------------------------------------------------------

\* The noted time is not older than it looks, and a task of the list that keeps
\* its interval waits for that interval.
TimeInv ==
  \A t \in Task :
    /\ age[t] < ClockRange => Elapsed(t) = age[t]
    /\ t \notin Eager /\ Contains(list, t) => new_run_timeout[t] = Interval[t]

\* The invariant holds through every wrap of the clock.
LEMMA TimeInvHolds == Spec => []TimeInv
<1> USE ControllerAssumption
<1>1. Init => TimeInv
  <2>1. (0 + ClockRange - 0) % ClockRange = 0
    BY ElapsedValue
  <2>2. ASSUME Init, NEW t \in Task PROVE Elapsed(t) = 0 /\ age[t] = 0 /\ ~Contains(list, t)
    BY <2>1, <2>2 DEF Init, Elapsed, Contains
  <2>3. QED
    BY <2>2 DEF TimeInv
<1>2. TypeOK /\ TypeOK' /\ TimeInv /\ [Next]_vars => TimeInv'
  <2> SUFFICES ASSUME TypeOK, TypeOK', TimeInv, [Next]_vars, NEW t \in Task
               PROVE  /\ age'[t] < ClockRange => Elapsed(t)' = age'[t]
                      /\ t \notin Eager /\ Contains(list, t)' => new_run_timeout'[t] = Interval[t]
    BY DEF TimeInv
  <2>1. /\ now \in 0 .. ClockRange - 1 /\ last_run_time[t] \in 0 .. ClockRange - 1
        /\ age[t] \in 0 .. ClockRange /\ ClockRange \in Nat \ {0}
    BY DEF TypeOK, MaxAge
  <2>2. (now + ClockRange - now) % ClockRange = 0
    BY <2>1, ElapsedValue
  <2>3. ASSUME NEW u \in Task, UpdateLastRunTime(u), UNCHANGED <<now, list>>
        PROVE  /\ age'[t] < ClockRange => Elapsed(t)' = age'[t]
               /\ t \notin Eager /\ Contains(list, t)' => new_run_timeout'[t] = Interval[t]
    <3>1. CASE ScheduleInterval(u) = 0
      BY <2>3, <3>1 DEF UpdateLastRunTime, TimeInv, Elapsed
    <3>2. CASE ScheduleInterval(u) # 0
      <4>1. CASE u = t
        <5>1. last_run_time'[t] = now /\ age'[t] = 0 /\ new_run_timeout'[t] = ScheduleInterval(t)
          BY <2>3, <3>2, <4>1 DEF UpdateLastRunTime, TypeOK
        <5>2. Elapsed(t)' = 0
          BY <2>2, <2>3, <5>1 DEF Elapsed
        <5>3. t \notin Eager => ScheduleInterval(t) = Interval[t]
          BY DEF ScheduleInterval
        <5>4. QED
          BY <5>1, <5>2, <5>3
      <4>2. CASE u # t
        <5>1. /\ last_run_time'[t] = last_run_time[t] /\ age'[t] = age[t]
              /\ new_run_timeout'[t] = new_run_timeout[t]
          BY <2>3, <3>2, <4>2 DEF UpdateLastRunTime, TypeOK
        <5>2. QED
          BY <2>3, <5>1 DEF TimeInv, Elapsed
      <4>3. QED
        BY <4>1, <4>2
    <3>3. QED
      BY <3>1, <3>2
  <2>4. ASSUME NEW u \in Task, Register(u)
        PROVE  /\ age'[t] < ClockRange => Elapsed(t)' = age'[t]
               /\ t \notin Eager /\ Contains(list, t)' => new_run_timeout'[t] = Interval[t]
    <3>1. now' = now
      BY <2>4 DEF Register
    <3>2. CASE u = t
      <4>1. last_run_time'[t] = now /\ age'[t] = 0 /\ new_run_timeout'[t] = ScheduleInterval(t)
        BY <2>4, <3>2 DEF Register, TypeOK
      <4>2. Elapsed(t)' = 0
        BY <2>2, <3>1, <4>1 DEF Elapsed
      <4>3. t \notin Eager => ScheduleInterval(t) = Interval[t]
        BY DEF ScheduleInterval
      <4>4. QED
        BY <4>1, <4>2, <4>3
    <3>3. CASE u # t
      <4>1. /\ last_run_time'[t] = last_run_time[t] /\ age'[t] = age[t]
            /\ new_run_timeout'[t] = new_run_timeout[t]
        BY <2>4, <3>3 DEF Register, TypeOK
      <4>2. Contains(list, t)' => Contains(list, t)
        <5>1. list \in Seq(Task) /\ list' = Append(list, u)
          BY <2>4 DEF Register, TypeOK
        <5>2. ASSUME NEW i \in 1 .. Len(list'), list'[i] = t
              PROVE  i \in 1 .. Len(list) /\ list[i] = t
          BY <3>3, <5>1, <5>2
        <5>3. QED
          BY <5>2 DEF Contains
      <4>3. QED
        BY <3>1, <4>1, <4>2 DEF TimeInv, Elapsed
    <3>4. QED
      BY <3>2, <3>3
  <2>5. ASSUME Tick
        PROVE  /\ age'[t] < ClockRange => Elapsed(t)' = age'[t]
               /\ t \notin Eager /\ Contains(list, t)' => new_run_timeout'[t] = Interval[t]
    <3>1. /\ now' = (now + 1) % ClockRange /\ last_run_time' = last_run_time
          /\ list' = list /\ new_run_timeout' = new_run_timeout
          /\ age'[t] = IF age[t] < ClockRange THEN age[t] + 1 ELSE age[t]
      BY <2>5 DEF Tick, MaxAge
    <3>2. ASSUME age'[t] < ClockRange PROVE Elapsed(t)' = age'[t]
      <4>1. age[t] < ClockRange - 1 /\ age'[t] = age[t] + 1
        BY <2>1, <3>1, <3>2
      <4>2. Elapsed(t) = age[t]
        BY <2>1, <4>1 DEF TimeInv
      <4>3. Elapsed(t)' = Elapsed(t) + 1
        <5> DEFINE r == last_run_time[t]
        <5>1. (now + ClockRange - r) % ClockRange < ClockRange - 1
          BY <4>1, <4>2 DEF Elapsed
        <5>2. (((now + 1) % ClockRange) + ClockRange - r) % ClockRange
                = ((now + ClockRange - r) % ClockRange) + 1
          <6> HIDE DEF r
          <6> QED BY <2>1, <5>1, ElapsedTick DEF r
        <5>3. QED
          BY <3>1, <5>2 DEF Elapsed
      <4>4. QED
        BY <4>1, <4>2, <4>3
    <3>3. QED
      BY <3>1, <3>2 DEF TimeInv
  <2>6. CASE UNCHANGED <<now, list, last_run_time, new_run_timeout, age>>
    BY <2>6 DEF TimeInv, Elapsed
  <2>7. QED
    BY <2>3, <2>4, <2>5, <2>6
    DEF Next, Schedule, BeginRound, EndRound, SkipNotDue, SkipSleeping, Run, Wake, vars
<1>3. QED
  BY <1>1, <1>2, TypeCorrect, PTL DEF Spec

\* A task that keeps its interval is not run before it is over, although the
\* clock wraps and the time is noted for runs that did not happen.
THEOREM IntervalKept == Spec => NotBeforeItsInterval
<1> USE ControllerAssumption
<1>1. TypeOK /\ TimeInv /\ [Next]_vars
        => [\A t \in Task \ Eager : ran' = t => age[t] >= Interval[t]]_vars
  <2> SUFFICES ASSUME TypeOK, TimeInv, [Next]_vars, ~UNCHANGED vars,
                      NEW t \in Task \ Eager, ran' = t
               PROVE  age[t] >= Interval[t]
    OBVIOUS
  <2>1. PICK u \in Task : Run(u)
    BY DEF Next, Schedule, BeginRound, EndRound, SkipNotDue, SkipSleeping, Register, Wake, Tick
  <2>2. u = t
    BY <2>1 DEF Run
  <2>3. Contains(list, t)
    BY <2>1, <2>2 DEF Run, InRound, Contains
  <2>4. /\ new_run_timeout[t] = Interval[t] /\ ScheduleInterval(t) = Interval[t]
        /\ Interval[t] \in 1 .. ClockRange - 1
    BY <2>3 DEF TimeInv, ScheduleInterval
  <2>5. Elapsed(t) >= Interval[t]
    BY <2>1, <2>2, <2>4 DEF Run, IntervalPassed
  <2>6. age[t] \in 0 .. ClockRange /\ ClockRange \in Nat
    BY DEF TypeOK, MaxAge
  <2>7. QED
    BY <2>4, <2>5, <2>6 DEF TimeInv
<1>2. QED
  BY <1>1, TypeCorrect, TimeInvHolds, PTL DEF Spec, NotBeforeItsInterval
=============================================================================
