----------------------- MODULE PowerManagement_proofs -----------------------
(***************************************************************************)
(* Proofs about the power-management task for every number of clients the  *)
(* request counter can count, and all ramp times.                          *)
(***************************************************************************)
EXTENDS PowerManagement, FiniteSetTheorems, TLAPS

\* Every operation keeps the type of the unit.
LEMMA UnitTypes ==
  ASSUME NEW u \in Unit
  PROVE  /\ UnitRequest(u) \in Unit
         /\ UnitRelease(u) \in Unit
         /\ UnitRun(u) \in Unit
         /\ UnitTick(u) \in Unit
<1>1. /\ 0 \in 0 .. MaxAge
      /\ MaxAge \in Nat
      /\ MaxRequests \in Nat
  BY UnitAssumption DEF MaxAge
<1>2. UnitRequest(u) \in Unit
  <2>1. CountUp(u) \in 0 .. MaxRequests
    BY <1>1 DEF Unit, CountUp
  <2>2. QED
    BY <1>1, <2>1 DEF Unit, UnitRequest
<1>3. UnitRelease(u) \in Unit
  <2>1. CASE u.request_counter = 0
    BY <2>1 DEF UnitRelease
  <2>2. CASE u.request_counter # 0
    <3>1. u.request_counter - 1 \in 0 .. MaxRequests
      BY <1>1, <2>2 DEF Unit
    <3>2. (u.is_ramp_down \/ u.request_counter = 1) \in BOOLEAN
      OBVIOUS
    <3>3. QED
      BY <2>2, <3>1, <3>2 DEF Unit, UnitRelease
  <2>3. QED
    BY <2>1, <2>2
<1>4. UnitRun(u) \in Unit
  BY <1>1 DEF Unit, UnitRun
<1>5. UnitTick(u) \in Unit
  <2>1. CASE u.age < MaxAge
    BY <1>1, <2>1 DEF Unit, UnitTick
  <2>2. CASE ~(u.age < MaxAge)
    BY <2>2 DEF Unit, UnitTick
  <2>3. QED
    BY <2>1, <2>2
<1>6. QED
  BY <1>2, <1>3, <1>4, <1>5

\* Counters, ages and timers stay in their ranges under any calls.
THEOREM TypeCorrect == Spec => []TypeOK
<1>1. Init => TypeOK
  <2>1. 0 \in 0 .. MaxRequests /\ 0 \in 0 .. MaxAge
    BY UnitAssumption DEF MaxAge
  <2>2. 0 \in 0 .. PowerUpTime /\ 0 \in 0 .. ScheduleInterval
    BY UnitAssumption, ScheduleAssumption
  <2>3. UnitInit \in Unit
    BY <2>1 DEF UnitInit, Unit
  <2>4. QED
    BY <2>2, <2>3 DEF Init, TypeOK
<1>2. TypeOK /\ [Next]_vars => TypeOK'
  <2>1. SUFFICES ASSUME TypeOK, [Next]_vars PROVE TypeOK'
    OBVIOUS
  <2>2. unit \in Unit
    BY <2>1 DEF TypeOK
  <2>3. PowerUpTime \in Nat /\ ScheduleInterval \in Nat
    BY UnitAssumption, ScheduleAssumption
  <2>4. ASSUME NEW c \in Client, Request(c) PROVE TypeOK'
    <3>1. unit' \in Unit
      BY <2>2, <2>4, UnitTypes DEF Request
    <3>2. pending' \in BOOLEAN
      BY <2>1, <2>4 DEF TypeOK, Request, RequestPends
    <3>3. powered' \in 0 .. PowerUpTime
      BY <2>1, <2>3, <2>4 DEF TypeOK, Request
    <3>4. QED
      BY <2>1, <2>4, <3>1, <3>2, <3>3 DEF TypeOK, Request
  <2>5. ASSUME NEW c \in Client, Release(c) PROVE TypeOK'
    <3>1. unit' \in Unit
      BY <2>2, <2>5, UnitTypes DEF Release
    <3>2. pending' \in BOOLEAN
      BY <2>1, <2>5 DEF TypeOK, Release, ReleasePends
    <3>3. QED
      BY <2>1, <2>5, <3>1, <3>2 DEF TypeOK, Release
  <2>6. CASE TaskRun
    <3>1. unit' \in Unit
      BY <2>2, <2>6, UnitTypes DEF TaskRun
    <3>2. elapsed' \in 0 .. ScheduleInterval
      BY <2>1, <2>3, <2>6 DEF TypeOK, TaskRun
    <3>3. QED
      BY <2>1, <2>6, <3>1, <3>2 DEF TypeOK, TaskRun
  <2>7. CASE Tick
    <3>1. unit' \in Unit
      BY <2>2, <2>7, UnitTypes DEF Tick
    <3>2. elapsed' \in 0 .. ScheduleInterval
      BY <2>1, <2>3, <2>7 DEF TypeOK, Tick
    <3>3. powered' \in 0 .. PowerUpTime
      BY <2>1, <2>3, <2>7 DEF TypeOK, Tick
    <3>4. QED
      BY <2>1, <2>7, <3>1, <3>2, <3>3 DEF TypeOK, Tick
  <2>8. CASE UNCHANGED vars
    BY <2>1, <2>8 DEF TypeOK, vars
  <2>9. QED
    BY <2>1, <2>4, <2>5, <2>6, <2>7, <2>8 DEF Next
<1>3. QED
  BY <1>1, <1>2, PTL DEF Spec

-----------------------------------------------------------------------------

\* The set of clients is finite, so counting one more or one less is exact.
LEMMA Counting ==
  ASSUME TypeOK
  PROVE  /\ IsFiniteSet(wants)
         /\ Cardinality(wants) \in Nat
         /\ Cardinality(wants) = 0 <=> wants = {}
         /\ \A c \in Client \ wants :
              /\ Cardinality(wants \cup {c}) = Cardinality(wants) + 1
              /\ Cardinality(wants) < MaxRequests
         /\ \A c \in wants : Cardinality(wants \ {c}) = Cardinality(wants) - 1
<1>1. IsFiniteSet(wants)
  BY ClientAssumption, FS_Subset DEF TypeOK
<1>2. Cardinality(wants) \in Nat /\ (Cardinality(wants) = 0 <=> wants = {})
  BY <1>1, FS_CardinalityType, FS_EmptySet
<1>3. ASSUME NEW c \in Client \ wants
      PROVE  /\ Cardinality(wants \cup {c}) = Cardinality(wants) + 1
             /\ Cardinality(wants) < MaxRequests
  <2>1. Cardinality(wants \cup {c}) = Cardinality(wants) + 1
    BY <1>1, <1>3, FS_AddElement
  <2>2. wants \cup {c} \subseteq Client
    BY <1>3 DEF TypeOK
  <2>3. /\ Cardinality(wants \cup {c}) <= Cardinality(Client)
        /\ Cardinality(Client) \in Nat
    BY <2>2, ClientAssumption, FS_Subset, FS_CardinalityType
  <2>4. QED
    BY <1>2, <2>1, <2>3, ClientAssumption, UnitAssumption
<1>4. ASSUME NEW c \in wants
      PROVE  Cardinality(wants \ {c}) = Cardinality(wants) - 1
  BY <1>1, <1>4, FS_RemoveElement
<1>5. QED
  BY <1>1, <1>2, <1>3, <1>4

\* What makes PoweredWhileWanted inductive: the counter is the number of
\* clients, and while it is not zero one of the three flags is set, so that
\* only the end of a ramp-down without requests switches the line off.
PowerInv ==
  /\ CounterAgrees
  /\ FlagsAgree
  /\ PoweredWhileWanted

LEMMA PowerStart == Init => PowerInv
BY FS_EmptySet
   DEF Init, PowerInv, CounterAgrees, FlagsAgree, PoweredWhileWanted, UnitInit

LEMMA PowerStep ==
  ASSUME TypeOK, PowerInv, [Next]_vars
  PROVE  PowerInv'
<1>1. unit \in Unit
  BY DEF TypeOK
<1>2. /\ unit.request_counter = Cardinality(wants)
      /\ unit.request_counter \in Nat
      /\ unit.request_counter = 0 <=> wants = {}
  BY Counting DEF PowerInv, CounterAgrees
<1>3. ASSUME NEW c \in Client, Request(c) PROVE PowerInv'
  <2>1. unit'.request_counter = Cardinality(wants')
    BY <1>1, <1>2, <1>3, Counting DEF Request, UnitRequest, CountUp, Unit
  <2>2. FlagsAgree' /\ unit'.line
    <3>1. CASE unit.request_counter = 0 /\ ~unit.is_ramp_down
      <4>1. /\ unit'.is_ramp_up /\ unit'.line
            /\ unit'.is_on = unit.is_on
            /\ unit'.request_counter # 0
        BY <1>1, <1>3, <3>1, UnitAssumption
           DEF Request, UnitRequest, CountUp, Unit
      <4>2. ~unit.is_on
        BY <3>1 DEF PowerInv, FlagsAgree
      <4>3. QED
        BY <4>1, <4>2 DEF FlagsAgree
    <3>2. CASE unit.request_counter # 0 \/ unit.is_ramp_down
      <4>1. /\ unit'.is_ramp_up = unit.is_ramp_up
            /\ unit'.is_ramp_down = unit.is_ramp_down
            /\ unit'.is_on = unit.is_on
            /\ unit'.line = unit.line
        BY <1>1, <1>3, <3>2 DEF Request, UnitRequest, Unit
      <4>2. unit'.request_counter # 0
        BY <1>1, <1>3, UnitAssumption
           DEF Request, UnitRequest, CountUp, Unit
      <4>3. unit.line
        BY <1>2, <3>2 DEF PowerInv, FlagsAgree, PoweredWhileWanted
      <4>4. QED
        BY <4>1, <4>2, <4>3 DEF PowerInv, FlagsAgree
    <3>3. QED
      BY <3>1, <3>2
  <2>3. QED
    BY <2>1, <2>2 DEF PowerInv, CounterAgrees, PoweredWhileWanted
<1>4. ASSUME NEW c \in Client, Release(c) PROVE PowerInv'
  <2>1. unit.request_counter # 0
    BY <1>2, <1>4 DEF Release
  <2>2. /\ unit'.request_counter = unit.request_counter - 1
        /\ unit'.is_ramp_up = unit.is_ramp_up
        /\ unit'.is_on = unit.is_on
        /\ unit'.line = unit.line
        /\ unit.is_ramp_down \/ unit.request_counter = 1 => unit'.is_ramp_down
    BY <1>1, <1>4, <2>1 DEF Release, UnitRelease, Unit
  <2>3. unit.line
    BY <1>2, <2>1 DEF PowerInv, PoweredWhileWanted
  <2>4. unit'.request_counter = Cardinality(wants')
    BY <1>2, <1>4, <2>2, Counting DEF Release
  <2>5. unit'.request_counter = 0 => unit'.is_ramp_down
    BY <1>2, <2>2
  <2>6. FlagsAgree'
    BY <2>2, <2>3, <2>5 DEF PowerInv, FlagsAgree
  <2>7. QED
    BY <2>2, <2>3, <2>4, <2>6
       DEF PowerInv, CounterAgrees, PoweredWhileWanted
<1>5. CASE TaskRun
  <2>1. unit'.request_counter = unit.request_counter /\ wants' = wants
    BY <1>1, <1>5 DEF TaskRun, UnitRun, Unit
  <2>2. FlagsAgree'
    BY <1>1, <1>5 DEF PowerInv, FlagsAgree, TaskRun, UnitRun, Unit
  <2>3. unit.request_counter # 0 => unit'.line = unit.line
    BY <1>1, <1>5 DEF TaskRun, UnitRun, Unit
  <2>4. QED
    BY <1>2, <2>1, <2>2, <2>3
       DEF PowerInv, CounterAgrees, PoweredWhileWanted
<1>6. CASE Tick
  <2>1. /\ unit'.request_counter = unit.request_counter
        /\ unit'.is_on = unit.is_on
        /\ unit'.is_ramp_up = unit.is_ramp_up
        /\ unit'.is_ramp_down = unit.is_ramp_down
        /\ unit'.line = unit.line
        /\ wants' = wants
    BY <1>1, <1>6 DEF Tick, UnitTick, Unit
  <2>2. QED
    BY <2>1 DEF PowerInv, CounterAgrees, FlagsAgree, PoweredWhileWanted
<1>7. CASE UNCHANGED vars
  BY <1>7
     DEF vars, PowerInv, CounterAgrees, FlagsAgree, PoweredWhileWanted
<1>8. QED
  BY <1>3, <1>4, <1>5, <1>6, <1>7 DEF Next

\* A unit that is still requested by any client is not powered off.
THEOREM NeverOffWhileWanted == Spec => []PoweredWhileWanted
<1>1. PowerInv => PoweredWhileWanted
  BY DEF PowerInv
<1>2. QED
  BY <1>1, PowerStart, PowerStep, TypeCorrect, PTL DEF Spec

\* The counter of a unit is the number of clients that hold a request.
THEOREM CounterIsUsers == Spec => []CounterAgrees
<1>1. PowerInv => CounterAgrees
  BY DEF PowerInv
<1>2. QED
  BY <1>1, PowerStart, PowerStep, TypeCorrect, PTL DEF Spec

\* The flags of a unit exclude each other as the ramps want it.
THEOREM FlagsConsistent == Spec => []FlagsAgree
<1>1. PowerInv => FlagsAgree
  BY DEF PowerInv
<1>2. QED
  BY <1>1, PowerStart, PowerStep, TypeCorrect, PTL DEF Spec

-----------------------------------------------------------------------------

\* What makes ToldOnIsSettled inductive: a line that has not had its time yet is
\* ramping up, and the task has not waited longer than the line has power.
SettleInv ==
  unit.line => \/ powered = PowerUpTime
               \/ unit.is_ramp_up /\ unit.age <= powered

LEMMA SettleStart == Init => SettleInv
BY DEF Init, SettleInv, UnitInit

LEMMA SettleStep ==
  ASSUME TypeOK, PowerInv, SettleInv, [Next]_vars
  PROVE  SettleInv'
<1>1. /\ unit \in Unit
      /\ powered \in 0 .. PowerUpTime
      /\ PowerUpTime \in Nat
      /\ MaxAge \in Nat
      /\ unit.age \in Nat
  BY UnitAssumption DEF TypeOK, Unit, MaxAge
<1>2. ASSUME NEW c \in Client, Request(c) PROVE SettleInv'
  <2>1. CASE unit.request_counter = 0 /\ ~unit.is_ramp_down
    <3>1. ~unit.line
      BY <2>1 DEF PowerInv, FlagsAgree
    <3>2. unit'.is_ramp_up /\ unit'.line /\ unit'.age = 0
      BY <1>1, <1>2, <2>1 DEF Request, UnitRequest, Unit
    <3>3. powered' = 0
      BY <1>2, <3>1, <3>2 DEF Request
    <3>4. QED
      BY <3>2, <3>3 DEF SettleInv
  <2>2. CASE unit.request_counter # 0 \/ unit.is_ramp_down
    <3>1. /\ unit'.is_ramp_up = unit.is_ramp_up
          /\ unit'.age = unit.age
          /\ unit'.line = unit.line
      BY <1>1, <1>2, <2>2 DEF Request, UnitRequest, Unit
    <3>2. powered' = powered
      BY <1>2, <3>1 DEF Request
    <3>3. QED
      BY <3>1, <3>2 DEF SettleInv
  <2>3. QED
    BY <2>1, <2>2
<1>3. ASSUME NEW c \in Client, Release(c) PROVE SettleInv'
  <2>1. /\ unit'.is_ramp_up = unit.is_ramp_up
        /\ unit'.age = unit.age
        /\ unit'.line = unit.line
    BY <1>1, <1>3 DEF Release, UnitRelease, Unit
  <2>2. powered' = powered
    BY <1>3 DEF Release
  <2>3. QED
    BY <2>1, <2>2 DEF SettleInv
<1>4. CASE TaskRun
  <2>1. unit' = UnitRun(unit) /\ powered' = powered
    BY <1>4 DEF TaskRun
  <2>2. CASE unit.is_ramp_up /\ unit.age >= PowerUpTime
    <3>1. unit'.line = unit.line
      BY <1>1, <2>1, <2>2 DEF UnitRun, Unit
    <3>2. unit.line => powered = PowerUpTime
      BY <1>1, <2>2 DEF SettleInv
    <3>3. QED
      BY <2>1, <3>1, <3>2 DEF SettleInv
  <2>3. CASE unit.is_ramp_up /\ ~(unit.age >= PowerUpTime)
    BY <2>1, <2>3 DEF UnitRun, SettleInv
  <2>4. CASE ~unit.is_ramp_up
    <3>1. unit'.line => unit.line
      BY <1>1, <2>1, <2>4 DEF UnitRun, Unit
    <3>2. QED
      BY <2>1, <2>4, <3>1 DEF SettleInv
  <2>5. QED
    BY <2>2, <2>3, <2>4
<1>5. CASE Tick
  <2>1. /\ unit'.is_ramp_up = unit.is_ramp_up
        /\ unit'.line = unit.line
        /\ unit'.age <= unit.age + 1
    BY <1>1, <1>5 DEF Tick, UnitTick, Unit
  <2>2. /\ powered' = PowerUpTime \/ powered' = powered + 1
        /\ powered = PowerUpTime => powered' = powered
    BY <1>1, <1>5 DEF Tick
  <2>3. unit'.age \in Nat
    BY <1>1, <1>5 DEF Tick, UnitTick, Unit
  <2>4. QED
    BY <1>1, <2>1, <2>2, <2>3 DEF SettleInv
<1>6. CASE UNCHANGED vars
  BY <1>6 DEF vars, SettleInv
<1>7. QED
  BY <1>2, <1>3, <1>4, <1>5, <1>6 DEF Next

\* Who asks is_on is told yes only of a line that has power and had its ramp-up
\* time, whatever requests and releases came during the ramps, unless the last
\* client left during this ramp-up (ToldOnIsSettled).
THEOREM ToldIsSettled == Spec => []ToldOnIsSettled
<1>1. TypeOK /\ PowerInv /\ SettleInv => ToldOnIsSettled
  BY DEF TypeOK, Unit, PowerInv, FlagsAgree, SettleInv, ToldOnIsSettled, UnitIsOn, LeftInRampUp
<1>2. TypeOK /\ PowerInv /\ [Next]_vars => PowerInv'
  BY PowerStep
<1>3. TypeOK /\ PowerInv /\ SettleInv /\ [Next]_vars => SettleInv'
  BY SettleStep
<1>4. QED
  BY <1>1, <1>2, <1>3, PowerStart, SettleStart, TypeCorrect, PTL DEF Spec

\* A client that keeps the unit and was told that it is on is not told the
\* opposite, in any step of the task, of the other clients or of the clock
\* (ToldOnStaysOn).
THEOREM ToldStaysOn == Spec => ToldOnStaysOn
<1>1. ASSUME TypeOK, PowerInv, [Next]_vars, wants \cap wants' # {}, UnitIsOn(unit)
      PROVE  UnitIsOn(unit)'
  <2>1. unit \in Unit /\ unit.request_counter # 0
    BY <1>1, Counting DEF TypeOK, PowerInv, CounterAgrees
  <2>2. ASSUME NEW c \in Client, Request(c) \/ Release(c) PROVE UnitIsOn(unit)'
    <3>1. CASE unit' = UnitRequest(unit)
      BY <1>1, <2>1, <3>1 DEF UnitRequest, UnitIsOn, Unit
    <3>2. CASE unit' = UnitRelease(unit)
      BY <1>1, <2>1, <3>2 DEF UnitRelease, UnitIsOn, Unit
    <3>3. QED
      BY <2>2, <3>1, <3>2 DEF Request, Release
  <2>3. CASE TaskRun
    BY <1>1, <2>1, <2>3 DEF TaskRun, UnitRun, UnitIsOn, Unit
  <2>4. CASE Tick
    BY <1>1, <2>1, <2>4 DEF Tick, UnitTick, UnitIsOn, Unit
  <2>5. CASE UNCHANGED vars
    BY <1>1, <2>5 DEF vars
  <2>6. QED
    BY <1>1, <2>2, <2>3, <2>4, <2>5 DEF Next
<1>2. TypeOK /\ PowerInv /\ [Next]_vars => PowerInv'
  BY PowerStep
<1>3. TypeOK /\ PowerInv /\ [Next]_vars
        => [wants \cap wants' # {} /\ UnitIsOn(unit) => UnitIsOn(unit)']_vars
  BY <1>1
<1>4. QED
  BY <1>2, <1>3, PowerStart, TypeCorrect, PTL DEF Spec, ToldOnStaysOn

=============================================================================
