--------------------------- MODULE PowerManagement --------------------------
(***************************************************************************)
(* The power-management task of power_management.c with one unit, the 5 V  *)
(* supply (power_module_5V.c is the only one in the repository), and the   *)
(* clients that request and release it.  Clients and the task run from one *)
(* main loop, so each call is one step and the clock moves between them.   *)
(***************************************************************************)
EXTENDS PowerUnit, FiniteSets

CONSTANTS
  Client,
  ScheduleInterval    \* POWER_MNGNMT_TASK_SCHEDULE_INTERVAL_MS, in ticks

\* A client requests the unit once before it releases it, so the counter does
\* not saturate as long as there are no more clients than it counts.
ASSUME ClientAssumption ==
  /\ IsFiniteSet(Client)
  /\ Cardinality(Client) <= MaxRequests
ASSUME ScheduleAssumption == ScheduleInterval \in Nat

VARIABLES
  unit,
  pending,    \* POWER_MGNT_STATUS_ACTION_PENDING
  elapsed,    \* of POWER_MGMNT_SCHEDULE_TIMER
  wants,      \* the clients that have requested and not released the unit
  powered     \* ticks since on() was called, as the hardware sees them

vars == <<unit, pending, elapsed, wants, powered>>

TypeOK ==
  /\ unit \in Unit
  /\ pending \in BOOLEAN
  /\ elapsed \in 0 .. ScheduleInterval
  /\ wants \subseteq Client
  /\ powered \in 0 .. PowerUpTime

Init ==
  /\ unit = UnitInit
  /\ pending = FALSE
  /\ elapsed = 0
  /\ wants = {}
  /\ powered = 0

Request(c) ==
  /\ c \notin wants
  /\ unit' = UnitRequest(unit)
  /\ wants' = wants \cup {c}
  /\ pending' = (pending \/ RequestPends(unit))
  /\ powered' = IF ~unit.line /\ unit'.line THEN 0 ELSE powered
  /\ UNCHANGED elapsed

Release(c) ==
  /\ c \in wants
  /\ unit' = UnitRelease(unit)
  /\ wants' = wants \ {c}
  /\ pending' = (pending \/ ReleasePends(unit))
  /\ UNCHANGED <<elapsed, powered>>

\* The scheduler calls get_state, which restarts the timer while an action is
\* pending, and run when the answer is RUNNING.
TaskRun ==
  /\ pending \/ elapsed = ScheduleInterval
  /\ unit' = UnitRun(unit)
  /\ elapsed' = IF pending THEN 0 ELSE elapsed
  /\ pending' = FALSE
  /\ UNCHANGED <<wants, powered>>

Tick ==
  /\ unit' = UnitTick(unit)
  /\ elapsed' = IF elapsed < ScheduleInterval THEN elapsed + 1 ELSE elapsed
  /\ powered' = IF powered < PowerUpTime THEN powered + 1 ELSE powered
  /\ UNCHANGED <<pending, wants>>

Next == (\E c \in Client : Request(c) \/ Release(c)) \/ TaskRun \/ Tick

Spec == Init /\ [][Next]_vars

\* The main loop never stops calling the scheduler and the clock runs.
FairSpec == Spec /\ WF_vars(TaskRun) /\ WF_vars(Tick)

-----------------------------------------------------------------------------

\* The counter counts the clients, though request and release may come at any
\* time of the unit's ramps.
CounterAgrees == unit.request_counter = Cardinality(wants)

\* The flags tell whether the line has power: it has from the first request to
\* the end of the last ramp-down, and a powered unit that nobody asks for has
\* been told to ramp down.
FlagsAgree ==
  /\ unit.line <=> unit.is_on \/ unit.is_ramp_up \/ unit.is_ramp_down
  /\ ~(unit.is_on /\ unit.is_ramp_up)
  /\ unit.line /\ unit.request_counter = 0 => unit.is_ramp_down

\* "If the unit is still requested by one or more other objects, it will not
\* be powered-off": whoever holds the unit has power, also when the request
\* came while the unit was ramping down.
PoweredWhileWanted == wants # {} => unit.line

\* After the last client has gone for good the supply is switched off.
OffWhenForgotten == <>[](wants = {}) => <>[](~unit.line)

\* A client that keeps its request is told that the unit is on.
ReadyInTheEnd == \A c \in Client : c \in wants ~> c \notin wants \/ UnitIsOn(unit)

\* "A unit is ready for use if it was requested by at least one object and the
\* ramp-up time has passed" (power_management_interface.h:171).
ReadyMeansSettled == wants # {} /\ UnitIsOn(unit) => powered = PowerUpTime

\* The last client has released the unit while it ramped up, and the ramp-up
\* is not over yet.
LeftInRampUp == unit.is_ramp_up /\ unit.is_ramp_down

\* The same of what the code tells a client: the line has power and had its
\* time to settle, whatever requests and releases came during the ramps. It
\* fails when the last client leaves during the ramp-up: is_on then answers
\* yes at once (power_management.c:204), also to a client that asks for the
\* unit in what is left of the ramp-up.
ToldOnIsSettled ==
  UnitIsOn(unit) => unit.line /\ (powered = PowerUpTime \/ LeftInRampUp)

\* A client that keeps its request is not told that the unit is off after it
\* was told that it is on, though others leave and come back in the ramp-down.
ToldOnStaysOn ==
  [][wants \cap wants' # {} /\ UnitIsOn(unit) => UnitIsOn(unit)']_vars

=============================================================================
