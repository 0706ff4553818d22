----------------------------- MODULE PowerUnit ------------------------------
(***************************************************************************)
(* One POWER_MANAGEMENT_UNIT_TYPE of power_management.c.  Each operator is *)
(* the unit after the function of that name, or after the part of the      *)
(* task's run that handles one unit.  switch_timestamp is kept as the time *)
(* since it was taken (age), line is what the on and off callbacks did.    *)
(***************************************************************************)
EXTENDS Naturals

CONSTANTS
  MaxRequests,     \* POWER_MANAGEMENT_MAX_REQUEST_COUNT_VALUE
  PowerUpTime,     \* power_up_time_ms, in ticks of the model
  PowerDownTime    \* power_down_time_ms, in ticks of the model

ASSUME UnitAssumption ==
  /\ MaxRequests \in 1 .. 255
  /\ PowerUpTime \in Nat
  /\ PowerDownTime \in Nat

\* Ages beyond the longest time anything waits for are not told apart.
MaxAge == IF PowerUpTime > PowerDownTime THEN PowerUpTime ELSE PowerDownTime

Unit ==
  [ is_on : BOOLEAN,
    is_ramp_up : BOOLEAN,
    is_ramp_down : BOOLEAN,
    request_counter : 0 .. MaxRequests,
    age : 0 .. MaxAge,
    line : BOOLEAN ]

\* power_mgmnt_unit_init ends with a call of off().
UnitInit ==
  [ is_on |-> FALSE, is_ramp_up |-> FALSE, is_ramp_down |-> FALSE,
    request_counter |-> 0, age |-> 0, line |-> FALSE ]

\* What a further request counts up to.
CountUp(u) ==
  IF u.request_counter < MaxRequests THEN u.request_counter + 1
  ELSE u.request_counter

\* Variant: a request during the ramp-down is taken for satisfied.
WrongUnitRequest(u) ==
  IF u.request_counter # 0 THEN [u EXCEPT !.request_counter = CountUp(u)]
  ELSE IF u.is_ramp_down THEN u
  ELSE [u EXCEPT !.is_ramp_up = TRUE, !.age = 0, !.line = TRUE,
                 !.request_counter = CountUp(u)]

UnitRequest(u) ==
  IF u.request_counter = 0 /\ ~u.is_ramp_down
  THEN [u EXCEPT !.is_ramp_up = TRUE, !.age = 0, !.line = TRUE,
                 !.request_counter = CountUp(u)]
  ELSE [u EXCEPT !.request_counter = CountUp(u)]

\* Variant: a unit that is still ramping up is not told to ramp down.
WrongUnitRelease(u) ==
  IF u.request_counter = 0 THEN u
  ELSE [u EXCEPT !.is_ramp_down =
                   u.is_ramp_down \/ (u.request_counter = 1 /\ u.is_on),
                 !.request_counter = u.request_counter - 1]

UnitRelease(u) ==
  IF u.request_counter = 0 THEN u
  ELSE [u EXCEPT !.is_ramp_down = (u.is_ramp_down \/ u.request_counter = 1),
                 !.request_counter = u.request_counter - 1]

\* Does a request or release set POWER_MGNT_STATUS_ACTION_PENDING?
RequestPends(u) == u.request_counter = 0
ReleasePends(u) == u.request_counter = 1

\* Variant: a unit that is requested is told to be on.
WrongUnitIsOn(u) == u.is_on \/ u.request_counter # 0

\* power_mgmnt_unit_is_on: what a client is told
UnitIsOn(u) == u.is_on \/ u.is_ramp_down

\* Variant: the requests that came during the ramp-down are not looked at.
WrongUnitRun(u) ==
  IF u.is_ramp_up /\ u.age >= PowerUpTime THEN
    [u EXCEPT !.is_on = TRUE, !.is_ramp_up = FALSE]
  ELSE IF u.is_on /\ u.is_ramp_down THEN [u EXCEPT !.is_on = FALSE, !.age = 0]
  ELSE IF u.is_ramp_down /\ u.age >= PowerDownTime THEN
    [u EXCEPT !.is_ramp_down = FALSE, !.line = FALSE]
  ELSE u

\* power_management_task_run, for one unit of its list
UnitRun(u) ==
  IF u.is_ramp_up /\ u.age >= PowerUpTime THEN
    [u EXCEPT !.is_on = TRUE, !.is_ramp_up = FALSE]
  ELSE IF u.is_ramp_up THEN u
  ELSE IF u.is_on /\ u.is_ramp_down THEN [u EXCEPT !.is_on = FALSE, !.age = 0]
  ELSE IF u.is_on \/ ~u.is_ramp_down THEN u
  ELSE IF u.request_counter # 0 THEN
    [u EXCEPT !.is_ramp_down = FALSE, !.is_on = TRUE]
  ELSE IF u.age >= PowerDownTime THEN
    [u EXCEPT !.is_ramp_down = FALSE, !.line = FALSE]
  ELSE u

\* One tick of the clock, seen by the unit.
UnitTick(u) == [u EXCEPT !.age = IF @ < MaxAge THEN @ + 1 ELSE @]

=============================================================================
