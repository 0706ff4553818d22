------------------------------ MODULE Movement ------------------------------
(***************************************************************************)
(* The movement detection of src/modules/movement_detection: a state       *)
(* machine that takes a movement for real when it is seen twice, reports   *)
(* it and rests, and that is sent to sleep and woken by two signals. Their *)
(* slots only set a flag each; the task looks at the flags in two of its   *)
(* states.                                                                 *)
(*                                                                         *)
(* The sensor pin is an input that may show anything at any time. A timer  *)
(* that was started may or may not be up when a run of the task asks.      *)
(***************************************************************************)
EXTENDS Naturals

VARIABLES
  detector,   \* move_detect_state, MOVMENT_DETECTION_STATUS and the sensor's power
  wanted      \* history: the last power signal; a power down nobody served yet

movevars == <<detector, wanted>>

MoveState == {"SETUP", "WAIT_FOR_MOVEMENT", "WAIT_TO_VERIFY", "VERIFY",
              "SIGNALING", "PAUSE", "POWER_DOWN"}

MoveInit ==
  /\ detector = [state |-> "SETUP", enter |-> FALSE, leave |-> FALSE, powered |-> TRUE]
  /\ wanted = [last |-> "up", unserved |-> FALSE]

-----------------------------------------------------------------------------
(* The slots of the power signals *)

PowerDownSignal ==
  /\ detector' = [detector EXCEPT !.enter = TRUE]
  /\ wanted' = [last |-> "down", unserved |-> TRUE]

PowerUpSignal ==
  /\ detector' = [detector EXCEPT !.leave = TRUE]
  /\ wanted' = [wanted EXCEPT !.last = "up"]

-----------------------------------------------------------------------------
(* MOVEMENT_DETECT_CONTROLLER_TASK_execute *)

SetUpSensor ==
  /\ detector.state = "SETUP"
  /\ detector' = [detector EXCEPT !.state = "WAIT_FOR_MOVEMENT"]
  /\ UNCHANGED wanted

WrongAfterLook(d, moved) ==
  IF moved THEN "WAIT_TO_VERIFY" ELSE IF d.enter THEN "POWER_DOWN" ELSE d.state

\* A wish to power down is looked at before the pin.
AfterLook(d, moved) ==
  IF d.enter THEN "POWER_DOWN" ELSE IF moved THEN "WAIT_TO_VERIFY" ELSE d.state

LookForMovement ==
  /\ detector.state = "WAIT_FOR_MOVEMENT"
  /\ \E moved \in BOOLEAN : detector' = [detector EXCEPT !.state = AfterLook(detector, moved)]
  /\ UNCHANGED wanted

TimerUp ==
  /\ detector.state \in {"WAIT_TO_VERIFY", "VERIFY", "PAUSE"}
  /\ detector' = [detector EXCEPT !.state = IF @ = "WAIT_TO_VERIFY" THEN "VERIFY"
                                            ELSE "WAIT_FOR_MOVEMENT"]
  /\ UNCHANGED wanted

MovementVerified ==
  /\ detector.state = "VERIFY"
  /\ detector' = [detector EXCEPT !.state = "SIGNALING"]
  /\ UNCHANGED wanted

SendMovement ==
  /\ detector.state = "SIGNALING"
  /\ detector' = [detector EXCEPT !.state = "PAUSE"]
  /\ UNCHANGED wanted

\* Both flags in one run: first down, then up.
ServedDown(d) == IF d.enter THEN [d EXCEPT !.enter = FALSE, !.powered = FALSE] ELSE d

ServedUp(d) ==
  IF d.leave THEN [d EXCEPT !.leave = FALSE, !.powered = TRUE, !.state = "WAIT_FOR_MOVEMENT"]
  ELSE d

ServePower ==
  /\ detector.state = "POWER_DOWN"
  /\ detector' = ServedUp(ServedDown(detector))
  /\ wanted' = [wanted EXCEPT !.unserved = @ /\ ~detector.enter]

MoveTask ==
  \/ SetUpSensor \/ LookForMovement \/ TimerUp
  \/ MovementVerified \/ SendMovement \/ ServePower

MoveNext == PowerDownSignal \/ PowerUpSignal \/ MoveTask

-----------------------------------------------------------------------------
(* Properties *)

\* A signal to power down reaches the sensor, however much moves before it: "An
\* currently on going operation is finished before the power down mode is
\* entered" (movement_detection_controller.h:63-68), and then it is entered. And
\* when the last signal was to power up, the detector ends up awake: neither a
\* power down served late nor a flag left over from an earlier one puts it to
\* sleep for good (movement_detection_controller.c:203-211, 262-278).
PowerSignalsTakeEffect ==
  /\ wanted.unserved ~> ~wanted.unserved
  /\ <>[](wanted.last = "up") => <>[](detector.powered /\ detector.state # "POWER_DOWN")
=============================================================================
