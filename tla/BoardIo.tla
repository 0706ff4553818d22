------------------------------ MODULE BoardIo -------------------------------
(***************************************************************************)
(* The older pin services of the framework: outputs that are switched on   *)
(* for a time, buttons that are scanned, and the task that shows on a pin  *)
(* of its own that something happened (src/io_management, src/app_tasks/   *)
(* local_event_task.c). A button that moves adds an event to the list of   *)
(* the event task, a list that is searched for a free place.               *)
(*                                                                         *)
(* Time is whether a time is over: "aged" of an output and of an event,    *)
(* and the timer of the event task; it gets over sooner or later. The      *)
(* toggle period of an output is stored and never used.                    *)
(***************************************************************************)
EXTENDS Naturals, FiniteSets

CONSTANTS
  Output,          \* registered outputs
  Button,          \* registered inputs
  EventPlaces,     \* EVENT_QEUE_MAX_SIZE
  MaxPinMoves      \* bound: settings of outputs and moves of buttons

ASSUME IoAssumption == EventPlaces \in 1 .. 255 /\ MaxPinMoves \in Nat

VARIABLES
  outputs,   \* the list of outputs and output_is_active
  buttons,   \* the fingers and the list of inputs
  events,    \* _event_qeue, _event_counter, the state, the timer and the pin
  pinmoves   \* history: the last setting of each output; moves so far

iovars == <<outputs, buttons, events, pinmoves>>

Place == 1 .. EventPlaces

\* actual_pin_state is 0xFF until the first run.
IoInit ==
  /\ outputs = [ active |-> TRUE,
                 pin |-> [o \in Output |-> [actual |-> "unset", next |-> "off",
                                            timed |-> FALSE, aged |-> FALSE]] ]
  /\ buttons = [held |-> {}, down |-> {}, released |-> {}]
  /\ events = [ place |-> [i \in Place |-> "none"], count |-> 0, state |-> "sleep",
                due |-> FALSE, high |-> FALSE ]
  /\ pinmoves = [last |-> [o \in Output |-> [next |-> "off", timed |-> FALSE]], count |-> 0]

-----------------------------------------------------------------------------
(* io_output_controller.c *)

\* A new duration counts from the moment the output went on, so it may be over.
SetOutput(o, next, timed) ==
  /\ pinmoves.count < MaxPinMoves
  /\ \E aged \in IF outputs.pin[o].actual = "on" THEN BOOLEAN ELSE {FALSE} :
       outputs' = [active |-> TRUE,
                   pin |-> [outputs.pin EXCEPT ![o] =
                     [actual |-> @.actual, next |-> next, timed |-> timed, aged |-> aged]]]
  /\ pinmoves' = [last |-> [pinmoves.last EXCEPT ![o] = [next |-> next, timed |-> timed]],
                  count |-> pinmoves.count + 1]
  /\ UNCHANGED <<buttons, events>>

OverDue(p) == p.actual = "on" /\ p.timed /\ p.aged

Switched(p) ==
  LET next == IF OverDue(p) THEN "off" ELSE p.next
  IN IF p.actual = next THEN [p EXCEPT !.next = next]
     ELSE [actual |-> next, next |-> next, timed |-> p.timed /\ next = "on", aged |-> FALSE]

WrongStillTimed(p) == Switched(p).timed /\ p.actual # Switched(p).actual

\* What makes the controller come back: a time that runs.
StillTimed(p) ==
  \/ p.actual = "on" /\ p.timed /\ ~p.aged
  \/ Switched(p).timed /\ p.actual # Switched(p).actual

OutputRun ==
  /\ outputs.active
  /\ outputs' = [active |-> \E o \in Output : StillTimed(outputs.pin[o]),
                 pin |-> [o \in Output |-> Switched(outputs.pin[o])]]
  /\ UNCHANGED <<buttons, events, pinmoves>>

OutputTimeOver ==
  /\ \E o \in Output :
       /\ outputs.pin[o].actual = "on" /\ outputs.pin[o].timed /\ ~outputs.pin[o].aged
       /\ outputs' = [outputs EXCEPT !.pin[o].aged = TRUE]
  /\ UNCHANGED <<buttons, events, pinmoves>>

-----------------------------------------------------------------------------
(* io_input_controller.c *)

MoveButton(b) ==
  /\ pinmoves.count < MaxPinMoves
  /\ buttons' = [buttons EXCEPT !.held = IF b \in @ THEN @ \ {b} ELSE @ \cup {b}]
  /\ pinmoves' = [pinmoves EXCEPT !.count = @ + 1]
  /\ UNCHANGED <<outputs, events>>

\* local_event_add: without a free place the event is dropped.
EventAdded(e) ==
  IF \E i \in Place : e.place[i] = "none"
  THEN LET i == CHOOSE k \in Place :
                  e.place[k] = "none" /\ \A j \in 1 .. k - 1 : e.place[j] # "none"
       IN [e EXCEPT !.place[i] = "new", !.count = @ + 1]
  ELSE e

\* io_input_controller_check_state: a press forgets the last release.
ButtonTells(b) ==
  IF b \in buttons.held THEN b \notin buttons.down
  ELSE b \in buttons.down /\ b \notin buttons.released

InputRun ==
  LET telling == {b \in Button : ButtonTells(b)}
      added[n \in Nat] == IF n = 0 THEN events ELSE EventAdded(added[n - 1])
  IN /\ telling # {}
     /\ buttons' = [held |-> buttons.held, down |-> buttons.held,
                    released |-> (buttons.released \cup telling) \ buttons.held]
     /\ events' = added[Cardinality(telling)]
     /\ UNCHANGED <<outputs, pinmoves>>

\* The release was read (get_state) or is older than IO_BUTTON_RELEASED_TIMESPAN_MS.
ReleaseForgotten(b) ==
  /\ b \in buttons.released
  /\ buttons' = [buttons EXCEPT !.released = @ \ {b}]
  /\ UNCHANGED <<outputs, events, pinmoves>>

-----------------------------------------------------------------------------
(* local_event_task.c *)

EventAges ==
  /\ \E i \in Place : events.place[i] = "new" /\ events' = [events EXCEPT !.place[i] = "old"]
  /\ UNCHANGED <<outputs, buttons, pinmoves>>

EventTimeOver ==
  /\ events.state # "sleep" /\ ~events.due
  /\ events' = [events EXCEPT !.due = TRUE]
  /\ UNCHANGED <<outputs, buttons, pinmoves>>

\* Variant: one event less, however many places were freed.
WrongReset(e) ==
  LET old == {i \in Place : e.place[i] = "old"}
  IN [e EXCEPT !.place = [i \in Place |-> IF i \in old THEN "none" ELSE @[i]],
               !.count = IF old = {} THEN @ ELSE @ - 1]

\* EVENT_STATE_RESET_QEUE
Reset(e) ==
  LET old == {i \in Place : e.place[i] = "old"}
  IN [e EXCEPT !.place = [i \in Place |-> IF i \in old THEN "none" ELSE @[i]],
               !.count = @ - Cardinality(old)]

\* SLEEP and ACTIVATE fall through to RESET_QEUE and to the timeout, which
\* was started a moment ago.
Activated(e) == [Reset(e) EXCEPT !.high = TRUE, !.due = FALSE, !.state = "reset"]

TimedOut(e) == IF e.count # 0 THEN [e EXCEPT !.state = "activate"]
               ELSE [e EXCEPT !.state = "sleep", !.high = FALSE]

EventRun ==
  /\ events.state # "sleep" \/ events.count # 0
  /\ events' = IF events.state # "reset" THEN Activated(events)
               ELSE IF events.due THEN TimedOut(Reset(events)) ELSE Reset(events)
  /\ UNCHANGED <<outputs, buttons, pinmoves>>

-----------------------------------------------------------------------------

IoEnvironment ==
  \/ \E o \in Output, next \in {"on", "off"}, timed \in BOOLEAN : SetOutput(o, next, timed)
  \/ \E b \in Button : MoveButton(b) \/ ReleaseForgotten(b)

IoNext ==
  \/ IoEnvironment
  \/ OutputRun \/ OutputTimeOver
  \/ InputRun
  \/ EventRun \/ EventAges \/ EventTimeOver

-----------------------------------------------------------------------------
(* Properties *)

\* Each output ends up as it was last set: on, off, or off again once its time
\* is over, although one flag decides for all outputs whether the controller
\* is run at all (io_output_controller.c:134-232).
OutputsSettle ==
  <>[](\A o \in Output :
         outputs.pin[o].actual = "on"
           <=> pinmoves.last[o].next = "on" /\ ~pinmoves.last[o].timed)

\* What happened is shown: while events are listed the pin gets high, and it is
\* low in the end, with the list empty and its counter right
\* (local_event_task.c:85-160, 190-207).
EventsAreShown ==
  /\ events.count > 0 ~> events.high
  /\ <>[](~events.high /\ events.count = 0 /\ \A i \in Place : events.place[i] = "none")
=============================================================================
