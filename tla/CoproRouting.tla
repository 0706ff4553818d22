---------------------------- MODULE CoproRouting ----------------------------
(***************************************************************************)
(* app_tasks/copro_routing_mcu_task.c over copro/copro.c: a command for a  *)
(* co-processor is written to it over the two-wire bus, and the            *)
(* co-processor is polled until it has an answer.  The task works on the   *)
(* PROTOCOL_INTERFACE of the client and keeps no copy of its buffers.      *)
(*                                                                         *)
(* Outside of src/ are the co-processor and, for this module, the bus and  *)
(* the 5 V unit, which stays on once it is: copro1_POWER_OFF_CALLBACK      *)
(* gives nothing back.  What is not over the bus when the task gives up    *)
(* never is.                                                               *)
(***************************************************************************)
EXTENDS RpiClient

CONSTANTS
  PowerTime,       \* bound: ticks until the 5 V unit is up
  TransmitTime,    \* COPRO_ROUTING_TASK_TRANSMIT_TIMEOUT_MS, in ticks
  ProcessTime,     \* COPRO_ROUTING_TASK_PROCESS_TIMEOUT_MS, in ticks
  CoproPollTime    \* COPRO_ROUTING_TASK_POLLING_INTERVAL_MS, in ticks

ASSUME CoproAssumption ==
  /\ PowerTime \in Nat /\ TransmitTime \in Nat \ {0}
  /\ CoproPollTime \in Nat \ {0} /\ ProcessTime \in Nat
  /\ CoproPollTime < ProcessTime

VARIABLES
  routing,
  power,           \* the 5 V unit
  copro,           \* the command the co-processor has an answer for
  fault            \* what the co-processor is prone to

\* Bound of the model: the timers tell no longer times apart.
RoutingMaxAge ==
  CHOOSE n \in {PowerTime, TransmitTime, ProcessTime} :
    \A m \in {PowerTime, TransmitTime, ProcessTime} : m <= n

RoutingType ==
  [ state : {"idle", "power_on", "transmit", "process", "response", "timeout",
             "finish"},
    queued : BOOLEAN,                \* p_copro1_protocol is set
    flying : BOOLEAN,                \* the driver is not ready for tx yet
    age : 0 .. RoutingMaxAge,        \* COPRO_OP_TIMER_elapsed()
    poll : 0 .. CoproPollTime,       \* COPRO_WAIT_TIMER_elapsed()
    data : Owner ]                   \* what goes over the bus

RoutingInit ==
  [ state |-> "idle", queued |-> FALSE, flying |-> FALSE, age |-> 0,
    poll |-> 0, data |-> "none" ]

RoutingAged(r) == [r EXCEPT !.data = Age(@)]

RoutingTick(r) ==
  [r EXCEPT !.age = IF @ < RoutingMaxAge THEN @ + 1 ELSE @,
            !.poll = IF @ < CoproPollTime THEN @ + 1 ELSE @]

\* rpi_cmd_handler_routing, run by the command controller; the slot
\* copro1_slot_CMD_RECEIVED drops a command while another one waits.
HandsOver ==
  /\ client.requested /\ client.kind = "routed"
  /\ client' = [client EXCEPT !.requested = FALSE]
  /\ routing' = [routing EXCEPT !.queued = TRUE]
  /\ UNCHANGED power

-----------------------------------------------------------------------------
\* copro_routing_task_get_state and copro_routing_task_run

Starts == routing.state = "idle" /\ routing.queued

\* copro_power_on requests the unit; there is no timeout for it.
RoutingPowers ==
  /\ Starts /\ power # "on"
  /\ routing' = [routing EXCEPT !.state = "power_on", !.queued = FALSE, !.age = 0]
  /\ power' = "rising"
  /\ UNCHANGED client

\* COPRO_ROUTING_TASK_STATE_PREPARE is passed through: its timer has just
\* been started, and mutex_req only refuses a mutex that the task has.
RoutingSends ==
  /\ Starts \/ routing.state = "power_on"
  /\ power = "on"
  /\ routing' = [routing EXCEPT !.state = "transmit", !.age = 0, !.flying = TRUE,
                   !.queued = @ /\ routing.state # "idle", !.data = client.buffer]
  /\ client' = [client EXCEPT !.buffer = "none"]
  /\ UNCHANGED power

WrongRoutingLate ==                \* variant: no timeout in PROCESS
  routing.state = "transmit" /\ routing.age >= TransmitTime

\* COPRO_OP_TIMER is looked at first in TRANSMIT and PROCESS.
RoutingLate ==
  \/ routing.state = "transmit" /\ routing.age >= TransmitTime
  \/ routing.state = "process" /\ routing.age >= ProcessTime

RoutingTimesOut ==
  /\ RoutingLate
  /\ routing' = [routing EXCEPT !.state = "timeout", !.flying = FALSE,
                                !.data = "none"]
  /\ UNCHANGED <<client, power>>

RoutingProceeds ==
  /\ routing.state = "transmit" /\ ~RoutingLate /\ ~routing.flying
  /\ routing' = [routing EXCEPT !.state = "process", !.age = 0, !.poll = 0,
                                !.data = "none"]
  /\ UNCHANGED <<client, power>>

Polls ==
  routing.state = "process" /\ ~RoutingLate /\ routing.poll >= CoproPollTime

\* The co-processor is not ready: it gives no length, or 0.
RoutingPollsInVain ==
  /\ Polls
  /\ routing' = [routing EXCEPT !.poll = 0]
  /\ UNCHANGED <<client, power>>

\* It gives a length; the data may come too late for the second read.
RoutingPollsAnswer(late) ==
  /\ Polls
  /\ routing' = [routing EXCEPT !.state = "response", !.poll = 0,
                                !.data = IF late THEN "none" ELSE copro]
  /\ UNCHANGED <<client, power>>

\* The number of bytes that go into the answer is t_data_buffer[0], which
\* this run of the task has not written: it may be any.  What exceeds the
\* data read, a unit here, is what was left on the stack.
RoutingResponds(left) ==
  /\ routing.state = "response" /\ routing.data # "none"
  /\ routing' = [routing EXCEPT !.state = "finish", !.data = "none"]
  /\ \E n \in 0 .. AnswerSize :
       client' = Finished(Filled(client, [i \in 1 .. n |-> IF i = 1 THEN routing.data
                                                                   ELSE left]),
                          TRUE)
  /\ UNCHANGED power

RoutingFindsNothing ==
  /\ routing.state = "response" /\ routing.data = "none"
  /\ routing' = [routing EXCEPT !.state = "timeout", !.poll = 0]
  /\ UNCHANGED <<client, power>>

RoutingFails ==
  /\ routing.state = "timeout"
  /\ routing' = [routing EXCEPT !.state = "finish"]
  /\ client' = Finished(client, FALSE)
  /\ UNCHANGED power

RoutingFinishes ==
  /\ routing.state = "finish"
  /\ routing' = [routing EXCEPT !.state = "idle"]
  /\ UNCHANGED <<client, power>>

\* The next run of the task changes something.
RoutingDue ==
  \/ Starts
  \/ routing.state = "power_on" /\ power = "on"
  \/ routing.state = "transmit" /\ ~routing.flying
  \/ RoutingLate \/ Polls
  \/ routing.state \in {"response", "timeout", "finish"}

-----------------------------------------------------------------------------
\* The bus and the co-processor

\* The command is written; a co-processor that gets a new command forgets
\* its last answer.
CoproHears ==
  /\ routing.flying
  /\ routing' = [routing EXCEPT !.flying = FALSE]
  /\ copro' = IF routing.data = "none" THEN copro ELSE routing.data

\* The co-processor restarts or is busy and does not acknowledge, which
\* is_ready_for_tx does not tell.  Its last answer is lost or still there.
CoproMisses ==
  /\ routing.flying /\ fault = "deaf"
  /\ routing' = [routing EXCEPT !.flying = FALSE]
  /\ copro' \in {copro, "none"}

=============================================================================
