------------------------------ MODULE RpiHost -------------------------------
(***************************************************************************)
(* protocol_management/rpi_protocol_handler_host.c: the task on the        *)
(* Raspberry Pi that sends a command to the micro controller and polls for *)
(* its response.  Each action is one way through the switch of             *)
(* rpi_protocol_task_execute and says what becomes of the host only; the   *)
(* signals it sends are wired by the module that extends this one.         *)
(***************************************************************************)
EXTENDS Naturals, Sequences, Ownership

CONSTANTS
  RequestTime,     \* RPI_PROTOCOL_HOST_CLIENT_REQUEST_TIME_MS, in ticks
  PollTime,        \* RPI_PROTOCOL_CLIENT_POLL_INTERVAL_MS, in ticks
  WaitTime,        \* RPI_PROTOCOL_HOST_CLIENT_WAIT_TIMEOUT_MS, in ticks
  BufferSize       \* commands that fit into RPI_HOST_COMMAND_BUFFER

ASSUME HostAssumption ==
  /\ RequestTime \in Nat \ {0}
  /\ PollTime \in Nat \ {0}
  /\ WaitTime \in Nat /\ PollTime < WaitTime
  /\ BufferSize \in Nat \ {0}

VARIABLE host

\* Bound of the model: RPI_OP_TIMER tells no longer times apart.
HostMaxAge == IF WaitTime > RequestTime THEN WaitTime ELSE RequestTime

HostType ==
  [ state : {"wait_cfg", "sleep", "wait_command", "wait_response", "finish"},
    configured : BOOLEAN,    \* RPI_HOST_STATUS_USER_CONFIG_COMPLETE
    pending : BOOLEAN,       \* RPI_HOST_STATUS_COMMAND_PENDING
    buffer : UNION {[1 .. n -> Owner] : n \in 0 .. BufferSize},
    sent : Owner,            \* what the client was sent last
    request : BOOLEAN,       \* REQUEST_CLIENT is driven low
    age : 0 .. HostMaxAge ]  \* RPI_OP_TIMER_elapsed()

HostInit ==
  [ state |-> "wait_cfg", configured |-> FALSE, pending |-> FALSE,
    buffer |-> <<>>, sent |-> "none", request |-> FALSE, age |-> 0 ]

\* A new command makes all others earlier ones.
HostAged(h) ==
  [h EXCEPT !.sent = Age(@), !.buffer = [i \in DOMAIN @ |-> Age(@[i])]]

\* COMMAND_RECEIVED_SLOT: what does not fit into the buffer is dropped.
HostCommand(h) ==
  [h EXCEPT !.pending = TRUE,
            !.buffer = IF Len(@) < BufferSize THEN Append(@, "this") ELSE @]

\* rpi_protocol_task_get_state; the host that waits for its configuration
\* is run each time its timer is up.
HostAwake == host.state # "sleep" \/ host.pending

HostTick(h) == [h EXCEPT !.age = IF @ < HostMaxAge THEN @ + 1 ELSE @]

HostConfigures ==
  /\ host.state = "wait_cfg" /\ host.configured
  /\ host' = [host EXCEPT !.state = "sleep"]

\* STATE_SLEEP, falling through to STATE_REQUEST_CLIENT
HostWakes ==
  /\ host.state = "sleep" /\ host.pending
  /\ host' = [host EXCEPT !.state = "wait_command", !.pending = FALSE,
                          !.request = TRUE, !.age = 0]

\* STATE_SEND_COMMAND: all bytes of the buffer go out together.
HostSends ==
  /\ host.state = "wait_command" /\ host.age >= RequestTime
  /\ host' = [host EXCEPT !.state = "wait_response", !.buffer = <<>>, !.age = 0,
                !.sent = IF host.buffer = <<"this">> THEN "this" ELSE "earlier"]

HostTimesOut ==
  /\ host.state = "wait_response" /\ host.age >= WaitTime
  /\ host' = [host EXCEPT !.state = "finish"]

\* rpi_host_receive_response found a response; falls through to STATE_FINISH.
HostReceives ==
  /\ host.state = "wait_response"
  /\ host.age < WaitTime /\ host.age >= PollTime
  /\ host' = [host EXCEPT !.state = "sleep", !.request = FALSE, !.age = 0]

HostFinishes ==
  /\ host.state = "finish"
  /\ host' = [host EXCEPT !.state = "sleep", !.request = FALSE]

\* The runs that find nothing to do yet.  The client may be silent at a poll.
HostWaits ==
  /\ \/ host.state = "wait_cfg" /\ ~host.configured
     \/ host.state = "wait_command" /\ host.age < RequestTime
     \/ host.state = "wait_response" /\ host.age < WaitTime
  /\ UNCHANGED host

=============================================================================
