----------------------------- MODULE RpiClient ------------------------------
(***************************************************************************)
(* The micro controller's end of the link: the task of                     *)
(* protocol_management/rpi_protocol_handler_client.c, its slave            *)
(* driver/communication/spi/spi0_driver_atmega1284p.c and the command      *)
(* controller, which calls the handler of a command.  All three work on    *)
(* one PROTOCOL_INTERFACE: the command that was received last.             *)
(*                                                                         *)
(* A frame is a sequence of marks, one for its head (length, code and      *)
(* status) and one for each unit of data.  The slave answers by interrupt  *)
(* also while the main loop is held up, and its interrupt does not return  *)
(* before the master raises chip-select: a frame goes over in one step.    *)
(***************************************************************************)
EXTENDS Integers, Sequences, Ownership

CONSTANTS
  SleepTime,       \* RPI_PROTOCOL_HANDLER_CMD_PROCESSING_TIMEOUT_MS, in ticks
  AnswerSize,      \* units that fit into RPI_ANSWER_BUFFER
  HandlerSize      \* bound: units of data a handler answers with

ASSUME ClientAssumption ==
  /\ SleepTime \in Nat
  /\ AnswerSize \in Nat /\ HandlerSize \in 0 .. AnswerSize

VARIABLES client, spi

\* What becomes of a command: a handler of this controller takes it, nobody
\* does (no handler, bad arguments, no co-processor of that address), or it
\* is for a co-processor.
Kind == {"local", "refused", "routed"}

Marks == UNION {[1 .. n -> Owner] : n \in 0 .. AnswerSize}
Frame == UNION {[1 .. n -> Owner] : n \in 0 .. AnswerSize + 1}

ClientType ==
  [ state : {"idle", "transmission", "enter_sleep"},
    age : 0 .. SleepTime,    \* RPI_OP_TIMER_elapsed()
    pending : BOOLEAN,       \* RPI_STATUS_COMMAND_PENDING
    response : BOOLEAN,      \* RPI_STATUS_RESPONSE_PENDING
    own : Owner, kind : Kind, ok : BOOLEAN,  \* rpi_protocol_spi_interface
    buffer : Owner,          \* RPI_COMMAND_BUFFER: whose arguments it holds
    answer : Marks,          \* RPI_ANSWER_BUFFER
    requested : BOOLEAN ]    \* p_act_protocol of the command handler is set

SpiType ==
  [ on : BOOLEAN,            \* configured and receiving
    rx : UNION {[1 .. n -> [own : Owner, kind : Kind]] : n \in 0 .. 1},
    tx : Frame, ok : BOOLEAN ]   \* SPI0_TX_BUFFER; the status it carries

\* rpi_protocol_init
ClientInit ==
  [ state |-> "idle", age |-> 0, pending |-> FALSE, response |-> FALSE,
    own |-> "none", kind |-> "local", ok |-> TRUE, buffer |-> "none",
    answer |-> <<>>, requested |-> FALSE ]
SpiInit == [on |-> FALSE, rx |-> <<>>, tx |-> <<>>, ok |-> TRUE]

AllAged(marks) == [i \in DOMAIN marks |-> Age(marks[i])]
ClientAged(c) ==
  [c EXCEPT !.own = Age(@), !.buffer = Age(@), !.answer = AllAged(@)]
FrameAged(frame) == [frame EXCEPT !.own = Age(@)]
SpiAged(s) ==
  [s EXCEPT !.rx = [i \in DOMAIN @ |-> FrameAged(@[i])], !.tx = AllAged(@)]

ClientTick(c) == [c EXCEPT !.age = IF @ < SleepTime THEN @ + 1 ELSE @]

\* add_N_bytes: what does not fit is dropped.
Filled(c, data) ==
  LET room == AnswerSize - Len(c.answer)
  IN [c EXCEPT !.answer = @ \o SubSeq(data, 1, IF Len(data) < room THEN Len(data)
                                                              ELSE room)]

WrongFinished(c, ok) == [c EXCEPT !.response = TRUE, !.ok = ok]  \* pending stays

\* _set_finished_spi
Finished(c, ok) ==
  IF c.pending
  THEN [c EXCEPT !.pending = FALSE, !.response = TRUE, !.ok = ok]
  ELSE c

-----------------------------------------------------------------------------
\* The slave, as the master's transfers find it.

\* A command goes out; meanwhile the slave shifts out of its own frame what
\* the length of the command asks for.  Without a clock nothing is received.
SpiHears(frame) ==
  IF spi.on
  THEN \E n \in 1 .. Len(spi.tx) + 1 :
         spi' = [spi EXCEPT !.rx = <<frame>>, !.tx = SubSeq(@, n, Len(@))]
  ELSE UNCHANGED spi

\* spi0_driver_configure, clear_rx_buffer and start_rx
SpiSetUp == [spi EXCEPT !.on = TRUE, !.rx = <<>>]

\* stop_rx, stop_tx and shut_down: what is left to send is never sent.
SpiShutDown == [spi EXCEPT !.on = FALSE, !.tx = <<>>]

\* The master polls and takes the frame with the length it read first.
SpiEmptied == [spi EXCEPT !.tx = <<>>]

-----------------------------------------------------------------------------
\* rpi_protocol_task_run; low is the level of READY_INOUT.

\* rpi_protocol_transmit_answer: the data of a buffer that is full stays in
\* it, since the loop ends at once when bytes_free() is 0.
AnswerFrame(c) ==
  <<c.own>> \o (IF Len(c.answer) < AnswerSize THEN c.answer ELSE <<>>)
AnswerSent(c) ==
  [c EXCEPT !.response = FALSE,
            !.answer = IF Len(@) < AnswerSize THEN <<>> ELSE @]

\* rpi_protocol_receive_command
Received(c, frame) ==
  [c EXCEPT !.pending = TRUE, !.own = frame.own, !.kind = frame.kind,
            !.buffer = frame.own]

\* RPI_PROTOCOL_COMMAND_RECEIVED_SIGNAL, heard by the command handler
Announced(c) == [c EXCEPT !.requested = TRUE]

\* The line is low: the slave is set up if it slept, a response is handed to
\* it, and a command it has received is announced.  What else it has
\* received is dropped.
ClientServes(low) ==
  /\ low /\ client.state \in {"idle", "transmission"}
  /\ LET s == IF client.state = "idle" THEN SpiSetUp ELSE spi
         c == [client EXCEPT !.state = "transmission"]
         answered == IF c.response THEN AnswerSent(c) ELSE c
     IN /\ client' = IF s.rx = <<>> THEN answered
                     ELSE Announced(Received(answered, s.rx[1]))
        /\ spi' = IF c.response
                  THEN [s EXCEPT !.rx = <<>>, !.tx = AnswerFrame(c), !.ok = c.ok]
                  ELSE [s EXCEPT !.rx = <<>>]

WrongClientReleased(low) ==        \* variant: the timer is not started
  /\ ~low /\ client.state = "transmission"
  /\ client' = [client EXCEPT !.state = "idle"]
  /\ UNCHANGED spi

ClientReleased(low) ==
  /\ ~low /\ client.state = "transmission"
  /\ client' = [client EXCEPT !.state = "enter_sleep", !.age = 0]
  /\ UNCHANGED spi

ClientCalledAgain(low) ==
  /\ low /\ client.state = "enter_sleep"
  /\ client' = [client EXCEPT !.state = "transmission"]
  /\ UNCHANGED spi

ClientSleeps(low) ==
  /\ ~low /\ client.state = "enter_sleep" /\ client.age >= SleepTime
  /\ client' = [client EXCEPT !.state = "idle"]
  /\ spi' = SpiShutDown

\* The next run of the task changes something.
ClientDue(low) ==
  \/ low /\ client.state \in {"idle", "enter_sleep"}
  \/ low /\ (client.response \/ spi.rx # <<>>)
  \/ ~low /\ client.state = "transmission"
  \/ ~low /\ client.state = "enter_sleep" /\ client.age >= SleepTime

-----------------------------------------------------------------------------
\* command_controller_task_run with the handler it finds

WrongHandles(n) ==                 \* variant: unset_request is forgotten
  /\ client.requested /\ client.kind = "local"
  /\ client' = Finished(Filled(client, [i \in 1 .. n |-> client.own]), TRUE)

\* The handlers for inputs, outputs, sensors, the version and infrared
\* answer at once.
Handles(n) ==
  /\ client.requested /\ client.kind = "local"
  /\ client' = Finished(Filled([client EXCEPT !.requested = FALSE],
                               [i \in 1 .. n |-> client.own]), TRUE)

HandlerRefuses ==
  /\ client.requested /\ client.kind = "refused"
  /\ client' = Finished([client EXCEPT !.requested = FALSE], FALSE)

=============================================================================
