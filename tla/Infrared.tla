------------------------------ MODULE Infrared ------------------------------
(***************************************************************************)
(* The infrared transmitter of src/modules/ir: the queue of commands, the  *)
(* task that takes one after the other, the transmit buffer all protocols  *)
(* share, and the interrupt of the modulation timer that shifts the buffer *)
(* out, one interval at a time, while the main loop goes on.               *)
(*                                                                         *)
(* A word is the sequence of its eight bits, the first one first on air;   *)
(* a level is TRUE while the LED is modulated.                             *)
(***************************************************************************)
EXTENDS Integers, Sequences, SequencesExt

CONSTANTS
  IrQueueSize,    \* IR_PROTOCOL_TASK_MAX_QUEUE_SIZE
  MaxIrCommands   \* bound: commands accepted in a behaviour

ASSUME IrAssumption == IrQueueSize \in 1 .. 255 /\ MaxIrCommands \in Nat

VARIABLES
  irtask,   \* task_state, ir_command, the queue, the registered protocols, the timers
  irsend    \* transmit buffer, transmit_active and the counters of the protocols

irvars == <<irtask, irsend>>

IrProtocol == {"nec", "samsung", "jvc", "sony"}

\* One command of each of the four command files.
LedLightsOn ==
  [type |-> "nec", data_1 |-> <<0,0,0,0,0,0,0,0>>, data_2 |-> <<1,1,1,0,0,0,0,0>>,
   data_3 |-> <<>>]
SamsungTvPower ==
  [type |-> "samsung", data_1 |-> <<1,1,1,0,0,0,0,0>>, data_2 |-> <<0,1,0,0,0,0,0,0>>,
   data_3 |-> <<>>]
JvcRadioVolumeUp ==
  [type |-> "jvc", data_1 |-> <<1,1,1,1,1,0,0,1>>, data_2 |-> <<1,0,0,0,0,0,0,0>>,
   data_3 |-> <<>>]
SonyBdPlayerPower ==
  [type |-> "sony", data_1 |-> <<1,0,1,0,1,0,0,0>>, data_2 |-> <<0,0,0,0,1,0,1,1>>,
   data_3 |-> <<0,1,0,0,0,1,1,1>>]

IrCommand == {LedLightsOn, SamsungTvPower, JvcRadioVolumeUp, SonyBdPlayerPower}
NoIrCommand == [type |-> "none", data_1 |-> <<>>, data_2 |-> <<>>, data_3 |-> <<>>]

-----------------------------------------------------------------------------
(* What each protocol appends to the transmit buffer for a command *)

Pulses(n) == [i \in 1 .. n |-> TRUE]
Pauses(n) == [i \in 1 .. n |-> FALSE]
Inverted(word) == [i \in DOMAIN word |-> 1 - word[i]]

\* Pulse distance: the pause after the pulse tells the bit.
PauseCoded(word) ==
  FlattenSeq([i \in DOMAIN word |-> Pulses(1) \o Pauses(IF word[i] = 1 THEN 3 ELSE 1)])

\* Sony: the length of the pulse tells it.
PulseCoded(word) ==
  FlattenSeq([i \in DOMAIN word |-> Pauses(1) \o Pulses(IF word[i] = 1 THEN 2 ELSE 1)])

NecFrame(c) ==
  Pulses(16) \o Pauses(8)
  \o PauseCoded(c.data_1 \o Inverted(c.data_1) \o c.data_2 \o Inverted(c.data_2))
  \o Pulses(1) \o Pauses(1)

SamsungFrame(c) ==
  Pulses(8) \o Pauses(8)
  \o PauseCoded(c.data_1 \o c.data_1 \o c.data_2 \o Inverted(c.data_2))
  \o Pulses(1)

JvcFrame(c) ==
  Pulses(16) \o Pauses(8) \o PauseCoded(c.data_1 \o c.data_2) \o Pulses(1)

\* The masks select the upper 7 bits of the command and the lower 5 of the device.
SonyFrame(c) ==
  Pulses(4)
  \o PulseCoded(SubSeq(c.data_1, 1, 7) \o SubSeq(c.data_2, 4, 8) \o c.data_3)

Frame ==
  [c \in IrCommand |->
     CASE c.type = "nec" -> NecFrame(c)
       [] c.type = "samsung" -> SamsungFrame(c)
       [] c.type = "jvc" -> JvcFrame(c)
       [] c.type = "sony" -> SonyFrame(c)]

\* How often a frame is repeated, at which interval of it, and after how many
\* intervals: jvc counts them from the start of a frame, sony from its end.
Repeats == [nec |-> 0, samsung |-> 0, jvc |-> 3, sony |-> 2]
RestartAt == [nec |-> 0, samsung |-> 0, jvc |-> 24, sony |-> 0]
FirstCycle == [nec |-> 0, samsung |-> 0, jvc |-> 88 + 16 + 8, sony |-> 75]
NextCycle == [nec |-> 0, samsung |-> 0, jvc |-> 81, sony |-> 75]
\* word_cycle_interval_counter is a u8, frame_space_counter a u16.
Width == [nec |-> 1, samsung |-> 1, jvc |-> 256, sony |-> 65536]

CountedDown(s, p) == [s EXCEPT !.cycle = (@ + Width[p] - 1) % Width[p]]

-----------------------------------------------------------------------------
(* The main loop's half *)

IrInit ==
  /\ \E installed \in {IrProtocol, IrProtocol \ {"nec"}} :
       irtask = [ state |-> "IDLE", command |-> NoIrCommand, queue |-> <<>>,
                  installed |-> installed, timers |-> FALSE,
                  asked |-> 0, gone |-> 0 ]
  /\ irsend = [ active |-> [p \in IrProtocol |-> FALSE], requested |-> FALSE,
                buffer |-> <<>>, read |-> 0, words |-> 0, cycle |-> 0,
                out |-> FALSE, ticks |-> 0 ]

\* rpi_cmd_handler_ir_remote and the handler of the manufacturer build the
\* command and send the signal; its slot drops the command when the queue is
\* full, which the sender is not told.
CommandReceived(c) ==
  /\ irtask.asked < MaxIrCommands
  /\ IF Len(irtask.queue) = IrQueueSize
     THEN UNCHANGED irtask
     ELSE irtask' = [irtask EXCEPT !.queue = Append(@, c), !.asked = @ + 1]
  /\ UNCHANGED irsend

\* A command nobody can send stays at the head of the queue.
WrongLoadProtocol ==
  /\ irtask.state = "IDLE" /\ irtask.queue # <<>>
  /\ LET c == Head(irtask.queue) IN
       /\ c.type \in irtask.installed
       /\ irtask' = [irtask EXCEPT !.queue = Tail(@), !.command = c, !.state = "START"]
  /\ UNCHANGED irsend

\* IDLE falls through to LOAD_PROTOCOL; a type nobody registered is dropped.
LoadProtocol ==
  /\ irtask.state = "IDLE" /\ irtask.queue # <<>>
  /\ LET c == Head(irtask.queue) IN
       irtask' = [irtask EXCEPT
         !.queue = Tail(@), !.command = c,
         !.state = IF c.type \in irtask.installed THEN "START" ELSE "IDLE",
         !.gone = IF c.type \in irtask.installed THEN @ ELSE @ + 1]
  /\ UNCHANGED irsend

\* transmit_prepare: nothing at all while the protocol still transmits, and
\* the buffer is not filled while another one holds it.
Prepared(s, c) ==
  LET filled == IF s.requested THEN s
                ELSE [s EXCEPT !.requested = TRUE, !.buffer = Frame[c], !.read = 0]
  IN IF s.active[c.type] THEN s
     ELSE [filled EXCEPT !.words = 0, !.cycle = FirstCycle[c.type]]

\* transmit_prepare, both timers, transmit_start.
TransmitStart ==
  /\ irtask.state = "START"
  /\ irtask' = [irtask EXCEPT !.state = "TRANSMIT", !.timers = TRUE]
  /\ irsend' = [Prepared(irsend, irtask.command) EXCEPT
                  !.active[irtask.command.type] = TRUE, !.out = FALSE, !.ticks = 0]

\* TRANSMIT falls through to FINISH once the interrupt has cleared the flag.
TransmitFinished ==
  /\ irtask.state = "TRANSMIT" /\ ~irsend.active[irtask.command.type]
  /\ irtask' = [irtask EXCEPT !.state = "IDLE", !.timers = FALSE, !.gone = @ + 1]
  /\ irsend' = [irsend EXCEPT !.out = FALSE]

IrTask == LoadProtocol \/ TransmitStart \/ TransmitFinished

-----------------------------------------------------------------------------
(* The interrupt's half: transmit_irq of the protocol *)

NextInterval(s, p) ==
  [(IF p = "jvc" THEN CountedDown(s, p) ELSE s) EXCEPT
     !.out = s.buffer[s.read + 1], !.read = @ + 1]

WrongRestarted(s, p) ==
  [s EXCEPT !.read = 0, !.words = @ + 1, !.cycle = NextCycle[p]]

Restarted(s, p) ==
  [s EXCEPT !.read = RestartAt[p], !.words = @ + 1, !.cycle = NextCycle[p]]

BetweenFrames(s, p) ==
  LET counted == [CountedDown(s, p) EXCEPT !.out = FALSE]
  IN IF counted.cycle = 0 THEN Restarted(counted, p) ELSE counted

TransmitIrq(s, p) ==
  IF s.read < Len(s.buffer) THEN NextInterval(s, p)
  ELSE IF s.words < Repeats[p] THEN BetweenFrames(s, p)
  ELSE IF s.active[p]
       THEN [s EXCEPT !.active[p] = FALSE, !.requested = FALSE, !.out = FALSE]
       ELSE s

\* The modulation timer; ticks counts the interrupts since it was started, up
\* to the one that ends the command.
ModulationInterrupt ==
  /\ irtask.timers
  /\ LET p == irtask.command.type IN
       irsend' = [TransmitIrq(irsend, p) EXCEPT
                    !.ticks = IF irsend.active[p] THEN @ + 1 ELSE @]
  /\ UNCHANGED irtask

IrNext ==
  (\E c \in IrCommand : CommandReceived(c)) \/ IrTask \/ ModulationInterrupt

IrSpec == IrInit /\ [][IrNext]_irvars

-----------------------------------------------------------------------------
(* Properties *)

Padded(f, n) == f \o Pauses(n - Len(f))

\* What the protocols ask for on air: a jvc word starts 112 intervals after
\* the first one and then every 81, without the preamble; a sony frame is sent
\* three times with 75 intervals in between.
Waveform ==
  [c \in IrCommand |->
     LET f == Frame[c]
         word == SubSeq(f, 25, Len(f))
     IN CASE c.type = "jvc" -> Padded(f, 112) \o Padded(word, 81) \o Padded(word, 81) \o word
          [] c.type = "sony" -> f \o Pauses(75) \o f \o Pauses(75) \o f
          [] OTHER -> f]

\* On air is the command that was asked for: at each interrupt the level is
\* the one the waveform of the command has there, for as long as the command
\* is sent, and silence before and after (ir_protocol_task.c, transmit_irq of
\* the four protocols, the counters of jvc and sony).
WaveformIsTheCommands ==
  LET wave == Waveform[irtask.command]
      n == irsend.ticks
  IN IF irtask.state # "TRANSMIT" THEN ~irsend.out
     ELSE IF irsend.active[irtask.command.type]
     THEN n <= Len(wave) /\ irsend.out = (n > 0 /\ wave[n])
     ELSE n = Len(wave) + 1 /\ ~irsend.out

\* Every command the queue accepted is sent in the end (or dropped, if the
\* build has no such protocol): the flag and the buffer the interrupt gives
\* back let the task go on (ir_protocol_task.c:465-500).
CommandsGoOut ==
  \A n \in 1 .. MaxIrCommands : (irtask.asked >= n) ~> (irtask.gone >= n)
=============================================================================
