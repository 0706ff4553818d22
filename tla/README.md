# Verification of the rpi_control_frmwrk kernel and its components

TLA+ modules of the C framework under `src/`: a cooperative task kernel for AVR
controllers and the Raspberry Pi with signals and slots, drivers, and the
protocols that connect the two sides. TLC checks the modules on small
instances, TLAPS proves theorems about some of them for every instance.

    tlc -config MCPower.cfg PowerManagement.tla     # a run of the table below
    tlapm Qeue_proofs.tla                           # proofs

Paths below are relative to `src/src/`.

## 1. The system

One main loop (`main_rpi_host.c`) calls `mcu_task_controller_schedule()` for
ever. It runs every registered task whose interval has passed and that does not
report that it sleeps. A task is a state machine: `run()` does one short step
and returns. Tasks talk to each other through signals (a call of every slot that
is connected), through status bits and through queues. What interrupts this
order are the interrupts of the AVR, the thread of the MQTT library, and the
threads of the trace tool.

| part | state it keeps | operations | who calls it | what makes it correct |
|---|---|---|---|---|
| mutex, queue (`common/local_mutex.c`, `qeue_interface.c`) | id and flag; ring, two indices, a counter | request, release; enqeue, deqeue, mutex_get, mutex_release | trace threads, log, MQTT (without the mutex) | for clients of one main loop: one holder, first in, first out, no slot read that was not written |
| trace tool (`tracer/`, `app_tasks/thread_*_trace_object.c`) | bytes of the USART, two queues, an object per thread, status bits | frames, three loops, terminate | devices, the trace tool | frames found again after a restart; the counters of the queues stay in range though the mutex lets two threads in; threads end |
| power management (`power_management/`) | per unit: counter, three flags, a time | request, release, is_on, run | tasks of sensors, LCD | power while someone wants it, off after the last |
| signal/slot (`common/signal_slot_interface.c`) | list of slots, reference time, guard | init, connect, send | everything, also slots that are being called | one pass at a time, every slot hears, pause kept |
| task controller (`mcu_task_management/`) | list of tasks, time of the last run | register, schedule | the main loop | every ready task runs, none too early, no sleep over a ready one |
| two-wire bus (`driver/communication/i2c`, `expansion/`) | driver status bits, mutex, three task states | three run() functions, the interrupt | the controller | one driver of the bus at a time, answers go to who asked, the bus comes back |
| MQTT client (`protocol_management/mqtt/`) | connection flags, two queues, last message | run, callbacks of library and slots | controller, library thread | no message twice or silently lost, reconnects |
| message executer, CLI executer (`app_tasks/`) | state, flags of pending answers | run, five slots | controller, MQTT | an answer belongs to its command, back to idle |
| protocol host and client (`protocol_management/rpi_*`), SPI slave | state, buffers, timers | run, slots, SPI interrupt | controller | command and answer stay paired across timeouts |
| co-processor routing (`copro/`, `app_tasks/copro_routing_mcu_task.c`) | mutex, power, routed command | request, route | protocol client | a routed command is answered once |
| message buffer, module status (`common/`) | ring shared with interrupts, bits | add, get, clear; set, unset | drivers | nothing old is taken after a clear |
| LCD, keypad, infrared, movement detection (`modules/`) | queues of lines, keys, pulses, timers | run, slots, the modulation interrupt | controller | lines in order, text as typed, one pulse train at a time, signals served |
| input and output controllers, event task (`io_management/`, `app_tasks/local_event_task.c`) | lists with times, one flag, an event list | set, check, run | controller | outputs end, events are shown |
| log, configuration, files (`ui/`) | state, queue of lines, path, timers | run, slots, log_message | the host's program | lines in order in one file, what is dropped is marked |
| histories (`common/local_data_storage_array.c`, `expansion/local_sht31*`, `driver/sensor/`) | arrays of a day, pointer, extremes | add, mean, max, min | sensors, command handlers | the values are those of the last readings |
| console, strings, dates, JSON, UF2, command line, GPIO, boards | - | formatting, parsing, dispatch, set-up | - | sequential functions, tested directly |

Hard to test, and therefore what the modules are about: threads without locks,
a poll of a mutex that writes shared state, an interrupt between two accesses of
the main loop, sends inside a send, narrow clocks, timeouts on every path of a
state machine that holds a lock, two timeouts that race on the two ends of a
link, a lost connection at every moment, requests and releases in any order,
restarts in the middle of a frame. `PROJECT.json` lists these hazards at their lines.

## 2. Modules

| module | models | how it corresponds to the code |
|---|---|---|
| `LocalMutex` | `local_mutex.c` | one operator per function, the id wraps as `u8` does |
| `QeueInterface` | `qeue_interface.c` | one operator per function on the record `QEUE_CONTEXT_TYPE` |
| `BoundedFifo` | nothing: what a queue promises | abstract specification |
| `Qeue` | a queue with clients of one main loop that poll its mutex | a step is one call; refines `BoundedFifo` |
| `QeueRace` | the same with threads | a step is one access to shared memory; `counter += 1` is a load and a store |
| `PowerUnit`, `PowerManagement` | `power_management.c` | one operator per function of a unit; the task, the clients, the clock |
| `SignalSlot`, `MCSignalSlot` | `signal_slot_interface.c` | a send is an action per slot, so that a slot may send in its turn |
| `TaskController`, `MCTaskController` | `mcu_task_controller.c` | a step is one task's turn of the round, and it takes time |
| `I2cDriver` | status bits and receive buffer of the AVR's driver, its interrupt and what the hardware clocks | one operator per function and per case of the interrupt; bytes are counted: those from before a read, those of it |
| `I2cBus`, `MCI2cBus` | the three tasks on the bus; a board says which of them it has | one action per `case` of each `run()`; falling through goes on in the next step, with the interrupt in between, as between `clear_rx_buffer` and `stop_rx` of the ADS1115 |
| `MqttClient` | `mqtt_application.c`, `mqtt_interface.c`, library and broker | one action per `case`; blocking library calls are split, so that the callbacks come in between |
| `RpiHost` | `rpi_protocol_handler_host.c` with the slots that feed it | one action per outcome of a `run()` |
| `CliExecuter` | `cli_executer_task.c` and the console it reads | one action per `case`; `popen` blocks |
| `Ownership` | nothing: a mark that says whether an answer belongs to the command in progress | no operation reads it to decide |
| `MessageExecuter`, `MCMessageExecuter` | `message_executer_task.c` with the host and the shell; what answers the host is external | one action per `case` and branch, a slot in the step of the task that sends its signal; a tick is the interval of both executers, each of which runs once in it, the host at least once, in any order |
| `RpiClient` | `rpi_protocol_handler_client.c`, the SPI slave, the command controller | one action per `case` and outcome; a frame goes over in one step, for the slave's interrupt does not return before chip-select is high |
| `CoproRouting` | `copro_routing_mcu_task.c`, `copro.c`; the co-processor is external | one action per `case`; it answers into the client's `PROTOCOL_INTERFACE`, as the code does |
| `RemoteCall` | nothing: one outcome per command, executed at most once and not after it | abstract specification |
| `RpiLink` | `RpiHost`, `RpiClient` and `CoproRouting` together | a step is a turn of one task, the transfer on the bus or a tick; refines `RemoteCall` |
| `Infrared` | `modules/ir`: task, queue, four protocols, the modulation interrupt | a step of the interrupt is one interval of the buffer |
| `Panel` | keypad driver and controller, `keypad_to_lcd_task.c`, LCD controller and display | a scan, a state of the controller, one character |
| `Movement` | `movement_detection_controller.c` | one action per state, one per slot; timers and pin are free |
| `MsgRing` | `local_msg_buffer.c` between an interrupt and the main loop | the main loop's accesses to the volatile fields are steps, the interrupt one step between any two |
| `BoardIo` | output and input controllers, event task | one action per `run()` outcome and per call |
| `TraceLink` | `tracer.c`, `thread_read_trace_object.c`, `trace_parser.c` | a frame is its parts byte by byte; a step is one state of the reader's search |
| `TracePipeline` | the three trace threads and both queues | the threads interrupt each other anywhere: a step is one access to a volatile field of a queue, inside `mutex_get` and `mutex_release` too; what the objects are is left out |
| `QeueUsers` | `Qeue` and `TracePipeline` | a program has queue clients in its main loop or the trace threads |
| `HostLog` | `cfg_file_parser.c`, `log_interface.c` | one action per `case` of each `run()` |
| `SensorHistory` | `local_data_storage_array.c`, `math_module.c`, light and climate sensor | one action per reading; the sums of at most 255 bytes fit the widths of the code |
| `BoardDevices` | `Infrared`, `Panel`, `Movement`, `MsgRing`, `BoardIo`, `TraceLink`, `HostLog`, `SensorHistory` | an image links one of them; a step of an image leaves the variables of the others alone |
| `CommandPath_proofs` | the message executer and the link | theorems, like the other `*_proofs` |

`BoardDevices` is one specification with one configuration and not eight, because
the devices share nothing: `image` is chosen in `Init` and stays, so its
behaviours are those of the eight modules side by side, and a property of one of
them holds as it would alone. `RingSpec`, `LogSpec`, `SenseSpec`, `IrSpec` and `TraceSpec`, which the
proofs are about, are five of these images on their own, and
`BoardDevices_proofs!DevicesRunAlone` proves that the composition implements them.

Operators called `Wrong...` are the variants of a definition that a plausible
slip would give; nothing refers to them. Each property of a passing run is
violated when one of them takes the place of its original (`mutants` in
`PROJECT.json`), so no property holds whatever the code does.

Some invariants are proved for every value of the constants and are therefore
not run again: `TypeOK` of `Qeue`, `PowerManagement`, `SignalSlot` and
`TaskController`, `MutualExclusion` (of clients whose calls are whole), `CountersAgree`, `OnlyWrittenSlotsAreRead`,
`CounterAgrees`, `FlagsAgree`, `OneSignalAtATime`, `PauseIsKept`,
`NotBeforeItsInterval`. The type invariants of the other modules document
their variables; they hold in the runs when added.

## 3. Runs

| run | shows | bounds and why they are enough |
|---|---|---|
| `queue_users` | a queue under its mutex is a FIFO for clients of one main loop. The trace threads, with the mutex that lets two of them in: the counters never pass the size nor 0, and the print thread ends when asked to | 2 clients, 3 slots, ids 1..2: ring and ids wrap. Two queues of 2 places and 2 objects: full and empty in turn, both sides of a queue count at once; only the print thread is terminated, for the wait of the others may not end (section 4) |
| `queue_contention` (violated) | the poll of a refused client makes the holder's release void | 2 clients, 1 slot |
| `race_mqtt` (violated) | MQTT's thread and the main loop without the mutex lose the order of the queue | 4 objects through 2 slots: the ring wraps twice |
| `power` | power while wanted; who is told that the unit is on has a settled line, unless all left during the ramp-up, and is not told the opposite; off in the end, on in the end | 3 clients, times of 2 and 3 ticks, so that every order of ramp, run and request occurs |
| `signal_slot` | a send reaches every slot, whatever the slots send | a clock of 4 values that wraps; two signals, three slots on one; a slot answers with the other signal, whose slot sends the first again |
| `task_rounds` | no sleep over a ready task, every ready task runs | a task with an interval and one that is always ready, a clock of 5 that wraps, rounds that take a tick |
| `i2c` | only the holder drives the bus; unless a byte came between a clear and its stop, a bus that is free is ready and an answer has no older byte in front; the expander gives the bus back | a board with humidity sensor and converter, one with two instances of the port expander; a buffer of 8 bytes for answers of 6, 2 and 1; a device that does not answer and a bus error at any time, every wait may time out |
| `mqtt_online` | message accounting; only old echoes are handled, in order; losses are told and the client comes back, but for a loss inside `mqtt_connect` | 2 losses, 3 texts, queue of 2: losses hit every state, echoes come any number of messages late |
| `message_execution` | answers belong to their command and go to whom they are for, back to idle, a report gets to its end | 2 messages, so that one interrupts and one replaces another; a report with lines of every kind; one failure to open it; times in the order and with the slack of the code (1 + 6 against 8 ticks), so that a timeout of the host can come late and mislead the executer |
| `rpi_link` | a response belongs to its command, data of an older one are in it only where the routing lets them in, no request or response of a finished command stays, the link is a `RemoteCall`, the client comes to rest | 3 commands: what one leaves behind meets the next two; commands for a handler, for nobody and for a co-processor that is silent or deaf (misses a command, with or without its old answer); answers of 3 parts, so that one can be behind the data read; the board's loop stands still for a tick at any moment; times in the order of the code (1505, 500, 64, 50 and 250 ms) |
| `devices` | infrared: the waveform on air is that of the commands, each goes out. Panel: text follows the keys whose signals were not refused, accepted lines appear. Movement: power signals take effect. Ring: no old bytes. Pins: outputs settle, events are shown. Traces: those sent arrive. Log: honest and written. Histories: of the last readings and within range. | each queue one or two places, so that it is full and empty in turn; ring of 2 and 6 bytes: three times round; two restarts of the device, two configuration files, one loss of the disk; 4 key moves, 5 readings through histories of 2, extremes of the 16-bit readings |
| `sht31_history` (violated) | the climate sensor adds a value to its day with each reading and none after a gap | readings at any distance up to a turn of the clock |

Fairness. Weak fairness of a task's `run()` is what the main loop does:
it never blocks and the controller comes back to every task that is awake, which
`TaskController!ReadyTasksRun` shows. Clocks, conversions and transfers end because
hardware does. In
`message_execution` weak fairness of the three tasks and of the tick suffices; a
program that the CLI executer starts is assumed to end, for the main loop waits
for it, and what this wait does to the timers is part of the step (`LoopStands`).
Strong fairness is assumed of a broker that is asked again and
again (`MqttClient`), and of timers and supplies that are on again and again
while a task waits (`I2cBus`). Threads of the trace tool are scheduled by the
operating system: weak fairness each. In `BoardDevices` an image has up to five
tasks, timers or interrupts; the fairness of the n-th of every image is one
conjunct. The image never changes, so this says the same as a conjunct for each.
In `devices` the disk comes back after it went, and a trace tool, a user and a
sensor owe nothing: no fairness.

`message_execution` assumes that the report file can be opened in the end
(`MaxMissed`): while it cannot, `PROCESS_REPORT_LIST` keeps the executer from
everything else, although its trace (`message_executer_task.c:1043`) says that
it goes to idle. Apart from the console no task holds up the main loop in it; a
blocking `mqtt_connect` would.

`rpi_link` assumes that the host's timeout is longer than all the waits of a routed
command together (`CallTime < WaitTime`); that the slave's `start_tx` is not hit
by a transfer between its flag and its first byte (`spi0_driver_atmega1284p.c:504`);
that a command which is not on the co-processor's bus when the
routing gives up never is; that the next command is issued after the outcome of
the last, as the message executer does; and that the supply of a co-processor
comes up in `PowerTime`: the code waits for it without a limit
(the timeout of `copro_routing_mcu_task.h:65` is not used).

`Infrared` starts the modulation timer (`ir_protocol_task.c:234`) and the protocol (`:236`)
in one step: the first interrupt of the timer is due 527 us later at the earliest.

`TraceLink` assumes that a restarted device is silent for longer than the reader
waits, and that the bytes of one frame follow each other faster. Its data hold at most
two header bytes in a row, and its line numbers (one byte, `TraceAssumption`) are none:
three in a row, which nothing in the frame escapes, would be a header to the reader.

Deadlock is not checked where the system may stop: when the bounded events are
used up or all threads or the task have been terminated.

## 4. Statements the code does not keep

The three violated runs show one each. The modules state more of what headers
and comments say, or of what one would expect, and TLC refutes these as well when they
are put into a configuration:

| statement | where | how it fails |
|---|---|---|
| `QeueRace!OneHolder` (`Preemptive`, `Locking`) | `local_mutex.h:97` | two threads pass the test of `mutex_request` together |
| `TracePipeline!ReadEnds` | `thread_interface.h:254` | the wait for the mutex does not look at terminate |
| `TracePipeline!PrintEnds` with `EarlyTerminate` | same | `run()` clears a terminate that came before its first turn |
| `PowerManagement!ReadyMeansSettled` | `power_management_interface.h:171` | `is_on` answers yes while `is_ramp_down` is set (`power_management.c:204`): after a request, a release in the ramp-up and another request the unit is said to be on before its ramp-up time has passed |
| `SignalSlot!RefusedOnlyInPause` | `signal_slot_interface.h:158` | a reference older than a turn of the clock |
| `TaskController!OnlyRunningTasksRun` | `mcu_task_interface.h:218` | idle tasks are run, and rely on it |
| `TaskController!ListInOrderOfPriority` | `mcu_task_interface.h:295` | the list has the order of registration |
| `I2cBus!OnlyHolderDrives` with `pca9670` and another task | `local_mutex.h:93` | a timeout before the lock is granted shuts the driver down |
| `I2cBus!BusComesBack` with `ads1115` and fault `error` | `local_mutex.h:110` | a wait without a timeout while `TX_ACTIVE` stays set (`local_ads1115_mcu_task.c:255`) |
| `I2cBus!FreeMeansReady`, `AnswerIsOwn` for the expander | `driver_PCA9670.c:425` | the timeout of a read does not stop the receiver: the bus is given back with `RX_ACTIVE` set, and a late answer is taken by the next read |
| `I2cBus!FreeMeansReady`, `AnswerIsOwn` without `~torn` | `local_ads1115_mcu_task.c:277` | the ADS1115's task calls `clear_rx_buffer` before `stop_rx` (also at 319 and 353): a byte the interrupt adds in between stays. The next answer looks complete a byte too early and begins with that byte, and the task is done while `RX_ACTIVE` is set: nothing clears it when the mutex is given back and the interrupt is switched off, and the next task waits for the driver, the converter for ever and with the mutex |
| `I2cBus!TalksToPoweredSensor` | `local_sht31_mcu_task.c:200` | the transfer starts before the supply is on |
| `MqttClient!LossIsReported` | `mqtt_interface.h:388` | a loss inside `mqtt_connect` is reported before the flag is cleared (`mqtt_interface.c:142`): the client never learns of it and does not connect again. `LossIsNoticed` and `BackOnline` leave out that case and no other (`overwritten`) |
| `MqttClient!OwnMessagesIgnored` | `mqtt_interface.c:54` | a late echo is compared with a newer message (`mqtt_interface.c:360`) and handled as that of another client; `OnlyLateEchoesHandled` says what remains |
| `MessageExecuter!VerdictBelongs` | `message_executer_task.c:155` | a host's timeout or a "not found" that comes after the executer's own timeout stays set and ends the wait of the next command at once |

For remote commands `VerdictBelongs` holds as soon as the executer's timeout is at
least two ticks above the sum of the host's; the code leaves 31 ms, about
one. An executer that was misled in this way issues commands while the host is busy with
the one before, and then `AnswerBelongs` and `SendsOneCommand` fail as well: the host
appends a command to one it has not sent, and a response is taken for that of a later
command. Both are therefore stated for an executer that was not (`misled`), and TLC
refutes them without this condition.

What else the modelling showed; the modules that follow the code behave so:

- `CLI_EXECUTER_EXECUTION_TIMEOUT_MS`, "Maximum time to process a command"
  (`cli_executer_task.h:62`), is passed to a function that does not look at it
  (`cli_executer_task.c:478`), and the signal for it is never sent.
  A message that comes in while the one before is looked up in the command
  file replaces its name.
- Connecting a slot a second time would cut off the rest of the list; the
  module connects each slot once.
- `start_write // this will delete all data added so far`
  (`i2c0_driver_atmega1284p.c:285`, and the SPI and USART drivers) deletes nothing.
- Bus: a read is over for the driver with the interrupt for its last byte (0x50,
  `i2c0_driver_atmega1284p.c:521`), the transfer a byte later (0x58). A START asked for
  in between is lost, for the second interrupt writes the control register anew: the
  command to point at the measurement (`local_ads1115_mcu_task.c:303`) may never be sent,
  its `TX_ACTIVE` is cleared all the same (`:577`), and what is read then is
  the configuration; a `start_rx` there gets that one byte and times out. After `shut_down`
  the module stays enabled with its interrupt off; the byte under way is not modelled.
- Link: with a supply slower than the host waits a late answer is taken for that of the
  next command. The routing takes the length of the answer from
  `t_data_buffer[0]`, which it has not written (`copro_routing_mcu_task.c:441`): what
  exceeds the data read comes from the stack, where bytes of an older answer may be. A
  co-processor that missed the command may give its old answer, which is then reported
  as the one to this command. TLC refutes `AllIsOfThisCommand` of `RpiLink` for both;
  `AnswersBelong` says where older data may be.
  A routed answer that fills the buffer takes the room of later local answers.
- The message buffer "acts like a FIFO" (`local_msg_buffer.h:20`); with an interrupt
  between load and store of `num_elements` a byte is taken twice, or an older
  one after a newer.
- Movement: `movement_detection_controller.h:73` says that a power-up signal does
  nothing while the power-down mode is not active; it is remembered and ends
  the next power-down at once. `PowerSignalsTakeEffect` counts it as served then.
- Pins: the duration of an output counts from the first time it was switched on;
  a button's `__release_time` of 0 means "none"; a full list drops
  events; the toggle period is used nowhere.
- Traces between the threads: two threads that pass the test of `mutex_request`
  together are in a queue at once, and an object can be lost, taken twice or overtaken: TLC refutes
  `QeueRace!NextInLine` with `Locking` and `Preemptive`.
- Panel: a press or release is lost when its signal is refused, because the 16-bit
  time since it was last sent is less than 5 ms modulo a turn (`signal_slot_interface.c:88`);
  the controller keeps the key's new state all the same (`keypad_controller_3x4.c:377`).
  When the fifo is full one of the two lines is dropped and the next ones
  show up in the other row (`keypad_to_lcd_task.c:349`). A full infrared queue drops
  a command whose sender is told `CMD_NO_ERR`.
- Traces: the reader loses one frame per restart, and may take a wrong
  one when two restarts are closer than its wait. A frame longer than
  its buffers of 128 bytes is cut and runs into the next; an array of
  more than 255 bytes and a name of more than 254 have a wrong length byte; header bytes
  in the data look like a frame; `tracer_trace_word` ignores `is_enabled`.
- Log: a configuration file that was given in time but not yet looked at when
  the time is up is read after "complete" was sent, and its path is ignored. A
  second path replaces one not yet looked at. The mark of an overflow comes after
  the next line and not where lines are missing. A line that
  cannot be appended is lost without a sign. `LOG_INTERFACE_DEFAULT_LOG_FILE_PATH` is
  used nowhere.
- Histories: in the state after the gap of `sht31_history`, `humidity.maximal` gets the
  temperature (`local_sht31_mcu_task.c:350`). The array of the light sensor is never
  initialised, so its mean is too low and its minimum 0 until it is full.
  `get_max_i8` starts from 0, which a history below zero never exceeds. A
  division by zero gives 0.
- Clock of the AVR (`driver/rtc/rtc_driver_atmega1284p.c:152`): the time, the ticker and
  the counter are read while the interrupt changes them, so a reading may be
  behind the last one and what has elapsed wraps: a timer is up at once. The ticker
  turns at 31 (`:195`), one less than the shift that reads it assumes, so that the clock
  jumps once in 31 periods. The models read their clocks at once.

## 5. Proofs

Every theorem is proved for all values of the constants that the assumptions of
its module admit (`...Assumption`, which TLC evaluates in the runs). Where a theorem has a
further hypothesis it says so below. An invariant of a run is seldom inductive; what
follows names what had to be added, and why.

`Qeue_proofs` proves type correctness, one holder, agreement of the counters,
that only written slots are read, and the refinement of `BoundedFifo`, for every
length of the queue and every set of clients. The inductive invariant says that the
slots from `read` for `element_counter` places, modulo the size, hold written
elements and that the counter is the distance of the indices: without the
first the refinement does not carry over a wrap, without the second a full and
an empty queue look alike. The step of the refinement shows that the contents
read in that order lose their head with `Deqeue` and grow by one with `Enqeue`.
The mutual exclusion part needs that a holder implies a requested mutex.
All of this is about clients whose calls are whole. For the trace threads, which
interrupt each other inside `mutex_get`, none of it holds; what does is that the counters
of both queues stay in range (`CountersAreSafe`), for every size of the queues and any
use of them. `CountInv` needs nothing of the mutex: a queue has one thread on each side, so between
a thread's test and its load the counter can only move away from the limit the thread tested for,
and a value loaded is one that can still be counted on, even when the store undoes
what the other side counted meanwhile.

`PowerManagement_proofs` proves type correctness, that a unit is powered while
someone wants it, that the counter counts the clients, that the flags agree
with each other, that a unit which clients are told is on has settled (`ToldOnIsSettled`, with the
exception of section 4) and that they are not told the opposite while one of them keeps it
(`ToldOnStaysOn`). The invariant adds
that the counter equals the number of
clients, and how the three flags of the unit exclude each other; the assumption
is that there are no more clients than the counter can count. That on means settled
needs `SettleInv`: a line that has not had its time yet belongs to a unit that ramps up,
and the task has waited no longer than the line has power.

`SignalSlot_proofs` proves type correctness, that no signal is sent while its slots are being
called, whatever the slots send themselves (`OneSignalAtATime`: the one guard of all
signals is closed exactly while a send is under way), that two sends of a signal are
never closer than its pause (`PauseIsKept`), and that a send reaches every slot in the order
of connection (`AllSlotsHeard`). `PauseIsKept` speaks of a
count of ticks that the code does not have; `ClockInv` ties it to the clock: less
than a turn after a send, what the code reads as elapsed is that count.
`AllSlotsHeard` needs the shape of the lists, which are linked by pointers (`Linked`: each slot
points to the one that connected to the same signal after it), and what a send
under way has done (`Underway`: it has called exactly the slots in front of the one it is
at). `signal_slot_connect` walks to the end of a list by recursion; `LastFromIs`
shows where it ends by induction over the order of connection.

`TaskController_proofs` proves type correctness, that the controller does not sleep over a
ready task, and that no task runs before its interval. `RoundInv` says what
a round that is under way already knows: each task that
had its turn sleeps, keeps the CPU awake, was not due or woke after its turn. `TimeInv`
does for each task what `ClockInv` does for a signal.

`I2cBus_proofs` proves for every board of sensors that a bus which is free is ready
(`FreeMeansReady`) and that an answer has no older byte in front (`AnswerIsOwn`), both until a
byte comes between a clear and its stop, and that only the
holder drives (`OnlyHolderDrives`) on a board where an expander has the bus to itself
(`ExpanderAlone`; with a second task TLC refutes it, section 4). `BusInv` relates the
stage of each task to the mutex, to the bits of `I2C_STATUS` and to the bytes in
the receive buffer: the bits are cleared at other places than
the mutex is given back, on the paths of the timeouts too. While a task waits for an
answer, what came in and what is to come are its length (`Reading`), or the read was
asked for while the byte after the read before was clocked, and that byte is all there
will be (`Missed`): the sensors are safe because each of their answers has more than one.

`MqttClient_proofs` proves type correctness; that no accepted message is lost silently, sent twice or
reordered (`SentOnce`); which own messages are handed on (`OnlyLateEchoesHandled`); and that a loss is
noticed but for one inside `mqtt_connect` (`LossIsNoticed`). None has a hypothesis about the broker. The
invariant of the first (`Ways`) numbers the messages as they were accepted: those in the queue are the
last ones, the one being published is the one before, and all earlier ones are delivered or given up,
never both. That of the second says of the own messages that were handled, that wait in the
receive queue and that are on their way (`InOrder`) that their numbers ascend from each of these to the
next, and that only on the way there may be the last one taken (`Echo`): it has the text
it will be compared with.

`CommandPath_proofs` follows a command. Its first part is about `MessageExecuter`. What a
message asked for is answered as a response and a line of the report as a
report (`AnswerGoesToAsker`): the flag and the asker are set in different states, so
`AskerInv` extends the property to the states that
prepare a command and adds that no report is active while the command of a
message is still looked for. A response belongs to the command waited for
(`AnswerBelongs`): for all times of which the executer's is the longest
(`ExecTime` above `RequestTime + WaitTime`), because a host that still waits for the
command before would have given up. The invariant relates the clocks of executer
and host in every pair of their states.

Its second part is about `RpiLink`: type correctness, `AnswersBelong`, `NothingLeftBehind`, and
that the link implements `RemoteCall` but for its liveness (`LinkIsARemoteCall`).
Nothing in an answer names its command, so the reason is time. `LinkInv` lists the
places where a command can be after it was sent: lost before the slave heard it, heard, handed to the
controller, queued for the routing, in one of the five waits of the routing, answered on the client,
answered on the slave. For each it says what the buffers hold and how long ago
the command was sent at most, counting `MaxStall` ticks for each turn of the main loop that
is due (`PoweredBy`, `WrittenBy`, `AskedBy`, `CallTime`). All of these are less than the
host's timeout, so a host that gives up has a command that was lost, and
the micro controller is quiet (`Quiet`) whenever no command is under way. Older data in a
buffer are tied to their two causes (`Fresh`, `CoproKnows`): they are behind the data read, or
the co-processor missed the command (`unheard`). TLC checked
`LinkInv` on the run and on four more sets of times.

`BoardDevices_proofs` proves of the ring, for rings of every size, that no byte is taken that was there before
`clear_all`, with the interrupt between any two accesses. `RingInv` has two
cases: the interrupt has been round the whole memory since (`AllFresh`), or
the cells below `write` are fresh and the reader, with the byte it took but did not
count yet, keeps behind (`SomeFresh`). Between the stores of `clear_all` to the two
indices neither need hold, and nothing is taken there.
Of the log it proves for any directories, files, lines and sizes that it keeps to one
directory and to the order of the calls, and marks what it dropped
(`LogIsHonest`). `HonestInv` numbers lines by their calls: the queue goes on where the log
ends, both ascend, and as long as the overflow flag is off a mark follows every place
where lines were dropped.
Of the histories it proves, for arrays of every length, any 16-bit readings and any number of
them, that the means and extremes told are those of the values added last
(`HistoryIsRecent`) and that light and temperature are within what is told with them
(`ReadingsInRange`). `SenseInv` says which value each place of an array holds, before the
array was full (`FirstRound`) and while it is overwritten from the front
(`LaterRound`), where its sum is the difference of two totals of all that was ever added; that the
slope of the light keeps up with the extremes of the resistor (`SlopeFollows`) keeps
the share below a hundred. `Sum` is a recursive function and not an operator, so that it can be
reasoned about; the induction over it cites a least counter-example (`CountingUp`)
because the library's theorem cannot be instantiated here.
Of the transmitter it proves for any number and order of commands that what is on air is the waveform
of the command (`WaveformIsTheCommands`). `IrInv` gives read pointer, word and
cycle counter of each protocol as a function of the interrupts since the start (`JvcAt`,
`SonyAt`, `PlainAt`), with the buffer requested and one protocol active as long as
a command is sent, and neither before or after. Of the frames it uses only that they are
sequences of levels, those of jvc with more than 24 and fewer than 105 of them.
Of the frames of the tracer it proves, for names of any length, any number of traces and
restarts and a ring of any size, that the tool hands on traces that were made, each once and
in order, and that it has all those sent whole when it has come to the end of the
bytes (`TracesArrive`). `TraceIInv` takes what the reader holds and what is in the ring as one stream:
first bytes no frame begins in (`Junk`: no header among them, and no header byte at their
end unless nothing follows), then whole frames one behind the other (`Queued`), then what a
restart left of the last one (`Rest`). Frames have different lengths, so the
invariant keeps the place where each begins. What leaves the stream is junk, or
the whole first frame, because a header that the reader holds cannot begin in the junk
(`HeaderFound`), or the beginning of a cut frame: when the reader gives up there is no whole frame
in the stream (`BytesDropped`).
All five carry over to the firmware (`DevicesRunAlone`,
`DevicesKeepTheirWord`).

Only model-checked: everything under fairness (liveness and `ENABLED` are out of the
prover's reach), with it the liveness part of `RemoteCall`; and `QeueRace`.

## 6. Not modelled, and what is left

Of some 70 000 lines the map covers about 12 %. A quarter of the rest are unit
tests; the greater part of what remains has no state that another part sees:

- `protocol_management/rpi_protocol_handler.c` and `..._i2c.c`, older handlers that
  no board builds; `app_tasks/local_adc_mcu_task.c`, likewise.
- `io_management/io_virtual_controller.c` is a copy of the output controller under
  the same names, so that no program links both.
- JSON, UF2, string and date tools, the command line with its tables, the console: pure
  functions of their input.
- GPIO and timer drivers, pin tables, the start-up of the boards: register and file
  writes in a fixed order.
- The contents of commands, answers, traces and configuration objects: the models keep
  whose they are and how long, and abstract the rest.
- In modelled parts: `sleep`, `wakeup`, `terminate_all` and `background_run` of the
  controller and `terminate` of the executers, which no program calls; the slave mode of
  the two-wire driver; tracing from an interrupt inside a trace; the pins of the display.

Left: the AVR's clock with its interrupt (section 4); theorems about the remaining modules
of `devices`.
