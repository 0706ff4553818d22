------------------------------- MODULE I2cBus -------------------------------
(***************************************************************************)
(* The tasks that share the I2C bus of the rpi hat: the temperature sensor *)
(* (expansion/local_sht31_mcu_task.c), the analog inputs                   *)
(* (local_ads1115_mcu_task.c) and the IO expander (driver_PCA9670.c).      *)
(* Each takes the mutex of the driver, has a transfer or two made and      *)
(* gives the mutex back, over many calls of its run().                     *)
(*                                                                         *)
(* A step is one case of the switch in run(); only the interrupt of the    *)
(* driver comes between two cases of the same run, because the scheduler   *)
(* calls one run() after the other.  Time passes between runs.             *)
(***************************************************************************)
EXTENDS I2cDriver, LocalMutex, FiniteSets

CONSTANTS
  Boards,     \* sets of the tasks that use the bus of one board
  NoTask,
  Fault,      \* what may happen on the bus: "nack", "error"
  Last        \* [Task -> Nat]: last channel of the ADS1115, last PCA9670 instance

Task == UNION Boards

ASSUME BusAssumption ==
  /\ Boards \subseteq SUBSET {"sht31", "ads1115", "pca9670"}
  /\ NoTask \notin Task
  /\ Fault \subseteq {"nack", "error"}
  /\ Last \in [Task -> Nat]

VARIABLES
  mutex,       \* I2C_MUTEX
  driver,
  task,        \* the static variables of each task of this board
  is_on,       \* POWER_UNIT_5V_is_on()
  wants,       \* tasks that have requested the 5 V supply
  converted,   \* the ADS1115 has finished its conversion
  pin_changed, \* PCA9670_STATUS_PIN_CHANGED
  torn,        \* history: a byte came in after a clear_rx_buffer and before its stop_rx
  running,     \* the task whose run() is being executed
  label,       \* the case it is in
  holder,      \* the task that was given the mutex last and has it still
  user         \* the task that called the driver in the last step

vars == <<mutex, driver, task, is_on, wants, converted, pin_changed, torn,
          running, label, holder, user>>

Board == DOMAIN task

Stage == {"idle", "request", "init", "start", "write", "completion", "poll",
          "get", "read", "process", "load", "cancel", "finish"}

\* A place of a run(): a case, or between clear_rx_buffer and stop_rx of one.
Label == Stage \cup {"stop"}

\* SHT31_MEASRUEMENT_ANSWER_LENGTH, ADS1115_STATUS_ANSWER_LENGTH (and
\* ADS1115_MEASUREMENT_ANSWER_LENGTH), PCA9670_READ_IO_ANSWER_LENGTH
AnswerLength(t) == CASE t = "sht31" -> 6 [] t = "ads1115" -> 2 [] t = "pca9670" -> 1

ConfigCommandLength == 3    \* ADS1115_CONFIG_COMMAND_LENGTH

TaskData ==
  [ stage : Stage,          \* operation_stage
    sleeping : BOOLEAN,     \* task_state = MCU_TASK_SLEEPING
    task_timer : BOOLEAN,   \* has passed the time its stage asks for
    op_timer : 0 .. 2,      \* 1: past the short wait, 2: past the timeout
    id : MutexId,           \* com_driver_mutex_id
    index : Nat ]           \* adc_channel_index, p_act_instance

TypeOK ==
  /\ mutex \in Mutex
  /\ driver \in Driver
  /\ Board \in Boards
  /\ \A t \in Board : task[t] \in TaskData /\ task[t].index <= Last[t]
  /\ is_on \in BOOLEAN
  /\ wants \subseteq Board
  /\ converted \in BOOLEAN
  /\ pin_changed \in BOOLEAN
  /\ torn \in BOOLEAN
  /\ running \in Board \cup {NoTask}
  /\ label \in Label
  /\ running = NoTask => label = "idle"
  /\ holder \in Board \cup {NoTask}
  /\ user \in Board \cup {NoTask}

Init ==
  /\ mutex = MutexInit
  /\ driver = DriverInit
  /\ \E b \in Boards : task = [t \in b |->
       [stage |-> "idle", sleeping |-> TRUE, task_timer |-> FALSE,
        op_timer |-> 0, id |-> MutexInvalidId, index |-> 0]]
  /\ is_on = FALSE
  /\ wants = {}
  /\ converted = FALSE
  /\ pin_changed = TRUE
  /\ torn = FALSE
  /\ running = NoTask
  /\ label = "idle"
  /\ holder = NoTask
  /\ user = NoTask

-----------------------------------------------------------------------------
(* What the cases are made of                                              *)

At(t, l) == running = t /\ label = l

\* break; and falling through to the next case
Break == running' = NoTask /\ label' = "idle"
GoOn(l) == label' = l /\ UNCHANGED running

Set(t, data) == task' = [task EXCEPT ![t] = data]
Goto(t, s) == Set(t, [task[t] EXCEPT !.stage = s])

\* The driver after the calls of task t, which empty the buffer or do not.
Call(t, d) == driver' = d /\ user' = t /\ UNCHANGED torn
CallClears(t, d) == driver' = d /\ user' = t /\ torn' = FALSE
NoCall == user' = NoTask /\ UNCHANGED <<driver, torn>>

\* bytes_available() is asked for the whole answer.
Enough(t) == Available(driver) >= AnswerLength(t)

\* A case that leaves the mutex and the rest of the program alone.
Local == UNCHANGED <<mutex, holder, is_on, wants, converted, pin_changed>>

\* A break that changes nothing: the task comes back to the same case.
Wait(t) == Break /\ NoCall /\ UNCHANGED task /\ Local

\* A wait for the driver that timed out: next comes the case "cancel".
GiveUp(t, d) == Break /\ Call(t, d) /\ Goto(t, "cancel") /\ Local

\* com_driver_mutex_id = mutex_req(), and what the task does when it has it.
Refused(t) ==
  /\ RequestResult(mutex) = MutexInvalidId
  /\ Set(t, [task[t] EXCEPT !.id = MutexInvalidId])
  /\ Break /\ NoCall /\ Local

Granted(t, data) ==
  /\ RequestResult(mutex) # MutexInvalidId
  /\ mutex' = Request(mutex)
  /\ holder' = t
  /\ Set(t, [data EXCEPT !.id = RequestResult(mutex)])
  /\ Call(t, Configure(driver))

\* shut_down(), mutex_rel(com_driver_mutex_id)
Leave(t) ==
  /\ Call(t, PowerOff(driver))
  /\ mutex' = Release(mutex, task[t].id)
  /\ holder' = IF mutex'.is_requested THEN holder ELSE NoTask

-----------------------------------------------------------------------------
(* local_sht31_mcu_task_run                                                *)

ShtIdle(t) ==
  /\ At(t, "idle")
  /\ \/ Refused(t)
     \/ /\ Granted(t, [task[t] EXCEPT !.stage = "start", !.task_timer = FALSE])
        /\ wants' = wants \cup {t}
        /\ GoOn("init")
        /\ UNCHANGED <<is_on, converted, pin_changed>>

ShtInit(t) ==
  /\ At(t, "init")
  /\ IF is_on /\ IsReady(driver)
     THEN /\ CallClears(t, StartTx(EmptyRx(driver)))
          /\ Set(t, [task[t] EXCEPT !.stage = "start", !.task_timer = FALSE])
          /\ GoOn("start")
          /\ Local
     ELSE Wait(t)

ShtStart(t) ==
  /\ At(t, "start")
  /\ IF IsReady(driver)
     THEN /\ Call(t, StartTx(driver))
          /\ Set(t, [task[t] EXCEPT !.stage = "get", !.op_timer = 0])
          /\ GoOn("get")
          /\ Local
     ELSE IF task[t].task_timer THEN GiveUp(t, StopTx(driver)) ELSE Wait(t)

ShtGet(t) ==
  /\ At(t, "get")
  /\ IF ~IsReady(driver)
     THEN IF task[t].task_timer THEN GiveUp(t, StopTx(driver)) ELSE Wait(t)
     ELSE IF task[t].op_timer = 0 THEN Wait(t)
     ELSE /\ Call(t, StartRx(driver, AnswerLength(t)))
          /\ Set(t, [task[t] EXCEPT !.stage = "process", !.op_timer = 0])
          /\ GoOn("process")
          /\ Local

WrongShtProcess(t) ==       \* variant: the timeout only stops the transmission
  /\ At(t, "process")
  /\ IF Enough(t)
     THEN /\ Call(t, Take(driver, AnswerLength(t)))
          /\ GoOn("cancel") /\ UNCHANGED task /\ Local
     ELSE IF task[t].op_timer = 2 THEN GiveUp(t, StopTx(driver)) ELSE Wait(t)

ShtProcess(t) ==
  /\ At(t, "process")
  /\ IF Enough(t)
     THEN /\ Call(t, Take(driver, AnswerLength(t)))
          /\ GoOn("cancel") /\ UNCHANGED task /\ Local
     ELSE IF task[t].op_timer = 2
     THEN /\ CallClears(t, EmptyRx(StopRx(StopTx(driver))))
          /\ Goto(t, "cancel") /\ Break /\ Local
     ELSE Wait(t)

ShtCancel(t) ==
  /\ At(t, "cancel")
  /\ Leave(t)
  /\ Set(t, [task[t] EXCEPT !.stage = "idle", !.task_timer = FALSE, !.sleeping = TRUE])
  /\ wants' = wants \ {t}
  /\ Break
  /\ UNCHANGED <<is_on, converted, pin_changed>>

Sht31 == \E t \in Board \cap {"sht31"} :
  ShtIdle(t) \/ ShtInit(t) \/ ShtStart(t) \/ ShtGet(t) \/ ShtProcess(t) \/ ShtCancel(t)

-----------------------------------------------------------------------------
(* local_ads1115_mcu_task_run                                              *)

WrongAdsIdle(t) ==          \* variant: the result of mutex_req is not looked at
  /\ At(t, "idle")
  /\ mutex' = Request(mutex)
  /\ holder' = IF mutex.is_requested THEN holder ELSE t
  /\ Set(t, [task[t] EXCEPT !.stage = "init", !.task_timer = FALSE,
                            !.id = RequestResult(mutex)])
  /\ Call(t, Configure(driver))
  /\ wants' = wants \cup {t}
  /\ GoOn("init")
  /\ UNCHANGED <<is_on, converted, pin_changed>>

AdsIdle(t) ==
  /\ At(t, "idle")
  /\ \/ Refused(t)
     \/ /\ Granted(t, [task[t] EXCEPT !.stage = "init", !.task_timer = FALSE])
        /\ wants' = wants \cup {t}
        /\ GoOn("init")
        /\ UNCHANGED <<is_on, converted, pin_changed>>

AdsInit(t) ==
  /\ At(t, "init")
  /\ IF is_on /\ IsReady(driver) /\ task[t].task_timer
     THEN /\ Call(t, StartTx(driver))
          /\ Set(t, [task[t] EXCEPT !.stage = "start", !.op_timer = 0])
          /\ GoOn("start")
          /\ Local
     ELSE Wait(t)

AdsStart(t) ==
  /\ At(t, "start")
  /\ IF IsReady(driver)
     THEN /\ Call(t, StartTx(driver))
          /\ Goto(t, "completion")
          /\ converted' = FALSE
          /\ GoOn("completion")
          /\ UNCHANGED <<mutex, holder, is_on, wants, pin_changed>>
     ELSE IF task[t].op_timer = 2 THEN GiveUp(t, StopTx(driver)) ELSE Wait(t)

\* The one wait without a timeout, beside "init".
AdsCompletion(t) ==
  /\ At(t, "completion")
  /\ IF IsReady(driver)
     THEN /\ Call(t, StartRx(driver, AnswerLength(t)))
          /\ Set(t, [task[t] EXCEPT !.stage = "poll", !.op_timer = 0])
          /\ GoOn("poll")
          /\ Local
     ELSE Wait(t)

\* A wait for an answer, or for the driver before it, has timed out: stop_tx
\* and clear_rx_buffer come first, stop_rx after them; the interrupt may add a
\* byte in between.
AdsGivesUp(t) ==
  IF task[t].op_timer = 2
  THEN /\ CallClears(t, EmptyRx(StopTx(driver)))
       /\ GoOn("stop") /\ UNCHANGED task /\ Local
  ELSE Wait(t)

AdsStop(t) == At(t, "stop") /\ GiveUp(t, StopRx(driver))

\* An answer that is there is taken, with a byte more if there is one.
AdsPoll(t) ==
  /\ At(t, "poll")
  /\ IF ~Enough(t) THEN AdsGivesUp(t)
     ELSE IF ~converted
     THEN /\ Call(t, Take(driver, ConfigCommandLength))
          /\ Goto(t, "completion") /\ Break /\ Local
     ELSE /\ Call(t, StartTx(Take(driver, ConfigCommandLength)))
          /\ Set(t, [task[t] EXCEPT !.stage = "get", !.op_timer = 0])
          /\ GoOn("get")
          /\ Local

AdsGet(t) ==
  /\ At(t, "get")
  /\ IF ~IsReady(driver) THEN AdsGivesUp(t)
     ELSE IF task[t].op_timer = 0 THEN Wait(t)
     ELSE /\ Call(t, StartRx(driver, AnswerLength(t)))
          /\ Set(t, [task[t] EXCEPT !.stage = "process", !.op_timer = 0])
          /\ GoOn("process")
          /\ Local

\* The value is stored; the next channel, or the end of the measurement.
AdsProcess(t) ==
  /\ At(t, "process")
  /\ IF ~Enough(t) THEN AdsGivesUp(t)
     ELSE /\ Call(t, Take(driver, AnswerLength(t)))
          /\ Local
          /\ IF task[t].index < Last[t]
             THEN /\ Set(t, [task[t] EXCEPT !.stage = "init", !.index = @ + 1])
                  /\ Break
             ELSE Goto(t, "cancel") /\ GoOn("cancel")

AdsCancel(t) ==
  /\ At(t, "cancel")
  /\ Leave(t)
  /\ Set(t, [task[t] EXCEPT !.stage = "idle", !.task_timer = FALSE,
                            !.sleeping = TRUE, !.index = 0])
  /\ wants' = wants \ {t}
  /\ Break
  /\ UNCHANGED <<is_on, converted, pin_changed>>

Ads1115 == \E t \in Board \cap {"ads1115"} :
  \/ AdsIdle(t) \/ AdsInit(t) \/ AdsStart(t) \/ AdsCompletion(t) \/ AdsPoll(t)
  \/ AdsGet(t) \/ AdsProcess(t) \/ AdsStop(t) \/ AdsCancel(t)

-----------------------------------------------------------------------------
(* pca9670_task_run; at least one instance is registered                   *)

PcaIdle(t) ==
  /\ At(t, "idle")
  /\ Set(t, [task[t] EXCEPT !.stage = "request", !.op_timer = 0, !.index = 0])
  /\ GoOn("request")
  /\ NoCall /\ Local

PcaRequest(t) ==
  /\ At(t, "request")
  /\ IF task[t].op_timer = 2
     THEN Goto(t, "cancel") /\ Break /\ NoCall /\ Local
     ELSE \/ Refused(t)
          \/ /\ Granted(t, [task[t] EXCEPT
                  !.stage = IF pin_changed THEN "write" ELSE "read", !.op_timer = 0])
             /\ IF pin_changed THEN GoOn("write") ELSE Break
             /\ pin_changed' = FALSE
             /\ UNCHANGED <<is_on, wants, converted>>

PcaWrite(t) ==
  /\ At(t, "write")
  /\ IF task[t].op_timer = 2 THEN Goto(t, "cancel") /\ Break /\ NoCall /\ Local
     ELSE IF ~IsReady(driver) THEN Wait(t)
     ELSE /\ CallClears(t, StartTx(EmptyRx(driver)))
          /\ Set(t, [task[t] EXCEPT !.stage = "read", !.op_timer = 0])
          /\ GoOn("read")
          /\ Local

PcaRead(t) ==
  /\ At(t, "read")
  /\ IF task[t].op_timer = 2 THEN GiveUp(t, StopTx(driver))
     ELSE IF ~IsReady(driver) THEN Wait(t)
     ELSE /\ Call(t, StartRx(driver, AnswerLength(t)))
          /\ Set(t, [task[t] EXCEPT !.stage = "process", !.op_timer = 0])
          /\ GoOn("process")
          /\ Local

WrongPcaProcess(t) ==       \* variant: a wait without a timeout
  /\ At(t, "process")
  /\ IF ~Enough(t) THEN Wait(t)
     ELSE /\ Call(t, Take(driver, AnswerLength(t)))
          /\ GoOn("load") /\ UNCHANGED task /\ Local

PcaProcess(t) ==
  /\ At(t, "process")
  /\ IF task[t].op_timer = 2 THEN GiveUp(t, StopTx(driver))
     ELSE IF ~Enough(t) THEN Wait(t)
     ELSE /\ Call(t, Take(driver, AnswerLength(t)))
          /\ GoOn("load") /\ UNCHANGED task /\ Local

PcaLoad(t) ==
  /\ At(t, "load")
  /\ NoCall /\ Local
  /\ IF task[t].index < Last[t]
     THEN /\ Set(t, [task[t] EXCEPT !.stage = "write", !.op_timer = 0, !.index = @ + 1])
          /\ Break
     ELSE Goto(t, "cancel") /\ GoOn("cancel")

PcaCancel(t) ==
  /\ At(t, "cancel")
  /\ Leave(t)
  /\ Set(t, [task[t] EXCEPT !.stage = "idle", !.task_timer = FALSE, !.sleeping = TRUE])
  /\ Break
  /\ UNCHANGED <<is_on, wants, converted, pin_changed>>

Pca9670 == \E t \in Board \cap {"pca9670"} :
  \/ PcaIdle(t) \/ PcaRequest(t) \/ PcaWrite(t) \/ PcaRead(t) \/ PcaProcess(t)
  \/ PcaLoad(t) \/ PcaCancel(t)

-----------------------------------------------------------------------------

\* The scheduler finds the task ready: get_state of each task.
Begin(t) ==
  /\ t \in Board
  /\ running = NoTask
  /\ \/ ~task[t].sleeping
     \/ task[t].task_timer
     \/ t = "pca9670" /\ pin_changed
  /\ Set(t, [task[t] EXCEPT !.sleeping = FALSE])
  /\ running' = t
  /\ label' = task[t].stage
  /\ NoCall /\ Local

Case == Sht31 \/ Ads1115 \/ Pca9670

Interrupt(d) ==
  /\ driver' = d
  /\ user' = NoTask
  /\ torn' = (torn \/ (label = "stop" /\ Available(d) > Available(driver)))
  /\ UNCHANGED <<mutex, task, is_on, wants, converted, pin_changed, running,
                 label, holder>>

TransferDone ==
  \/ driver.transfer = "tx" /\ Interrupt(IsrTxDone(driver))
  \/ driver.transfer = "address" /\ Interrupt(IsrAddress(driver))
  \/ driver.transfer = "rx" /\ Interrupt(IsrRxByte(driver))
  \/ driver.transfer \in {"last", "tail"} /\ Interrupt(IsrRxEnd(driver))

TransferFails ==
  \/ "nack" \in Fault /\ driver.transfer = "address" /\ Interrupt(IsrRxNack(driver))
  \/ "error" \in Fault /\ driver.transfer # "none" /\ Interrupt(IsrBusError(driver))

\* Time passes for a task's timers.
TaskTimer(t) ==
  /\ t \in Board
  /\ running = NoTask
  /\ ~task[t].task_timer
  /\ Set(t, [task[t] EXCEPT !.task_timer = TRUE])
  /\ NoCall /\ Local /\ UNCHANGED <<running, label>>

OpTimer(t) ==
  /\ t \in Board
  /\ running = NoTask
  /\ task[t].op_timer < 2
  /\ Set(t, [task[t] EXCEPT !.op_timer = @ + 1])
  /\ NoCall /\ Local /\ UNCHANGED <<running, label>>

\* PowerManagement, as its clients see it.
Power ==
  /\ running = NoTask
  /\ is_on # (wants # {})
  /\ is_on' = ~is_on
  /\ user' = NoTask
  /\ UNCHANGED <<mutex, driver, task, wants, converted, pin_changed, torn, running,
                 label, holder>>

Convert ==
  /\ ~converted
  /\ converted' = TRUE
  /\ user' = NoTask
  /\ UNCHANGED <<mutex, driver, task, is_on, wants, pin_changed, torn, running, label,
                 holder>>

\* pca9670_set_state and pca9670_set_direction
ChangePin ==
  /\ "pca9670" \in Board
  /\ running = NoTask
  /\ ~pin_changed
  /\ pin_changed' = TRUE
  /\ user' = NoTask
  /\ UNCHANGED <<mutex, driver, task, is_on, wants, converted, torn, running, label,
                 holder>>

Next ==
  \/ Case
  \/ TransferDone \/ TransferFails
  \/ Power \/ Convert \/ ChangePin
  \/ \E t \in Board : Begin(t) \/ TaskTimer(t) \/ OpTimer(t)

Spec == Init /\ [][Next]_vars

\* run() does not block; the scheduler comes back to a task that is awake
\* (TaskController!ReadyTasksRun); a transfer ends; time passes.
FairSpec ==
  /\ Spec
  /\ WF_vars(Case)
  /\ WF_vars(TransferDone \/ TransferFails)
  /\ LET t == "pca9670" IN
       SF_vars(Begin(t)) /\ SF_vars(TaskTimer(t)) /\ SF_vars(OpTimer(t))

-----------------------------------------------------------------------------

\* "Creats a mutex to use for critical program-sections" (local_mutex.h:45):
\* a task calls the driver only while it holds the mutex of the driver, also
\* on the paths where a wait has timed out.
OnlyHolderDrives ==
  [][user' # NoTask => user' \in {holder, holder'}]_vars

\* A transfer that failed does not block the bus for the next task: when
\* nobody holds the mutex, no transfer is marked as active, whatever came in
\* before, after and between the calls of a wait that timed out. It fails when
\* a byte comes in between clear_rx_buffer and stop_rx of the ADS1115's task
\* (local_ads1115_mcu_task.c:277-279): that byte makes a later answer complete
\* before its last byte is there. Not promised for the PCA9670, whose timeouts
\* never call stop_rx (driver_PCA9670.c:425).
FreeMeansReady ==
  holder = NoTask /\ "pca9670" \notin Board /\ ~torn => IsReady(driver)

\* The IO expander's task gives the bus back, whatever goes wrong on it. Not
\* promised for the ADS1115, whose wait for the configuration to be written
\* has no timeout (local_ads1115_mcu_task.c:253).
BusComesBack == holder = "pca9670" ~> holder # "pca9670"

\* The bytes a sensor's task takes for its answer were read for it: nothing a
\* read before left behind is in front of them, although start_rx does not
\* empty the receive buffer (i2c0_driver_atmega1284p.c:318-342), a transfer goes
\* on for a byte after its read is done, and that byte is kept when the next
\* read was started meanwhile (556-565). With the exception of FreeMeansReady;
\* not promised for the PCA9670, which reads on without emptying the buffer
\* (driver_PCA9670.c:413).
AnswerIsOwn ==
  "pca9670" \notin Board => \A t \in Board :
    running = t /\ label \in {"poll", "process"} /\ Enough(t) /\ ~torn
      => driver.old = 0

\* "Waiting for power-management" (local_sht31_mcu_task.c:200): no command
\* is sent to the sensor before its supply is on.
TalksToPoweredSensor ==
  [][user' = "sht31" /\ driver'.transfer = "tx" /\ driver.transfer # "tx" => is_on]_vars

=============================================================================
