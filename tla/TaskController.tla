--------------------------- MODULE TaskController ---------------------------
(***************************************************************************)
(* mcu_task_management/mcu_task_controller.c: the cooperative scheduler    *)
(* every other component runs on.  Tasks are kept in a list; a round of    *)
(* mcu_task_controller_schedule visits them one after the other, runs the  *)
(* ones whose interval has passed and that do not sleep, and lets the CPU  *)
(* sleep when none of those it ran stayed awake.                           *)
(*                                                                         *)
(* What a task does in run() is up to its module: it leaves the task in    *)
(* any state.  Interrupts, the MQTT thread and the signals of other tasks  *)
(* wake a task at any moment.  A task answers 0 for its interval while it  *)
(* has work if it is Eager (the LCD, IR and log tasks do).                 *)
(***************************************************************************)
EXTENDS Naturals, Sequences, SequencesExt

CONSTANTS
  Task, NoTask,
  Eager,          \* the tasks that ask for no interval while they have work
  Interval,       \* [Task -> Nat]: get_schedule_interval of each
  Priority,       \* [Task -> Nat]: the priority of TASK_CREATE, 0 is highest
  ClockRange,     \* values of i_system.time.now_u16(), 2^16 in the code
  MaxRound        \* bound: ticks a round may take

ASSUME ControllerAssumption ==
  /\ NoTask \notin Task
  /\ Eager \subseteq Task
  /\ ClockRange \in Nat \ {0}
  /\ Interval \in [Task -> 1 .. ClockRange - 1]
  /\ Priority \in [Task -> Nat]
  /\ MaxRound \in Nat \ {0}
  \* A round and its neighbour take less time than the clock can measure.
  /\ \A t \in Task : Interval[t] + 2 * MaxRound < ClockRange

VARIABLES
  list,             \* the tasks from _first_task to _last_task
  act,              \* position of act_task in the list; 0 between two rounds
  state,            \* what get_sate of each task answers
  last_run_time, new_run_timeout,
  stay_awake,       \* system_is_on_idle = 0
  asleep,           \* the CPU is in its sleep mode
  now,              \* the clock
  lag,              \* ticks since the round began
  ran,              \* the task that the last step ran
  age,              \* ticks since last_run_time was taken
  excused           \* tasks that were not due when this round came to them, or
                    \* woke after that

vars == <<list, act, state, last_run_time, new_run_timeout, stay_awake, asleep,
          now, lag, ran, age, excused>>

State == {"sleeping", "idle", "running", "terminated"}

\* Bound of the model: longer ages are not told apart.
MaxAge == ClockRange

TypeOK ==
  /\ list \in Seq(Task)
  /\ act \in 0 .. Len(list) + 1
  /\ state \in [Task -> State]
  /\ last_run_time \in [Task -> 0 .. ClockRange - 1]
  /\ new_run_timeout \in [Task -> 0 .. ClockRange - 1]
  /\ stay_awake \in BOOLEAN
  /\ asleep \in BOOLEAN
  /\ now \in 0 .. ClockRange - 1
  /\ lag \in 0 .. MaxRound
  /\ ran \in Task \cup {NoTask}
  /\ age \in [Task -> 0 .. MaxAge]
  /\ excused \subseteq Task

Init ==
  /\ list = <<>>
  /\ act = 0
  /\ state = [t \in Task |-> "sleeping"]
  /\ last_run_time = [t \in Task |-> 0]
  /\ new_run_timeout = [t \in Task |-> 0]
  /\ stay_awake = FALSE
  /\ asleep = FALSE
  /\ now = 0
  /\ lag = 0
  /\ ran = NoTask
  /\ age = [t \in Task |-> 0]
  /\ excused = {}

\* get_schedule_interval; 0 is MCU_TASK_SCHEDULE_NO_TIMEOUT.
ScheduleInterval(t) ==
  IF t \in Eager /\ state[t] # "sleeping" THEN 0 ELSE Interval[t]

\* The difference of two u16 values of the clock.
Elapsed(t) == (now + ClockRange - last_run_time[t]) % ClockRange

\* _has_task_interval_passed
IntervalPassed(t) ==
  ScheduleInterval(t) = 0 \/ Elapsed(t) >= new_run_timeout[t]

-----------------------------------------------------------------------------

\* mcu_task_controller_register_task; main registers all tasks before the
\* first round, in the order it likes.
Register(t) ==
  /\ act = 0
  /\ ~Contains(list, t)
  /\ list' = Append(list, t)
  /\ last_run_time' = [last_run_time EXCEPT ![t] = now]
  /\ new_run_timeout' = [new_run_timeout EXCEPT ![t] = ScheduleInterval(t)]
  /\ age' = [age EXCEPT ![t] = 0]
  /\ ran' = NoTask
  /\ UNCHANGED <<act, state, stay_awake, asleep, now, lag, excused>>

AllRegistered == \A t \in Task : Contains(list, t)

\* mcu_task_controller_schedule is called.
BeginRound ==
  /\ act = 0 /\ ~asleep
  /\ AllRegistered
  /\ act' = 1
  /\ stay_awake' = FALSE
  /\ lag' = 0
  /\ ran' = NoTask
  /\ excused' = {}
  /\ UNCHANGED <<list, state, last_run_time, new_run_timeout, asleep, now, age>>

InRound(t) == act \in 1 .. Len(list) /\ list[act] = t

\* The interval is not over: SKIP_TASK_schedule.
WrongSkipNotDue(t) ==             \* variant: the time is noted all the same
  /\ InRound(t)
  /\ ~IntervalPassed(t)
  /\ act' = act + 1
  /\ ran' = NoTask
  /\ excused' = excused \cup {t}
  /\ last_run_time' = [last_run_time EXCEPT ![t] = now]
  /\ UNCHANGED <<list, state, new_run_timeout, stay_awake, asleep, now, lag, age>>

SkipNotDue(t) ==
  /\ InRound(t)
  /\ ~IntervalPassed(t)
  /\ act' = act + 1
  /\ ran' = NoTask
  /\ excused' = excused \cup {t}
  /\ UNCHANGED <<list, state, last_run_time, new_run_timeout, stay_awake, asleep,
                 now, lag, age>>

\* _update_last_run_time
UpdateLastRunTime(t) ==
  IF ScheduleInterval(t) = 0
  THEN UNCHANGED <<last_run_time, new_run_timeout, age>>
  ELSE /\ new_run_timeout' = [new_run_timeout EXCEPT ![t] = ScheduleInterval(t)]
       /\ last_run_time' = [last_run_time EXCEPT ![t] = now]
       /\ age' = [age EXCEPT ![t] = 0]

\* get_sate answers MCU_TASK_SLEEPING, after the time was noted.
SkipSleeping(t) ==
  /\ InRound(t)
  /\ IntervalPassed(t)
  /\ state[t] = "sleeping"
  /\ UpdateLastRunTime(t)
  /\ act' = act + 1
  /\ ran' = NoTask
  /\ UNCHANGED <<list, state, stay_awake, asleep, now, lag, excused>>

\* run(), and get_sate again afterwards.

\* Variant: a task that stays awake after its run is not looked at.
WrongRunOverwriting(t) ==
  /\ InRound(t)
  /\ IntervalPassed(t)
  /\ state[t] # "sleeping"
  /\ UpdateLastRunTime(t)
  /\ \E s \in State : state' = [state EXCEPT ![t] = s]
  /\ act' = act + 1
  /\ ran' = t
  /\ stay_awake' = (state'[t] # "sleeping")
  /\ UNCHANGED <<list, asleep, now, lag, excused>>

Run(t) ==
  /\ InRound(t)
  /\ IntervalPassed(t)
  /\ state[t] # "sleeping"
  /\ UpdateLastRunTime(t)
  /\ \E s \in State : state' = [state EXCEPT ![t] = s]
  /\ act' = act + 1
  /\ ran' = t
  /\ stay_awake' = (stay_awake \/ state'[t] # "sleeping")
  /\ UNCHANGED <<list, asleep, now, lag, excused>>

\* The end of schedule: IDLE_TASK_run puts the CPU to sleep.
EndRound ==
  /\ act = Len(list) + 1
  /\ act' = 0
  /\ asleep' = ~stay_awake
  /\ ran' = NoTask
  /\ UNCHANGED <<list, state, last_run_time, new_run_timeout, stay_awake, now,
                 lag, age, excused>>

\* An interrupt, a signal or another thread gives the task work; an interrupt
\* ends the sleep of the CPU.
Wake(t) ==
  /\ state[t] = "sleeping"
  /\ state' = [state EXCEPT ![t] = "running"]
  /\ asleep' = FALSE
  /\ ran' = NoTask
  /\ excused' = excused \cup {t}
  /\ UNCHANGED <<list, act, last_run_time, new_run_timeout, stay_awake, now, lag, age>>

\* The timer interrupt, and on the Pi the end of usleep, also end the sleep.
Tick ==
  /\ asleep \/ lag < MaxRound \/ ~AllRegistered
  /\ now' = (now + 1) % ClockRange
  /\ lag' = IF AllRegistered /\ ~asleep THEN lag + 1 ELSE lag
  /\ age' = [t \in Task |-> IF age[t] < MaxAge THEN age[t] + 1 ELSE age[t]]
  /\ asleep' = FALSE
  /\ ran' = NoTask
  /\ UNCHANGED <<list, act, state, last_run_time, new_run_timeout, stay_awake, excused>>

Schedule ==
  \/ BeginRound \/ EndRound
  \/ \E t \in Task : SkipNotDue(t) \/ SkipSleeping(t) \/ Run(t)

Next ==
  \/ Schedule
  \/ \E t \in Task : Register(t) \/ Wake(t)
  \/ Tick

Spec == Init /\ [][Next]_vars

\* main registers its tasks, then calls schedule in an endless loop, no task
\* blocks in run(), and the timer interrupt never stops.
FairSpec ==
  /\ Spec
  /\ WF_vars(Schedule)
  /\ WF_vars(Tick)
  /\ \A t \in Task : WF_vars(Register(t))

-----------------------------------------------------------------------------

\* A task that keeps its interval is not run before the interval is over,
\* although the time is taken with a clock that wraps and noted also for runs
\* that did not happen.
NotBeforeItsInterval ==
  [][\A t \in Task \ Eager : ran' = t => age[t] >= Interval[t]]_vars

\* A task that has work is run, whatever the other tasks do, even if it got
\* its work after the round had passed it and the CPU went to sleep.
ReadyTasksRun == \A t \in Task : []<>(ran = t \/ state[t] = "sleeping")

\* The CPU is not put to sleep over a task that is awake, unless that task had
\* its visit of the round before it woke or was not due then.
SleepsOverNoReadyTask ==
  asleep => \A t \in Task : state[t] # "sleeping" => t \in excused

\* "MCU_TASK_IDLE: The task is in sleep mode and will not be executed",
\* "MCU_TASK_TERMINATED: The task is terminated and cannot executed anymore"
\* (mcu_task_interface.h:218-223).
OnlyRunningTasksRun ==
  [][\A t \in Task : ran' = t /\ ran # t => state[t] = "running"]_vars

\* "The task is added to tha current list of tasks in order of its priority"
\* (mcu_task_interface.h:295).
ListInOrderOfPriority ==
  \A i, j \in 1 .. Len(list) :
    i < j => Priority[list[i]] <= Priority[list[j]]

=============================================================================
