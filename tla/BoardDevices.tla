---------------------------- MODULE BoardDevices ----------------------------
(***************************************************************************)
(* The local devices and services the framework offers to a program. An    *)
(* image is linked with the modules its make file names, and none of these *)
(* knows another: each image here runs one of them, and the variables of   *)
(* the others stay as they are.                                            *)
(***************************************************************************)
EXTENDS Infrared, Panel, Movement, MsgRing, BoardIo, TraceLink, HostLog, SensorHistory

VARIABLE image   \* the module this firmware is built with

vars == <<image, irvars, panelvars, movevars, ringvars, iovars, tracevars, logvars,
          sensevars>>

InfraredRuns(A) ==
  image = "infrared" /\ A
  /\ UNCHANGED <<image, panelvars, movevars, ringvars, iovars, tracevars,
                  logvars, sensevars>>
PanelRuns(A) ==
  image = "panel" /\ A
  /\ UNCHANGED <<image, irvars, movevars, ringvars, iovars, tracevars,
                  logvars, sensevars>>
DetectorRuns(A) ==
  image = "detector" /\ A
  /\ UNCHANGED <<image, irvars, panelvars, ringvars, iovars, tracevars,
                  logvars, sensevars>>
SerialRuns(A) ==
  image = "serial" /\ A
  /\ UNCHANGED <<image, irvars, panelvars, movevars, iovars, tracevars,
                  logvars, sensevars>>
PinsRun(A) ==
  image = "pins" /\ A
  /\ UNCHANGED <<image, irvars, panelvars, movevars, ringvars, tracevars,
                  logvars, sensevars>>
TracesRun(A) ==
  image = "traces" /\ A
  /\ UNCHANGED <<image, irvars, panelvars, movevars, ringvars, iovars,
                  logvars, sensevars>>
LogRuns(A) ==
  image = "log" /\ A
  /\ UNCHANGED <<image, irvars, panelvars, movevars, ringvars, iovars,
                  tracevars, sensevars>>
SensorRuns(A) ==
  image = "sensor" /\ A
  /\ UNCHANGED <<image, irvars, panelvars, movevars, ringvars, iovars,
                  tracevars, logvars>>

\* The settings of a module matter to its own image only.
Init ==
  /\ image \in {"infrared", "panel", "detector", "serial", "pins", "traces", "log",
               "sensor"}
  /\ IrInit /\ PanelInit /\ MoveInit /\ RingInit /\ IoInit /\ TraceInit /\ LogInit
  /\ SenseInit
  /\ image # "infrared" => irtask.installed = IrProtocol
  /\ image # "panel" => lcd.smooth
  /\ image # "traces" => rx = <<>>
  /\ image # "sensor" => sensed.sensor = "light"

Next ==
  \/ InfraredRuns(IrNext) \/ PanelRuns(PanelNext) \/ DetectorRuns(MoveNext)
  \/ SerialRuns(RingNext) \/ PinsRun(IoNext) \/ TracesRun(TraceNext) \/ LogRuns(LogNext)
  \/ SensorRuns(SenseNext)

\* The tasks of an image are scheduled again and again, its modulation timer
\* keeps running, a timer that was started gets up, and a disk comes back. An
\* image stays what it is, so one condition speaks for one step of each.
Fairness ==
  /\ WF_vars(InfraredRuns(IrTask) \/ PanelRuns(LcdTask) \/ DetectorRuns(MoveTask)
             \/ PinsRun(OutputRun) \/ LogRuns(LogTask))
  /\ WF_vars(InfraredRuns(ModulationInterrupt) \/ PanelRuns(KeypadIdle \/ KeypadGetKeys)
             \/ PinsRun(EventRun) \/ LogRuns(CfgTask))
  /\ WF_vars(PanelRuns(SendLines) \/ PinsRun(OutputTimeOver) \/ LogRuns(LogTimeUp))
  /\ WF_vars(PinsRun(EventTimeOver) \/ LogRuns(CfgTimeUp))
  /\ WF_vars(PinsRun(EventAges) \/ LogRuns(DiskComesBack))

Spec == Init /\ [][Next]_vars /\ Fairness
=============================================================================
