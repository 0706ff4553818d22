------------------------------ MODULE HostLog -------------------------------
(***************************************************************************)
(* The start-up of the Raspberry Pi's program and its log:                 *)
(* cfg_file_parser.c waits for a configuration file, or until its time is  *)
(* up, sends the objects of the file and says that the configuration is    *)
(* complete; log_interface.c learns from it where the log file is, and     *)
(* writes the queued lines, one in each turn, through file_interface.c.    *)
(*                                                                         *)
(* A file is known by the directory for the log that it names.  The disk   *)
(* may be away when the log file is opened, but not while it is written: a *)
(* line that cannot be appended is lost without a sign.                    *)
(***************************************************************************)
EXTENDS Integers, Sequences

CONSTANTS
  Directory,       \* directories a configuration file may name
  LogQueueSize,    \* LOG_INTERFACE_QEUE_SIZE
  MaxCfgFiles,     \* bound: paths of configuration files given in a behaviour
  MaxLogLines,     \* bound: calls of log_message
  MaxDiskLosses    \* bound: how often the disk goes

ASSUME LogAssumption ==
  /\ "default" \notin Directory
  /\ LogQueueSize \in Nat \ {0}
  /\ {MaxCfgFiles, MaxLogLines, MaxDiskLosses} \subseteq Nat

VARIABLES
  parser,    \* app_task_state, status bits, timer and path of cfg_file_parser.c
  logger,    \* app_task_state, status bits, queue, timer and path of log_interface.c
  logged,    \* the lines on the disk, each with its directory
  logpast    \* history: paths given, calls of log_message, drops, the disk

logvars == <<parser, logger, logged, logpast>>

\* A file that cannot be opened, one without an entry for the log, one with.
CfgFile == {"missing", "other"} \cup Directory
Mark == 0                \* LOG_INTERFACE_QEUE_OVERFLOW_MESSAGE among the lines

\* Without an entry the path is empty: the current directory.
LogInit ==
  /\ parser = [state |-> "IDLE", new |-> FALSE, path |-> "missing", timer |-> "runs"]
  /\ logger = [ state |-> "START_UP", overflow |-> FALSE, complete |-> FALSE,
                path |-> "default", queue |-> <<>>, up |-> FALSE ]
  /\ logged = <<>>
  /\ logpast = [given |-> 0, lines |-> 0, drops |-> {}, disk |-> TRUE, losses |-> 0]

-----------------------------------------------------------------------------
(* The configuration *)

\* cfg_file_parser_CFG_FILE_SLOT_CALLBACK: a path that was not looked at yet is
\* replaced.
CfgFileGiven(f) ==
  /\ logpast.given < MaxCfgFiles
  /\ parser' = [parser EXCEPT !.new = TRUE, !.path = f]
  /\ logpast' = [logpast EXCEPT !.given = @ + 1]
  /\ UNCHANGED <<logger, logged>>

CfgTimeUp ==
  /\ parser.timer = "runs"
  /\ parser' = [parser EXCEPT !.timer = "up"]
  /\ UNCHANGED <<logger, logged, logpast>>

\* The slot of the log: the entry counts before the first completion only.
WrongObjectSent(f) ==        \* variant: it always counts
  logger' = IF f \in Directory THEN [logger EXCEPT !.path = f] ELSE logger
ObjectSent(f) ==
  logger' = IF f \in Directory /\ ~logger.complete THEN [logger EXCEPT !.path = f]
            ELSE logger

\* OPEN_FILE falls into LOAD_CONFIGURATION: every object of the file is sent; a
\* file that cannot be opened is passed over.
CfgOpen(p) ==
  /\ parser' = [p EXCEPT !.state = "SIGNAL_COMPLETE"]
  /\ ObjectSent(p.path)

\* The time that is up is looked at before the file that was given.
CfgIdle ==
  /\ parser.state = "IDLE"
  /\ IF parser.timer = "up"
     THEN parser' = [parser EXCEPT !.state = "SIGNAL_COMPLETE"] /\ UNCHANGED logger
     ELSE parser.new /\ CfgOpen([parser EXCEPT !.new = FALSE])
  /\ UNCHANGED <<logged, logpast>>

CfgOpenFile ==
  /\ parser.state = "OPEN_FILE"
  /\ CfgOpen(parser)
  /\ UNCHANGED <<logged, logpast>>

CfgSignalComplete ==
  /\ parser.state = "SIGNAL_COMPLETE"
  /\ parser' = [parser EXCEPT !.state = "WAIT_FOR_FILE", !.timer = "off"]
  /\ logger' = [logger EXCEPT !.complete = TRUE]
  /\ UNCHANGED <<logged, logpast>>

CfgWaitForFile ==
  /\ parser.state = "WAIT_FOR_FILE" /\ parser.new
  /\ parser' = [parser EXCEPT !.state = "OPEN_FILE", !.new = FALSE]
  /\ UNCHANGED <<logger, logged, logpast>>

CfgTask == CfgIdle \/ CfgOpenFile \/ CfgSignalComplete \/ CfgWaitForFile

-----------------------------------------------------------------------------
(* The log *)

\* log_message: a line that finds the queue full is dropped, and its place kept.
LogMessage ==
  /\ logpast.lines < MaxLogLines
  /\ IF Len(logger.queue) = LogQueueSize
     THEN /\ logger' = [logger EXCEPT !.overflow = TRUE]
          /\ logpast' = [logpast EXCEPT !.lines = @ + 1, !.drops = @ \cup {Len(logged)}]
     ELSE /\ logger' = [logger EXCEPT !.queue = Append(@, logpast.lines + 1)]
          /\ logpast' = [logpast EXCEPT !.lines = @ + 1]
  /\ UNCHANGED <<parser, logged>>

LogStartUp ==
  /\ logger.state = "START_UP" /\ logger.complete
  /\ logger' = [logger EXCEPT !.state = "IDLE"]
  /\ UNCHANGED <<parser, logged, logpast>>

\* IDLE falls into CHECK_FILE, which looks for a file of today that is not too
\* long; the next turn opens it.
LogIdle ==
  /\ logger.state = "IDLE" /\ logger.queue # <<>>
  /\ logger' = [logger EXCEPT !.state = "OPEN_FILE"]
  /\ UNCHANGED <<parser, logged, logpast>>

\* log_interface_process_qeue: the next line, then the mark of an overflow; the
\* file is closed when the queue is empty.
ProcessQeue(l) ==
  LET on(line) == [line |-> line, to |-> l.path] IN
    /\ logged' = logged \o <<on(Head(l.queue))>>
                        \o (IF l.overflow THEN <<on(Mark)>> ELSE <<>>)
    /\ logger' = [l EXCEPT !.queue = Tail(@), !.overflow = FALSE,
                           !.state = IF Len(l.queue) = 1 THEN "CLOSE_FILE" ELSE "WRITE_LOG"]

LogOpenFile ==
  /\ logger.state = "OPEN_FILE"
  /\ IF logpast.disk THEN ProcessQeue([logger EXCEPT !.state = "WRITE_LOG"])
     ELSE /\ logger' = [logger EXCEPT !.state = "SLEEP", !.up = FALSE]
          /\ UNCHANGED logged
  /\ UNCHANGED <<parser, logpast>>

LogWrite ==
  /\ logger.state = "WRITE_LOG"
  /\ ProcessQeue(logger)
  /\ UNCHANGED <<parser, logpast>>

LogCloseFile ==
  /\ logger.state = "CLOSE_FILE"
  /\ logger' = [logger EXCEPT !.state = "IDLE"]
  /\ UNCHANGED <<parser, logged, logpast>>

WrongLogSleep ==             \* variant: the task sleeps on
  /\ logger.state = "SLEEP" /\ logger.up
  /\ logger' = [logger EXCEPT !.up = FALSE]
  /\ UNCHANGED <<parser, logged, logpast>>

LogSleep ==
  /\ logger.state = "SLEEP" /\ logger.up
  /\ logger' = [logger EXCEPT !.state = "IDLE"]
  /\ UNCHANGED <<parser, logged, logpast>>

LogTimeUp ==
  /\ logger.state = "SLEEP" /\ ~logger.up
  /\ logger' = [logger EXCEPT !.up = TRUE]
  /\ UNCHANGED <<parser, logged, logpast>>

LogTask == LogStartUp \/ LogIdle \/ LogOpenFile \/ LogWrite \/ LogCloseFile \/ LogSleep

DiskGoes ==
  /\ logpast.disk /\ logpast.losses < MaxDiskLosses /\ logger.state # "WRITE_LOG"
  /\ logpast' = [logpast EXCEPT !.disk = FALSE, !.losses = @ + 1]
  /\ UNCHANGED <<parser, logger, logged>>
DiskComesBack ==
  /\ ~logpast.disk
  /\ logpast' = [logpast EXCEPT !.disk = TRUE]
  /\ UNCHANGED <<parser, logger, logged>>

LogNext ==
  \/ \E f \in CfgFile : CfgFileGiven(f)
  \/ CfgTimeUp \/ CfgTask \/ LogMessage \/ LogTask \/ LogTimeUp
  \/ DiskGoes \/ DiskComesBack

\* The start-up on its own; BoardDevices runs it as one of its images.
LogSpec == LogInit /\ [][LogNext]_logvars

-----------------------------------------------------------------------------
(* Properties *)

\* The log stays in one directory, whatever files are given after the start-up,
\* its lines are in the order of the calls of log_message, and behind each that
\* was dropped the mark of an overflow is written, once the flag is off.
LogIsHonest ==
  /\ \A i, j \in 1 .. Len(logged) :
       /\ logged[i].to = logged[j].to
       /\ i < j /\ Mark \notin {logged[i].line, logged[j].line}
            => logged[i].line < logged[j].line
  /\ ~logger.overflow =>
       \A d \in logpast.drops : \E j \in d + 1 .. Len(logged) : logged[j].line = Mark

\* Whatever becomes of the configuration, the log starts up, and the lines it
\* took reach the disk, which comes back when it went.
LinesGetWritten == []<>(logger.queue = <<>>)
=============================================================================
