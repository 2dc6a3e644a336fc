----------------------------- MODULE TaskScheduler -----------------------------
(***************************************************************************)
(* The scheduler of the daemon: the tick, manual runs, catch-up at start,  *)
(* configuration reloads, sleeping tasks, handlers that outlive their      *)
(* timeout, and the watcher that hot-loads job files.  Runs are counted    *)
(* per task name: "live" on the object the map holds, "detached" on one    *)
(* that was removed or replaced, "late" for handlers past their timeout.   *)
(***************************************************************************)
EXTENDS Naturals, FiniteSets

CONSTANTS
    Core,          \* tasks of the configuration
    Jobs,          \* hot-loaded tasks, one per file
    CronTasks,     \* tasks with a cron schedule, the others have an interval
    Subprocesses,  \* core tasks with a command and no handler
    SessionTasks,  \* requires_session
    IdleTasks,     \* idle_only
    Versions,      \* contents a job file can have
    Broken,        \* contents that do not load
    MaxRuns, MaxOps

ASSUME SchedulerAssumption == Core \cap Jobs = {} /\ Broken \subseteq Versions /\ MaxRuns \in Nat

Names == Core \cup Jobs
NoFile == "none"

VARIABLES
    config,    \* scheduler.tasks of the configuration file
    task,      \* _tasks
    runs,      \* executions in progress
    asleep,    \* _sleepUntil, not yet over
    started,
    session,   \* the comms session exists
    idle,      \* no human activity within idle_after_ms
    files,     \* the scheduled-jobs directory
    handler,   \* _handlers of the jobs: the version registered
    pending,   \* debounce timers
    loads,     \* imports in flight
    excused,   \* tasks run by hand while running, removed while running or timed out
    crossed,   \* jobs whose load met another event or a reload of the configuration
    ops

schedVars == <<config, task, runs, asleep, started, session, idle, files, handler,
               pending, loads, excused, crossed, ops>>
jobVars == <<files, handler, pending, loads, crossed>>
envVars == <<config, session, idle>>

NoTask == [here |-> FALSE, enabled |-> FALSE, running |-> FALSE, next |-> "null"]
NoRuns == [live |-> 0, detached |-> 0, late |-> 0]

(* _calculateNextRun: null, or a time that has not come. *)
CalculateNextRun(enabled) == IF enabled THEN "later" ELSE "null"

(* _parseTask; nextRunAt is set by start, addTask and reload. *)
ParseTask(enabled, running_scheduler) ==
    [here |-> TRUE, enabled |-> enabled, running |-> FALSE,
     next |-> IF running_scheduler THEN CalculateNextRun(enabled) ELSE "null"]

Configured(c) == [n \in Names |-> IF n \in Core /\ c[n] # "absent"
                                  THEN ParseTask(c[n] = "on", FALSE) ELSE NoTask]

SchedInit ==
    /\ config \in [Core -> {"on", "off"}]
    /\ task = Configured(config)
    /\ runs = [n \in Names |-> NoRuns]
    /\ asleep = {} /\ started = FALSE /\ session = TRUE /\ idle = TRUE
    /\ files = [j \in Jobs |-> NoFile] /\ handler = [j \in Jobs |-> NoFile]
    /\ pending = {} /\ loads = {} /\ excused = {} /\ crossed = {} /\ ops = 0

SchedOp == ops < MaxOps /\ ops' = ops + 1
Executing(n) == runs[n].live + runs[n].detached + runs[n].late

-----------------------------------------------------------------------------
(* _runTask: without its session a task is skipped, which changes nothing, *)
(* nextRunAt included; otherwise it runs until FinishRun.                  *)
CanRun(n) == /\ n \in SessionTasks => session
             /\ Executing(n) < MaxRuns

RunTask(n) ==
    /\ task' = [task EXCEPT ![n].running = TRUE]
    /\ runs' = [runs EXCEPT ![n].live = @ + 1]

(* _detectAndFireCatchUp: lastRunAt is null in a new process, so every     *)
(* cron task with an occurrence in the last two hours runs.                *)
CatchUp(n) == n \in CronTasks /\ task[n].enabled /\ CanRun(n)

StartScheduler ==
    /\ ~started
    /\ started' = TRUE
    /\ \E missed \in SUBSET {n \in Names : CatchUp(n)} :
          /\ task' = [n \in Names |-> [task[n] EXCEPT !.next = CalculateNextRun(task[n].enabled),
                                                      !.running = n \in missed]]
          /\ runs' = [n \in Names |-> [runs[n] EXCEPT !.live = IF n \in missed THEN 1 ELSE 0]]
    /\ loads' = {[job |-> j, version |-> files[j]] : j \in {i \in Jobs : files[i] # NoFile}}
    /\ UNCHANGED <<asleep, files, handler, pending, excused, crossed, ops>>
    /\ UNCHANGED envVars

TimePasses(n) ==
    /\ started /\ task[n].next = "later"
    /\ task' = [task EXCEPT ![n].next = "past"]
    /\ UNCHANGED <<runs, asleep, started, excused, ops>>
    /\ UNCHANGED jobVars /\ UNCHANGED envVars

\* Mutant: the tick does not look at the running flag.
TickTaskUnaware(n) ==
    /\ started /\ task[n].enabled /\ task[n].next = "past"
    /\ n \notin asleep /\ n \notin IdleTasks
    /\ CanRun(n)
    /\ RunTask(n)
    /\ UNCHANGED <<asleep, started, excused, ops>>
    /\ UNCHANGED jobVars /\ UNCHANGED envVars

(* One task of one _tick. *)
TickTask(n) ==
    /\ started /\ task[n].enabled /\ ~task[n].running /\ task[n].next = "past"
    /\ n \notin asleep
    /\ n \in IdleTasks => idle
    /\ CanRun(n)
    /\ RunTask(n)
    /\ UNCHANGED <<asleep, started, excused, ops>>
    /\ UNCHANGED jobVars /\ UNCHANGED envVars

(* POST /api/scheduler/tasks/:name/run: neither the schedule, the sleep    *)
(* nor the running flag is looked at.                                      *)
TriggerTask(n) ==
    /\ SchedOp
    /\ task[n].here /\ CanRun(n)
    /\ RunTask(n)
    /\ excused' = IF Executing(n) > 0 THEN excused \cup {n} ELSE excused
    /\ UNCHANGED <<asleep, started>>
    /\ UNCHANGED jobVars /\ UNCHANGED envVars

(* The end of _runTask, whatever the outcome: the first of two overlapping *)
(* runs to end clears the flag for both.                                   *)
Finished(n) == [task[n] EXCEPT !.running = FALSE, !.next = CalculateNextRun(task[n].enabled)]

(* A handler that returned or threw, a subprocess that ended or was killed *)
(* at its timeout, a task with neither.                                    *)
FinishRun(n) ==
    /\ runs[n].live > 0
    /\ runs' = [runs EXCEPT ![n].live = @ - 1]
    /\ task' = [task EXCEPT ![n] = Finished(n)]
    /\ UNCHANGED <<asleep, started, excused, ops>>
    /\ UNCHANGED jobVars /\ UNCHANGED envVars

(* _runInProcess: the race is lost, the handler goes on. *)
HandlerTimesOut(n) ==
    /\ runs[n].live > 0 /\ n \notin Subprocesses
    /\ runs' = [runs EXCEPT ![n].live = @ - 1, ![n].late = @ + 1]
    /\ task' = [task EXCEPT ![n] = Finished(n)]
    /\ excused' = excused \cup {n}
    /\ UNCHANGED <<asleep, started, ops>>
    /\ UNCHANGED jobVars /\ UNCHANGED envVars

StrayRunEnds(n) ==
    /\ \/ runs[n].late > 0 /\ runs' = [runs EXCEPT ![n].late = @ - 1]
       \/ runs[n].detached > 0 /\ runs' = [runs EXCEPT ![n].detached = @ - 1]
    /\ UNCHANGED <<task, asleep, started, excused, ops>>
    /\ UNCHANGED jobVars /\ UNCHANGED envVars

-----------------------------------------------------------------------------
Detached(n) == [runs[n] EXCEPT !.live = 0, !.detached = @ + runs[n].live]

(* reload: a running task keeps its object, any other is built anew.       *)
Reloaded(n, c) ==
    IF c[n] = "absent" THEN NoTask
    ELSE IF task[n].here /\ task[n].running THEN [task[n] EXCEPT !.enabled = (c[n] = "on")]
    ELSE ParseTask(c[n] = "on", started)

(* onConfigChange: the tasks of the new configuration are all there is;    *)
(* hot-loaded tasks go, their handlers stay.                               *)
Reload(c) ==
    LET kept == {n \in Core : task[n].running /\ c[n] # "absent"} IN
    /\ SchedOp
    /\ config' = c
    /\ task' = [n \in Names |-> IF n \in Core THEN Reloaded(n, c) ELSE NoTask]
    /\ runs' = [n \in Names |-> IF n \in kept THEN runs[n] ELSE Detached(n)]
    /\ excused' = excused \cup {n \in Names \ kept : runs[n].live > 0}
    /\ crossed' = crossed \cup Jobs
    /\ UNCHANGED <<asleep, started, session, idle, files, handler, pending, loads>>

(* sleep and wake; the sleep is kept by name and survives the task. *)
SleepTask(n) ==
    /\ SchedOp
    /\ task[n].here
    /\ asleep' = asleep \cup {n}
    /\ UNCHANGED <<task, runs, started, excused>>
    /\ UNCHANGED jobVars /\ UNCHANGED envVars

WakeTask(n) ==
    /\ n \in asleep
    /\ asleep' = asleep \ {n}
    /\ UNCHANGED <<task, runs, started, excused, ops>>
    /\ UNCHANGED jobVars /\ UNCHANGED envVars

-----------------------------------------------------------------------------
(* The jobs watcher. *)

FileChanges(j, v) ==
    /\ SchedOp
    /\ v # files[j]
    /\ files' = [files EXCEPT ![j] = v]
    /\ pending' = IF started THEN pending \cup {j} ELSE pending
    /\ UNCHANGED <<task, runs, asleep, started, handler, loads, excused, crossed>>
    /\ UNCHANGED envVars

(* removeTask: the task and its handler. *)
RemoveTask(j) ==
    /\ task' = [task EXCEPT ![j] = NoTask]
    /\ handler' = [handler EXCEPT ![j] = NoFile]
    /\ runs' = [runs EXCEPT ![j] = Detached(j)]
    /\ excused' = IF runs[j].live > 0 THEN excused \cup {j} ELSE excused

Loading(j) == \E l \in loads : l.job = j
Crossed(j) == IF Loading(j) THEN crossed \cup {j} ELSE crossed \ {j}

(* _handleChange up to the import. *)
HandleChange(j) ==
    \/ handler[j] # NoFile /\ RemoveTask(j)
    \/ handler[j] = NoFile /\ UNCHANGED <<task, handler, runs, excused>>

(* The debounced callback looks at the file, not at the event. *)
FileEvent(j) ==
    /\ j \in pending
    /\ pending' = pending \ {j}
    /\ \/ /\ files[j] # NoFile
          /\ HandleChange(j)
          /\ loads' = loads \cup {[job |-> j, version |-> files[j]]}
       \/ files[j] = NoFile /\ RemoveTask(j) /\ UNCHANGED loads
    /\ crossed' = Crossed(j)
    /\ UNCHANGED <<asleep, started, files, ops>>
    /\ UNCHANGED envVars

(* addTask does nothing when the name is taken; registerHandler replaces.  *)
AddTask(j, v) ==
    /\ task' = [task EXCEPT ![j] = IF @.here THEN @ ELSE ParseTask(TRUE, started)]
    /\ handler' = [handler EXCEPT ![j] = v]

(* loadSingleFile after the import. *)
LoadReturns(l) ==
    /\ l \in loads
    /\ loads' = loads \ {l}
    /\ \/ l.version \notin Broken /\ AddTask(l.job, l.version)
       \/ l.version \in Broken /\ UNCHANGED <<task, handler>>
    /\ UNCHANGED <<runs, asleep, started, files, pending, excused, crossed, ops>>
    /\ UNCHANGED envVars

SessionComesOrGoes ==
    /\ SchedOp
    /\ \/ session' = ~session /\ UNCHANGED idle
       \/ idle' = ~idle /\ UNCHANGED session
    /\ UNCHANGED <<config, task, runs, asleep, started, excused>>
    /\ UNCHANGED jobVars

SchedRestart ==
    /\ SchedOp
    /\ task' = Configured(config)
    /\ runs' = [n \in Names |-> NoRuns]
    /\ asleep' = {} /\ started' = FALSE
    /\ handler' = [j \in Jobs |-> NoFile]
    /\ pending' = {} /\ loads' = {} /\ excused' = {} /\ crossed' = {}
    /\ UNCHANGED <<files>>
    /\ UNCHANGED envVars

-----------------------------------------------------------------------------
TaskStep(n) ==
    \/ TimePasses(n) \/ TickTask(n) \/ TriggerTask(n) \/ FinishRun(n) \/ HandlerTimesOut(n)
    \/ StrayRunEnds(n) \/ SleepTask(n) \/ WakeTask(n)

SchedNext ==
    \/ StartScheduler \/ SessionComesOrGoes \/ SchedRestart
    \/ \E n \in Names : TaskStep(n)
    \/ \E c \in [Core -> {"on", "off", "absent"}] : Reload(c)
    \/ \E j \in Jobs : FileEvent(j) \/ \E v \in Versions \cup {NoFile} : FileChanges(j, v)
    \/ \E l \in loads : LoadReturns(l)

(* The tick timer fires every second, every run ends (both kinds have a    *)
(* timeout), every sleep is at most four hours long.                       *)
SchedProgress(n) == TickTask(n) \/ FinishRun(n) \/ StrayRunEnds(n) \/ WakeTask(n)

-----------------------------------------------------------------------------
(* The types of the state; the only type invariant of this module. *)
SchedTypeOK ==
    /\ config \in [Core -> {"on", "off", "absent"}]
    /\ task \in [Names -> [here : BOOLEAN, enabled : BOOLEAN, running : BOOLEAN,
                           next : {"null", "later", "past"}]]
    /\ runs \in [Names -> [live : 0 .. MaxRuns, detached : 0 .. MaxRuns, late : 0 .. MaxRuns]]
    /\ asleep \subseteq Names /\ started \in BOOLEAN /\ session \in BOOLEAN /\ idle \in BOOLEAN
    /\ files \in [Jobs -> Versions \cup {NoFile}] /\ handler \in [Jobs -> Versions \cup {NoFile}]
    /\ pending \subseteq Jobs /\ loads \subseteq [job : Jobs, version : Versions]
    /\ excused \subseteq Names /\ crossed \subseteq Jobs /\ ops \in 0 .. MaxOps

(* The scheduler never has two executions of a task going, not even over a *)
(* reload of the configuration, unless someone ran it by hand meanwhile, a *)
(* handler outlived its timeout or the running task was taken away.        *)
OneRunAtATime == \A n \in Names \ excused : Executing(n) <= 1

(* A task marked running has a run that will clear the mark: no task is    *)
(* silently off the schedule for good.                                     *)
RunningHasRun == \A n \in Names : task[n].running => runs[n].live > 0

(* When the watcher is at rest, exactly the loadable files are scheduled,  *)
(* with the handler of their present contents, unless two events of one    *)
(* file crossed or a configuration reload dropped the hot-loaded tasks.    *)
JobFollowsFile ==
    \A j \in Jobs \ (crossed \cup pending) : started /\ ~Loading(j) =>
        IF files[j] = NoFile \/ files[j] \in Broken THEN ~task[j].here
        ELSE task[j].here /\ handler[j] = files[j]

(* A due task runs: it does not stay due while the tick goes on, whatever  *)
(* sleeps, manual runs, failures and reloads happen, as long as it needs   *)
(* neither a session nor a quiet human.                                    *)
DueTaskRuns ==
    \A n \in Names \ (SessionTasks \cup IdleTasks) :
        (task[n].enabled /\ task[n].next = "past") ~> (task[n].next # "past" \/ ~task[n].enabled)

(* What holds of the schedule in every state. *)
ScheduleIsSound == SchedTypeOK /\ OneRunAtATime /\ RunningHasRun /\ JobFollowsFile

(* A due task runs, once at a time, and the hot-loaded tasks are those of  *)
(* the job files.                                                          *)
SchedulerKeepsTime == ScheduleIsSound /\ [][ScheduleIsSound']_schedVars /\ DueTaskRuns
=============================================================================
