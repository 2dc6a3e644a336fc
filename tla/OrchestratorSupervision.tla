----------------------- MODULE OrchestratorSupervision -----------------------
(***************************************************************************)
(* Who starts and who kills the orchestrator's tmux session, and what that *)
(* does to its tasks: the escalate and shutdown handlers of                *)
(* api/orchestrator.ts, the idle monitor of                                *)
(* automation/tasks/orchestrator-idle.ts, the wedge detector of            *)
(* context-watchdog.ts, orch-stale-task-recovery.ts and the boot sweep of  *)
(* core/orphan-cleanup.ts.  They share the tmux session, the agents row    *)
(* and table tasks, and nothing orders them.                               *)
(*                                                                         *)
(* A tick of the idle monitor is one step: the injections it awaits change *)
(* nothing it reads again, but for the shutdown prompt, after which it     *)
(* arms its grace period or kills the session.                             *)
(*                                                                         *)
(* Time is kept as the order of timestamps.  A stamp is "cur" if it is not *)
(* older than agents.started_at and "prev" if it is; the age of a row is   *)
(* the number of thresholds that updated_at has passed (5 minutes, the     *)
(* wedge timeout, the stale timeout).                                      *)
(***************************************************************************)
EXTENDS Naturals, FiniteSets

CONSTANTS
    Task,        \* ids of orchestrator tasks; the id of an ended task is reused
    MaxTimers    \* bound on shutdown timers that run at the same time

ASSUME MaxTimersAssumption == MaxTimers \in Nat

Timer == 1..MaxTimers

VARIABLES
    task,        \* the rows
    worker,      \* worker_jobs.status of the worker of each task
    session,     \* getOrchestratorState
    idle,        \* has agents.last_activity passed the idle timeout?
    monitor,     \* "nudging" while the idle monitor awaits the shutdown prompt
    nudge,       \* shutdownNudgedAt: unset, in its grace period or past it
    justSpawned, \* justSpawnedAt is set
    noProgress,  \* inProgressNoProgressTicks
    timers,      \* shutdown timers: is armedStartedAt still agents.started_at?
    pendingShutdownTimer,  \* the timer escalate can still cancel, 0 for none
    superseded   \* history: shutdowns that new work came after

vars == <<task, worker, session, idle, monitor, nudge, justSpawned, noProgress,
          timers, pendingShutdownTimer, superseded>>

idleVars  == <<monitor, nudge, justSpawned, noProgress>>
timerVars == <<timers, pendingShutdownTimer>>

-----------------------------------------------------------------------------
Recent == 0    \* updated within ORPHAN_RECENT_ACTIVITY_MS
Quiet  == 1
Frozen == 2    \* past wedge_timeout_minutes
Stale  == 3    \* past stale_assigned_ms, stale_in_progress_ms

IN_PROGRESS_NO_PROGRESS_BUDGET == 3

Active == {"assigned", "in_progress"}

Stamp == {"null", "cur", "prev"}

Row == [status : Active \cup {"pending", "awaiting_approval", "failed"},
        assigned_at : Stamp, started_at : Stamp, age : Recent..Stale,
        error : {"null", "orchestrator_restarted"}]

NoRow == [status |-> "none"]

\* the INSERT of POST /api/orchestrator/tasks and of escalate
NewRow == [status |-> "pending", assigned_at |-> "null", started_at |-> "null",
           age |-> Recent, error |-> "null"]

\* An id is taken again once nothing of its last task is left.
Unused(t) == task[t] = NoRow /\ worker[t] # "open"

Alive == session # "dead"

Has(rows, S) == \E t \in Task : rows[t].status \in S

Init ==
    /\ task = [t \in Task |-> NoRow]
    /\ worker = [t \in Task |-> "none"]
    /\ session = "dead" /\ idle = FALSE
    /\ monitor = "ready" /\ nudge = "none" /\ justSpawned = FALSE /\ noProgress = 0
    /\ timers = [i \in Timer |-> "off"] /\ pendingShutdownTimer = 0
    /\ superseded = {}

\* UPDATE tasks SET status = ?, updated_at = now
Write(r, status) == [r EXCEPT !.status = status, !.age = Recent]

StampIfNull(s) == IF s = "null" THEN "cur" ELSE s

\* new-session and the agents row with a new started_at: every timestamp
\* there is now predates it, and no timer is armed for this instance.
Outdate(s) == IF s = "cur" THEN "prev" ELSE s

Older(r) == IF r = NoRow THEN r
            ELSE [r EXCEPT !.assigned_at = Outdate(@), !.started_at = Outdate(@)]

Spawn(rows, running) ==
    /\ session' = "waiting"
    /\ task' = [t \in Task |-> Older(rows[t])]
    /\ timers' = [i \in Timer |-> IF running[i] = "armed" THEN "replaced" ELSE running[i]]

\* killOrchestratorSession
Kill == session' = "dead"

-----------------------------------------------------------------------------
(* The sweeps, as functions of the rows                                    *)

\* Mutant: any worker there ever was counts.
HasAnyWorker(t) == worker[t] # "none"

hasRecoverableWorker(t) == worker[t] \in {"open", "completed"}

\* cleanupOrphanedTasks.  in_progress rows go by started_at, assigned ones by
\* assigned_at; both are set before a row gets there.
IsOrphan(r) ==
    \/ r.status = "in_progress" /\ r.started_at = "prev"
    \/ r.status = "assigned" /\ r.assigned_at = "prev"

SweepOrphans(rows) ==
    [t \in Task |->
        IF ~(rows[t].status \in Active /\ IsOrphan(rows[t]) /\ rows[t].age # Recent)
        THEN rows[t]
        ELSE IF hasRecoverableWorker(t) THEN Write(rows[t], "assigned")
        ELSE [Write(rows[t], "failed") EXCEPT !.error = "orchestrator_restarted"]]

\* cleanupZombieTasks: error = 'orchestrator_died' for the ones it fails.
SweepZombies(rows) ==
    [t \in Task |->
        IF rows[t].status \notin Active THEN rows[t]
        ELSE IF hasRecoverableWorker(t)
             THEN [Write(rows[t], "assigned") EXCEPT !.assigned_at = "cur"]
             ELSE Write(rows[t], "failed")]

-----------------------------------------------------------------------------
(* The API                                                                 *)

\* POST /api/orchestrator/tasks: a row, and no session.
CreateTask(t) ==
    /\ Unused(t)
    /\ task' = [task EXCEPT ![t] = NewRow]
    /\ worker' = [worker EXCEPT ![t] = "none"]
    /\ UNCHANGED <<session, idle, idleVars, timerVars, superseded>>

\* Mutant: the timer is forgotten, not cleared.
CancelTimerForgets == timers

CancelTimer ==
    IF pendingShutdownTimer = 0 THEN timers
    ELSE [timers EXCEPT ![pendingShutdownTimer] = "off"]

\* POST /api/orchestrator/escalate.  New work cancels the pending shutdown
\* timer; a spawn that fails for good fails the task.
Escalate(t) ==
    LET running == CancelTimer
        rows    == [task EXCEPT ![t] = NewRow]
    IN  /\ Unused(t)
        /\ worker' = [worker EXCEPT ![t] = "none"]
        /\ pendingShutdownTimer' = 0
        /\ superseded' = {i \in Timer : running[i] # "off"}
        /\ \/ /\ Alive
              /\ task' = rows /\ timers' = running /\ idle' = FALSE
              /\ UNCHANGED session
           \/ /\ ~Alive
              /\ Spawn(rows, running) /\ idle' = FALSE
           \/ /\ ~Alive
              /\ task' = [task EXCEPT ![t] = Write(NewRow, "failed")] /\ timers' = running
              /\ UNCHANGED <<session, idle>>
        /\ UNCHANGED idleVars

\* POST /api/orchestrator/shutdown.  The timer of an earlier request runs on.
Shutdown(i) ==
    /\ Alive
    /\ timers[i] = "off"
    /\ timers' = [timers EXCEPT ![i] = "armed"]
    /\ pendingShutdownTimer' = i
    /\ superseded' = superseded \ {i}
    /\ UNCHANGED <<task, worker, session, idle, idleVars>>

\* The timer kills the session it was armed for, not a successor.
TimerFires(i) ==
    /\ timers[i] # "off"
    /\ timers' = [timers EXCEPT ![i] = "off"]
    /\ pendingShutdownTimer' = 0
    /\ IF Alive /\ timers[i] = "armed" THEN Kill ELSE UNCHANGED session
    /\ UNCHANGED <<task, worker, idle, idleVars, superseded>>

\* POST /:id/retry keeps assigned_at and started_at.
Retry(t) ==
    /\ task[t].status = "failed"
    /\ task' = [task EXCEPT ![t] = [Write(@, "pending") EXCEPT !.error = "null"]]
    /\ UNCHANGED <<worker, session, idle, idleVars, timerVars, superseded>>

-----------------------------------------------------------------------------
(* The orchestrator, its workers and the human                             *)

Put(t, from, r) ==
    /\ task[t].status = from
    /\ task' = [task EXCEPT ![t] = r]
    /\ UNCHANGED <<worker, session, idle, idleVars, timerVars, superseded>>

\* PUT status: a stamp is set when it is null and never again.
Assign(t) ==
    /\ session = "active"
    /\ Put(t, "pending", [Write(task[t], "assigned") EXCEPT !.assigned_at = StampIfNull(@)])

Start(t) ==
    /\ session = "active"
    /\ Put(t, "assigned", [Write(task[t], "in_progress") EXCEPT !.started_at = StampIfNull(@)])

Progress(t)   == session = "active"
                 /\ Put(t, "in_progress", Write(task[t], "in_progress"))
SubmitPlan(t) == session = "active"
                 /\ Put(t, "in_progress", Write(task[t], "awaiting_approval"))
DecidePlan(t) == Put(t, "awaiting_approval", Write(task[t], "in_progress"))

Complete(t)   == session = "active" /\ Put(t, "in_progress", NoRow)
Fail(t)       == session = "active" /\ Put(t, "in_progress", Write(task[t], "failed"))

SpawnWorker(t) ==
    /\ session = "active" /\ task[t].status = "in_progress" /\ worker[t] # "open"
    /\ worker' = [worker EXCEPT ![t] = "open"]
    /\ UNCHANGED <<task, session, idle, idleVars, timerVars, superseded>>

\* orch-wake.ts bumps updated_at of the worker's task.
WorkerEnds(t) ==
    /\ worker[t] = "open"
    /\ \E s \in {"completed", "dead"} : worker' = [worker EXCEPT ![t] = s]
    /\ task' = IF task[t].status \in Active THEN [task EXCEPT ![t].age = Recent] ELSE task
    /\ UNCHANGED <<session, idle, idleVars, timerVars, superseded>>

SessionGoes(s) ==
    /\ Alive /\ session' = s
    /\ UNCHANGED <<task, worker, idle, idleVars, timerVars, superseded>>

\* message-delivery.ts touches last_activity when it has injected a message.
MessageDelivered ==
    /\ Alive /\ idle /\ idle' = FALSE
    /\ UNCHANGED <<task, worker, session, idleVars, timerVars, superseded>>

Wakes == session = "waiting" /\ SessionGoes("active")
Rests == session = "active" /\ SessionGoes("waiting")
Exits == SessionGoes("dead")

-----------------------------------------------------------------------------
(* A tick of the idle monitor: cleanupOrphanedTasks, then one of these     *)

TickStarts == monitor = "ready"

Swept == SweepOrphans(task)

LiveWork == (\E t \in Task : worker[t] = "open") \/ Has(Swept, {"awaiting_approval"})

\* The session has gone since the nudge.
TickNudgedGone ==
    /\ TickStarts /\ nudge # "none" /\ ~Alive
    /\ task' = SweepZombies(Swept)
    /\ nudge' = "none"
    /\ UNCHANGED <<worker, session, idle, monitor, justSpawned, noProgress, timerVars,
                   superseded>>

\* Within the grace period, or past it with live work: the clock starts again.
TickNudgedWaits ==
    /\ TickStarts /\ nudge # "none" /\ Alive
    /\ nudge = "expired" => LiveWork
    /\ task' = Swept
    /\ nudge' = "grace"
    /\ UNCHANGED <<worker, session, idle, monitor, justSpawned, noProgress, timerVars,
                   superseded>>

\* Past the grace period: whichever session runs now is killed.
TickNudgedKills ==
    /\ TickStarts /\ nudge = "expired" /\ Alive /\ ~LiveWork
    /\ Kill
    /\ task' = SweepZombies(Swept)
    /\ nudge' = "none"
    /\ UNCHANGED <<worker, idle, monitor, justSpawned, noProgress, timerVars, superseded>>

\* Mutant: the monitor sweeps but respawns only for pending tasks.
WantsOrchestratorPendingOnly(rows) == Has(rows, {"pending"})

\* A dead orchestrator is respawned for pending tasks and open plans.
WantsOrchestrator(rows) == Has(rows, {"pending", "awaiting_approval"})

TickDead ==
    /\ TickStarts /\ nudge = "none" /\ ~Alive
    /\ LET rows == SweepZombies(Swept)
       IN  \/ /\ WantsOrchestrator(rows)
              /\ Spawn(rows, timers) /\ justSpawned' = TRUE
           \/ /\ task' = rows
              /\ UNCHANGED <<session, timers, justSpawned>>
    /\ UNCHANGED <<worker, idle, monitor, nudge, noProgress, pendingShutdownTimer, superseded>>

\* The checks of a live orchestrator, in the order of the code.
TickAlive == TickStarts /\ nudge = "none" /\ Alive

\* Fast retry, then Check 0: a busy session is not idle.
TickJustSpawned ==
    /\ TickAlive /\ justSpawned
    /\ justSpawned' = (session = "waiting")
    /\ task' = Swept
    /\ UNCHANGED <<worker, session, idle, monitor, nudge, noProgress, timerVars, superseded>>

TickBusy ==
    /\ TickAlive /\ ~justSpawned /\ session = "active"
    /\ task' = Swept /\ idle' = FALSE
    /\ UNCHANGED <<worker, session, idleVars, timerVars, superseded>>

\* Open workers keep the session; an open plan resets the idle clock too.
TickLiveWork ==
    /\ TickAlive /\ ~justSpawned /\ session = "waiting" /\ LiveWork
    /\ task' = Swept
    /\ idle' = (idle /\ \E t \in Task : worker[t] = "open")
    /\ UNCHANGED <<worker, session, idleVars, timerVars, superseded>>

TickQuiet == TickAlive /\ ~justSpawned /\ session = "waiting" /\ ~LiveWork

\* Check 2: not idle for long enough.
TickNotIdle ==
    /\ TickQuiet /\ ~idle
    /\ task' = Swept
    /\ UNCHANGED <<worker, session, idle, idleVars, timerVars, superseded>>

\* Check 2 holds, and Check 3 finds pending tasks: wake the session.
TickWakes ==
    /\ TickQuiet /\ idle /\ Has(Swept, {"pending"})
    /\ task' = Swept
    /\ idle' \in BOOLEAN
    /\ UNCHANGED <<worker, session, idleVars, timerVars, superseded>>

\* Check 3b: tasks in progress, and a budget of nudges without progress.
TickResumes ==
    /\ TickQuiet /\ idle /\ ~Has(Swept, {"pending"}) /\ Has(Swept, Active)
    /\ noProgress' \in {0, noProgress + 1}
    /\ noProgress' < IN_PROGRESS_NO_PROGRESS_BUDGET
    /\ task' = Swept
    /\ idle' \in BOOLEAN
    /\ UNCHANGED <<worker, session, monitor, nudge, justSpawned, timerVars, superseded>>

\* Check 1 (context used up), or Check 2 with nothing left to wake it for:
\* the shutdown prompt is sent.
MayNudge ==
    /\ idle /\ ~Has(Swept, {"pending"})
    /\ Has(Swept, Active) => noProgress + 1 = IN_PROGRESS_NO_PROGRESS_BUDGET

TickNudges(contextUsedUp) ==
    /\ TickQuiet /\ (contextUsedUp \/ MayNudge)
    /\ monitor' = "nudging"
    /\ noProgress' = IF contextUsedUp THEN noProgress ELSE 0
    /\ task' = Swept
    /\ UNCHANGED superseded
    /\ UNCHANGED <<worker, session, idle, nudge, justSpawned, timerVars>>

\* Mutant: the nudge is sent and not recorded.
NudgeLandsUnrecorded ==
    /\ monitor = "nudging"
    /\ monitor' = "ready"
    /\ UNCHANGED <<task, worker, session, idle, nudge, justSpawned, noProgress, timerVars,
                   superseded>>

\* injectMessage resolves: the grace period starts, or the session is killed.
NudgeLands ==
    /\ monitor = "nudging"
    /\ monitor' = "ready" /\ nudge' = "grace"
    /\ UNCHANGED <<task, worker, session, idle, justSpawned, noProgress, timerVars,
                   superseded>>

NudgeFails ==
    /\ monitor = "nudging"
    /\ monitor' = "ready"
    /\ Kill
    /\ UNCHANGED <<task, worker, idle, nudge, justSpawned, noProgress, timerVars, superseded>>

-----------------------------------------------------------------------------
(* The other supervisors                                                   *)

\* context-watchdog: the pane looks garbled (signal iii) or nothing has moved
\* for too long; rows that are frozen go back to pending (GATE 2), keeping
\* their stamps.  The restart cap is in TaskBoard.
WedgeRestart ==
    LET rows == [t \in Task |-> IF task[t].status \in Active /\ task[t].age >= Frozen
                                THEN Write(task[t], "pending") ELSE task[t]]
    IN  /\ Alive
        /\ \/ Spawn(rows, timers) /\ idle' = FALSE
           \/ Kill /\ task' = rows /\ UNCHANGED <<idle, timers>>
        /\ UNCHANGED <<worker, idleVars, pendingShutdownTimer, superseded>>

\* orch-stale-task-recovery: `reported' has a result message for some of them.
StaleTaskRecovery ==
    LET stale == {t \in Task : task[t].status \in Active /\ task[t].age = Stale
                                 /\ worker[t] # "open"}
    IN  /\ ~Alive /\ stale # {}
        /\ \E reported \in SUBSET stale :
              task' = [t \in Task |->
                  IF t \notin stale THEN task[t]
                  ELSE IF hasRecoverableWorker(t) THEN Write(task[t], "assigned")
                  ELSE IF t \in reported THEN NoRow ELSE Write(task[t], "failed")]
        /\ UNCHANGED <<worker, session, idle, idleVars, timerVars, superseded>>

\* The daemon restarts and the session does not: cleanupOrphanedResources
\* fails the tasks of a dead session and the jobs; module state is gone.
DaemonRestart ==
    /\ task' = [t \in Task |-> IF ~Alive /\ task[t].status \in Active
                               THEN Write(task[t], "failed") ELSE task[t]]
    /\ worker' = [t \in Task |-> IF worker[t] = "open" THEN "dead" ELSE worker[t]]
    /\ monitor' = "ready" /\ nudge' = "none" /\ justSpawned' = FALSE /\ noProgress' = 0
    /\ timers' = [i \in Timer |-> "off"] /\ pendingShutdownTimer' = 0
    /\ superseded' = {}
    /\ UNCHANGED <<session, idle>>

-----------------------------------------------------------------------------
(* Time                                                                    *)

RowAges(t) ==
    /\ task[t].status \in Active /\ task[t].age < Stale
    /\ task' = [task EXCEPT ![t].age = @ + 1]
    /\ UNCHANGED <<worker, session, idle, idleVars, timerVars, superseded>>

IdleTimeout ==
    /\ Alive /\ ~idle /\ idle' = TRUE
    /\ UNCHANGED <<task, worker, session, idleVars, timerVars, superseded>>

GraceEnds ==
    /\ nudge = "grace" /\ nudge' = "expired"
    /\ UNCHANGED <<task, worker, session, idle, monitor, justSpawned, noProgress, timerVars,
                   superseded>>

FastRetryWindowEnds ==
    /\ justSpawned /\ justSpawned' = FALSE
    /\ UNCHANGED <<task, worker, session, idle, monitor, nudge, noProgress, timerVars,
                   superseded>>

-----------------------------------------------------------------------------
Tick ==
    \/ TickNudgedGone \/ TickNudgedWaits \/ TickNudgedKills
    \/ TickDead \/ TickJustSpawned \/ TickBusy \/ TickLiveWork \/ TickNotIdle
    \/ TickWakes \/ TickResumes
    \/ \E c \in BOOLEAN : TickNudges(c)

Client ==
    \/ \E t \in Task : CreateTask(t) \/ Escalate(t) \/ Retry(t) \/ DecidePlan(t)
    \/ \E i \in Timer : Shutdown(i)

Orchestrator ==
    \/ Wakes \/ Rests \/ Exits \/ MessageDelivered
    \/ \E t \in Task : Assign(t) \/ Start(t) \/ Progress(t) \/ SubmitPlan(t)
                        \/ Complete(t) \/ Fail(t) \/ SpawnWorker(t)

NudgeStep == NudgeLands \/ NudgeFails

TimeStep ==
    \/ IdleTimeout \/ GraceEnds \/ FastRetryWindowEnds
    \/ \E t \in Task : RowAges(t)

Next ==
    \/ Client \/ Orchestrator \/ Tick \/ NudgeStep \/ TimeStep
    \/ \E t \in Task : WorkerEnds(t)
    \/ \E i \in Timer : TimerFires(i)
    \/ WedgeRestart \/ StaleTaskRecovery \/ DaemonRestart

Spec == Init /\ [][Next]_vars

\* The scheduler runs the monitor and the recovery, time passes, an injection
\* returns, and tmux does not refuse every respawn.  Nothing is assumed of
\* clients, of workers and of the session itself.
Fairness ==
    /\ WF_vars(Tick) /\ WF_vars(NudgeStep)
    /\ WF_vars(IdleTimeout) /\ WF_vars(GraceEnds) /\ WF_vars(FastRetryWindowEnds)
    /\ \A t \in Task : WF_vars(RowAges(t))
    /\ WF_vars(StaleTaskRecovery)
    /\ SF_vars(TickDead /\ Alive')

FairSpec == Spec /\ Fairness

-----------------------------------------------------------------------------
(* Properties                                                              *)

\* Every variable has its type.
TypeOK ==
    /\ task \in [Task -> Row \cup {NoRow}]
    /\ worker \in [Task -> {"none", "open", "completed", "dead"}]
    /\ session \in {"dead", "waiting", "active"}
    /\ idle \in BOOLEAN /\ justSpawned \in BOOLEAN
    /\ monitor \in {"ready", "nudging"}
    /\ nudge \in {"none", "grace", "expired"}
    /\ noProgress \in 0..IN_PROGRESS_NO_PROGRESS_BUDGET - 1
    /\ timers \in [Timer -> {"off", "armed", "replaced"}]
    /\ pendingShutdownTimer \in 0..MaxTimers
    /\ superseded \in SUBSET Timer

\* A shutdown timer kills the instance it was armed for and no successor, and
\* not after escalate has given it new work.  (One shutdown at a time.)
TimerSparesNewWork ==
    [][\A i \in Timer :
          timers[i] # "off" /\ timers'[i] = "off" /\ Alive /\ ~Alive' =>
              timers[i] = "armed" /\ i \notin superseded]_vars

\* A pending task, or a plan that waits for its answer, never waits for ever
\* without an orchestrator, however the last one ended.
WaitingTaskGetsOrchestrator ==
    \A t \in Task, s \in {"pending", "awaiting_approval"} :
        task[t].status = s ~> (Alive \/ task[t].status # s)

\* A task in the hands of a dead orchestrator, with no worker left to finish
\* it, is taken out of them: failed for a retry, or a new session is there.
OrphanedTaskSettles ==
    \A t \in Task :
        (~Alive /\ task[t].status \in Active /\ worker[t] \in {"none", "dead"})
            ~> (Alive \/ task[t].status \notin Active)

\* An orchestrator with nothing to do does not sit at its prompt for ever,
\* unless messages come, or the daemon or the session restarts, for ever.
NothingToDo ==
    /\ session = "waiting"
    /\ \A t \in Task : task[t].status \in {"none", "failed"} /\ worker[t] # "open"

QuietOrchestratorStops ==
    <>[][~(WedgeRestart \/ DaemonRestart \/ MessageDelivered)]_vars => []<>~NothingToDo

=============================================================================
