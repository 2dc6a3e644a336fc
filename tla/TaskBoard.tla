------------------------------ MODULE TaskBoard ------------------------------
(***************************************************************************)
(* The orchestrator rows of table tasks and everything that writes them:   *)
(* the two task APIs (api/task-queue.ts and api/unified-tasks.ts, each     *)
(* with its own state machine over the same rows), the escalate handler of *)
(* api/orchestrator.ts, and the sweeps that clean up after a dead or       *)
(* wedged orchestrator (core/orphan-cleanup.ts,                            *)
(* automation/tasks/orchestrator-idle.ts, orch-stale-task-recovery.ts and  *)
(* context-watchdog.ts).                                                   *)
(*                                                                         *)
(* main.ts buffers the whole body of a request before it dispatches it, so *)
(* parseBody does not yield to the event loop: a task handler reads,       *)
(* checks and writes its row in one step.  The awaits that follow the      *)
(* writes (tmux injection, memory) leave the row alone.  Only the escalate *)
(* handler sleeps between two of its writes.                               *)
(*                                                                         *)
(* Ages are left out: whether a row is older than a threshold is the       *)
(* choice of the sweep.                                                    *)
(***************************************************************************)
EXTENDS Naturals, FiniteSets

CONSTANTS
    Task,          \* ids of orchestrator tasks
    Worker,        \* ids of worker jobs
    Plan,          \* texts of plans
    Null,          \* SQL NULL
    Absent,        \* a field the request body does not have
    MaxRetries,    \* bound on retry_count
    SpawnMayFail   \* may tmux refuse to start the orchestrator?

ASSUME MaxRetriesAssumption == MaxRetries \in Nat
ASSUME SpawnAssumption == SpawnMayFail \in BOOLEAN
ASSUME MarkersAssumption == Null \notin Plan /\ Absent \notin Plan \cup {Null}
\* SQL NULL is no plan_status and no error a sweep writes
ASSUME NullAssumption ==
    Null \notin {"submitted", "orchestrator_died", "orchestrator_restarted",
                 "stale_task_recovery"}

VARIABLES
    tasks,         \* the rows
    taskWorkers,   \* task_workers
    job,           \* worker_jobs.status of the workers
    orchAlive,     \* does the orchestrator's tmux session run?
    reported,      \* tasks with a result message of the orchestrator
    spawning,      \* tasks whose escalate handler sleeps before its next attempt
    shown,         \* history: the plan last quoted to comms for approval
    approvedPlan   \* history: the plan as it was when it was approved

vars == <<tasks, taskWorkers, job, orchAlive, reported, spawning, shown, approvedPlan>>
env  == <<taskWorkers, job, orchAlive, reported, spawning>>

-----------------------------------------------------------------------------
(* The two state machines.  A status one of them does not know has no      *)
(* entry in its table: the lookup throws and nothing is written.           *)

Status == {"proposed", "pending", "assigned", "planning", "awaiting_approval",
           "in_progress", "blocked", "completed", "failed", "abandoned", "cancelled"}

TERMINAL_STATUSES == {"completed", "failed", "abandoned", "cancelled"}

VALID_TRANSITIONS ==
    [s \in Status |->
        CASE s = "proposed"          -> {"pending", "cancelled"}
          [] s = "pending"           -> {"assigned", "cancelled"}
          [] s = "assigned"          -> {"planning", "in_progress", "cancelled"}
          [] s = "planning"          -> {"awaiting_approval", "in_progress"}
          [] s = "awaiting_approval" -> {"in_progress", "planning", "abandoned"}
          [] s = "in_progress"       -> {"blocked", "completed", "failed", "abandoned"}
          [] s = "blocked"           -> {"in_progress", "failed", "abandoned"}
          [] s = "failed"            -> {"pending", "completed", "cancelled"}
          [] OTHER                   -> {}]

QueueTerminal == {"completed", "failed", "cancelled"}

QueueTransitions ==
    [s \in Status |->
        CASE s = "pending"           -> {"assigned", "failed", "cancelled"}
          [] s = "assigned"          -> {"in_progress", "failed", "pending", "cancelled"}
          [] s = "in_progress"       -> {"completed", "failed", "cancelled", "awaiting_approval"}
          [] s = "awaiting_approval" -> {"in_progress", "cancelled"}
          [] s = "failed"            -> {"pending", "completed", "cancelled"}
          [] OTHER                   -> {}]

\* what a failing writer of the daemon leaves in tasks.error
Error == {Null, "spawn_failed", "orphaned", "orchestrator_died",
          "orchestrator_restarted", "stale_task_recovery", "wedge_restart_cap_exceeded"}

PlanStatus == {Null, "submitted", "approved", "rejected"}

Row == [status : Status, assigned : BOOLEAN, plan : Plan \cup {Null},
        plan_status : PlanStatus, retry_count : 0..MaxRetries, error : Error]

\* no row yet, and a row that was deleted
NoRow == [status |-> "none"]
Gone  == [status |-> "deleted"]

Exists(t) == tasks[t].status \in Status

Init ==
    /\ tasks = [t \in Task |-> NoRow]
    /\ taskWorkers = [t \in Task |-> {}]
    /\ job = [w \in Worker |-> "none"]
    /\ orchAlive = FALSE
    /\ reported = {}
    /\ spawning = {}
    /\ shown = [t \in Task |-> Null]
    /\ approvedPlan = [t \in Task |-> Null]

Set(t, r) == tasks' = [tasks EXCEPT ![t] = r]

NewRow(assigned) ==
    [status |-> "pending", assigned |-> assigned, plan |-> Null, plan_status |-> Null,
     retry_count |-> 0, error |-> Null]

-----------------------------------------------------------------------------
(* Creating and deleting                                                   *)

\* POST /api/orchestrator/tasks
QueueCreate(t) ==
    /\ tasks[t] = NoRow
    /\ Set(t, NewRow(FALSE))
    /\ UNCHANGED <<env, shown, approvedPlan>>

\* POST /api/tasks with kind 'orchestrator': it may name an assignee.
UnifiedCreate(t, assigned) ==
    /\ tasks[t] = NoRow
    /\ Set(t, NewRow(assigned))
    /\ UNCHANGED <<env, shown, approvedPlan>>

\* DELETE /api/tasks/:id; task_workers goes by ON DELETE CASCADE.
UnifiedDelete(t) ==
    /\ Exists(t)
    /\ Set(t, Gone)
    /\ taskWorkers' = [taskWorkers EXCEPT ![t] = {}]
    /\ UNCHANGED <<job, orchAlive, reported, spawning, shown, approvedPlan>>

\* POST /api/orchestrator/escalate: the row, then the session if there is
\* none.  A failed attempt leaves the handler asleep for 500 ms.
Escalate(t) ==
    /\ tasks[t] = NoRow
    /\ Set(t, NewRow(FALSE))
    /\ \/ orchAlive' = TRUE /\ UNCHANGED spawning
       \/ /\ SpawnMayFail /\ ~orchAlive
          /\ spawning' = spawning \cup {t}
          /\ UNCHANGED orchAlive
    /\ UNCHANGED <<taskWorkers, job, reported, shown, approvedPlan>>

\* A later attempt: another caller may have started the session meanwhile.
EscalateRetry(t) ==
    /\ t \in spawning
    /\ orchAlive' = TRUE
    /\ spawning' = spawning \ {t}
    /\ UNCHANGED <<tasks, taskWorkers, job, reported, shown, approvedPlan>>

\* The last attempt failed: UPDATE ... SET status = 'failed' WHERE
\* external_id = ?, whatever the row has become.
EscalateGivesUp(t) ==
    /\ t \in spawning /\ ~orchAlive
    /\ spawning' = spawning \ {t}
    /\ Set(t, IF Exists(t) THEN [tasks[t] EXCEPT !.status = "failed",
                                                    !.error = "spawn_failed"]
                           ELSE tasks[t])
    /\ UNCHANGED <<taskWorkers, job, orchAlive, reported, shown, approvedPlan>>

-----------------------------------------------------------------------------
(* Plans                                                                   *)

\* submit-plan writes the plan and quotes it to comms.
Submit(t, p, from) ==
    /\ Exists(t) /\ tasks[t].status \in from
    /\ Set(t, [tasks[t] EXCEPT !.plan = p, !.plan_status = "submitted",
                               !.status = "awaiting_approval"])
    /\ shown' = [shown EXCEPT ![t] = p]
    /\ UNCHANGED <<env, approvedPlan>>

QueueSubmitPlan(t, p)   == Submit(t, p, {"in_progress"})
UnifiedSubmitPlan(t, p) == Submit(t, p, {"in_progress", "planning"})

Decidable(t) ==
    Exists(t) /\ tasks[t].status = "awaiting_approval" /\ tasks[t].plan_status = "submitted"

\* approve-plan
ApprovePlan(t) ==
    /\ Decidable(t)
    /\ Set(t, [tasks[t] EXCEPT !.plan_status = "approved", !.status = "in_progress"])
    /\ approvedPlan' = [approvedPlan EXCEPT ![t] = tasks[t].plan]
    /\ UNCHANGED <<env, shown>>

\* reject-plan: back to work for one API, back to planning for the other.
RejectPlan(t, to) ==
    /\ Decidable(t)
    /\ Set(t, [tasks[t] EXCEPT !.plan_status = "rejected", !.status = to])
    /\ UNCHANGED <<env, shown, approvedPlan>>

QueueRejectPlan(t)   == RejectPlan(t, "in_progress")
UnifiedRejectPlan(t) == RejectPlan(t, "planning")

-----------------------------------------------------------------------------
(* Retry, cancel and workers, the same in both APIs but for what each      *)
(* takes to be terminal                                                    *)

\* Mutant: retry refuses only tasks that are still open.
RetryTerminal(t) ==
    /\ Exists(t) /\ tasks[t].status \in TERMINAL_STATUSES
    /\ tasks[t].retry_count < MaxRetries
    /\ Set(t, [tasks[t] EXCEPT !.status = "pending", !.assigned = FALSE,
                               !.retry_count = @ + 1, !.error = Null])
    /\ UNCHANGED <<env, shown, approvedPlan>>

\* POST /:id/retry clears the assignee and the error; the plan stays.
Retry(t) ==
    /\ Exists(t) /\ tasks[t].status = "failed"
    /\ tasks[t].retry_count < MaxRetries
    /\ Set(t, [tasks[t] EXCEPT !.status = "pending", !.assigned = FALSE,
                               !.retry_count = @ + 1, !.error = Null])
    /\ UNCHANGED <<env, shown, approvedPlan>>

\* POST /:id/cancel; jobs of a running task are marked failed.
Cancel(t, terminal, working) ==
    /\ Exists(t) /\ tasks[t].status \notin terminal
    /\ job' = IF tasks[t].status \in working
              THEN [w \in Worker |-> IF w \in taskWorkers[t] /\ job[w] = "open"
                                     THEN "dead" ELSE job[w]]
              ELSE job
    /\ Set(t, [tasks[t] EXCEPT !.status = "cancelled"])
    /\ UNCHANGED <<taskWorkers, orchAlive, reported, spawning, shown, approvedPlan>>

QueueCancel(t)   == Cancel(t, QueueTerminal, {"in_progress"})
UnifiedCancel(t) == Cancel(t, TERMINAL_STATUSES, {"in_progress", "blocked"})

\* POST /:id/workers
AssignWorker(t, w, terminal) ==
    /\ Exists(t) /\ tasks[t].status \notin terminal
    /\ job[w] # "none" /\ w \notin taskWorkers[t]
    /\ taskWorkers' = [taskWorkers EXCEPT ![t] = @ \cup {w}]
    /\ UNCHANGED <<tasks, job, orchAlive, reported, spawning, shown, approvedPlan>>

QueueAssignWorker(t, w)   == AssignWorker(t, w, QueueTerminal)
UnifiedAssignWorker(t, w) == AssignWorker(t, w, TERMINAL_STATUSES)

-----------------------------------------------------------------------------
(* PUT /:id.  The body may carry a status, an assignee (a name or null)    *)
(* and a plan (a text or null).  The fields no guard here reads, comms     *)
(* feedback and acknowledgement among them, are left out.                  *)

Body == [status : Status \cup {Absent}, assignee : BOOLEAN \cup {Absent},
         plan : Plan \cup {Null, Absent}]

\* A terminal task takes feedback only, unless it failed and is let out.
TerminalAllows(r, b, terminal, transitions) ==
    \/ r.status \notin terminal
    \/ r.status = "failed" /\ b.status \in transitions["failed"]

StatusAllowed(r, b, transitions) == b.status = Absent \/ b.status \in transitions[r.status]

\* Mutant: the guard looks at the task's status instead of the plan's.
PlanMutableByStatus(r, b) == b.plan = Absent \/ r.status # "awaiting_approval"

\* A submitted plan is not changed.
PlanMutable(r, b) == b.plan = Absent \/ r.plan_status # "submitted"

Or(x, y) == IF x = Absent THEN y ELSE x

\* The row after an accepted PUT; aliases ('done', 'wip') are normalized.
PutRow(r, b, assigned) ==
    [r EXCEPT !.status = Or(b.status, @),
              !.assigned = assigned,
              !.plan = Or(b.plan, @)]

\* validateStatusAssignee
ValidStatusAssignee(status, assigned) ==
    /\ status = "pending" => ~assigned
    /\ status = "assigned" => assigned

QueuePut(t, b) ==
    LET r        == tasks[t]
        assigned == IF b.assignee # Absent THEN b.assignee
                    ELSE b.status # "pending" /\ r.assigned
    IN  /\ Exists(t)
        /\ TerminalAllows(r, b, QueueTerminal, QueueTransitions)
        /\ StatusAllowed(r, b, QueueTransitions)
        /\ PlanMutable(r, b)
        /\ ValidStatusAssignee(Or(b.status, r.status), assigned)
        /\ Set(t, PutRow(r, b, assigned))
        /\ UNCHANGED <<env, shown, approvedPlan>>

UnifiedPut(t, b) ==
    LET r        == tasks[t]
        assigned == b.status # "pending" /\ Or(b.assignee, r.assigned)
    IN  /\ Exists(t)
        /\ TerminalAllows(r, b, TERMINAL_STATUSES, VALID_TRANSITIONS)
        /\ StatusAllowed(r, b, VALID_TRANSITIONS)
        /\ PlanMutable(r, b)
        /\ Set(t, PutRow(r, b, assigned))
        /\ UNCHANGED <<env, shown, approvedPlan>>

-----------------------------------------------------------------------------
(* The orchestrator and its workers, as the rows see them                  *)

\* A session is started by an idle-monitor or wedge respawn, or ends.
OrchestratorComesUp   == ~orchAlive /\ orchAlive' = TRUE
                         /\ UNCHANGED <<tasks, taskWorkers, job, reported, spawning, shown, approvedPlan>>
OrchestratorGoesDown  == orchAlive /\ orchAlive' = FALSE
                         /\ UNCHANGED <<tasks, taskWorkers, job, reported, spawning, shown, approvedPlan>>

\* POST /api/messages of type result about a task.
ReportResult(t) ==
    /\ orchAlive /\ Exists(t)
    /\ reported' = reported \cup {t}
    /\ UNCHANGED <<tasks, taskWorkers, job, orchAlive, spawning, shown, approvedPlan>>

\* What WorkerLifecycle does to worker_jobs.
WorkerSpawned(w) ==
    /\ job[w] = "none" /\ job' = [job EXCEPT ![w] = "open"]
    /\ UNCHANGED <<tasks, taskWorkers, orchAlive, reported, spawning, shown, approvedPlan>>

WorkerEnded(w) ==
    /\ job[w] = "open"
    /\ \E s \in {"completed", "dead"} : job' = [job EXCEPT ![w] = s]
    /\ UNCHANGED <<tasks, taskWorkers, orchAlive, reported, spawning, shown, approvedPlan>>

-----------------------------------------------------------------------------
(* The sweeps.  Each one writes the rows in `hit'; which of the candidates *)
(* are old enough is its choice.                                           *)

\* Mutant: a worker still queued or already completed does not count.
HasRunningWorker(t) == \E w \in taskWorkers[t] : job[w] = "open"

hasRecoverableWorker(t) == \E w \in taskWorkers[t] : job[w] \in {"open", "completed"}
hasLiveWorkers(t)       == \E w \in taskWorkers[t] : job[w] = "open"

Active == {t \in Task : tasks[t].status \in {"assigned", "in_progress"}}

Failed(t, e) == [tasks[t] EXCEPT !.status = "failed", !.error = e]

Sweep(S, new(_)) ==
    /\ S # {}
    /\ tasks' = [t \in Task |-> IF t \in S THEN new(t) ELSE tasks[t]]
    /\ UNCHANGED <<env, shown, approvedPlan>>

\* cleanupZombieTasks: the idle monitor found the orchestrator dead.
CleanupZombieTasks ==
    /\ ~orchAlive
    /\ Sweep(Active, LAMBDA t :
          IF hasRecoverableWorker(t) THEN [tasks[t] EXCEPT !.status = "assigned"]
          ELSE Failed(t, "orchestrator_died"))

\* cleanupOrphanedTasks, at every tick: rows older than the last orchestrator
\* that have been quiet for five minutes (`hit': the model keeps no clock).
CleanupOrphanedTasks ==
    \E hit \in SUBSET Active : Sweep(hit, LAMBDA t :
          IF hasRecoverableWorker(t)
          THEN [tasks[t] EXCEPT !.status = "assigned", !.error = Null]
          ELSE Failed(t, "orchestrator_restarted"))

\* orch-stale-task-recovery: live workers are left alone, a completed one is
\* kept for a fresh orchestrator, a reported result completes the task.
StaleTaskRecovery ==
    /\ ~orchAlive
    /\ \E hit \in SUBSET {t \in Active : ~hasLiveWorkers(t)} :
          Sweep(hit, LAMBDA t :
              IF hasRecoverableWorker(t)
              THEN [tasks[t] EXCEPT !.status = "assigned", !.error = Null]
              ELSE IF t \in reported
                   THEN [tasks[t] EXCEPT !.status = "completed"]
                   ELSE Failed(t, "stale_task_recovery"))

\* context-watchdog: the session is killed, frozen tasks go back to pending
\* (GATE 2), and a new session is started.
WedgeRestart ==
    /\ orchAlive
    /\ \E hit \in SUBSET Active :
          tasks' = [t \in Task |->
              IF t \in hit THEN [tasks[t] EXCEPT !.status = "pending", !.assigned = FALSE,
                                                 !.error = Null]
                           ELSE tasks[t]]
    /\ orchAlive' = TRUE \/ (SpawnMayFail /\ orchAlive' = FALSE)
    /\ UNCHANGED <<taskWorkers, job, reported, spawning, shown, approvedPlan>>

\* GATE 3 fails the frozen tasks instead; the session lives on.
WedgeCap ==
    /\ orchAlive
    /\ \E hit \in SUBSET Active : Sweep(hit, LAMBDA t : Failed(t, "wedge_restart_cap_exceeded"))

\* Daemon restart: tasks of a dead session, then every open worker job; the
\* escalate handlers that slept are gone.
DaemonRestart ==
    /\ tasks' = [t \in Task |-> IF ~orchAlive /\ t \in Active THEN Failed(t, "orphaned")
                                                              ELSE tasks[t]]
    /\ job' = [w \in Worker |-> IF job[w] = "open" THEN "dead" ELSE job[w]]
    /\ spawning' = {}
    /\ UNCHANGED <<taskWorkers, orchAlive, reported, shown, approvedPlan>>

-----------------------------------------------------------------------------
ApiStep(t) ==
    \/ QueueCreate(t) \/ Escalate(t) \/ \E a \in BOOLEAN : UnifiedCreate(t, a)
    \/ EscalateRetry(t) \/ EscalateGivesUp(t) \/ UnifiedDelete(t)
    \/ \E p \in Plan : QueueSubmitPlan(t, p) \/ UnifiedSubmitPlan(t, p)
    \/ ApprovePlan(t) \/ QueueRejectPlan(t) \/ UnifiedRejectPlan(t)
    \/ Retry(t) \/ QueueCancel(t) \/ UnifiedCancel(t)
    \/ \E w \in Worker : QueueAssignWorker(t, w) \/ UnifiedAssignWorker(t, w)
    \/ \E b \in Body : QueuePut(t, b) \/ UnifiedPut(t, b)
    \/ ReportResult(t)

SweepStep ==
    \/ CleanupZombieTasks \/ CleanupOrphanedTasks \/ StaleTaskRecovery
    \/ WedgeRestart \/ WedgeCap \/ DaemonRestart

Next ==
    \/ \E t \in Task : ApiStep(t)
    \/ SweepStep
    \/ OrchestratorComesUp \/ OrchestratorGoesDown
    \/ \E w \in Worker : WorkerSpawned(w) \/ WorkerEnded(w)

Spec == Init /\ [][Next]_vars

-----------------------------------------------------------------------------
(* Properties                                                              *)

\* Every variable has its type, and the history agrees with the rows.
TypeOK ==
    /\ tasks \in [Task -> Row \cup {NoRow, Gone}]
    /\ taskWorkers \in [Task -> SUBSET Worker]
    /\ job \in [Worker -> {"none", "open", "completed", "dead"}]
    /\ orchAlive \in BOOLEAN
    /\ reported \in SUBSET Task
    /\ spawning \in SUBSET Task
    /\ shown \in [Task -> Plan \cup {Null}]
    /\ approvedPlan \in [Task -> Plan \cup {Null}]

\* A completed or cancelled task stays so, whichever API or sweep comes next,
\* but for the escalate handler that gives up on it.
SettledIsFinal ==
    [][\A t \in Task : tasks[t].status \in {"completed", "cancelled"} =>
          \/ tasks'[t].status \in {tasks[t].status, "deleted"}
          \/ tasks'[t].error = "spawn_failed" /\ t \notin spawning']_vars

\* The plan a human approves is the plan that was quoted to them: between
\* submission and decision no PUT, retry or sweep swaps the text, even if the
\* task leaves awaiting_approval and comes back.
ApprovedPlanWasShown ==
    [][\A t \in Task : approvedPlan'[t] # approvedPlan[t] => approvedPlan'[t] = shown[t]]_vars

\* helpers/task-worker-guard.ts: the idle and stale sweeps never fail a task
\* one of whose workers may still have a result, queued and completed ones
\* included.
RecoverableWorkKept ==
    [][\A t \in Task :
          /\ Exists(t) /\ tasks'[t] # Gone
          /\ \E w \in taskWorkers[t] : job[w] \in {"open", "completed"}
          => \/ tasks'[t].error = tasks[t].error
             \/ tasks'[t].error \notin {"orchestrator_died", "orchestrator_restarted",
                                         "stale_task_recovery"}]_vars

=============================================================================
