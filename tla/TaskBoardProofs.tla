--------------------------- MODULE TaskBoardProofs ---------------------------
(***************************************************************************)
(* Proofs about TaskBoard, for any sets of tasks, workers and plans and    *)
(* any bound on the retries: the action properties the runs check on one   *)
(* task, and the invariant they rest on.                                   *)
(***************************************************************************)
EXTENDS TaskBoard, TLAPS

\* A plan that waits for a decision is the one that was quoted to comms.
SubmittedPlanShown ==
    \A t \in Task : Exists(t) /\ tasks[t].plan_status = "submitted" => tasks[t].plan = shown[t]

BoardInv == TypeOK /\ SubmittedPlanShown

\* What one step may do to a settled task, to the history of approvals, and
\* to the error of a task with recoverable work: the bodies of the three
\* action properties, for one task.
SettledStep(t) ==
    tasks[t].status \in {"completed", "cancelled"} =>
        \/ tasks'[t].status \in {tasks[t].status, "deleted"}
        \/ tasks'[t].error = "spawn_failed" /\ t \notin spawning'

ApprovalStep(t) == approvedPlan'[t] # approvedPlan[t] => approvedPlan'[t] = shown[t]

RecoverStep(t) ==
    /\ Exists(t) /\ tasks'[t] # Gone
    /\ \E w \in taskWorkers[t] : job[w] \in {"open", "completed"}
    => \/ tasks'[t].error = tasks[t].error
       \/ tasks'[t].error \notin {"orchestrator_died", "orchestrator_restarted",
                                  "stale_task_recovery"}

StepOK(t) == SettledStep(t) /\ ApprovalStep(t) /\ RecoverStep(t)

\* The part of SubmittedPlanShown that is about one row.
RowShown(t) == Exists(t) /\ tasks[t].plan_status = "submitted" => tasks[t].plan = shown[t]

-----------------------------------------------------------------------------
(* Rows                                                                    *)

\* The two markers are not rows, and a status tells them apart.
LEMMA RowOrMarker ==
    ASSUME NEW r \in Row \cup {NoRow, Gone}
    PROVE  /\ r.status \in Status => r \in Row
           /\ r \in Row => r.status \in Status
           /\ NoRow.status \notin Status /\ Gone.status \notin Status
BY DEF Row, NoRow, Gone, Status

\* A task that exists has a full row.
LEMMA RowOf ==
    ASSUME TypeOK, NEW t \in Task, Exists(t)
    PROVE  tasks[t] \in Row
BY RowOrMarker DEF TypeOK, Exists

\* Writing one row leaves the others alone.
LEMMA SetRow ==
    ASSUME TypeOK, NEW t \in Task, NEW r \in Row \cup {NoRow, Gone}, Set(t, r)
    PROVE  /\ tasks' \in [Task -> Row \cup {NoRow, Gone}]
           /\ tasks'[t] = r
           /\ \A u \in Task \ {t} : tasks'[u] = tasks[u]
BY DEF TypeOK, Set

\* A row that keeps its value keeps what is said about it, when the history
\* of that task is left alone too.
LEMMA SameRow ==
    ASSUME TypeOK, SubmittedPlanShown, NEW t \in Task, tasks'[t] = tasks[t],
           shown'[t] = shown[t], approvedPlan'[t] = approvedPlan[t]
    PROVE  RowShown(t)' /\ StepOK(t)
BY DEF SubmittedPlanShown, RowShown, StepOK, SettledStep, ApprovalStep, RecoverStep, Exists

\* From one row to all rows.
LEMMA AllRows ==
    ASSUME TypeOK', \A t \in Task : RowShown(t)' /\ StepOK(t)
    PROVE  BoardInv' /\ \A t \in Task : StepOK(t)
BY DEF BoardInv, SubmittedPlanShown, RowShown

\* A handler that writes one row of a task that is not settled, keeps the
\* history, and leaves no error of a sweep behind.
LEMMA WriteRow ==
    ASSUME BoardInv, NEW t \in Task, NEW r \in Row, Set(t, r),
           UNCHANGED <<shown, approvedPlan>>,
           r.plan_status = "submitted" => r.plan = shown[t],
           tasks[t].status \notin {"completed", "cancelled"},
           Exists(t) => r.error \in {tasks[t].error, Null}
    PROVE  /\ tasks' \in [Task -> Row \cup {NoRow, Gone}]
           /\ \A u \in Task : RowShown(u)' /\ StepOK(u)
<1>1. TypeOK /\ SubmittedPlanShown
  BY DEF BoardInv
<1>2. /\ tasks' \in [Task -> Row \cup {NoRow, Gone}]
      /\ tasks'[t] = r
      /\ \A u \in Task \ {t} : tasks'[u] = tasks[u]
  BY <1>1, SetRow
<1>3. ASSUME NEW u \in Task \ {t}
      PROVE  RowShown(u)' /\ StepOK(u)
  BY <1>1, <1>2, <1>3, SameRow
<1>4. RowShown(t)'
  BY <1>2 DEF RowShown
<1>5. StepOK(t)
  BY <1>2, NullAssumption DEF StepOK, SettledStep, ApprovalStep, RecoverStep
<1> QED
  BY <1>2, <1>3, <1>4, <1>5

-----------------------------------------------------------------------------
(* One lemma per group of actions: the invariant is kept and the step is   *)
(* allowed.                                                                *)

\* Creating a row, by either API or by escalation.
LEMMA CreateStep ==
    ASSUME BoardInv, NEW t \in Task,
           QueueCreate(t) \/ Escalate(t) \/ \E a \in BOOLEAN : UnifiedCreate(t, a)
    PROVE  BoardInv' /\ \A u \in Task : StepOK(u)
<1>1. PICK a \in BOOLEAN : Set(t, NewRow(a))
  BY DEF QueueCreate, Escalate, UnifiedCreate
<1>2. /\ tasks[t] = NoRow /\ UNCHANGED <<taskWorkers, job, reported, shown, approvedPlan>>
      /\ orchAlive' \in BOOLEAN /\ spawning' \in SUBSET Task
  BY DEF QueueCreate, Escalate, UnifiedCreate, env, BoardInv, TypeOK
<1>3. NewRow(a) \in Row
  BY MaxRetriesAssumption DEF NewRow, Row, Status, Error, PlanStatus
<1>4. /\ NewRow(a).plan_status # "submitted"
      /\ tasks[t].status \notin {"completed", "cancelled"} /\ ~Exists(t)
  BY <1>2, NullAssumption DEF NewRow, NoRow, Exists, Status
<1>5. /\ tasks' \in [Task -> Row \cup {NoRow, Gone}]
      /\ \A u \in Task : RowShown(u)' /\ StepOK(u)
  BY <1>1, <1>2, <1>3, <1>4, WriteRow
<1>6. TypeOK'
  BY <1>2, <1>5 DEF BoardInv, TypeOK
<1> QED
  BY <1>5, <1>6, AllRows

\* Deleting a row.
LEMMA DeleteStep ==
    ASSUME BoardInv, NEW t \in Task, UnifiedDelete(t)
    PROVE  BoardInv' /\ \A u \in Task : StepOK(u)
<1>1. /\ tasks' \in [Task -> Row \cup {NoRow, Gone}] /\ tasks'[t] = Gone
      /\ \A u \in Task \ {t} : tasks'[u] = tasks[u]
  BY SetRow DEF BoardInv, UnifiedDelete
<1>2. TypeOK'
  BY <1>1 DEF BoardInv, TypeOK, UnifiedDelete
<1>3. ASSUME NEW u \in Task \ {t}
      PROVE  RowShown(u)' /\ StepOK(u)
  BY <1>1, <1>3, SameRow DEF BoardInv, UnifiedDelete
<1>4. RowShown(t)' /\ StepOK(t)
  BY <1>1 DEF RowShown, Exists, Gone, Status, StepOK, SettledStep, ApprovalStep, RecoverStep,
              UnifiedDelete
<1> QED
  BY <1>2, <1>3, <1>4, AllRows

\* A step that leaves the rows and the history alone.
LEMMA QuietStep ==
    ASSUME BoardInv, UNCHANGED <<tasks, shown, approvedPlan>>, TypeOK'
    PROVE  BoardInv' /\ \A u \in Task : StepOK(u)
BY SameRow, AllRows DEF BoardInv

\* The escalate handler gives up: the one step that may fail a settled task.
LEMMA GiveUpStep ==
    ASSUME BoardInv, NEW t \in Task, EscalateGivesUp(t)
    PROVE  BoardInv' /\ \A u \in Task : StepOK(u)
<1>1. CASE ~Exists(t)
  <2>1. UNCHANGED <<tasks, shown, approvedPlan>>
    BY <1>1 DEF EscalateGivesUp, Set, BoardInv, TypeOK
  <2>2. TypeOK'
    BY <2>1 DEF EscalateGivesUp, BoardInv, TypeOK
  <2> QED
    BY <2>1, <2>2, QuietStep
<1>2. CASE Exists(t)
  <2> DEFINE r == [tasks[t] EXCEPT !.status = "failed", !.error = "spawn_failed"]
  <2>1. tasks[t] \in Row
    BY <1>2, RowOf DEF BoardInv
  <2>2. r \in Row /\ r.plan = tasks[t].plan /\ r.plan_status = tasks[t].plan_status
        /\ r.error = "spawn_failed"
    BY <2>1 DEF Row, Status, Error
  <2>3. Set(t, r) /\ t \notin spawning' /\ UNCHANGED <<shown, approvedPlan>>
    BY <1>2 DEF EscalateGivesUp
  <2> HIDE DEF r
  <2>4. /\ tasks' \in [Task -> Row \cup {NoRow, Gone}] /\ tasks'[t] = r
        /\ \A u \in Task \ {t} : tasks'[u] = tasks[u]
    BY <2>2, <2>3, SetRow DEF BoardInv
  <2>5. TypeOK'
    BY <2>4 DEF BoardInv, TypeOK, EscalateGivesUp
  <2>6. ASSUME NEW u \in Task \ {t}
        PROVE  RowShown(u)' /\ StepOK(u)
    BY <2>3, <2>4, <2>6, SameRow DEF BoardInv
  <2>7. RowShown(t)'
    BY <1>2, <2>2, <2>3, <2>4 DEF RowShown, BoardInv, SubmittedPlanShown
  <2>8. StepOK(t)
    BY <2>2, <2>3, <2>4 DEF StepOK, SettledStep, ApprovalStep, RecoverStep
  <2> QED
    BY <2>5, <2>6, <2>7, <2>8, AllRows
<1> QED
  BY <1>1, <1>2

\* Submitting a plan quotes what it writes.
LEMMA SubmitStep ==
    ASSUME BoardInv, NEW t \in Task, NEW p \in Plan,
           QueueSubmitPlan(t, p) \/ UnifiedSubmitPlan(t, p)
    PROVE  BoardInv' /\ \A u \in Task : StepOK(u)
<1> DEFINE r == [tasks[t] EXCEPT !.plan = p, !.plan_status = "submitted",
                                 !.status = "awaiting_approval"]
<1>1. /\ Exists(t) /\ tasks[t].status \in {"in_progress", "planning"} /\ Set(t, r)
      /\ shown' = [shown EXCEPT ![t] = p] /\ UNCHANGED <<env, approvedPlan>>
  BY DEF QueueSubmitPlan, UnifiedSubmitPlan, Submit
<1>2. tasks[t] \in Row
  BY <1>1, RowOf DEF BoardInv
<1>3. r \in Row /\ r.plan = p /\ r.error = tasks[t].error
  BY <1>2 DEF Row, Status, PlanStatus
<1> HIDE DEF r
<1>4. /\ tasks' \in [Task -> Row \cup {NoRow, Gone}] /\ tasks'[t] = r
      /\ \A u \in Task \ {t} : tasks'[u] = tasks[u]
  BY <1>1, <1>3, SetRow DEF BoardInv
<1>5. /\ shown' \in [Task -> Plan \cup {Null}] /\ shown'[t] = p
      /\ \A u \in Task \ {t} : shown'[u] = shown[u]
  BY <1>1 DEF BoardInv, TypeOK
<1>6. TypeOK'
  BY <1>1, <1>4, <1>5 DEF BoardInv, TypeOK, env
<1>7. ASSUME NEW u \in Task \ {t}
      PROVE  RowShown(u)' /\ StepOK(u)
  BY <1>1, <1>4, <1>5, <1>7, SameRow DEF BoardInv
<1>8. RowShown(t)'
  BY <1>3, <1>4, <1>5 DEF RowShown
<1>9. StepOK(t)
  BY <1>1, <1>3, <1>4 DEF StepOK, SettledStep, ApprovalStep, RecoverStep
<1> QED
  BY <1>6, <1>7, <1>8, <1>9, AllRows

\* Approving writes the plan that is in the row, which is the quoted one.
LEMMA ApproveStep ==
    ASSUME BoardInv, NEW t \in Task, ApprovePlan(t)
    PROVE  BoardInv' /\ \A u \in Task : StepOK(u)
<1> DEFINE r == [tasks[t] EXCEPT !.plan_status = "approved", !.status = "in_progress"]
<1>1. /\ Exists(t) /\ tasks[t].status = "awaiting_approval"
      /\ tasks[t].plan_status = "submitted" /\ Set(t, r)
      /\ approvedPlan' = [approvedPlan EXCEPT ![t] = tasks[t].plan] /\ UNCHANGED <<env, shown>>
  BY DEF ApprovePlan, Decidable
<1>2. tasks[t] \in Row /\ tasks[t].plan = shown[t]
  BY <1>1, RowOf DEF BoardInv, SubmittedPlanShown
<1>3. r \in Row /\ r.plan_status = "approved" /\ r.error = tasks[t].error
  BY <1>2 DEF Row, Status, PlanStatus
<1> HIDE DEF r
<1>4. /\ tasks' \in [Task -> Row \cup {NoRow, Gone}] /\ tasks'[t] = r
      /\ \A u \in Task \ {t} : tasks'[u] = tasks[u]
  BY <1>1, <1>3, SetRow DEF BoardInv
<1>5. /\ approvedPlan' \in [Task -> Plan \cup {Null}] /\ approvedPlan'[t] = shown[t]
      /\ \A u \in Task \ {t} : approvedPlan'[u] = approvedPlan[u]
  BY <1>1, <1>2 DEF BoardInv, TypeOK
<1>6. TypeOK'
  BY <1>1, <1>4, <1>5 DEF BoardInv, TypeOK, env
<1>7. ASSUME NEW u \in Task \ {t}
      PROVE  RowShown(u)' /\ StepOK(u)
  BY <1>1, <1>4, <1>5, <1>7, SameRow DEF BoardInv
<1>8. RowShown(t)' /\ StepOK(t)
  BY <1>1, <1>3, <1>4, <1>5
     DEF RowShown, StepOK, SettledStep, ApprovalStep, RecoverStep
<1> QED
  BY <1>6, <1>7, <1>8, AllRows

\* Rejecting a plan, and retrying a failed task.
LEMMA RejectRetryStep ==
    ASSUME BoardInv, NEW t \in Task,
           QueueRejectPlan(t) \/ UnifiedRejectPlan(t) \/ Retry(t)
    PROVE  BoardInv' /\ \A u \in Task : StepOK(u)
<1>1. ASSUME NEW to \in {"in_progress", "planning"}, RejectPlan(t, to)
      PROVE  BoardInv' /\ \A u \in Task : StepOK(u)
  <2> DEFINE r == [tasks[t] EXCEPT !.plan_status = "rejected", !.status = to]
  <2>1. /\ Exists(t) /\ tasks[t].status = "awaiting_approval" /\ Set(t, r)
        /\ UNCHANGED <<env, shown, approvedPlan>>
    BY <1>1 DEF RejectPlan, Decidable
  <2>2. tasks[t] \in Row
    BY <2>1, RowOf DEF BoardInv
  <2>3. r \in Row /\ r.plan_status = "rejected" /\ r.error = tasks[t].error
    BY <2>2 DEF Row, Status, PlanStatus
  <2> HIDE DEF r
  <2>4. /\ tasks' \in [Task -> Row \cup {NoRow, Gone}]
        /\ \A u \in Task : RowShown(u)' /\ StepOK(u)
    BY <2>1, <2>3, WriteRow
  <2>5. TypeOK'
    BY <2>1, <2>4 DEF BoardInv, TypeOK, env
  <2> QED
    BY <2>4, <2>5, AllRows
<1>2. CASE Retry(t)
  <2> DEFINE r == [tasks[t] EXCEPT !.status = "pending", !.assigned = FALSE,
                                   !.retry_count = @ + 1, !.error = Null]
  <2>1. /\ Exists(t) /\ tasks[t].status = "failed" /\ tasks[t].retry_count < MaxRetries
        /\ Set(t, r) /\ UNCHANGED <<env, shown, approvedPlan>>
    BY <1>2 DEF Retry
  <2>2. tasks[t] \in Row
    BY <2>1, RowOf DEF BoardInv
  <2>3. tasks[t].retry_count + 1 \in 0..MaxRetries
    BY <2>1, <2>2, MaxRetriesAssumption DEF Row
  <2>4. /\ r \in Row /\ r.plan_status = tasks[t].plan_status /\ r.plan = tasks[t].plan
        /\ r.error = Null
    BY <2>2, <2>3 DEF Row, Status, Error
  <2>5. r.plan_status = "submitted" => r.plan = shown[t]
    BY <2>1, <2>4 DEF BoardInv, SubmittedPlanShown
  <2> HIDE DEF r
  <2>6. /\ tasks' \in [Task -> Row \cup {NoRow, Gone}]
        /\ \A u \in Task : RowShown(u)' /\ StepOK(u)
    BY <2>1, <2>4, <2>5, WriteRow
  <2>7. TypeOK'
    BY <2>1, <2>6 DEF BoardInv, TypeOK, env
  <2> QED
    BY <2>6, <2>7, AllRows
<1> QED
  BY <1>1, <1>2 DEF QueueRejectPlan, UnifiedRejectPlan

\* Cancelling, with the jobs it marks failed.
LEMMA CancelStep ==
    ASSUME BoardInv, NEW t \in Task, QueueCancel(t) \/ UnifiedCancel(t)
    PROVE  BoardInv' /\ \A u \in Task : StepOK(u)
<1> DEFINE r == [tasks[t] EXCEPT !.status = "cancelled"]
<1>1. /\ Exists(t) /\ tasks[t].status \notin {"completed", "cancelled"} /\ Set(t, r)
      /\ UNCHANGED <<taskWorkers, orchAlive, reported, spawning, shown, approvedPlan>>
  BY DEF QueueCancel, UnifiedCancel, Cancel, QueueTerminal, TERMINAL_STATUSES
<1>2. job' \in [Worker -> {"none", "open", "completed", "dead"}]
  <2>1. job \in [Worker -> {"none", "open", "completed", "dead"}]
    BY DEF BoardInv, TypeOK
  <2>2. \/ job' = [w \in Worker |-> IF w \in taskWorkers[t] /\ job[w] = "open"
                                    THEN "dead" ELSE job[w]]
        \/ job' = job
    BY DEF QueueCancel, UnifiedCancel, Cancel
  <2> QED
    BY <2>1, <2>2
<1>3. tasks[t] \in Row
  BY <1>1, RowOf DEF BoardInv
<1>4. /\ r \in Row /\ r.plan_status = tasks[t].plan_status /\ r.plan = tasks[t].plan
      /\ r.error = tasks[t].error
  BY <1>3 DEF Row, Status
<1>5. r.plan_status = "submitted" => r.plan = shown[t]
  BY <1>1, <1>4 DEF BoardInv, SubmittedPlanShown
<1> HIDE DEF r
<1>6. /\ tasks' \in [Task -> Row \cup {NoRow, Gone}]
      /\ \A u \in Task : RowShown(u)' /\ StepOK(u)
  BY <1>1, <1>4, <1>5, WriteRow
<1>7. TypeOK'
  BY <1>1, <1>2, <1>6 DEF BoardInv, TypeOK
<1> QED
  BY <1>6, <1>7, AllRows

\* An accepted PUT writes a row; a submitted plan stays as it is.
LEMMA PutRowType ==
    ASSUME NEW r \in Row, NEW b \in Body, NEW a \in BOOLEAN, PlanMutable(r, b)
    PROVE  /\ PutRow(r, b, a) \in Row
           /\ PutRow(r, b, a).plan_status = r.plan_status
           /\ PutRow(r, b, a).error = r.error
           /\ r.plan_status = "submitted" => PutRow(r, b, a).plan = r.plan
<1>1. Or(b.status, r.status) \in Status /\ Or(b.plan, r.plan) \in Plan \cup {Null}
  BY DEF Or, Body, Row
<1>2. r.plan_status = "submitted" => Or(b.plan, r.plan) = r.plan
  BY DEF Or, PlanMutable
<1> QED
  BY <1>1, <1>2 DEF PutRow, Row

\* The two PUT handlers, each with its own transition table.
LEMMA PutStep ==
    ASSUME BoardInv, NEW t \in Task, NEW b \in Body, QueuePut(t, b) \/ UnifiedPut(t, b)
    PROVE  BoardInv' /\ \A u \in Task : StepOK(u)
<1>1. /\ Exists(t) /\ PlanMutable(tasks[t], b)
      /\ tasks[t].status \notin {"completed", "cancelled"}
      /\ UNCHANGED <<env, shown, approvedPlan>>
  BY DEF QueuePut, UnifiedPut, TerminalAllows, QueueTerminal, TERMINAL_STATUSES
<1>2. tasks[t] \in Row
  BY <1>1, RowOf DEF BoardInv
<1>3. PICK a \in BOOLEAN : Set(t, PutRow(tasks[t], b, a))
  <2>1. tasks[t].assigned \in BOOLEAN /\ b.assignee \in BOOLEAN \cup {Absent}
    BY <1>2 DEF Row, Body
  <2>2. CASE QueuePut(t, b)
    BY <2>1, <2>2 DEF QueuePut
  <2>3. CASE UnifiedPut(t, b)
    BY <2>1, <2>3 DEF UnifiedPut, Or
  <2> QED
    BY <2>2, <2>3
<1> DEFINE r == PutRow(tasks[t], b, a)
<1>4. /\ r \in Row /\ r.plan_status = tasks[t].plan_status /\ r.error = tasks[t].error
      /\ tasks[t].plan_status = "submitted" => r.plan = tasks[t].plan
  BY <1>1, <1>2, PutRowType
<1>5. r.plan_status = "submitted" => r.plan = shown[t]
  BY <1>1, <1>4 DEF BoardInv, SubmittedPlanShown
<1>6. Set(t, r)
  BY <1>3
<1> HIDE DEF r
<1>7. /\ tasks' \in [Task -> Row \cup {NoRow, Gone}]
      /\ \A u \in Task : RowShown(u)' /\ StepOK(u)
  BY <1>1, <1>4, <1>5, <1>6, WriteRow
<1>8. TypeOK'
  BY <1>1, <1>7 DEF BoardInv, TypeOK, env
<1> QED
  BY <1>7, <1>8, AllRows

-----------------------------------------------------------------------------
(* The sweeps rewrite several rows at once.                                *)

\* What a sweep may write into the row of an active task.
SweptRow(t, r) ==
    /\ t \in Active /\ r \in Row
    /\ r.plan = tasks[t].plan /\ r.plan_status = tasks[t].plan_status
    /\ r.error \in {"orchestrator_died", "orchestrator_restarted", "stale_task_recovery"}
          => r.error = tasks[t].error \/ ~hasRecoverableWorker(t)

\* A step that rewrites rows the way the background sweeps do, any number
\* of them at once.
LEMMA SweepRows ==
    ASSUME BoardInv, tasks' \in [Task -> Row \cup {NoRow, Gone}],
           \A t \in Task : tasks'[t] = tasks[t] \/ SweptRow(t, tasks'[t]),
           UNCHANGED <<taskWorkers, reported, shown, approvedPlan>>,
           job' \in [Worker -> {"none", "open", "completed", "dead"}],
           orchAlive' \in BOOLEAN, spawning' \subseteq spawning
    PROVE  BoardInv' /\ \A u \in Task : StepOK(u)
<1>1. TypeOK'
  BY DEF BoardInv, TypeOK
<1>2. ASSUME NEW t \in Task
      PROVE  RowShown(t)' /\ StepOK(t)
  <2>1. CASE tasks'[t] = tasks[t]
    BY <2>1, SameRow DEF BoardInv
  <2>2. CASE SweptRow(t, tasks'[t])
    <3>1. tasks[t].status \in {"assigned", "in_progress"} /\ Exists(t)
      BY <2>2 DEF SweptRow, Active, Exists, Status
    <3>2. RowShown(t)'
      BY <2>2, <3>1 DEF SweptRow, RowShown, BoardInv, SubmittedPlanShown
    <3>3. SettledStep(t) /\ ApprovalStep(t)
      BY <3>1 DEF SettledStep, ApprovalStep
    <3>4. RecoverStep(t)
      BY <2>2 DEF SweptRow, RecoverStep, hasRecoverableWorker
    <3> QED
      BY <3>2, <3>3, <3>4 DEF StepOK
  <2> QED
    BY <2>1, <2>2
<1> QED
  BY <1>1, <1>2, AllRows

\* The rows the sweeps write: put back for a fresh orchestrator, completed
\* by a reported result, given back to the queue, or failed.
LEMMA SweptRows ==
    ASSUME BoardInv, NEW t \in Active
    PROVE  /\ t \in Task /\ tasks[t] \in Row
           /\ SweptRow(t, [tasks[t] EXCEPT !.status = "assigned"])
           /\ SweptRow(t, [tasks[t] EXCEPT !.status = "assigned", !.error = Null])
           /\ SweptRow(t, [tasks[t] EXCEPT !.status = "completed"])
           /\ SweptRow(t, [tasks[t] EXCEPT !.status = "pending", !.assigned = FALSE,
                                           !.error = Null])
           /\ ~hasRecoverableWorker(t) =>
                 \A e \in Error : SweptRow(t, Failed(t, e))
           /\ \A e \in {"orphaned", "wedge_restart_cap_exceeded"} : SweptRow(t, Failed(t, e))
<1>1. t \in Task /\ tasks[t] \in Row
  BY RowOf DEF Active, Exists, Status, BoardInv
<1>2. SweptRow(t, [tasks[t] EXCEPT !.status = "assigned"])
  BY <1>1 DEF SweptRow, Row, Status
<1>3. SweptRow(t, [tasks[t] EXCEPT !.status = "assigned", !.error = Null])
  BY <1>1, NullAssumption DEF SweptRow, Row, Status, Error
<1>4. SweptRow(t, [tasks[t] EXCEPT !.status = "completed"])
  BY <1>1 DEF SweptRow, Row, Status
<1>5. SweptRow(t, [tasks[t] EXCEPT !.status = "pending", !.assigned = FALSE, !.error = Null])
  BY <1>1, NullAssumption DEF SweptRow, Row, Status, Error
<1>6. ASSUME ~hasRecoverableWorker(t), NEW e \in Error
      PROVE  SweptRow(t, Failed(t, e))
  BY <1>1, <1>6 DEF SweptRow, Row, Status, Failed
<1>7. ASSUME NEW e \in {"orphaned", "wedge_restart_cap_exceeded"}
      PROVE  SweptRow(t, Failed(t, e))
  BY <1>1, <1>7 DEF SweptRow, Row, Status, Failed, Error
<1> QED
  BY <1>1, <1>2, <1>3, <1>4, <1>5, <1>6, <1>7

\* A function that rewrites active rows only is a table of rows again.
LEMMA SweptTable ==
    ASSUME BoardInv, NEW f, tasks' = [t \in Task |-> f[t]],
           \A t \in Task : f[t] = tasks[t] \/ SweptRow(t, f[t])
    PROVE  /\ tasks' \in [Task -> Row \cup {NoRow, Gone}]
           /\ \A t \in Task : tasks'[t] = tasks[t] \/ SweptRow(t, tasks'[t])
<1>1. \A t \in Task : f[t] \in Row \cup {NoRow, Gone}
  BY DEF SweptRow, BoardInv, TypeOK
<1> QED
  BY <1>1

\* The sweeps of the monitors and of the boot.
LEMMA SweepStepOK ==
    ASSUME BoardInv, SweepStep
    PROVE  BoardInv' /\ \A u \in Task : StepOK(u)
<1> USE DEF env
<1>0. /\ job \in [Worker -> {"none", "open", "completed", "dead"}]
      /\ orchAlive \in BOOLEAN
  BY DEF BoardInv, TypeOK
<1>1. ASSUME CleanupZombieTasks
      PROVE  BoardInv' /\ \A u \in Task : StepOK(u)
  <2> DEFINE f == [t \in Task |->
                      IF t \in Active
                      THEN IF hasRecoverableWorker(t) THEN [tasks[t] EXCEPT !.status = "assigned"]
                           ELSE Failed(t, "orchestrator_died")
                      ELSE tasks[t]]
  <2>1. tasks' = f /\ UNCHANGED <<env, shown, approvedPlan>>
    BY <1>1 DEF CleanupZombieTasks, Sweep
  <2>2. \A t \in Task : f[t] = tasks[t] \/ SweptRow(t, f[t])
    BY SweptRows DEF Error
  <2> HIDE DEF f
  <2> QED
    BY <1>0, <2>1, <2>2, SweptTable, SweepRows DEF f
<1>2. ASSUME CleanupOrphanedTasks
      PROVE  BoardInv' /\ \A u \in Task : StepOK(u)
  <2>0. PICK hit \in SUBSET Active : Sweep(hit, LAMBDA t :
          IF hasRecoverableWorker(t)
          THEN [tasks[t] EXCEPT !.status = "assigned", !.error = Null]
          ELSE Failed(t, "orchestrator_restarted"))
    BY <1>2 DEF CleanupOrphanedTasks
  <2> DEFINE f == [t \in Task |->
                      IF t \in hit
                      THEN IF hasRecoverableWorker(t)
                           THEN [tasks[t] EXCEPT !.status = "assigned", !.error = Null]
                           ELSE Failed(t, "orchestrator_restarted")
                      ELSE tasks[t]]
  <2>1. tasks' = f /\ UNCHANGED <<env, shown, approvedPlan>>
    BY <2>0 DEF Sweep
  <2>2. \A t \in Task : f[t] = tasks[t] \/ SweptRow(t, f[t])
    BY SweptRows DEF Error
  <2> HIDE DEF f
  <2> QED
    BY <1>0, <2>1, <2>2, SweptTable, SweepRows DEF f
<1>3. ASSUME StaleTaskRecovery
      PROVE  BoardInv' /\ \A u \in Task : StepOK(u)
  <2>0. PICK hit \in SUBSET {t \in Active : ~hasLiveWorkers(t)} : Sweep(hit, LAMBDA t :
              IF hasRecoverableWorker(t)
              THEN [tasks[t] EXCEPT !.status = "assigned", !.error = Null]
              ELSE IF t \in reported
                   THEN [tasks[t] EXCEPT !.status = "completed"]
                   ELSE Failed(t, "stale_task_recovery"))
    BY <1>3 DEF StaleTaskRecovery
  <2> DEFINE f == [t \in Task |->
                      IF t \in hit
                      THEN IF hasRecoverableWorker(t)
                           THEN [tasks[t] EXCEPT !.status = "assigned", !.error = Null]
                           ELSE IF t \in reported
                                THEN [tasks[t] EXCEPT !.status = "completed"]
                                ELSE Failed(t, "stale_task_recovery")
                      ELSE tasks[t]]
  <2>1. tasks' = f /\ UNCHANGED <<env, shown, approvedPlan>>
    BY <2>0 DEF Sweep
  <2>2. \A t \in Task : f[t] = tasks[t] \/ SweptRow(t, f[t])
    BY SweptRows DEF Error
  <2> HIDE DEF f
  <2> QED
    BY <1>0, <2>1, <2>2, SweptTable, SweepRows DEF f
<1>4. ASSUME WedgeRestart
      PROVE  BoardInv' /\ \A u \in Task : StepOK(u)
  <2>0. PICK hit \in SUBSET Active : tasks' = [t \in Task |->
              IF t \in hit THEN [tasks[t] EXCEPT !.status = "pending", !.assigned = FALSE,
                                                 !.error = Null]
                           ELSE tasks[t]]
    BY <1>4 DEF WedgeRestart
  <2> DEFINE f == [t \in Task |->
              IF t \in hit THEN [tasks[t] EXCEPT !.status = "pending", !.assigned = FALSE,
                                                 !.error = Null]
                           ELSE tasks[t]]
  <2>1. /\ tasks' = f /\ orchAlive' \in BOOLEAN
        /\ UNCHANGED <<taskWorkers, job, reported, spawning, shown, approvedPlan>>
    BY <1>4, <2>0 DEF WedgeRestart
  <2>2. \A t \in Task : f[t] = tasks[t] \/ SweptRow(t, f[t])
    BY SweptRows
  <2> HIDE DEF f
  <2> QED
    BY <1>0, <2>1, <2>2, SweptTable, SweepRows DEF f
<1>5. ASSUME WedgeCap
      PROVE  BoardInv' /\ \A u \in Task : StepOK(u)
  <2>0. PICK hit \in SUBSET Active :
            Sweep(hit, LAMBDA t : Failed(t, "wedge_restart_cap_exceeded"))
    BY <1>5 DEF WedgeCap
  <2> DEFINE f == [t \in Task |-> IF t \in hit THEN Failed(t, "wedge_restart_cap_exceeded")
                                  ELSE tasks[t]]
  <2>1. tasks' = f /\ UNCHANGED <<env, shown, approvedPlan>>
    BY <2>0 DEF Sweep
  <2>2. \A t \in Task : f[t] = tasks[t] \/ SweptRow(t, f[t])
    BY SweptRows
  <2> HIDE DEF f
  <2> QED
    BY <1>0, <2>1, <2>2, SweptTable, SweepRows DEF f
<1>6. ASSUME DaemonRestart
      PROVE  BoardInv' /\ \A u \in Task : StepOK(u)
  <2> DEFINE f == [t \in Task |-> IF ~orchAlive /\ t \in Active THEN Failed(t, "orphaned")
                                                                ELSE tasks[t]]
  <2>1. /\ tasks' = f /\ spawning' = {}
        /\ UNCHANGED <<taskWorkers, orchAlive, reported, shown, approvedPlan>>
    BY <1>6 DEF DaemonRestart
  <2>2. job' \in [Worker -> {"none", "open", "completed", "dead"}]
    BY <1>0, <1>6 DEF DaemonRestart
  <2>3. \A t \in Task : f[t] = tasks[t] \/ SweptRow(t, f[t])
    BY SweptRows
  <2> HIDE DEF f
  <2> QED
    BY <1>0, <2>1, <2>2, <2>3, SweptTable, SweepRows DEF f
<1> QED
  BY <1>1, <1>2, <1>3, <1>4, <1>5, <1>6 DEF SweepStep

-----------------------------------------------------------------------------
(* The whole board                                                         *)

\* The steps of the orchestrator, of the workers and of the handlers that
\* write no row.
LEMMA OtherSteps ==
    ASSUME BoardInv,
           \/ \E t \in Task : \/ EscalateRetry(t) \/ ReportResult(t)
                              \/ \E w \in Worker : QueueAssignWorker(t, w)
                                                   \/ UnifiedAssignWorker(t, w)
           \/ OrchestratorComesUp \/ OrchestratorGoesDown
           \/ \E w \in Worker : WorkerSpawned(w) \/ WorkerEnded(w)
    PROVE  BoardInv' /\ \A u \in Task : StepOK(u)
<1> USE DEF EscalateRetry, ReportResult, QueueAssignWorker, UnifiedAssignWorker, AssignWorker,
            OrchestratorComesUp, OrchestratorGoesDown, WorkerSpawned, WorkerEnded
<1>1. UNCHANGED <<tasks, shown, approvedPlan>>
  OBVIOUS
<1>2. TypeOK
  BY DEF BoardInv
<1>3. ASSUME NEW t \in Task, EscalateRetry(t) \/ ReportResult(t)
      PROVE  TypeOK'
  BY <1>2, <1>3 DEF TypeOK
<1>4. ASSUME NEW t \in Task, NEW w \in Worker,
             QueueAssignWorker(t, w) \/ UnifiedAssignWorker(t, w)
      PROVE  TypeOK'
  BY <1>2, <1>4 DEF TypeOK
<1>5. ASSUME OrchestratorComesUp \/ OrchestratorGoesDown
      PROVE  TypeOK'
  BY <1>2, <1>5 DEF TypeOK
<1>6. ASSUME NEW w \in Worker, WorkerSpawned(w) \/ WorkerEnded(w)
      PROVE  TypeOK'
  BY <1>2, <1>6 DEF TypeOK
<1>7. TypeOK'
  BY <1>3, <1>4, <1>5, <1>6
<1> QED
  BY <1>1, <1>7, QuietStep

\* The invariant holds at the start and every step keeps it and is allowed.
LEMMA BoardStep ==
    ASSUME BoardInv, [Next]_vars
    PROVE  BoardInv' /\ \A u \in Task : StepOK(u)
<1>1. CASE UNCHANGED vars
  <2>1. TypeOK'
    BY <1>1 DEF BoardInv, TypeOK, vars
  <2> QED
    BY <1>1, <2>1, QuietStep DEF vars
<1>2. CASE \E t \in Task : ApiStep(t)
  <2>1. PICK t \in Task : ApiStep(t)
    BY <1>2
  <2> QED
    BY <2>1, CreateStep, DeleteStep, GiveUpStep, SubmitStep, ApproveStep, RejectRetryStep,
       CancelStep, PutStep, OtherSteps DEF ApiStep
<1>3. CASE SweepStep
  BY <1>3, SweepStepOK
<1>4. CASE \/ OrchestratorComesUp \/ OrchestratorGoesDown
           \/ \E w \in Worker : WorkerSpawned(w) \/ WorkerEnded(w)
  BY <1>4, OtherSteps
<1> QED
  BY <1>1, <1>2, <1>3, <1>4 DEF Next

\* No task exists at the start.
LEMMA BoardInit == Init => BoardInv
<1> SUFFICES ASSUME Init PROVE BoardInv
  OBVIOUS
<1>1. TypeOK
  BY DEF Init, TypeOK
<1>2. \A t \in Task : ~Exists(t)
  BY DEF Init, Exists, NoRow, Status
<1> QED
  BY <1>1, <1>2 DEF BoardInv, SubmittedPlanShown

\* Every state of the task board has its types, and a plan that waits for a
\* decision is the text comms was shown.
THEOREM BoardInvariant == Spec => []BoardInv
<1>1. BoardInv /\ [Next]_vars => BoardInv'
  BY BoardStep
<1> QED
  BY BoardInit, <1>1, PTL DEF Spec

\* A completed or cancelled task stays so but for an escalation that gives up.
THEOREM SettledTasksAreFinal == Spec => SettledIsFinal
<1> DEFINE A == \A t \in Task : SettledStep(t)
<1>1. BoardInv /\ [Next]_vars => [A]_vars
  BY BoardStep DEF StepOK
<1>2. Spec => [][A]_vars
  <2> HIDE DEF A
  <2> QED
    BY BoardInvariant, <1>1, PTL DEF Spec
<1> QED
  BY <1>2 DEF SettledIsFinal, SettledStep

\* The plan that is approved is the plan that was shown.
THEOREM ApprovalsAreInformed == Spec => ApprovedPlanWasShown
<1> DEFINE A == \A t \in Task : ApprovalStep(t)
<1>1. BoardInv /\ [Next]_vars => [A]_vars
  BY BoardStep DEF StepOK
<1>2. Spec => [][A]_vars
  <2> HIDE DEF A
  <2> QED
    BY BoardInvariant, <1>1, PTL DEF Spec
<1> QED
  BY <1>2 DEF ApprovedPlanWasShown, ApprovalStep

\* No sweep fails a task whose workers may still have a result.
THEOREM SweepsKeepRecoverableWork == Spec => RecoverableWorkKept
<1> DEFINE A == \A t \in Task : RecoverStep(t)
<1>1. BoardInv /\ [Next]_vars => [A]_vars
  BY BoardStep DEF StepOK
<1>2. Spec => [][A]_vars
  <2> HIDE DEF A
  <2> QED
    BY BoardInvariant, <1>1, PTL DEF Spec
<1> QED
  BY <1>2 DEF RecoverableWorkKept, RecoverStep
=============================================================================
