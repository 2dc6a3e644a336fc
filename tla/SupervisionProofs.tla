-------------------------- MODULE SupervisionProofs --------------------------
(***************************************************************************)
(* Proofs about the force-kill timer of OrchestratorSupervision, for any   *)
(* number of tasks, sessions and restarts: what a shutdown may kill when   *)
(* escalations, wedge restarts and the idle monitor come in between.       *)
(***************************************************************************)
EXTENDS OrchestratorSupervision, TLAPS

\* The timers and the variable that names the one escalate can cancel; that
\* one is never a timer that new work came after.
TimersSound ==
    /\ timers \in [Timer -> {"off", "armed", "replaced"}]
    /\ pendingShutdownTimer \in 0..MaxTimers
    /\ superseded \subseteq Timer
    /\ pendingShutdownTimer \notin superseded

\* Every timer that runs is the one escalate can cancel.
TimersKnown == superseded = {} /\ \A i \in Timer : timers[i] # "off" => pendingShutdownTimer = i

-----------------------------------------------------------------------------
(* What a step does to the timers                                          *)

\* A step that leaves them alone, or starts a session and thereby outdates
\* them.
TimersStay ==
    /\ \/ timers' = timers
       \/ timers' = [i \in Timer |-> IF timers[i] = "armed" THEN "replaced" ELSE timers[i]]
    /\ UNCHANGED <<pendingShutdownTimer, superseded>>

\* Escalate, shutdown, the timer itself and a restart of the daemon are all
\* that arm or clear a timer.
LEMMA TimerCases ==
    ASSUME [Next]_vars
    PROVE  \/ TimersStay \/ DaemonRestart
           \/ \E t \in Task : Escalate(t)
           \/ \E i \in Timer : Shutdown(i) \/ TimerFires(i)
<1> USE DEF TimersStay, timerVars
<1>1. CASE UNCHANGED vars
  BY <1>1 DEF vars
<1>2. ASSUME NEW t \in Task, CreateTask(t) \/ Retry(t) \/ DecidePlan(t) PROVE TimersStay
  BY <1>2 DEF CreateTask, Retry, DecidePlan, Put
<1>3. CASE Orchestrator
  <2>1. CASE Wakes \/ Rests \/ Exits \/ MessageDelivered
    BY <2>1 DEF Wakes, Rests, Exits, MessageDelivered, SessionGoes
  <2>2. ASSUME NEW t \in Task,
               \/ Assign(t) \/ Start(t) \/ Progress(t) \/ SubmitPlan(t)
               \/ Complete(t) \/ Fail(t) \/ SpawnWorker(t)
        PROVE  TimersStay
    BY <2>2 DEF Assign, Start, Progress, SubmitPlan, Complete, Fail, SpawnWorker, Put
  <2> QED
    BY <1>3, <2>1, <2>2 DEF Orchestrator
<1>4. CASE Tick
  <2>1. CASE TickNudgedGone \/ TickNudgedWaits \/ TickNudgedKills \/ TickJustSpawned
    BY <2>1 DEF TickNudgedGone, TickNudgedWaits, TickNudgedKills, TickJustSpawned
  <2>2. CASE TickDead
    BY <2>2 DEF TickDead, Spawn
  <2>3. CASE TickBusy \/ TickLiveWork \/ TickNotIdle \/ TickWakes \/ TickResumes
    BY <2>3 DEF TickBusy, TickLiveWork, TickNotIdle, TickWakes, TickResumes
  <2>4. ASSUME NEW c \in BOOLEAN, TickNudges(c) PROVE TimersStay
    BY <2>4 DEF TickNudges
  <2> QED
    BY <1>4, <2>1, <2>2, <2>3, <2>4 DEF Tick
<1>5. CASE NudgeStep \/ TimeStep
  BY <1>5 DEF NudgeStep, NudgeLands, NudgeFails, TimeStep, IdleTimeout, GraceEnds,
              FastRetryWindowEnds, RowAges
<1>6. ASSUME NEW t \in Task, WorkerEnds(t) PROVE TimersStay
  BY <1>6 DEF WorkerEnds
<1>7. CASE WedgeRestart \/ StaleTaskRecovery
  BY <1>7 DEF WedgeRestart, StaleTaskRecovery, Spawn
<1> QED
  BY <1>1, <1>2, <1>3, <1>4, <1>5, <1>6, <1>7 DEF Next, Client

\* The timers escalate leaves running: all but the one it can name.
LEMMA TimersAfterEscalate ==
    ASSUME NEW t \in Task, TimersSound, Escalate(t)
    PROVE  /\ timers' \in [Timer -> {"off", "armed", "replaced"}]
           /\ pendingShutdownTimer' = 0
           /\ superseded' = {i \in Timer : timers'[i] # "off"}
           /\ pendingShutdownTimer # 0 => timers'[pendingShutdownTimer] = "off"
           /\ \A i \in Timer : timers[i] = "off" => timers'[i] = "off"
<1> USE MaxTimersAssumption DEF TimersSound, Timer
<1>1. /\ CancelTimer \in [Timer -> {"off", "armed", "replaced"}]
      /\ pendingShutdownTimer # 0 => CancelTimer[pendingShutdownTimer] = "off"
      /\ \A i \in Timer : timers[i] = "off" => CancelTimer[i] = "off"
  BY DEF CancelTimer
<1>2. \/ timers' = CancelTimer
      \/ timers' = [i \in Timer |-> IF CancelTimer[i] = "armed" THEN "replaced"
                                    ELSE CancelTimer[i]]
  BY DEF Escalate, Spawn
<1>3. \A i \in Timer : timers'[i] = "off" <=> CancelTimer[i] = "off"
  BY <1>1, <1>2
<1>4. timers' \in [Timer -> {"off", "armed", "replaced"}]
  BY <1>1, <1>2
<1>5. superseded' = {i \in Timer : CancelTimer[i] # "off"} /\ pendingShutdownTimer' = 0
  BY DEF Escalate
<1> QED
  BY <1>1, <1>3, <1>4, <1>5

\* Every step keeps the timer escalate can cancel apart from those that new
\* work came after.
LEMMA TimersSoundStep ==
    ASSUME TimersSound, [Next]_vars
    PROVE  TimersSound'
<1> USE MaxTimersAssumption DEF TimersSound, Timer
<1>1. CASE TimersStay
  BY <1>1 DEF TimersStay
<1>2. CASE DaemonRestart
  BY <1>2 DEF DaemonRestart
<1>3. ASSUME NEW t \in Task, Escalate(t) PROVE TimersSound'
  BY <1>3, TimersAfterEscalate
<1>4. ASSUME NEW i \in Timer, Shutdown(i) PROVE TimersSound'
  BY <1>4 DEF Shutdown
<1>5. ASSUME NEW i \in Timer, TimerFires(i) PROVE TimersSound'
  BY <1>5 DEF TimerFires
<1> QED
  BY <1>1, <1>2, <1>3, <1>4, <1>5, TimerCases

\* With one request at a time there is no timer escalate cannot name.
LEMMA TimersKnownStep ==
    ASSUME MaxTimers = 1, TimersSound, TimersKnown, [Next]_vars
    PROVE  TimersKnown'
<1> USE DEF TimersSound, TimersKnown, Timer
<1>1. CASE TimersStay
  BY <1>1 DEF TimersStay
<1>2. CASE DaemonRestart
  BY <1>2 DEF DaemonRestart
<1>3. ASSUME NEW t \in Task, Escalate(t) PROVE TimersKnown'
  BY <1>3, TimersAfterEscalate
<1>4. ASSUME NEW i \in Timer, Shutdown(i) PROVE TimersKnown'
  BY <1>4 DEF Shutdown
<1>5. ASSUME NEW i \in Timer, TimerFires(i) PROVE TimersKnown'
  BY <1>5 DEF TimerFires
<1> QED
  BY <1>1, <1>2, <1>3, <1>4, <1>5, TimerCases

\* No timer runs at the start.
LEMMA TimersInit == Init => TimersSound /\ TimersKnown
BY MaxTimersAssumption DEF Init, TimersSound, TimersKnown, Timer

\* Only the timer's own callback ends a session and its timer in one step.
LEMMA TimerKill ==
    ASSUME TimersSound, [Next]_vars, NEW i \in Timer,
           timers[i] # "off", timers'[i] = "off", Alive, ~Alive'
    PROVE  TimerFires(i) /\ timers[i] = "armed"
<1> USE DEF TimersSound, Alive
<1>1. ~TimersStay
  BY DEF TimersStay
<1>2. ~DaemonRestart
  BY DEF DaemonRestart
<1>3. \A t \in Task : ~Escalate(t)
  BY DEF Escalate, Spawn
<1>4. \A k \in Timer : ~Shutdown(k)
  BY DEF Shutdown
<1>5. PICK k \in Timer : TimerFires(k)
  BY <1>1, <1>2, <1>3, <1>4, TimerCases
<1>6. k = i
  BY <1>5 DEF TimerFires
<1> QED
  BY <1>5, <1>6 DEF TimerFires, Kill

-----------------------------------------------------------------------------
\* The force-kill of a shutdown (api/orchestrator.ts 452-483) hits the
\* instance it was armed for, and the timer of the latest request never one
\* that escalate (303-308) has given new work since, however many requests
\* overlap.
THEOREM LatestTimerSparesNewWork ==
    Spec => [][\A i \in Timer :
                  timers[i] # "off" /\ timers'[i] = "off" /\ Alive /\ ~Alive' =>
                      timers[i] = "armed" /\ ~(i = pendingShutdownTimer /\ i \in superseded)]_vars
<1> DEFINE A == \A i \in Timer :
                  timers[i] # "off" /\ timers'[i] = "off" /\ Alive /\ ~Alive' =>
                      timers[i] = "armed" /\ ~(i = pendingShutdownTimer /\ i \in superseded)
<1>1. TimersSound /\ [Next]_vars => TimersSound'
  BY TimersSoundStep
<1>2. TimersSound /\ [Next]_vars => [A]_vars
  BY TimerKill DEF TimersSound
<1> QED
  BY TimersInit, <1>1, <1>2, PTL DEF Spec

\* With one shutdown request at a time no timer kills new work at all.
THEOREM TimersSpareNewWork ==
    ASSUME MaxTimers = 1
    PROVE  Spec => TimerSparesNewWork
<1> DEFINE A == \A i \in Timer :
                  timers[i] # "off" /\ timers'[i] = "off" /\ Alive /\ ~Alive' =>
                      timers[i] = "armed" /\ i \notin superseded
<1>1. TimersSound /\ TimersKnown /\ [Next]_vars => TimersSound' /\ TimersKnown'
  BY TimersSoundStep, TimersKnownStep
<1>2. TimersSound /\ TimersKnown /\ [Next]_vars => [A]_vars
  BY TimerKill DEF TimersKnown
<1> QED
  BY TimersInit, <1>1, <1>2, PTL DEF Spec, TimerSparesNewWork

-----------------------------------------------------------------------------
(* Type correctness                                                        *)

Rows == [Task -> Row \cup {NoRow}]

\* A row with a status of its own is a row.
LEMMA RealRow ==
    ASSUME NEW r \in Row \cup {NoRow}, r.status # "none"
    PROVE  r \in Row
BY DEF NoRow

\* The UPDATE of a row gives a row.
LEMMA WriteType ==
    ASSUME NEW r \in Row, NEW s \in Active \cup {"pending", "awaiting_approval", "failed"}
    PROVE  Write(r, s) \in Row
<1>1. Recent \in Recent..Stale
  BY DEF Recent, Stale
<1> QED
  BY <1>1 DEF Write, Row

\* The INSERT of a task gives a row.
LEMMA NewRowType == NewRow \in Row
BY DEF NewRow, Row, Stamp, Recent, Stale, Active

\* The sweeps and a new session give rows.
LEMMA SweepType ==
    ASSUME NEW rows \in Rows
    PROVE  /\ SweepOrphans(rows) \in Rows /\ SweepZombies(rows) \in Rows
           /\ [t \in Task |-> Older(rows[t])] \in Rows
<1>1. \A t \in Task : rows[t].status \in Active => rows[t] \in Row
  BY RealRow DEF Rows, Active
<1>2. \A r \in Row, s \in {"assigned", "failed"} : Write(r, s) \in Row
  BY WriteType DEF Active
<1>3. SweepOrphans(rows) \in Rows
  <2>1. \A r \in Row : [Write(r, "failed") EXCEPT !.error = "orchestrator_restarted"] \in Row
    BY <1>2 DEF Row
  <2> QED
    BY <1>1, <1>2, <2>1 DEF SweepOrphans, Rows
<1>4. SweepZombies(rows) \in Rows
  <2>1. \A r \in Row : [Write(r, "assigned") EXCEPT !.assigned_at = "cur"] \in Row
    BY <1>2 DEF Row, Stamp
  <2> QED
    BY <1>1, <1>2, <2>1 DEF SweepZombies, Rows
<1>5. [t \in Task |-> Older(rows[t])] \in Rows
  <2>1. \A r \in Row :
           [r EXCEPT !.assigned_at = Outdate(@), !.started_at = Outdate(@)] \in Row
    BY DEF Row, Stamp, Outdate
  <2> QED
    BY <2>1 DEF Older, Rows
<1> QED
  BY <1>3, <1>4, <1>5

\* Every variable but the timers.
MonitorTypeOK ==
    /\ task \in Rows
    /\ worker \in [Task -> {"none", "open", "completed", "dead"}]
    /\ session \in {"dead", "waiting", "active"}
    /\ idle \in BOOLEAN /\ justSpawned \in BOOLEAN
    /\ monitor \in {"ready", "nudging"}
    /\ nudge \in {"none", "grace", "expired"}
    /\ noProgress \in 0..IN_PROGRESS_NO_PROGRESS_BUDGET - 1

\* The counter of fruitless nudges may be zero.
LEMMA BudgetPositive == 0 \in 0..IN_PROGRESS_NO_PROGRESS_BUDGET - 1
BY DEF IN_PROGRESS_NO_PROGRESS_BUDGET

\* Every step of API, session, monitors and sweeps keeps the types.
LEMMA MonitorTypeStep ==
    ASSUME MonitorTypeOK, [Next]_vars
    PROVE  MonitorTypeOK'
<1> USE DEF MonitorTypeOK, idleVars, Kill
<1>a. Swept \in Rows /\ SweepZombies(Swept) \in Rows
  BY SweepType DEF Swept
<1>b. \A rows \in Rows : [t \in Task |-> Older(rows[t])] \in Rows
  BY SweepType
<1>c. \A t \in Task, r \in Row \cup {NoRow} : [task EXCEPT ![t] = r] \in Rows
  BY DEF Rows
<1>d. \A t \in Task : task[t].status # "none" => task[t] \in Row
  BY RealRow DEF Rows
<1>e. \A t \in Task, s \in {"assigned", "in_progress", "pending", "awaiting_approval", "failed"} :
         task[t].status # "none" => Write(task[t], s) \in Row
  BY <1>d, WriteType DEF Active
<1>0. CASE UNCHANGED vars
  BY <1>0 DEF vars
<1>1. ASSUME NEW t \in Task, CreateTask(t) \/ Escalate(t) PROVE MonitorTypeOK'
  <2>1. Write(NewRow, "failed") \in Row
    BY NewRowType, WriteType
  <2>2. [task EXCEPT ![t] = NewRow] \in Rows
        /\ [task EXCEPT ![t] = Write(NewRow, "failed")] \in Rows
    BY <1>c, <2>1, NewRowType
  <2>3. CASE CreateTask(t)
    BY <2>2, <2>3 DEF CreateTask
  <2>4. CASE Escalate(t)
    <3>1. task' \in Rows
      BY <2>2, <2>4, <1>b DEF Escalate, Spawn
    <3>2. idle' \in BOOLEAN /\ session' \in {"dead", "waiting", "active"}
      BY <2>4 DEF Escalate, Spawn
    <3> QED
      BY <2>4, <3>1, <3>2 DEF Escalate
  <2> QED
    BY <1>1, <2>3, <2>4
<1>2. ASSUME NEW t \in Task, Retry(t) \/ DecidePlan(t) PROVE MonitorTypeOK'
  <2>1. CASE Retry(t)
    <3>1. [Write(task[t], "pending") EXCEPT !.error = "null"] \in Row
      BY <2>1, <1>e DEF Retry, Row
    <3> QED
      BY <2>1, <3>1, <1>c DEF Retry
  <2>2. CASE DecidePlan(t)
    BY <2>2, <1>c, <1>e DEF DecidePlan, Put
  <2> QED
    BY <1>2, <2>1, <2>2
<1>3. ASSUME NEW i \in Timer, Shutdown(i) \/ TimerFires(i) PROVE MonitorTypeOK'
  BY <1>3 DEF Shutdown, TimerFires
<1>4. CASE Orchestrator
  <2>1. CASE Wakes \/ Rests \/ Exits \/ MessageDelivered
    BY <2>1 DEF Wakes, Rests, Exits, MessageDelivered, SessionGoes
  <2>2. ASSUME NEW t \in Task, Assign(t) \/ Start(t) PROVE MonitorTypeOK'
    <3>1. /\ task[t].status \in {"pending", "assigned"}
          /\ Assign(t) => [Write(task[t], "assigned") EXCEPT !.assigned_at = StampIfNull(@)] \in Row
          /\ Start(t) => [Write(task[t], "in_progress") EXCEPT !.started_at = StampIfNull(@)] \in Row
      BY <2>2, <1>e DEF Assign, Start, Put, Row, Stamp, StampIfNull
    <3> QED
      BY <2>2, <3>1, <1>c DEF Assign, Start, Put
  <2>3. ASSUME NEW t \in Task, Progress(t) \/ SubmitPlan(t) \/ Complete(t) \/ Fail(t)
        PROVE  MonitorTypeOK'
    BY <2>3, <1>c, <1>e DEF Progress, SubmitPlan, Complete, Fail, Put
  <2>4. ASSUME NEW t \in Task, SpawnWorker(t) PROVE MonitorTypeOK'
    BY <2>4 DEF SpawnWorker
  <2> QED
    BY <1>4, <2>1, <2>2, <2>3, <2>4 DEF Orchestrator
<1>5. CASE Tick
  <2>1. CASE TickNudgedGone \/ TickNudgedWaits \/ TickNudgedKills \/ TickJustSpawned
    BY <2>1, <1>a DEF TickNudgedGone, TickNudgedWaits, TickNudgedKills, TickJustSpawned
  <2>2. CASE TickDead
    BY <2>2, <1>a, <1>b DEF TickDead, Spawn
  <2>3. CASE TickBusy \/ TickLiveWork \/ TickNotIdle \/ TickWakes
    BY <2>3, <1>a DEF TickBusy, TickLiveWork, TickNotIdle, TickWakes
  <2>4. CASE TickResumes
    BY <2>4, <1>a DEF TickResumes, IN_PROGRESS_NO_PROGRESS_BUDGET
  <2>5. ASSUME NEW c \in BOOLEAN, TickNudges(c) PROVE MonitorTypeOK'
    BY <2>5, <1>a DEF TickNudges, IN_PROGRESS_NO_PROGRESS_BUDGET
  <2> QED
    BY <1>5, <2>1, <2>2, <2>3, <2>4, <2>5 DEF Tick
<1>6. CASE NudgeStep
  BY <1>6 DEF NudgeStep, NudgeLands, NudgeFails
<1>7. CASE TimeStep
  <2>1. ASSUME NEW t \in Task, RowAges(t) PROVE MonitorTypeOK'
    <3>1. [task[t] EXCEPT !.age = @ + 1] \in Row
      BY <2>1, <1>d DEF RowAges, Row, Active, Recent, Stale
    <3> QED
      BY <2>1, <3>1, <1>c DEF RowAges
  <2> QED
    BY <1>7, <2>1 DEF TimeStep, IdleTimeout, GraceEnds, FastRetryWindowEnds
<1>8. ASSUME NEW t \in Task, WorkerEnds(t) PROVE MonitorTypeOK'
  <2>1. task[t].status \in Active => [task[t] EXCEPT !.age = Recent] \in Row
    BY <1>d DEF Row, Active, Recent, Stale
  <2> QED
    BY <1>8, <2>1, <1>c DEF WorkerEnds
<1>9. CASE WedgeRestart
  <2> DEFINE rows == [t \in Task |-> IF task[t].status \in Active /\ task[t].age >= Frozen
                                     THEN Write(task[t], "pending") ELSE task[t]]
  <2>1. rows \in Rows
    BY <1>e DEF Rows, Active
  <2> HIDE DEF rows
  <2>2. \/ session' = "waiting" /\ task' = [t \in Task |-> Older(rows[t])] /\ idle' = FALSE
        \/ session' = "dead" /\ task' = rows /\ idle' = idle
    BY <1>9 DEF WedgeRestart, Spawn, rows
  <2> QED
    BY <1>9, <1>b, <2>1, <2>2 DEF WedgeRestart
<1>10. CASE StaleTaskRecovery
  <2>1. task' \in Rows
    BY <1>10, <1>e DEF StaleTaskRecovery, Rows, Active
  <2> QED
    BY <1>10, <2>1 DEF StaleTaskRecovery
<1>11. CASE DaemonRestart
  <2>1. task' \in Rows
    BY <1>11, <1>e DEF DaemonRestart, Rows, Active
  <2> QED
    BY <1>11, <2>1, BudgetPositive DEF DaemonRestart
<1> QED
  BY <1>0, <1>1, <1>2, <1>3, <1>4, <1>5, <1>6, <1>7, <1>8, <1>9, <1>10, <1>11 DEF Next, Client

\* Every reachable state is well typed, whatever the supervisors and the API
\* do to the rows in between.
THEOREM SupervisionTypeCorrect == Spec => []TypeOK
<1>1. Init => TimersSound /\ MonitorTypeOK
  <2> SUFFICES ASSUME Init PROVE TimersSound /\ MonitorTypeOK
    OBVIOUS
  <2>1. task \in Rows
    BY DEF Init, Rows
  <2> QED
    BY TimersInit, <2>1, BudgetPositive DEF Init, MonitorTypeOK
<1>2. TimersSound /\ MonitorTypeOK /\ [Next]_vars => TimersSound' /\ MonitorTypeOK'
  BY TimersSoundStep, MonitorTypeStep
<1>3. TimersSound /\ MonitorTypeOK => TypeOK
  BY DEF TimersSound, MonitorTypeOK, TypeOK, Rows
<1> QED
  BY <1>1, <1>2, <1>3, PTL DEF Spec

=============================================================================
