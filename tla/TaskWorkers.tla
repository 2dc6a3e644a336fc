----------------------------- MODULE TaskWorkers -----------------------------
(***************************************************************************)
(* The task API on top of the worker lifecycle: a task names the jobs that *)
(* work for it (table task_workers), and cancelling the task is meant to   *)
(* stop them.  POST /:id/cancel of api/task-queue.ts and                   *)
(* api/unified-tasks.ts writes worker_jobs behind the back of              *)
(* agents/lifecycle.ts, so the question is what the two make of one row.   *)
(*                                                                         *)
(* cancel is one callback, but a sequence of SQL statements: the process   *)
(* may be killed between two of them, and no other callback of the daemon  *)
(* runs meanwhile.                                                         *)
(***************************************************************************)
EXTENDS WorkerLifecycle

CONSTANTS
    Task,      \* orchestrator tasks, already in_progress
    NoTask     \* no cancel handler is running

ASSUME NoTaskAssumption == NoTask \notin Task

VARIABLES
    taskStatus,   \* tasks.status, as far as cancel tells it apart
    taskWorkers,  \* task_workers, the jobs of each task
    cancelling    \* the task whose cancel handler is running, and the workers left

taskVars == <<taskStatus, taskWorkers, cancelling>>
allVars  == <<vars, taskVars>>

NotCancelling == [t |-> NoTask, rest |-> {}]

TasksInit ==
    /\ Init
    /\ taskStatus = [t \in Task |-> "in_progress"]
    /\ taskWorkers = [t \in Task |-> {}]
    /\ cancelling = NotCancelling

-----------------------------------------------------------------------------
\* POST /:id/workers: the client names a job it spawned; refused on a terminal
\* task and on a pair already there (PRIMARY KEY).
AssignWorker(d, t, j) ==
    /\ Free(d)
    /\ taskStatus[t] = "in_progress"
    /\ jobs[j] # "none" /\ j \notin taskWorkers[t]
    /\ taskWorkers' = [taskWorkers EXCEPT ![t] = @ \cup {j}]
    /\ UNCHANGED <<vars, taskStatus, cancelling>>

\* POST /:id/cancel reads the workers of a task in progress.
CancelBegin(d, t) ==
    /\ Free(d)
    /\ taskStatus[t] = "in_progress"
    /\ cancelling' = [t |-> t, rest |-> taskWorkers[t]]
    /\ UNCHANGED <<vars, taskStatus, taskWorkers>>

\* UPDATE worker_jobs SET status = 'failed' WHERE id = ? AND status IN
\* ('queued', 'running'): the row only, not the worker behind it.
CancelWorker(j) ==
    /\ j \in cancelling.rest
    /\ jobs' = [jobs EXCEPT ![j] = IF @ \in JobOpen THEN "failed" ELSE @]
    /\ cancelling' = [cancelling EXCEPT !.rest = @ \ {j}]
    /\ UNCHANGED <<agents, owner, orch, proc, turn, after, memVars, sdkVars, heard>>
    /\ UNCHANGED <<taskStatus, taskWorkers>>

CancelEnd ==
    /\ cancelling.t # NoTask /\ cancelling.rest = {}
    /\ taskStatus' = [taskStatus EXCEPT ![cancelling.t] = "cancelled"]
    /\ cancelling' = NotCancelling
    /\ UNCHANGED <<vars, taskWorkers>>

\* The daemon dies, in a cancel handler or not.
CrashAll(d) ==
    /\ Crash(d)
    /\ cancelling' = NotCancelling
    /\ UNCHANGED <<taskStatus, taskWorkers>>

CancelStep == (\E j \in Job : CancelWorker(j)) \/ CancelEnd

\* Every other step of the daemon waits for the cancel handler to return.
LifecycleStep ==
    /\ cancelling = NotCancelling
    /\ Next
    /\ UNCHANGED taskVars

TasksNext ==
    \/ LifecycleStep
    \/ \E d \in Daemon : CrashAll(d)
    \/ cancelling = NotCancelling /\ \E d \in Daemon, t \in Task :
          CancelBegin(d, t) \/ \E j \in Job : AssignWorker(d, t, j)
    \/ CancelStep

TasksSpec == TasksInit /\ [][TasksNext]_allVars

-----------------------------------------------------------------------------
(* Properties                                                              *)

\* Listeners hear of a job only with the step that ends its row.  A worker
\* that runs on after the cancel of its task ends unheard: it neither wakes
\* the orchestrator nor has its result taken for the task's.
CancelledUnheard ==
    [][\A j \in Job : heard'[j] # heard[j] =>
          jobs[j] \in JobOpen /\ jobs'[j] \in JobTerminal]_allVars

=============================================================================
