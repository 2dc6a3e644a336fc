--------------------------- MODULE WorkerLifecycle ---------------------------
(***************************************************************************)
(* The worker half of the daemon: agents/lifecycle.ts (spawn, FIFO queue,  *)
(* poll, finish, kill), agents/sdk-adapter.ts (the in-memory worker table  *)
(* and its inactivity timer), and what main.ts does with both at start-up  *)
(* (core/orphan-cleanup.ts, agents/recovery.ts, listener registration).    *)
(*                                                                         *)
(* SQLite rows are shared and survive a crash; everything else belongs to  *)
(* one daemon process and dies with it.  A daemon is single-threaded: one  *)
(* callback (a "turn") runs to its end before the next one starts, but the *)
(* process may be killed between two SQL statements of a turn, and a       *)
(* second daemon attached to the same database interleaves with it.  So    *)
(* `turn' holds the rest of the callback in progress, one step per SQL     *)
(* statement, and no other callback of that daemon runs meanwhile.         *)
(***************************************************************************)
EXTENDS Naturals, Sequences, FiniteSets

CONSTANTS
    Job,                  \* ids of worker jobs (randomUUID)
    Daemon,               \* process incarnations of the daemon, one per boot
    NoDaemon,             \* owner of a row not yet inserted
    MaxConcurrentAgents,  \* lifecycle.ts maxConcurrentAgents
    SharedDb,             \* may a daemon boot while another one is alive?
    DbFaults              \* may a SQL statement of finishJob throw?

ASSUME MaxAssumption == MaxConcurrentAgents \in Nat \ {0}
ASSUME SwitchAssumption == SharedDb \in BOOLEAN /\ DbFaults \in BOOLEAN
ASSUME NoDaemonAssumption == NoDaemon \notin Daemon

VARIABLES
    (* the database *)
    jobs,            \* worker_jobs.status, "none" before the INSERT
    agents,          \* agents.status of the worker's row
    owner,           \* worker_jobs.owner_pid / owner_started_at
    orch,            \* agents.status of the row 'orchestrator'
    (* the daemon processes *)
    proc,            \* "new", "up" or "dead"
    turn,            \* the rest of the callback each daemon is running
    after,           \* what the caller of finishJob still does in this turn
    jobQueue,        \* lifecycle.ts jobQueue
    queuedRequests,  \* keys of lifecycle.ts queuedRequests
    pollTimers,      \* keys of lifecycle.ts pollTimers
    (* the SDK adapter of the job's owner *)
    workers,         \* state.status of the entry in workers, "none" if absent
    streams,         \* runWorker loops whose SDK generator is still open
    inactivity,      \* workers whose inactivity timer is armed
    (* history *)
    heard            \* job-complete listeners called for each job, in order

dbVars  == <<jobs, agents, owner, orch>>
memVars == <<jobQueue, queuedRequests, pollTimers>>
sdkVars == <<workers, streams, inactivity>>
vars    == <<jobs, agents, owner, orch, proc, turn, after, jobQueue, queuedRequests,
             pollTimers, workers, streams, inactivity, heard>>

JobTerminal == {"completed", "failed", "timeout"}
JobOpen     == {"queued", "running"}
AgentActive == {"running", "busy", "idle"}

-----------------------------------------------------------------------------
(* Job-complete listeners, as main.ts registers them at boot.              *)

AddOnJobComplete(ls, cb) == Append(ls, cb)
SetOnJobComplete(cb)     == <<cb>>

\* main.ts: registerFactVerifier, setOnJobComplete, registerRetroIngest,
\* registerOrchWake, in this order.
onJobCompleteListeners ==
    LET verifier == AddOnJobComplete(<<>>, "factVerifier")
        retro    == SetOnJobComplete("retroEvaluator")
        ingest   == AddOnJobComplete(retro, "retroIngest")
    IN  AddOnJobComplete(ingest, "orchWake")

-----------------------------------------------------------------------------
(* Turns.  ret is where startWorker, or a finishJob that finds the job     *)
(* already terminal, returns to: the processQueue loop, or the callback    *)
(* that called it ("after").                                               *)

Idle == [k |-> "idle"]
Drain == [k |-> "drain"]
After == [k |-> "after"]
InsertJobTurn(j) == [k |-> "insertJob", j |-> j]
AdmitTurn(j) == [k |-> "admit", j |-> j]
StartTurn(j, ret) == [k |-> "start", j |-> j, ret |-> ret]
RunTurn(j, ret) == [k |-> "run", j |-> j, ret |-> ret]
FinishTurn(j, st, ret) == [k |-> "finish", j |-> j, st |-> st, ret |-> ret]
RecordTurn(j, st) == [k |-> "record", j |-> j, st |-> st]
BootTurn(n) == [k |-> "boot", n |-> n]

Returns == {"after", "drain"}
Return(ret) == [k |-> ret]

Turns ==
    [k : {"idle", "drain", "after"}]
    \cup [k : {"insertJob", "admit"}, j : Job]
    \cup [k : {"start", "run"}, j : Job, ret : Returns]
    \cup [k : {"finish"}, j : Job, st : JobTerminal, ret : Returns]
    \cup [k : {"record"}, j : Job, st : JobTerminal]
    \cup [k : {"boot"}, n : 1..3]

Nothing == [k |-> "none"]
Afters == {Nothing} \cup [k : {"poll", "kill"}, j : Job]

Goto(d, t) == turn' = [turn EXCEPT ![d] = t]

InQueue(d, j) == \E i \in 1..Len(jobQueue[d]) : jobQueue[d][i] = j

Free(d) == proc[d] = "up" /\ turn[d] = Idle

\* the rows that hold a concurrency slot
countRunningAgents ==
    Cardinality({j \in Job : agents[j] \in AgentActive})
    + (IF orch \in AgentActive THEN 1 ELSE 0)

\* Mutant: one agent too many.
HasSlotOffByOne == countRunningAgents <= MaxConcurrentAgents

HasSlot == countRunningAgents < MaxConcurrentAgents

-----------------------------------------------------------------------------
Init ==
    /\ jobs = [j \in Job |-> "none"]
    /\ agents = [j \in Job |-> "none"]
    /\ owner = [j \in Job |-> NoDaemon]
    /\ orch = "none"
    /\ proc = [d \in Daemon |-> "new"]
    /\ turn = [d \in Daemon |-> Idle]
    /\ after = [d \in Daemon |-> Nothing]
    /\ jobQueue = [d \in Daemon |-> <<>>]
    /\ queuedRequests = {}
    /\ pollTimers = {}
    /\ workers = [j \in Job |-> "none"]
    /\ streams = {}
    /\ inactivity = {}
    /\ heard = [j \in Job |-> <<>>]

-----------------------------------------------------------------------------
(* spawnWorkerJob                                                          *)

\* INSERT INTO agents (after the await on injectLearnings).
SpawnWorkerJob(d, j) ==
    /\ Free(d)
    /\ agents[j] = "none"
    /\ agents' = [agents EXCEPT ![j] = "queued"]
    /\ Goto(d, InsertJobTurn(j))
    /\ UNCHANGED <<jobs, owner, orch, proc, after, memVars, sdkVars, heard>>

\* INSERT INTO worker_jobs, stamped with this process's identity.
InsertJob(d) ==
    /\ turn[d].k = "insertJob"
    /\ jobs' = [jobs EXCEPT ![turn[d].j] = "queued"]
    /\ owner' = [owner EXCEPT ![turn[d].j] = d]
    /\ Goto(d, AdmitTurn(turn[d].j))
    /\ UNCHANGED <<agents, orch, proc, after, memVars, sdkVars, heard>>

\* Start now, or queue: the capacity check.
AdmitNow(d) ==
    /\ turn[d].k = "admit"
    /\ HasSlot
    /\ Goto(d, StartTurn(turn[d].j, "after"))
    /\ UNCHANGED <<dbVars, proc, after, memVars, sdkVars, heard>>

AdmitLater(d) ==
    /\ turn[d].k = "admit"
    /\ ~HasSlot
    /\ queuedRequests' = queuedRequests \cup {turn[d].j}
    /\ jobQueue' = [jobQueue EXCEPT ![d] = Append(@, turn[d].j)]
    /\ Goto(d, Idle)
    /\ UNCHANGED <<dbVars, proc, after, pollTimers, sdkVars, heard>>

-----------------------------------------------------------------------------
(* startWorker                                                             *)

SdkSpawn(j) ==
    /\ workers' = [workers EXCEPT ![j] = "running"]
    /\ streams' = streams \cup {j}
    /\ inactivity' = inactivity \cup {j}

\* sdkSpawn and the UPDATE of agents.
StartWorker(d) ==
    /\ turn[d].k = "start"
    /\ SdkSpawn(turn[d].j)
    /\ agents' = [agents EXCEPT ![turn[d].j] = "running"]
    /\ Goto(d, RunTurn(turn[d].j, turn[d].ret))
    /\ UNCHANGED <<jobs, owner, orch, proc, after, memVars, heard>>

\* The UPDATE of worker_jobs, then startPolling.
StartPolling(d) ==
    /\ turn[d].k = "run"
    /\ jobs' = [jobs EXCEPT ![turn[d].j] = "running"]
    /\ pollTimers' = pollTimers \cup {turn[d].j}
    /\ Goto(d, Return(turn[d].ret))
    /\ UNCHANGED <<agents, owner, orch, proc, after, jobQueue, queuedRequests,
                   sdkVars, heard>>

\* Mutant: the catch block logs and does not call finishJob.
StartThrowsLogged(d) ==
    /\ turn[d].k \in {"start", "run"}
    /\ Goto(d, Return(turn[d].ret))
    /\ UNCHANGED <<dbVars, proc, after, memVars, sdkVars, heard>>

\* startWorker threw: no worktree, no SDK worker, or a failed UPDATE with the
\* SDK worker already running and never to be polled.  Both callers catch and
\* call finishJob(failed).
StartThrows(d) ==
    /\ turn[d].k \in {"start", "run"}
    /\ UNCHANGED sdkVars \/ (turn[d].k = "start" /\ SdkSpawn(turn[d].j))
    /\ Goto(d, FinishTurn(turn[d].j, "failed", turn[d].ret))
    /\ UNCHANGED <<dbVars, proc, after, memVars, heard>>

-----------------------------------------------------------------------------
(* finishJob and processQueue                                              *)

\* A job already terminal is left alone: no listeners, no processQueue.
FinishIgnored(d) ==
    /\ turn[d].k = "finish"
    /\ jobs[turn[d].j] \in JobTerminal
    /\ Goto(d, Return(turn[d].ret))
    /\ UNCHANGED <<dbVars, proc, after, memVars, sdkVars, heard>>

\* Mutant: finishJob without its idempotence guard.
FinishJobUnguarded(d) ==
    /\ turn[d].k = "finish"
    /\ agents' = [agents EXCEPT ![turn[d].j] = "stopped"]
    /\ Goto(d, RecordTurn(turn[d].j, turn[d].st))
    /\ UNCHANGED <<jobs, owner, orch, proc, after, memVars, sdkVars, heard>>

FinishJob(d) ==
    /\ turn[d].k = "finish"
    /\ jobs[turn[d].j] \notin JobTerminal
    /\ agents' = [agents EXCEPT ![turn[d].j] = "stopped"]
    /\ Goto(d, RecordTurn(turn[d].j, turn[d].st))
    /\ UNCHANGED <<jobs, owner, orch, proc, after, memVars, sdkVars, heard>>

\* Mutant: finishJob that does not end with processQueue.
RecordJobNoDrain(d) ==
    /\ turn[d].k = "record"
    /\ jobs' = [jobs EXCEPT ![turn[d].j] = turn[d].st]
    /\ heard' = [heard EXCEPT ![turn[d].j] = @ \o onJobCompleteListeners]
    /\ Goto(d, After)
    /\ UNCHANGED <<agents, owner, orch, proc, after, memVars, sdkVars>>

\* The UPDATE of worker_jobs, the listeners, then processQueue.
RecordJob(d) ==
    /\ turn[d].k = "record"
    /\ jobs' = [jobs EXCEPT ![turn[d].j] = turn[d].st]
    /\ heard' = [heard EXCEPT ![turn[d].j] = @ \o onJobCompleteListeners]
    /\ Goto(d, Drain)
    /\ UNCHANGED <<agents, owner, orch, proc, after, memVars, sdkVars>>

\* The head of the queue is started only if its row is still 'queued' and
\* its request is still held.
Startable(j) == jobs[j] = "queued" /\ j \in queuedRequests

\* One round of the while loop of processQueue.
ProcessQueueNext(d) ==
    /\ turn[d] = Drain
    /\ jobQueue[d] # <<>> /\ HasSlot
    /\ LET next == Head(jobQueue[d])
       IN  /\ Goto(d, IF Startable(next) THEN StartTurn(next, "drain") ELSE Drain)
           /\ queuedRequests' = IF Startable(next) THEN queuedRequests \ {next}
                                                  ELSE queuedRequests
    /\ jobQueue' = [jobQueue EXCEPT ![d] = Tail(@)]
    /\ UNCHANGED <<dbVars, proc, after, pollTimers, sdkVars, heard>>

ProcessQueueEnd(d) ==
    /\ turn[d] = Drain
    /\ jobQueue[d] = <<>> \/ ~HasSlot
    /\ Goto(d, After)
    /\ UNCHANGED <<dbVars, proc, after, memVars, sdkVars, heard>>

\* What the poll tick (sdkRemove, stopPolling) and killJob (stopPolling) do
\* once finishJob has returned; killJob leaves the SDK entry in the table.
FinishReturns(d) ==
    /\ turn[d] = After
    /\ pollTimers' = IF after[d] = Nothing THEN pollTimers ELSE pollTimers \ {after[d].j}
    /\ workers' = IF after[d].k = "poll" THEN [workers EXCEPT ![after[d].j] = "none"]
                                         ELSE workers
    /\ after' = [after EXCEPT ![d] = Nothing]
    /\ Goto(d, Idle)
    /\ UNCHANGED <<dbVars, proc, jobQueue, queuedRequests, streams, inactivity, heard>>

\* A SQL statement of the finishJob of a poll tick or of killJob throws, in
\* its own UPDATEs or in processQueue: the callback is abandoned, the poll
\* timer stays and the next tick calls finishJob again.
FinishThrows(d) ==
    /\ DbFaults
    /\ after[d] # Nothing
    /\ \/ turn[d] = Drain
       \/ turn[d].k \in {"finish", "record"} /\ turn[d].j = after[d].j
    /\ after' = [after EXCEPT ![d] = Nothing]
    /\ Goto(d, Idle)
    /\ UNCHANGED <<dbVars, proc, memVars, sdkVars, heard>>

-----------------------------------------------------------------------------
(* The poll timer and killJob                                              *)

\* A tick that sees a terminal SDK state finishes the job.  (A tick on a
\* running worker only touches last_activity.)
PollTick(d, j) ==
    /\ Free(d)
    /\ owner[j] = d /\ j \in pollTimers
    /\ workers[j] \in JobTerminal
    /\ after' = [after EXCEPT ![d] = [k |-> "poll", j |-> j]]
    /\ Goto(d, FinishTurn(j, workers[j], "after"))
    /\ UNCHANGED <<dbVars, proc, memVars, sdkVars, heard>>

Splice(q, i) == SubSeq(q, 1, i - 1) \o SubSeq(q, i + 1, Len(q))

\* jobQueue.splice(jobQueue.indexOf(jobId), 1)
KillQueued(d, j) ==
    /\ Free(d)
    /\ \E i \in 1..Len(jobQueue[d]) :
          /\ jobQueue[d][i] = j
          /\ \A h \in 1..(i - 1) : jobQueue[d][h] # j
          /\ jobQueue' = [jobQueue EXCEPT ![d] = Splice(@, i)]
    /\ queuedRequests' = queuedRequests \ {j}
    /\ Goto(d, FinishTurn(j, "failed", "after"))
    /\ UNCHANGED <<dbVars, proc, after, pollTimers, sdkVars, heard>>

\* sdkKill acts only on a worker of this process that is still running; the
\* row is finished in any case.
KillRunning(d, j) ==
    /\ Free(d)
    /\ ~InQueue(d, j)
    /\ agents[j] = "running"
    /\ LET hit == owner[j] = d /\ workers[j] = "running"
       IN  /\ workers' = IF hit THEN [workers EXCEPT ![j] = "failed"] ELSE workers
           /\ inactivity' = IF hit THEN inactivity \ {j} ELSE inactivity
    /\ after' = [after EXCEPT ![d] = IF owner[j] = d THEN [k |-> "kill", j |-> j]
                                                     ELSE Nothing]
    /\ Goto(d, FinishTurn(j, "failed", "after"))
    /\ UNCHANGED <<dbVars, proc, memVars, streams, heard>>

-----------------------------------------------------------------------------
(* The SDK adapter: what the generator and the inactivity timer do.        *)

StreamOpen(d, j) == Free(d) /\ owner[j] = d /\ j \in streams

\* Write the status of a worker that is still in the table.
SetStatus(j, st) ==
    workers' = IF workers[j] = "none" THEN workers ELSE [workers EXCEPT ![j] = st]

\* Any message re-arms the inactivity timer, even after kill or timeout.
StreamMessage(d, j) ==
    /\ StreamOpen(d, j)
    /\ inactivity' = inactivity \cup {j}
    /\ UNCHANGED <<dbVars, proc, turn, after, memVars, workers, streams, heard>>

\* The result message sets the status whatever it was before.
StreamResult(d, j) ==
    /\ StreamOpen(d, j)
    /\ \E st \in {"completed", "failed"} : SetStatus(j, st)
    /\ inactivity' = inactivity \cup {j}
    /\ UNCHANGED <<dbVars, proc, turn, after, memVars, streams, heard>>

\* The generator returns: without a result message the job is completed.
StreamEnd(d, j) ==
    /\ StreamOpen(d, j)
    /\ SetStatus(j, IF workers[j] = "running" THEN "completed" ELSE workers[j])
    /\ streams' = streams \ {j}
    /\ inactivity' = inactivity \ {j}
    /\ UNCHANGED <<dbVars, proc, turn, after, memVars, heard>>

\* The generator throws (error or abort): only a timeout is kept.
StreamThrow(d, j) ==
    /\ StreamOpen(d, j)
    /\ SetStatus(j, IF workers[j] = "timeout" THEN "timeout" ELSE "failed")
    /\ streams' = streams \ {j}
    /\ inactivity' = inactivity \ {j}
    /\ UNCHANGED <<dbVars, proc, turn, after, memVars, heard>>

InactivityTimeout(d, j) ==
    /\ Free(d) /\ owner[j] = d /\ j \in inactivity
    /\ SetStatus(j, "timeout")
    /\ inactivity' = inactivity \ {j}
    /\ UNCHANGED <<dbVars, proc, turn, after, memVars, streams, heard>>

-----------------------------------------------------------------------------
(* The orchestrator's row, written by the escalate and shutdown handlers.  *)

OrchestratorUp(d) ==
    /\ Free(d)
    /\ orch # "running"
    /\ orch' = "running"
    /\ UNCHANGED <<jobs, agents, owner, proc, turn, after, memVars, sdkVars, heard>>

OrchestratorDown(d) ==
    /\ Free(d)
    /\ orch = "running"
    /\ orch' = "stopped"
    /\ UNCHANGED <<jobs, agents, owner, proc, turn, after, memVars, sdkVars, heard>>

-----------------------------------------------------------------------------
(* Boot: main.ts runs cleanupOrphanedResources, then recoverFromRestart    *)
(* (cleanupOrphanedAgents and a sweep over interrupted jobs), all before   *)
(* the HTTP port is bound.                                                 *)

Boot(d) ==
    /\ proc[d] = "new"
    /\ SharedDb \/ \A e \in Daemon : proc[e] # "up"
    /\ proc' = [proc EXCEPT ![d] = "up"]
    /\ Goto(d, BootTurn(1))
    /\ UNCHANGED <<dbVars, after, memVars, sdkVars, heard>>

Owned(d) == {j \in Job : owner[j] = d}

Fail(S) == [j \in Job |-> IF j \in S /\ jobs[j] \in JobOpen THEN "failed" ELSE jobs[j]]

IsProcessAlive(p) == p \in Daemon /\ proc[p] = "up"

\* cleanupOrphanedResources, step 3: jobs whose owner process is gone.
CleanupOrphanedResources(d) ==
    /\ turn[d] = BootTurn(1)
    /\ jobs' = Fail({j \in Job : ~IsProcessAlive(owner[j])})
    /\ Goto(d, BootTurn(2))
    /\ UNCHANGED <<agents, owner, orch, proc, after, memVars, sdkVars, heard>>

\* Mutant: the query forgets rows still 'queued'.
CleanupOrphanedAgentsActiveOnly(d) ==
    /\ turn[d] = BootTurn(2)
    /\ LET orphans == {j \in Job : agents[j] \in AgentActive}
       IN  /\ agents' = [j \in Job |-> IF j \in orphans THEN "crashed" ELSE agents[j]]
           /\ jobs' = Fail(orphans)
    /\ orch' = IF orch \in AgentActive THEN "crashed" ELSE orch
    /\ jobQueue' = [jobQueue EXCEPT ![d] = <<>>]
    /\ queuedRequests' = queuedRequests \ Owned(d)
    /\ Goto(d, BootTurn(3))
    /\ UNCHANGED <<owner, proc, after, pollTimers, sdkVars, heard>>

\* cleanupOrphanedAgents: every row with an active status, and its job.
CleanupOrphanedAgents(d) ==
    /\ turn[d] = BootTurn(2)
    /\ LET orphans == {j \in Job : agents[j] \in AgentActive \cup {"queued"}}
       IN  /\ agents' = [j \in Job |-> IF j \in orphans THEN "crashed" ELSE agents[j]]
           /\ jobs' = Fail(orphans)
    /\ orch' = IF orch \in AgentActive THEN "crashed" ELSE orch
    /\ jobQueue' = [jobQueue EXCEPT ![d] = <<>>]
    /\ queuedRequests' = queuedRequests \ Owned(d)
    /\ Goto(d, BootTurn(3))
    /\ UNCHANGED <<owner, proc, after, pollTimers, sdkVars, heard>>

\* The rest of recoverFromRestart: jobs still open whose agent row was not.
RecoverFromRestart(d) ==
    /\ turn[d] = BootTurn(3)
    /\ jobs' = Fail(Job)
    /\ Goto(d, Idle)
    /\ UNCHANGED <<agents, owner, orch, proc, after, memVars, sdkVars, heard>>

\* kill -9, an uncaught exception or a graceful stop (stopAllPolling and
\* closeDatabase): the process's memory is gone.  The service manager
\* restarts the daemon, so another incarnation remains.
Crash(d) ==
    /\ proc[d] = "up"
    /\ \E e \in Daemon : proc[e] = "new"
    /\ proc' = [proc EXCEPT ![d] = "dead"]
    /\ Goto(d, Idle)
    /\ after' = [after EXCEPT ![d] = Nothing]
    /\ jobQueue' = [jobQueue EXCEPT ![d] = <<>>]
    /\ queuedRequests' = queuedRequests \ Owned(d)
    /\ pollTimers' = pollTimers \ Owned(d)
    /\ workers' = [j \in Job |-> IF j \in Owned(d) THEN "none" ELSE workers[j]]
    /\ streams' = streams \ Owned(d)
    /\ inactivity' = inactivity \ Owned(d)
    /\ UNCHANGED <<dbVars, heard>>

-----------------------------------------------------------------------------
\* The rest of the turn a daemon is in.
TurnStep(d) ==
    \/ InsertJob(d) \/ AdmitNow(d) \/ AdmitLater(d)
    \/ StartWorker(d) \/ StartPolling(d) \/ StartThrows(d)
    \/ FinishIgnored(d) \/ FinishJob(d) \/ RecordJob(d)
    \/ ProcessQueueNext(d) \/ ProcessQueueEnd(d)
    \/ FinishReturns(d) \/ FinishThrows(d)
    \/ CleanupOrphanedResources(d) \/ CleanupOrphanedAgents(d)
    \/ RecoverFromRestart(d)

StreamCloses(d, j) == StreamEnd(d, j) \/ StreamThrow(d, j)

Next ==
    \/ \E d \in Daemon : TurnStep(d) \/ Boot(d) \/ Crash(d)
                            \/ OrchestratorUp(d) \/ OrchestratorDown(d)
    \/ \E d \in Daemon, j \in Job :
          \/ SpawnWorkerJob(d, j) \/ PollTick(d, j)
          \/ KillQueued(d, j) \/ KillRunning(d, j)
          \/ StreamMessage(d, j) \/ StreamResult(d, j) \/ StreamCloses(d, j)
          \/ InactivityTimeout(d, j)

Spec == Init /\ [][Next]_vars

(* Fairness.  A turn in progress goes on (nothing else runs on that event  *)
(* loop); setInterval keeps polling; the service manager restarts a dead   *)
(* daemon; and an SDK generator does not stay open for ever: the turn cap  *)
(* and the inactivity abort close it.  No fairness is assumed of clients,  *)
(* of crashes or of faults.                                                *)
Fairness ==
    /\ \A d \in Daemon : WF_vars(TurnStep(d)) /\ WF_vars(Boot(d))
    /\ \A d \in Daemon, j \in Job :
          WF_vars(PollTick(d, j)) /\ WF_vars(StreamCloses(d, j))

FairSpec == Spec /\ Fairness

-----------------------------------------------------------------------------
(* Properties                                                              *)

\* Every variable has its type.
TypeOK ==
    /\ jobs \in [Job -> {"none"} \cup JobOpen \cup JobTerminal]
    /\ agents \in [Job -> {"none", "queued", "running", "stopped", "crashed"}]
    /\ owner \in [Job -> Daemon \cup {NoDaemon}]
    /\ orch \in {"none", "running", "stopped", "crashed"}
    /\ proc \in [Daemon -> {"new", "up", "dead"}]
    /\ turn \in [Daemon -> Turns]
    /\ after \in [Daemon -> Afters]
    /\ jobQueue \in [Daemon -> Seq(Job)]
    /\ queuedRequests \in SUBSET Job
    /\ pollTimers \in SUBSET Job
    /\ workers \in [Job -> {"none", "running"} \cup JobTerminal]
    /\ streams \in SUBSET Job
    /\ inactivity \in SUBSET Job
    /\ heard \in [Job -> Seq({"retroEvaluator", "retroIngest", "orchWake", "factVerifier"})]

\* No phantom job (lifecycle.ts 252-257): between two turns, a queued row of
\* a live daemon is in its queue with its request, and a running row is
\* polled against an SDK entry that exists.
NoPhantomJob ==
    \A d \in Daemon, j \in Job : Free(d) /\ owner[j] = d =>
        /\ jobs[j] = "queued" => InQueue(d, j) /\ j \in queuedRequests
        /\ jobs[j] = "running" => j \in pollTimers /\ workers[j] # "none"

\* The SDK workers a daemon polls never outnumber maxConcurrentAgents.
CapacityRespected ==
    Cardinality({j \in pollTimers : workers[j] = "running"}) <= MaxConcurrentAgents

\* Job-complete listeners run at most once per job, whatever is retried, and
\* exactly once for a job that ends while its daemon is alive.
ListenersExactlyOnce ==
    \A j \in Job :
        /\ heard[j] \in {<<>>, onJobCompleteListeners}
        /\ \A d \in Daemon : Free(d) /\ owner[j] = d /\ jobs[j] \in JobTerminal
              => heard[j] = onJobCompleteListeners

\* A terminal result is never overwritten (the guard of finishJob).
TerminalIsFinal ==
    [][\A j \in Job : jobs[j] \in JobTerminal => jobs'[j] = jobs[j]]_vars

\* Once a daemon has booted, nothing of a dead process is left open: every
\* open job has a live owner and every slot belongs to an open job.
RecoveryComplete ==
    (\E d \in Daemon : Free(d)) =>
        \A j \in Job :
            /\ jobs[j] \in JobOpen => IsProcessAlive(owner[j])
            /\ agents[j] \in AgentActive \cup {"queued"} => jobs[j] \in JobOpen

\* Every job that was recorded ends.
JobSettles ==
    \A j \in Job : jobs[j] \in JobOpen ~> jobs[j] \in JobTerminal

-----------------------------------------------------------------------------
(* The inductive invariant behind the safety properties, for daemons that  *)
(* do not share the database: the parts are named after what they say.     *)

\* One live daemon; a dead or unborn one is in no turn and holds no queue.
Alone ==
    /\ \A d, e \in Daemon : proc[d] = "up" /\ proc[e] = "up" => d = e
    /\ \A d \in Daemon : proc[d] # "up" => turn[d] = Idle /\ jobQueue[d] = <<>>
    /\ \A d \in Daemon : turn[d].k \in {"idle", "insertJob", "admit", "boot"} => after[d] = Nothing

\* A daemon owns no job before its boot is over.
Unowned ==
    \A d \in Daemon : proc[d] = "new" \/ turn[d].k = "boot" =>
        jobQueue[d] = <<>> /\ \A j \in Job : owner[j] # d

\* What a turn knows about its job.
TurnJob ==
    \A d \in Daemon :
        LET t == turn[d] IN
        /\ t.k = "insertJob" => jobs[t.j] = "none" /\ agents[t.j] = "queued"
        /\ t.k \in {"admit", "start"} => agents[t.j] = "queued"
        /\ t.k \in {"admit", "start", "run"} => jobs[t.j] = "queued" /\ owner[t.j] = d
        /\ t.k = "run" => agents[t.j] = "running" /\ workers[t.j] = "running"
        /\ t.k = "finish" => jobs[t.j] # "none" /\ (t.j \in pollTimers => workers[t.j] # "running")
        /\ t.k = "record" => jobs[t.j] \in JobOpen /\ agents[t.j] = "stopped"

\* The job of the poll tick or kill in progress is the one being finished,
\* or is finished already.
CallerJob ==
    \A d \in Daemon : after[d] # Nothing =>
        \/ jobs[after[d].j] \in JobTerminal
        \/ turn[d].k \in {"finish", "record"} /\ turn[d].j = after[d].j

\* Whether the turn of d is about j and nothing else will come back to j.
InHand(d, j) ==
    /\ turn[d].k \in {"admit", "start", "run", "finish", "record"}
    /\ turn[d].j = j
    /\ after[d] = Nothing \/ after[d].j # j

\* NoPhantomJob, inside a turn too.
Tracked ==
    \A d \in Daemon, j \in Job : proc[d] = "up" /\ owner[j] = d /\ ~InHand(d, j) =>
        /\ jobs[j] = "queued" => InQueue(d, j) /\ j \in queuedRequests
        /\ jobs[j] = "running" => j \in pollTimers /\ workers[j] # "none"

\* ListenersExactlyOnce, inside a turn too.
Heard ==
    \A j \in Job :
        /\ heard[j] \in {<<>>, onJobCompleteListeners}
        /\ heard[j] # <<>> => jobs[j] \in JobTerminal
        /\ \A d \in Daemon : proc[d] = "up" /\ owner[j] = d /\ jobs[j] \in JobTerminal
              => heard[j] = onJobCompleteListeners

\* RecoveryComplete, inside a turn too.
Recovered ==
    \A d \in Daemon, j \in Job :
        /\ proc[d] = "up" /\ turn[d].k # "boot" =>
              /\ jobs[j] \in JobOpen => owner[j] = d
              /\ agents[j] \in AgentActive \cup {"queued"} =>
                    jobs[j] \in JobOpen \/ turn[d] = InsertJobTurn(j)
        /\ turn[d] = BootTurn(3) => agents[j] \notin AgentActive \cup {"queued"}

\* The rows of a job agree: no job without its agent, no timer without a
\* start, no polled SDK worker without a slot.
RowsAgree ==
    \A j \in Job :
        /\ agents[j] = "none" => jobs[j] = "none"
        /\ j \in pollTimers => jobs[j] \notin {"none", "queued"} /\ IsProcessAlive(owner[j])
        /\ j \in pollTimers /\ workers[j] = "running" => agents[j] = "running"

\* The queue holds queued jobs of this daemon, none twice and none in hand.
QueueClean ==
    \A d \in Daemon : \A i \in 1..Len(jobQueue[d]) :
        /\ jobs[jobQueue[d][i]] = "queued" /\ agents[jobQueue[d][i]] = "queued"
        /\ turn[d].k \in {"admit", "start", "run", "finish", "record"} =>
              turn[d].j # jobQueue[d][i]
        /\ \A h \in 1..Len(jobQueue[d]) : jobQueue[d][h] = jobQueue[d][i] => h = i

\* The worker rows that hold a slot.
Slots == {j \in Job : agents[j] \in AgentActive}

SlotsBounded ==
    /\ IsFiniteSet(Slots) /\ Cardinality(Slots) <= MaxConcurrentAgents
    /\ \A d \in Daemon : turn[d].k = "start" => Cardinality(Slots) < MaxConcurrentAgents

IInv ==
    /\ TypeOK /\ Alone /\ Unowned /\ TurnJob /\ CallerJob /\ Tracked /\ Heard
    /\ Recovered /\ RowsAgree /\ QueueClean /\ SlotsBounded

=============================================================================
