----------------------- MODULE WorkerLifecycleProofs -----------------------
(***************************************************************************)
(* Proofs about WorkerLifecycle and TaskWorkers, for any jobs, any daemon  *)
(* incarnations, any concurrency limit and any tasks over the jobs.        *)
(***************************************************************************)
EXTENDS TaskWorkers, FiniteSetTheorems, SequenceTheorems, TLAPS

\* A turn of each kind carries the fields its steps read.
LEMMA TurnFields ==
    ASSUME NEW t \in Turns
    PROVE  /\ t.k \in {"insertJob", "admit", "start", "run", "finish", "record"}
                => t.j \in Job
           /\ t.k \in {"start", "run", "finish"} => t.ret \in Returns
           /\ t.k \in {"finish", "record"} => t.st \in JobTerminal
BY DEF Turns, Idle, Drain, After, InsertJobTurn, AdmitTurn, StartTurn, RunTurn,
       FinishTurn, RecordTurn, BootTurn, Returns, JobTerminal

\* The turns the actions build are turns.
LEMMA TurnConstants == {Idle, Drain, After, BootTurn(1), BootTurn(2), BootTurn(3)} \subseteq Turns
BY DEF Turns, Idle, Drain, After, BootTurn

\* The turns of a spawn.
LEMMA JobTurn ==
    ASSUME NEW j \in Job
    PROVE  InsertJobTurn(j) \in Turns /\ AdmitTurn(j) \in Turns
BY DEF Turns, InsertJobTurn, AdmitTurn

\* The turns of startWorker.
LEMMA StartTurns ==
    ASSUME NEW j \in Job, NEW r \in Returns
    PROVE  StartTurn(j, r) \in Turns /\ RunTurn(j, r) \in Turns
BY DEF Turns, StartTurn, RunTurn

\* The turns of finishJob.
LEMMA FinishTurns ==
    ASSUME NEW j \in Job, NEW s \in JobTerminal, NEW r \in Returns
    PROVE  FinishTurn(j, s, r) \in Turns /\ RecordTurn(j, s) \in Turns
BY DEF Turns, FinishTurn, RecordTurn

\* The turn a call returns to.
LEMMA ReturnTurn ==
    ASSUME NEW r \in Returns
    PROVE  Return(r) \in Turns
BY DEF Turns, Returns, Return

\* The listener list main.ts builds is a sequence of registered names.
LEMMA ListenersType ==
    onJobCompleteListeners
        \in Seq({"retroEvaluator", "retroIngest", "orchWake", "factVerifier"})
BY DEF onJobCompleteListeners, AddOnJobComplete, SetOnJobComplete

\* Removing one element of the queue leaves a queue of jobs.
LEMMA SpliceType ==
    ASSUME NEW q \in Seq(Job), NEW i \in 1..Len(q)
    PROVE  Splice(q, i) \in Seq(Job)
BY DEF Splice

\* Every step of every daemon keeps the types (any number of live daemons).
LEMMA TypeStep ==
    ASSUME TypeOK, [Next]_vars
    PROVE  TypeOK'
<1> USE DEF TypeOK, dbVars, memVars, sdkVars
<1>0. CASE UNCHANGED vars
  BY <1>0 DEF vars
<1>1. ASSUME NEW d \in Daemon, TurnStep(d) \/ Boot(d) \/ Crash(d)
                               \/ OrchestratorUp(d) \/ OrchestratorDown(d)
      PROVE  TypeOK'
  <2>1. CASE InsertJob(d)
    BY <2>1, TurnFields, JobTurn DEF InsertJob, Goto, JobOpen
  <2>2. CASE AdmitNow(d)
    BY <2>2, TurnFields, StartTurns DEF AdmitNow, Goto, Returns
  <2>3. CASE AdmitLater(d)
    BY <2>3, TurnFields, TurnConstants DEF AdmitLater, Goto
  <2>4. CASE StartWorker(d)
    BY <2>4, TurnFields, StartTurns DEF StartWorker, SdkSpawn, Goto
  <2>5. CASE StartPolling(d)
    BY <2>5, TurnFields, ReturnTurn DEF StartPolling, Goto, JobOpen
  <2>6. CASE StartThrows(d)
    <3>1. turn[d].j \in Job /\ FinishTurn(turn[d].j, "failed", turn[d].ret) \in Turns
      BY <2>6, TurnFields, FinishTurns DEF StartThrows, JobTerminal
    <3>2. /\ workers' \in [Job -> {"none", "running"} \cup JobTerminal]
          /\ streams' \subseteq Job /\ inactivity' \subseteq Job
      BY <2>6, <3>1 DEF StartThrows, SdkSpawn
    <3> QED
      BY <2>6, <3>1, <3>2 DEF StartThrows, Goto
  <2>7. CASE FinishIgnored(d)
    BY <2>7, TurnFields, ReturnTurn DEF FinishIgnored, Goto
  <2>8. CASE FinishJob(d)
    BY <2>8, TurnFields, FinishTurns DEF FinishJob, Goto
  <2>9. CASE RecordJob(d)
    BY <2>9, TurnFields, TurnConstants, ListenersType DEF RecordJob, Goto
  <2>10. CASE ProcessQueueNext(d)
    BY <2>10, TurnConstants, StartTurns DEF ProcessQueueNext, Goto, Returns
  <2>11. CASE ProcessQueueEnd(d)
    BY <2>11, TurnConstants DEF ProcessQueueEnd, Goto
  <2>12. CASE FinishReturns(d)
    BY <2>12, TurnConstants DEF FinishReturns, Goto, Afters, Nothing
  <2>13. CASE FinishThrows(d)
    BY <2>13, TurnConstants DEF FinishThrows, Goto, Afters
  <2>14. CASE CleanupOrphanedResources(d)
    BY <2>14, TurnConstants DEF CleanupOrphanedResources, Goto, Fail, JobTerminal
  <2>15. CASE CleanupOrphanedAgents(d)
    BY <2>15, TurnConstants DEF CleanupOrphanedAgents, Goto, Fail, JobTerminal
  <2>16. CASE RecoverFromRestart(d)
    BY <2>16, TurnConstants DEF RecoverFromRestart, Goto, Fail, JobTerminal
  <2>17. CASE Boot(d)
    BY <2>17, TurnConstants DEF Boot, Goto
  <2>18. CASE Crash(d)
    BY <2>18, TurnConstants DEF Crash, Goto, Afters
  <2>19. CASE OrchestratorUp(d)
    BY <2>19 DEF OrchestratorUp
  <2>20. CASE OrchestratorDown(d)
    BY <2>20 DEF OrchestratorDown
  <2> QED
    BY <1>1, <2>1, <2>2, <2>3, <2>4, <2>5, <2>6, <2>7, <2>8, <2>9, <2>10, <2>11, <2>12, <2>13,
       <2>14, <2>15, <2>16, <2>17, <2>18, <2>19, <2>20 DEF TurnStep
<1>2. ASSUME NEW d \in Daemon, NEW j \in Job,
             \/ SpawnWorkerJob(d, j) \/ PollTick(d, j)
             \/ KillQueued(d, j) \/ KillRunning(d, j)
             \/ StreamMessage(d, j) \/ StreamResult(d, j) \/ StreamCloses(d, j)
             \/ InactivityTimeout(d, j)
      PROVE  TypeOK'
  <2>1. CASE SpawnWorkerJob(d, j)
    BY <2>1, JobTurn DEF SpawnWorkerJob, Goto
  <2>2. CASE PollTick(d, j)
    BY <2>2, FinishTurns DEF PollTick, Goto, Afters, Returns
  <2>3. CASE KillQueued(d, j)
    BY <2>3, FinishTurns, SpliceType DEF KillQueued, Goto, Returns, JobTerminal
  <2>4. CASE KillRunning(d, j)
    BY <2>4, FinishTurns DEF KillRunning, Goto, Afters, Returns, JobTerminal
  <2>5. CASE StreamMessage(d, j)
    BY <2>5 DEF StreamMessage
  <2>6. CASE StreamResult(d, j)
    BY <2>6 DEF StreamResult, SetStatus, JobTerminal
  <2>7. CASE StreamEnd(d, j)
    BY <2>7 DEF StreamEnd, SetStatus, JobTerminal
  <2>8. CASE StreamThrow(d, j)
    BY <2>8 DEF StreamThrow, SetStatus, JobTerminal
  <2>9. CASE InactivityTimeout(d, j)
    BY <2>9 DEF InactivityTimeout, SetStatus, JobTerminal
  <2> QED
    BY <1>2, <2>1, <2>2, <2>3, <2>4, <2>5, <2>6, <2>7, <2>8, <2>9 DEF StreamCloses
<1> QED
  BY <1>0, <1>1, <1>2 DEF Next

\* Type correctness of every reachable state.
THEOREM TypeCorrect == Spec => []TypeOK
<1>1. Init => TypeOK
  BY TurnConstants DEF Init, TypeOK, Afters
<1> QED
  BY <1>1, TypeStep, PTL DEF Spec

-----------------------------------------------------------------------------
(* The steps, and what the queue operations do. *)

\* Where startWorker and an ignored finishJob return to.
LEMMA ReturnKind ==
    ASSUME NEW r \in Returns
    PROVE  Return(r).k \in {"drain", "after"}
BY DEF Returns, Return

\* A step that touches at most the orchestrator's row.
QuietStep ==
    UNCHANGED <<jobs, agents, owner, proc, turn, after, jobQueue, queuedRequests,
                pollTimers, workers, streams, inactivity, heard>>

\* A step of the SDK adapter of a daemon between two turns: no entry of the
\* worker table appears, disappears or goes back to running.
SdkStep ==
    /\ \E d \in Daemon : Free(d)
    /\ UNCHANGED <<jobs, agents, owner, proc, turn, after, jobQueue, queuedRequests,
                   pollTimers, heard>>
    /\ \A i \in Job : /\ workers'[i] = "none" <=> workers[i] = "none"
                      /\ workers'[i] = "running" => workers[i] = "running"

\* The steps of Next, with the ones that agree on everything that matters
\* for the invariant taken together.
LEMMA StepCases ==
    ASSUME TypeOK, [Next]_vars
    PROVE  \/ QuietStep \/ SdkStep
           \/ \E d \in Daemon : TurnStep(d) \/ Boot(d) \/ Crash(d)
           \/ \E d \in Daemon, j \in Job : \/ SpawnWorkerJob(d, j) \/ PollTick(d, j)
                                           \/ KillQueued(d, j) \/ KillRunning(d, j)
<1> USE DEF dbVars, memVars, sdkVars
<1>1. CASE UNCHANGED vars
  BY <1>1 DEF QuietStep, vars
<1>2. ASSUME NEW d \in Daemon, OrchestratorUp(d) \/ OrchestratorDown(d) PROVE QuietStep
  BY <1>2 DEF QuietStep, OrchestratorUp, OrchestratorDown
<1>3. ASSUME NEW d \in Daemon, NEW j \in Job, StreamMessage(d, j) PROVE SdkStep
  BY <1>3 DEF SdkStep, StreamMessage, StreamOpen
<1>4. ASSUME NEW d \in Daemon, NEW j \in Job, StreamResult(d, j) PROVE SdkStep
  BY <1>4 DEF SdkStep, StreamResult, StreamOpen, SetStatus, TypeOK
<1>5. ASSUME NEW d \in Daemon, NEW j \in Job, StreamCloses(d, j) PROVE SdkStep
  BY <1>5 DEF SdkStep, StreamCloses, StreamEnd, StreamThrow, StreamOpen, SetStatus, TypeOK
<1>6. ASSUME NEW d \in Daemon, NEW j \in Job, InactivityTimeout(d, j) PROVE SdkStep
  BY <1>6 DEF SdkStep, InactivityTimeout, SetStatus, TypeOK
<1> QED
  BY <1>1, <1>2, <1>3, <1>4, <1>5, <1>6 DEF Next

\* push keeps what was queued and adds the new job.
LEMMA AppendQueue ==
    ASSUME NEW q \in Seq(Job), NEW j \in Job
    PROVE  /\ Len(Append(q, j)) = Len(q) + 1
           /\ \A x \in Job : (\E h \in 1..Len(q) : q[h] = x) \/ x = j =>
                                \E h \in 1..(Len(q) + 1) : Append(q, j)[h] = x
<1>1. \A h \in 1..Len(q) : Append(q, j)[h] = q[h]
  OBVIOUS
<1> QED
  BY <1>1

\* shift takes the first job and moves the others up.
LEMMA TailQueue ==
    ASSUME NEW q \in Seq(Job), q # <<>>
    PROVE  /\ Len(q) \in Nat \ {0} /\ Head(q) = q[1]
           /\ Len(Tail(q)) = Len(q) - 1
           /\ \A h \in 1..(Len(q) - 1) : Tail(q)[h] = q[h + 1]
OBVIOUS

\* shift keeps every job but the first.
LEMMA TailMembers ==
    ASSUME NEW q \in Seq(Job), q # <<>>, NEW h \in 1..Len(q), q[h] # Head(q)
    PROVE  \E g \in 1..Len(Tail(q)) : Tail(q)[g] = q[h]
<1>1. h - 1 \in 1..Len(Tail(q)) /\ Tail(q)[h - 1] = q[h]
  BY TailQueue
<1> QED
  BY <1>1

\* splice(i, 1) closes the gap.
LEMMA SpliceQueue ==
    ASSUME NEW q \in Seq(Job), NEW i \in 1..Len(q)
    PROVE  /\ Len(Splice(q, i)) = Len(q) - 1
           /\ \A h \in 1..(Len(q) - 1) : Splice(q, i)[h] = IF h < i THEN q[h] ELSE q[h + 1]
<1> DEFINE a == SubSeq(q, 1, i - 1)
           b == SubSeq(q, i + 1, Len(q))
<1>1. a \in Seq(Job) /\ Len(a) = i - 1 /\ \A h \in 1..(i - 1) : a[h] = q[h]
  BY SubSeqProperties
<1>2. b \in Seq(Job) /\ Len(b) = Len(q) - i /\ \A h \in 1..(Len(q) - i) : b[h] = q[h + i]
  BY SubSeqProperties
<1> HIDE DEF a, b
<1>3. Len(a \o b) = Len(q) - 1
  <2>1. Len(a \o b) = Len(a) + Len(b)
    BY <1>1, <1>2, ConcatProperties
  <2> QED
    BY <2>1, <1>1, <1>2
<1>4. \A h \in 1..(Len(q) - 1) : (a \o b)[h] = IF h < i THEN q[h] ELSE q[h + 1]
  <2> SUFFICES ASSUME NEW h \in 1..(Len(q) - 1)
               PROVE  (a \o b)[h] = IF h < i THEN q[h] ELSE q[h + 1]
    OBVIOUS
  <2>1. (a \o b)[h] = IF h <= i - 1 THEN a[h] ELSE b[h - (i - 1)]
    BY <1>1, <1>2, ConcatProperties
  <2>2. CASE h < i
    BY <2>1, <2>2, <1>1
  <2>3. CASE ~(h < i)
    <3>1. h - (i - 1) \in 1..(Len(q) - i)
      BY <2>3
    <3> QED
      BY <2>1, <2>3, <3>1, <1>2
  <2> QED
    BY <2>2, <2>3
<1> QED
  BY <1>3, <1>4 DEF Splice, a, b

\* splice keeps every job but the one removed.
LEMMA SpliceMembers ==
    ASSUME NEW q \in Seq(Job), NEW i \in 1..Len(q), NEW h \in 1..Len(q), q[h] # q[i]
    PROVE  \E g \in 1..Len(Splice(q, i)) : Splice(q, i)[g] = q[h]
<1>1. /\ Len(Splice(q, i)) = Len(q) - 1
      /\ \A g \in 1..(Len(q) - 1) : Splice(q, i)[g] = IF g < i THEN q[g] ELSE q[g + 1]
  BY SpliceQueue
<1>2. CASE h < i
  BY <1>1, <1>2
<1>3. CASE h > i
  <2>1. h - 1 \in 1..(Len(q) - 1)
    BY <1>3
  <2>2. Splice(q, i)[h - 1] = q[(h - 1) + 1]
    BY <2>1, <1>1, <1>3
  <2> QED
    BY <2>1, <2>2, <1>1
<1> QED
  BY <1>2, <1>3


\* What is left of a queue without duplicates was in it, at another place,
\* and is still without duplicates.
LEMMA SpliceClean ==
    ASSUME NEW q \in Seq(Job), NEW n \in 1..Len(q),
           \A g, h \in 1..Len(q) : q[g] = q[h] => g = h
    PROVE  /\ \A h \in 1..Len(Splice(q, n)) : \E g \in 1..Len(q) : g # n /\ Splice(q, n)[h] = q[g]
           /\ \A g, h \in 1..Len(Splice(q, n)) : Splice(q, n)[g] = Splice(q, n)[h] => g = h
<1> DEFINE s == Splice(q, n)
           old(h) == IF h < n THEN h ELSE h + 1
<1>1. Len(s) = Len(q) - 1 /\ \A h \in 1..(Len(q) - 1) : s[h] = IF h < n THEN q[h] ELSE q[h + 1]
  BY SpliceQueue
<1> HIDE DEF s
<1>2. Len(q) \in Nat /\ n \in Nat
  OBVIOUS
<1>3. \A h \in 1..Len(s) : old(h) \in 1..Len(q) /\ old(h) # n /\ s[h] = q[old(h)]
  BY <1>1, <1>2
<1>4. \A g, h \in 1..Len(s) : old(g) = old(h) => g = h
  BY <1>1, <1>2
<1> HIDE DEF old
<1>5. \A g, h \in 1..Len(s) : s[g] = s[h] => g = h
  BY <1>3, <1>4
<1> QED
  BY <1>3, <1>5 DEF s

-----------------------------------------------------------------------------
(* Each part of the inductive invariant is kept by every step. *)

\* Alone is kept: only Boot makes a daemon live, and only when none is.
LEMMA AloneStep ==
    ASSUME ~SharedDb, IInv, [Next]_vars, TypeOK'
    PROVE  Alone'
<1> USE DEF IInv, TypeOK, Goto, dbVars, memVars, sdkVars
<1>1. CASE QuietStep
  BY <1>1 DEF QuietStep, Alone, Idle
<1>2. CASE SdkStep
  BY <1>2 DEF SdkStep, Free, Alone, Idle
<1>3. ASSUME NEW d \in Daemon, InsertJob(d) PROVE Alone'
  BY <1>3, TurnFields DEF InsertJob, AdmitTurn, Alone, Idle
<1>4. ASSUME NEW d \in Daemon, AdmitNow(d) PROVE Alone'
  BY <1>4, TurnFields DEF AdmitNow, StartTurn, Alone, Idle
<1>5. ASSUME NEW d \in Daemon, AdmitLater(d) PROVE Alone'
  BY <1>5, TurnFields DEF AdmitLater, Idle, Alone
<1>6. ASSUME NEW d \in Daemon, StartWorker(d) PROVE Alone'
  BY <1>6, TurnFields DEF StartWorker, RunTurn, SdkSpawn, Alone, Idle
<1>7. ASSUME NEW d \in Daemon, StartPolling(d) PROVE Alone'
  <2>1. turn'[d].k \in {"drain", "after"}
    BY <1>7, TurnFields, ReturnKind DEF StartPolling
  <2> QED
    BY <1>7, <2>1, TurnFields DEF StartPolling, Alone, Idle
<1>8. ASSUME NEW d \in Daemon, StartThrows(d) PROVE Alone'
  BY <1>8, TurnFields DEF StartThrows, FinishTurn, SdkSpawn, Alone, Idle
<1>9. ASSUME NEW d \in Daemon, FinishIgnored(d) PROVE Alone'
  <2>1. turn'[d].k \in {"drain", "after"}
    BY <1>9, TurnFields, ReturnKind DEF FinishIgnored
  <2> QED
    BY <1>9, <2>1, TurnFields DEF FinishIgnored, Alone, Idle
<1>10. ASSUME NEW d \in Daemon, FinishJob(d) PROVE Alone'
  BY <1>10, TurnFields DEF FinishJob, RecordTurn, Alone, Idle
<1>11. ASSUME NEW d \in Daemon, RecordJob(d) PROVE Alone'
  BY <1>11, TurnFields DEF RecordJob, Drain, Alone, Idle
<1>12. ASSUME NEW d \in Daemon, ProcessQueueNext(d) PROVE Alone'
  BY <1>12 DEF ProcessQueueNext, Drain, StartTurn, Startable, Alone, Idle
<1>13. ASSUME NEW d \in Daemon, ProcessQueueEnd(d) PROVE Alone'
  BY <1>13 DEF ProcessQueueEnd, Drain, After, Alone, Idle
<1>14. ASSUME NEW d \in Daemon, FinishReturns(d) PROVE Alone'
  BY <1>14 DEF FinishReturns, After, Idle, Nothing, Alone
<1>15. ASSUME NEW d \in Daemon, FinishThrows(d) PROVE Alone'
  BY <1>15 DEF FinishThrows, Idle, Drain, Alone
<1>16. ASSUME NEW d \in Daemon, CleanupOrphanedResources(d) PROVE Alone'
  BY <1>16 DEF CleanupOrphanedResources, BootTurn, Fail, Alone, Idle
<1>17. ASSUME NEW d \in Daemon, CleanupOrphanedAgents(d) PROVE Alone'
  BY <1>17 DEF CleanupOrphanedAgents, BootTurn, Fail, Alone, Idle
<1>18. ASSUME NEW d \in Daemon, RecoverFromRestart(d) PROVE Alone'
  BY <1>18 DEF RecoverFromRestart, BootTurn, Idle, Fail, Alone
<1>19. ASSUME NEW d \in Daemon, Boot(d) PROVE Alone'
  BY <1>19 DEF Boot, BootTurn, Alone, Idle
<1>20. ASSUME NEW d \in Daemon, Crash(d) PROVE Alone'
  BY <1>20 DEF Crash, Idle, Owned, Alone
<1>21. ASSUME NEW d \in Daemon, NEW j \in Job, SpawnWorkerJob(d, j) PROVE Alone'
  BY <1>21 DEF SpawnWorkerJob, InsertJobTurn, Idle, Free, Alone
<1>22. ASSUME NEW d \in Daemon, NEW j \in Job, PollTick(d, j) PROVE Alone'
  BY <1>22 DEF PollTick, FinishTurn, Idle, Free, Alone
<1>23. ASSUME NEW d \in Daemon, NEW j \in Job, KillQueued(d, j) PROVE Alone'
  BY <1>23 DEF KillQueued, FinishTurn, Idle, Free, Alone
<1>24. ASSUME NEW d \in Daemon, NEW j \in Job, KillRunning(d, j) PROVE Alone'
  BY <1>24 DEF KillRunning, FinishTurn, Idle, Free, Alone
<1> QED
  BY StepCases, <1>1, <1>2, <1>3, <1>4, <1>5, <1>6, <1>7, <1>8, <1>9, <1>10, <1>11,
     <1>12, <1>13, <1>14, <1>15, <1>16, <1>17, <1>18, <1>19, <1>20, <1>21, <1>22, <1>23,
     <1>24 DEF TurnStep

\* Unowned is kept: a job gets its owner in InsertJob, never during a boot.
LEMMA UnownedStep ==
    ASSUME ~SharedDb, IInv, [Next]_vars, TypeOK'
    PROVE  Unowned'
<1> USE DEF IInv, TypeOK, Goto, dbVars, memVars, sdkVars
<1>1. CASE QuietStep
  BY <1>1 DEF QuietStep, Unowned, Alone, Idle
<1>2. CASE SdkStep
  BY <1>2 DEF SdkStep, Free, Unowned, Alone, Idle
<1>3. ASSUME NEW d \in Daemon, InsertJob(d) PROVE Unowned'
  BY <1>3, TurnFields DEF InsertJob, AdmitTurn, Unowned, Alone, Idle
<1>4. ASSUME NEW d \in Daemon, AdmitNow(d) PROVE Unowned'
  BY <1>4, TurnFields DEF AdmitNow, StartTurn, Unowned, Alone, Idle
<1>5. ASSUME NEW d \in Daemon, AdmitLater(d) PROVE Unowned'
  BY <1>5, TurnFields DEF AdmitLater, Idle, Unowned, Alone
<1>6. ASSUME NEW d \in Daemon, StartWorker(d) PROVE Unowned'
  BY <1>6, TurnFields DEF StartWorker, RunTurn, SdkSpawn, Unowned, Alone, Idle
<1>7. ASSUME NEW d \in Daemon, StartPolling(d) PROVE Unowned'
  <2>1. turn'[d].k \in {"drain", "after"}
    BY <1>7, TurnFields, ReturnKind DEF StartPolling
  <2> QED
    BY <1>7, <2>1, TurnFields DEF StartPolling, Unowned, Alone, Idle
<1>8. ASSUME NEW d \in Daemon, StartThrows(d) PROVE Unowned'
  BY <1>8, TurnFields DEF StartThrows, FinishTurn, SdkSpawn, Unowned, Alone, Idle
<1>9. ASSUME NEW d \in Daemon, FinishIgnored(d) PROVE Unowned'
  <2>1. turn'[d].k \in {"drain", "after"}
    BY <1>9, TurnFields, ReturnKind DEF FinishIgnored
  <2> QED
    BY <1>9, <2>1, TurnFields DEF FinishIgnored, Unowned, Alone, Idle
<1>10. ASSUME NEW d \in Daemon, FinishJob(d) PROVE Unowned'
  BY <1>10, TurnFields DEF FinishJob, RecordTurn, Unowned, Alone, Idle
<1>11. ASSUME NEW d \in Daemon, RecordJob(d) PROVE Unowned'
  BY <1>11, TurnFields DEF RecordJob, Drain, Unowned, Alone, Idle
<1>12. ASSUME NEW d \in Daemon, ProcessQueueNext(d) PROVE Unowned'
  BY <1>12 DEF ProcessQueueNext, Drain, StartTurn, Startable, Unowned, Alone, Idle
<1>13. ASSUME NEW d \in Daemon, ProcessQueueEnd(d) PROVE Unowned'
  BY <1>13 DEF ProcessQueueEnd, Drain, After, Unowned, Alone, Idle
<1>14. ASSUME NEW d \in Daemon, FinishReturns(d) PROVE Unowned'
  BY <1>14 DEF FinishReturns, After, Idle, Nothing, Unowned, Alone
<1>15. ASSUME NEW d \in Daemon, FinishThrows(d) PROVE Unowned'
  BY <1>15 DEF FinishThrows, Idle, Drain, Unowned, Alone
<1>16. ASSUME NEW d \in Daemon, CleanupOrphanedResources(d) PROVE Unowned'
  BY <1>16 DEF CleanupOrphanedResources, BootTurn, Fail, Unowned, Alone, Idle
<1>17. ASSUME NEW d \in Daemon, CleanupOrphanedAgents(d) PROVE Unowned'
  BY <1>17 DEF CleanupOrphanedAgents, BootTurn, Fail, Unowned, Alone, Idle
<1>18. ASSUME NEW d \in Daemon, RecoverFromRestart(d) PROVE Unowned'
  BY <1>18 DEF RecoverFromRestart, BootTurn, Idle, Fail, Unowned, Alone
<1>19. ASSUME NEW d \in Daemon, Boot(d) PROVE Unowned'
  BY <1>19 DEF Boot, BootTurn, Unowned, Alone, Idle
<1>20. ASSUME NEW d \in Daemon, Crash(d) PROVE Unowned'
  BY <1>20 DEF Crash, Idle, Owned, Unowned, Alone
<1>21. ASSUME NEW d \in Daemon, NEW j \in Job, SpawnWorkerJob(d, j) PROVE Unowned'
  BY <1>21 DEF SpawnWorkerJob, InsertJobTurn, Idle, Free, Unowned, Alone
<1>22. ASSUME NEW d \in Daemon, NEW j \in Job, PollTick(d, j) PROVE Unowned'
  BY <1>22 DEF PollTick, FinishTurn, Idle, Free, Unowned, Alone
<1>23. ASSUME NEW d \in Daemon, NEW j \in Job, KillQueued(d, j) PROVE Unowned'
  BY <1>23 DEF KillQueued, FinishTurn, Idle, Free, Unowned, Alone
<1>24. ASSUME NEW d \in Daemon, NEW j \in Job, KillRunning(d, j) PROVE Unowned'
  BY <1>24 DEF KillRunning, FinishTurn, Idle, Free, Unowned, Alone
<1> QED
  BY StepCases, <1>1, <1>2, <1>3, <1>4, <1>5, <1>6, <1>7, <1>8, <1>9, <1>10, <1>11,
     <1>12, <1>13, <1>14, <1>15, <1>16, <1>17, <1>18, <1>19, <1>20, <1>21, <1>22, <1>23,
     <1>24 DEF TurnStep

\* TurnJob is kept: nothing else runs between the steps of a turn, so what
\* its first step checked still holds at the last.
LEMMA TurnJobStep ==
    ASSUME ~SharedDb, IInv, [Next]_vars, TypeOK'
    PROVE  TurnJob'
<1> USE DEF IInv, TypeOK, Goto, dbVars, memVars, sdkVars
<1>1. CASE QuietStep
  BY <1>1 DEF QuietStep, TurnJob, Alone, Idle, RowsAgree, QueueClean, Recovered,
     JobOpen, JobTerminal, AgentActive
<1>2. CASE SdkStep
  BY <1>2 DEF SdkStep, Free, TurnJob, Alone, Idle, RowsAgree, QueueClean, Recovered,
     JobOpen, JobTerminal, AgentActive
<1>3. ASSUME NEW d \in Daemon, InsertJob(d) PROVE TurnJob'
  BY <1>3, TurnFields DEF InsertJob, AdmitTurn, TurnJob, Alone, Idle, RowsAgree,
     QueueClean, Recovered, JobOpen, JobTerminal, AgentActive
<1>4. ASSUME NEW d \in Daemon, AdmitNow(d) PROVE TurnJob'
  BY <1>4, TurnFields DEF AdmitNow, StartTurn, TurnJob, Alone, Idle, RowsAgree,
     QueueClean, Recovered, JobOpen, JobTerminal, AgentActive
<1>5. ASSUME NEW d \in Daemon, AdmitLater(d) PROVE TurnJob'
  BY <1>5, TurnFields DEF AdmitLater, Idle, TurnJob, Alone, RowsAgree, QueueClean,
     Recovered, JobOpen, JobTerminal, AgentActive
<1>6. ASSUME NEW d \in Daemon, StartWorker(d) PROVE TurnJob'
  BY <1>6, TurnFields DEF StartWorker, RunTurn, SdkSpawn, TurnJob, Alone, Idle,
     RowsAgree, QueueClean, Recovered, JobOpen, JobTerminal, AgentActive
<1>7. ASSUME NEW d \in Daemon, StartPolling(d) PROVE TurnJob'
  <2>1. turn'[d].k \in {"drain", "after"}
    BY <1>7, TurnFields, ReturnKind DEF StartPolling
  <2> QED
    BY <1>7, <2>1, TurnFields DEF StartPolling, TurnJob, Alone, Idle, RowsAgree,
       QueueClean, Recovered, JobOpen, JobTerminal, AgentActive
<1>8. ASSUME NEW d \in Daemon, StartThrows(d) PROVE TurnJob'
  BY <1>8, TurnFields DEF StartThrows, FinishTurn, SdkSpawn, TurnJob, Alone, Idle,
     RowsAgree, QueueClean, Recovered, JobOpen, JobTerminal, AgentActive
<1>9. ASSUME NEW d \in Daemon, FinishIgnored(d) PROVE TurnJob'
  <2>1. turn'[d].k \in {"drain", "after"}
    BY <1>9, TurnFields, ReturnKind DEF FinishIgnored
  <2> QED
    BY <1>9, <2>1, TurnFields DEF FinishIgnored, TurnJob, Alone, Idle, RowsAgree,
       QueueClean, Recovered, JobOpen, JobTerminal, AgentActive
<1>10. ASSUME NEW d \in Daemon, FinishJob(d) PROVE TurnJob'
  BY <1>10, TurnFields DEF FinishJob, RecordTurn, TurnJob, Alone, Idle, RowsAgree,
     QueueClean, Recovered, JobOpen, JobTerminal, AgentActive
<1>11. ASSUME NEW d \in Daemon, RecordJob(d) PROVE TurnJob'
  BY <1>11, TurnFields DEF RecordJob, Drain, TurnJob, Alone, Idle, RowsAgree,
     QueueClean, Recovered, JobOpen, JobTerminal, AgentActive
<1>12. ASSUME NEW d \in Daemon, ProcessQueueNext(d) PROVE TurnJob'
  <2> DEFINE next == Head(jobQueue[d])
  <2>1. next \in Job /\ next = jobQueue[d][1] /\ 1 \in 1..Len(jobQueue[d])
    BY <1>12, TailQueue DEF ProcessQueueNext
  <2>2. jobs[next] = "queued" /\ agents[next] = "queued"
    BY <2>1 DEF QueueClean
  <2>3. owner[next] = d
    BY <1>12, <2>1, <2>2 DEF ProcessQueueNext, Recovered, Alone, Idle, Drain, JobOpen
  <2> HIDE DEF next
  <2>4. turn'[d] \in {StartTurn(next, "drain"), Drain}
    BY <1>12 DEF ProcessQueueNext, next
  <2> QED
    BY <1>12, <2>1, <2>2, <2>3, <2>4 DEF ProcessQueueNext, TurnJob, Alone, Idle, Drain,
       StartTurn
<1>13. ASSUME NEW d \in Daemon, ProcessQueueEnd(d) PROVE TurnJob'
  BY <1>13 DEF ProcessQueueEnd, Drain, After, TurnJob, Alone, Idle, RowsAgree,
     QueueClean, Recovered, JobOpen, JobTerminal, AgentActive
<1>14. ASSUME NEW d \in Daemon, FinishReturns(d) PROVE TurnJob'
  BY <1>14 DEF FinishReturns, After, Idle, Nothing, TurnJob, Alone, RowsAgree,
     QueueClean, Recovered, JobOpen, JobTerminal, AgentActive
<1>15. ASSUME NEW d \in Daemon, FinishThrows(d) PROVE TurnJob'
  BY <1>15 DEF FinishThrows, Idle, Drain, TurnJob, Alone, RowsAgree, QueueClean,
     Recovered, JobOpen, JobTerminal, AgentActive
<1>16. ASSUME NEW d \in Daemon, CleanupOrphanedResources(d) PROVE TurnJob'
  BY <1>16 DEF CleanupOrphanedResources, BootTurn, Fail, TurnJob, Alone, Idle,
     RowsAgree, QueueClean, Recovered, JobOpen, JobTerminal, AgentActive
<1>17. ASSUME NEW d \in Daemon, CleanupOrphanedAgents(d) PROVE TurnJob'
  BY <1>17 DEF CleanupOrphanedAgents, BootTurn, Fail, TurnJob, Alone, Idle, RowsAgree,
     QueueClean, Recovered, JobOpen, JobTerminal, AgentActive
<1>18. ASSUME NEW d \in Daemon, RecoverFromRestart(d) PROVE TurnJob'
  BY <1>18 DEF RecoverFromRestart, BootTurn, Idle, Fail, TurnJob, Alone, RowsAgree,
     QueueClean, Recovered, JobOpen, JobTerminal, AgentActive
<1>19. ASSUME NEW d \in Daemon, Boot(d) PROVE TurnJob'
  BY <1>19 DEF Boot, BootTurn, TurnJob, Alone, Idle, RowsAgree, QueueClean, Recovered,
     JobOpen, JobTerminal, AgentActive
<1>20. ASSUME NEW d \in Daemon, Crash(d) PROVE TurnJob'
  BY <1>20 DEF Crash, Idle, Owned, TurnJob, Alone, RowsAgree, QueueClean, Recovered,
     JobOpen, JobTerminal, AgentActive
<1>21. ASSUME NEW d \in Daemon, NEW j \in Job, SpawnWorkerJob(d, j) PROVE TurnJob'
  BY <1>21 DEF SpawnWorkerJob, InsertJobTurn, Idle, Free, TurnJob, Alone, RowsAgree,
     QueueClean, Recovered, JobOpen, JobTerminal, AgentActive
<1>22. ASSUME NEW d \in Daemon, NEW j \in Job, PollTick(d, j) PROVE TurnJob'
  BY <1>22 DEF PollTick, FinishTurn, Idle, Free, TurnJob, Alone, RowsAgree, QueueClean,
     Recovered, JobOpen, JobTerminal, AgentActive
<1>23. ASSUME NEW d \in Daemon, NEW j \in Job, KillQueued(d, j) PROVE TurnJob'
  BY <1>23 DEF KillQueued, FinishTurn, Idle, Free, TurnJob, Alone, RowsAgree,
     QueueClean, Recovered, JobOpen, JobTerminal, AgentActive
<1>24. ASSUME NEW d \in Daemon, NEW j \in Job, KillRunning(d, j) PROVE TurnJob'
  <2>1. turn[d] = Idle /\ Idle.k = "idle" /\ InsertJobTurn(j).k = "insertJob"
    BY <1>24 DEF KillRunning, Free, Idle, InsertJobTurn
  <2>2. owner[j] = d /\ jobs[j] \in JobOpen
    BY <1>24, <2>1 DEF KillRunning, Free, Recovered, AgentActive
  <2> QED
    BY <1>24, <2>2 DEF KillRunning, Free, FinishTurn, TurnJob, Alone, Idle, JobOpen
<1> QED
  BY StepCases, <1>1, <1>2, <1>3, <1>4, <1>5, <1>6, <1>7, <1>8, <1>9, <1>10, <1>11,
     <1>12, <1>13, <1>14, <1>15, <1>16, <1>17, <1>18, <1>19, <1>20, <1>21, <1>22, <1>23,
     <1>24 DEF TurnStep

\* CallerJob is kept: FinishJob and RecordJob end the caller's job first, and
\* no step reopens a job.
LEMMA CallerJobStep ==
    ASSUME ~SharedDb, IInv, [Next]_vars, TypeOK'
    PROVE  CallerJob'
<1> USE DEF IInv, TypeOK, Goto, dbVars, memVars, sdkVars
<1>1. CASE QuietStep
  BY <1>1 DEF QuietStep, CallerJob, Alone, Idle, TurnJob, Afters, JobOpen, JobTerminal
<1>2. CASE SdkStep
  BY <1>2 DEF SdkStep, Free, CallerJob, Alone, Idle, TurnJob, Afters, JobOpen,
     JobTerminal
<1>3. ASSUME NEW d \in Daemon, InsertJob(d) PROVE CallerJob'
  BY <1>3, TurnFields DEF InsertJob, AdmitTurn, CallerJob, Alone, Idle, TurnJob, Afters,
     JobOpen, JobTerminal
<1>4. ASSUME NEW d \in Daemon, AdmitNow(d) PROVE CallerJob'
  BY <1>4, TurnFields DEF AdmitNow, StartTurn, CallerJob, Alone, Idle, TurnJob, Afters,
     JobOpen, JobTerminal
<1>5. ASSUME NEW d \in Daemon, AdmitLater(d) PROVE CallerJob'
  BY <1>5, TurnFields DEF AdmitLater, Idle, CallerJob, Alone, TurnJob, Afters, JobOpen,
     JobTerminal
<1>6. ASSUME NEW d \in Daemon, StartWorker(d) PROVE CallerJob'
  BY <1>6, TurnFields DEF StartWorker, RunTurn, SdkSpawn, CallerJob, Alone, Idle,
     TurnJob, Afters, JobOpen, JobTerminal
<1>7. ASSUME NEW d \in Daemon, StartPolling(d) PROVE CallerJob'
  <2>1. turn'[d].k \in {"drain", "after"}
    BY <1>7, TurnFields, ReturnKind DEF StartPolling
  <2> QED
    BY <1>7, <2>1, TurnFields DEF StartPolling, CallerJob, Alone, Idle, TurnJob, Afters,
       JobOpen, JobTerminal
<1>8. ASSUME NEW d \in Daemon, StartThrows(d) PROVE CallerJob'
  BY <1>8, TurnFields DEF StartThrows, FinishTurn, SdkSpawn, CallerJob, Alone, Idle,
     TurnJob, Afters, JobOpen, JobTerminal
<1>9. ASSUME NEW d \in Daemon, FinishIgnored(d) PROVE CallerJob'
  <2>1. turn'[d].k \in {"drain", "after"}
    BY <1>9, TurnFields, ReturnKind DEF FinishIgnored
  <2> QED
    BY <1>9, <2>1, TurnFields DEF FinishIgnored, CallerJob, Alone, Idle, TurnJob,
       Afters, JobOpen, JobTerminal
<1>10. ASSUME NEW d \in Daemon, FinishJob(d) PROVE CallerJob'
  BY <1>10, TurnFields DEF FinishJob, RecordTurn, CallerJob, Alone, Idle, TurnJob,
     Afters, JobOpen, JobTerminal
<1>11. ASSUME NEW d \in Daemon, RecordJob(d) PROVE CallerJob'
  BY <1>11, TurnFields DEF RecordJob, Drain, CallerJob, Alone, Idle, TurnJob, Afters,
     JobOpen, JobTerminal
<1>12. ASSUME NEW d \in Daemon, ProcessQueueNext(d) PROVE CallerJob'
  BY <1>12 DEF ProcessQueueNext, Drain, StartTurn, Startable, CallerJob, Alone, Idle,
     TurnJob, Afters, JobOpen, JobTerminal
<1>13. ASSUME NEW d \in Daemon, ProcessQueueEnd(d) PROVE CallerJob'
  BY <1>13 DEF ProcessQueueEnd, Drain, After, CallerJob, Alone, Idle, TurnJob, Afters,
     JobOpen, JobTerminal
<1>14. ASSUME NEW d \in Daemon, FinishReturns(d) PROVE CallerJob'
  BY <1>14 DEF FinishReturns, After, Idle, Nothing, CallerJob, Alone, TurnJob, Afters,
     JobOpen, JobTerminal
<1>15. ASSUME NEW d \in Daemon, FinishThrows(d) PROVE CallerJob'
  BY <1>15 DEF FinishThrows, Idle, Drain, CallerJob, Alone, TurnJob, Afters, JobOpen,
     JobTerminal
<1>16. ASSUME NEW d \in Daemon, CleanupOrphanedResources(d) PROVE CallerJob'
  BY <1>16 DEF CleanupOrphanedResources, BootTurn, Fail, CallerJob, Alone, Idle,
     TurnJob, Afters, JobOpen, JobTerminal
<1>17. ASSUME NEW d \in Daemon, CleanupOrphanedAgents(d) PROVE CallerJob'
  BY <1>17 DEF CleanupOrphanedAgents, BootTurn, Fail, CallerJob, Alone, Idle, TurnJob,
     Afters, JobOpen, JobTerminal
<1>18. ASSUME NEW d \in Daemon, RecoverFromRestart(d) PROVE CallerJob'
  BY <1>18 DEF RecoverFromRestart, BootTurn, Idle, Fail, CallerJob, Alone, TurnJob,
     Afters, JobOpen, JobTerminal
<1>19. ASSUME NEW d \in Daemon, Boot(d) PROVE CallerJob'
  BY <1>19 DEF Boot, BootTurn, CallerJob, Alone, Idle, TurnJob, Afters, JobOpen,
     JobTerminal
<1>20. ASSUME NEW d \in Daemon, Crash(d) PROVE CallerJob'
  BY <1>20 DEF Crash, Idle, Owned, CallerJob, Alone, TurnJob, Afters, JobOpen,
     JobTerminal
<1>21. ASSUME NEW d \in Daemon, NEW j \in Job, SpawnWorkerJob(d, j) PROVE CallerJob'
  BY <1>21 DEF SpawnWorkerJob, InsertJobTurn, Idle, Free, CallerJob, Alone, TurnJob,
     Afters, JobOpen, JobTerminal
<1>22. ASSUME NEW d \in Daemon, NEW j \in Job, PollTick(d, j) PROVE CallerJob'
  BY <1>22 DEF PollTick, FinishTurn, Idle, Free, CallerJob, Alone, TurnJob, Afters,
     JobOpen, JobTerminal
<1>23. ASSUME NEW d \in Daemon, NEW j \in Job, KillQueued(d, j) PROVE CallerJob'
  BY <1>23 DEF KillQueued, FinishTurn, Idle, Free, CallerJob, Alone, TurnJob, Afters,
     JobOpen, JobTerminal
<1>24. ASSUME NEW d \in Daemon, NEW j \in Job, KillRunning(d, j) PROVE CallerJob'
  BY <1>24 DEF KillRunning, FinishTurn, Idle, Free, CallerJob, Alone, TurnJob, Afters,
     JobOpen, JobTerminal
<1> QED
  BY StepCases, <1>1, <1>2, <1>3, <1>4, <1>5, <1>6, <1>7, <1>8, <1>9, <1>10, <1>11,
     <1>12, <1>13, <1>14, <1>15, <1>16, <1>17, <1>18, <1>19, <1>20, <1>21, <1>22, <1>23,
     <1>24 DEF TurnStep

\* Tracked is kept: a job leaves the queue, its request or its poll timer only
\* in the hands of a turn that starts it or ends it.
LEMMA TrackedStep ==
    ASSUME ~SharedDb, IInv, [Next]_vars, TypeOK'
    PROVE  Tracked'
<1> USE DEF IInv
<1> SUFFICES ASSUME NEW e \in Daemon, NEW i \in Job,
                    proc'[e] = "up", owner'[i] = e, ~InHand(e, i)'
             PROVE  /\ jobs'[i] = "queued" => InQueue(e, i)' /\ i \in queuedRequests'
                    /\ jobs'[i] = "running" => i \in pollTimers' /\ workers'[i] # "none"
  BY DEF Tracked
<1> DEFINE Goal == /\ jobs'[i] = "queued" => InQueue(e, i)' /\ i \in queuedRequests'
                   /\ jobs'[i] = "running" => i \in pollTimers' /\ workers'[i] # "none"
<1>1. CASE QuietStep
  BY <1>1 DEF QuietStep, Tracked, InHand, InQueue, Alone, Idle, Unowned, TurnJob,
     CallerJob, Recovered, Afters, JobOpen, JobTerminal, TypeOK, Goto, dbVars, memVars,
     sdkVars
<1>2. CASE SdkStep
  BY <1>2 DEF SdkStep, Free, Tracked, InHand, InQueue, Alone, Idle, Unowned, TurnJob,
     CallerJob, Recovered, Afters, JobOpen, JobTerminal, TypeOK, Goto, dbVars, memVars,
     sdkVars
<1>3. ASSUME NEW d \in Daemon, InsertJob(d) PROVE Goal
  BY <1>3, TurnFields DEF InsertJob, AdmitTurn, Tracked, InHand, InQueue, Alone, Idle,
     Unowned, TurnJob, CallerJob, Recovered, Afters, JobOpen, JobTerminal, TypeOK, Goto,
     dbVars, memVars, sdkVars
<1>4. ASSUME NEW d \in Daemon, AdmitNow(d) PROVE Goal
  BY <1>4, TurnFields DEF AdmitNow, StartTurn, Tracked, InHand, InQueue, Alone, Idle,
     Unowned, TurnJob, CallerJob, Recovered, Afters, JobOpen, JobTerminal, TypeOK, Goto,
     dbVars, memVars, sdkVars
<1>5. ASSUME NEW d \in Daemon, AdmitLater(d) PROVE Goal
  <2>1. e = d /\ after[d] = Nothing
    BY <1>5 DEF Alone, AdmitLater, Idle, TypeOK
  <2>2. jobQueue'[d] = Append(jobQueue[d], turn[d].j) /\ jobQueue[d] \in Seq(Job) /\ turn[d].j \in Job
    BY <1>5, TurnFields DEF AdmitLater, TypeOK
  <2>3. InQueue(d, i) \/ i = turn[d].j => InQueue(d, i)'
    BY <2>2, AppendQueue DEF InQueue
  <2> QED
    BY <1>5, <2>1, <2>3 DEF AdmitLater, Tracked, TurnJob, InHand, dbVars, sdkVars, TypeOK
<1>6. ASSUME NEW d \in Daemon, StartWorker(d) PROVE Goal
  <2>1. e = d /\ proc[d] = "up" /\ owner[i] = d
    BY <1>6 DEF StartWorker, Alone, Idle, TypeOK
  <2>2. ~InHand(d, i)
    BY <1>6, <2>1 DEF StartWorker, Goto, RunTurn, InHand, TypeOK
  <2>3. workers[i] # "none" => workers'[i] # "none"
    BY <1>6, TurnFields DEF StartWorker, SdkSpawn, TypeOK
  <2> QED
    BY <1>6, <2>1, <2>2, <2>3 DEF StartWorker, Tracked, InQueue, memVars
<1>7. ASSUME NEW d \in Daemon, StartPolling(d) PROVE Goal
  <2>1. turn'[d].k \in {"drain", "after"}
    BY <1>7, TurnFields, ReturnKind DEF StartPolling, TypeOK, Goto, dbVars, memVars,
       sdkVars
  <2> QED
    BY <1>7, <2>1, TurnFields DEF StartPolling, Tracked, InHand, InQueue, Alone, Idle,
       Unowned, TurnJob, CallerJob, Recovered, Afters, JobOpen, JobTerminal, TypeOK, Goto,
       dbVars, memVars, sdkVars
<1>8. ASSUME NEW d \in Daemon, StartThrows(d) PROVE Goal
  BY <1>8, TurnFields DEF StartThrows, FinishTurn, SdkSpawn, Tracked, InHand, InQueue,
     Alone, Idle, Unowned, TurnJob, CallerJob, Recovered, Afters, JobOpen, JobTerminal,
     TypeOK, Goto, dbVars, memVars, sdkVars
<1>9. ASSUME NEW d \in Daemon, FinishIgnored(d) PROVE Goal
  <2>1. turn'[d].k \in {"drain", "after"}
    BY <1>9, TurnFields, ReturnKind DEF FinishIgnored, TypeOK, Goto, dbVars, memVars,
       sdkVars
  <2> QED
    BY <1>9, <2>1, TurnFields DEF FinishIgnored, Tracked, InHand, InQueue, Alone, Idle,
       Unowned, TurnJob, CallerJob, Recovered, Afters, JobOpen, JobTerminal, TypeOK, Goto,
       dbVars, memVars, sdkVars
<1>10. ASSUME NEW d \in Daemon, FinishJob(d) PROVE Goal
  <2>1. e = d /\ proc[d] = "up" /\ owner[i] = d
    BY <1>10 DEF FinishJob, Alone, Idle, TypeOK
  <2>2. ~InHand(d, i)
    BY <1>10, <2>1 DEF FinishJob, Goto, RecordTurn, InHand, TypeOK
  <2> QED
    BY <1>10, <2>1, <2>2 DEF FinishJob, Tracked, InQueue, memVars, sdkVars
<1>11. ASSUME NEW d \in Daemon, RecordJob(d) PROVE Goal
  <2>1. e = d /\ turn[d].j \in Job /\ turn[d].st \in JobTerminal
    BY <1>11, TurnFields DEF Alone, RecordJob, Idle, TypeOK
  <2>2. CASE i = turn[d].j
    BY <1>11, <2>1, <2>2 DEF RecordJob, TypeOK, JobTerminal
  <2>3. CASE i # turn[d].j
    BY <1>11, <2>1, <2>3 DEF RecordJob, Tracked, InHand, InQueue, memVars, sdkVars, TypeOK
  <2> QED
    BY <2>2, <2>3
<1>12. ASSUME NEW d \in Daemon, ProcessQueueNext(d) PROVE Goal
  <2> DEFINE next == Head(jobQueue[d])
  <2>0. jobQueue[d] \in Seq(Job) /\ jobQueue[d] # <<>> /\ jobQueue'[d] = Tail(jobQueue[d])
    BY <1>12 DEF ProcessQueueNext, TypeOK
  <2>1. e = d /\ ~InHand(d, i) /\ owner[i] = d /\ proc[d] = "up"
    BY <1>12 DEF Alone, ProcessQueueNext, Idle, Drain, TypeOK, InHand, dbVars
  <2>2. /\ jobs[i] = "queued" => InQueue(d, i) /\ i \in queuedRequests
        /\ jobs[i] = "running" => i \in pollTimers /\ workers[i] # "none"
    BY <2>1 DEF Tracked
  <2>3. CASE i = next
    <3>1. CASE Startable(next)
      <4>1. turn'[d] = StartTurn(next, "drain") /\ after' = after /\ jobs' = jobs
        BY <1>12, <3>1 DEF ProcessQueueNext, Goto, TypeOK, dbVars
      <4>2. jobs[i] = "queued"
        BY <2>3, <3>1 DEF Startable
      <4>3. after[d] # Nothing => jobs[after[d].j] \in JobTerminal
        BY <1>12 DEF CallerJob, ProcessQueueNext, Drain
      <4>4. InHand(d, i)'
        BY <2>3, <4>1, <4>2, <4>3 DEF InHand, StartTurn, JobTerminal
      <4> QED
        BY <4>4, <2>1
    <3>2. CASE ~Startable(next)
      BY <1>12, <3>2, <2>2, <2>3 DEF Startable, ProcessQueueNext, dbVars, sdkVars
    <3> QED
      BY <3>1, <3>2
  <2>4. CASE i # next
    <3>1. InQueue(d, i) => InQueue(d, i)'
      BY <2>0, <2>4, TailMembers DEF InQueue
    <3> QED
      BY <1>12, <2>1, <2>2, <2>4, <3>1 DEF ProcessQueueNext, dbVars, sdkVars
  <2> QED
    BY <2>3, <2>4
<1>13. ASSUME NEW d \in Daemon, ProcessQueueEnd(d) PROVE Goal
  BY <1>13 DEF ProcessQueueEnd, Drain, After, Tracked, InHand, InQueue, Alone, Idle,
     Unowned, TurnJob, CallerJob, Recovered, Afters, JobOpen, JobTerminal, TypeOK, Goto,
     dbVars, memVars, sdkVars
<1>14. ASSUME NEW d \in Daemon, FinishReturns(d) PROVE Goal
  <2>1. e = d /\ ~InHand(d, i) /\ proc[d] = "up" /\ owner[i] = d
    BY <1>14 DEF Alone, FinishReturns, Idle, After, TypeOK, InHand, dbVars
  <2>2. after[d] # Nothing => jobs[after[d].j] \in JobTerminal
    BY <1>14 DEF CallerJob, FinishReturns, After
  <2>4. Nothing.k = "none"
    BY DEF Nothing
  <2>3. jobs[i] \in JobOpen =>
          /\ i \in pollTimers => i \in pollTimers'
          /\ workers'[i] = workers[i]
    BY <1>14, <2>2, <2>4 DEF FinishReturns, TypeOK, JobOpen, JobTerminal, Afters
  <2> QED
    BY <1>14, <2>1, <2>3 DEF Tracked, FinishReturns, InQueue, dbVars, JobOpen
<1>15. ASSUME NEW d \in Daemon, FinishThrows(d) PROVE Goal
  BY <1>15 DEF FinishThrows, Idle, Drain, Tracked, InHand, InQueue, Alone, Unowned,
     TurnJob, CallerJob, Recovered, Afters, JobOpen, JobTerminal, TypeOK, Goto, dbVars,
     memVars, sdkVars
<1>16. ASSUME NEW d \in Daemon, CleanupOrphanedResources(d) PROVE Goal
  BY <1>16 DEF CleanupOrphanedResources, BootTurn, Fail, Tracked, InHand, InQueue,
     Alone, Idle, Unowned, TurnJob, CallerJob, Recovered, Afters, JobOpen, JobTerminal,
     TypeOK, Goto, dbVars, memVars, sdkVars
<1>17. ASSUME NEW d \in Daemon, CleanupOrphanedAgents(d) PROVE Goal
  BY <1>17 DEF CleanupOrphanedAgents, BootTurn, Fail, Tracked, InHand, InQueue, Alone,
     Idle, Unowned, TurnJob, CallerJob, Recovered, Afters, JobOpen, JobTerminal, TypeOK,
     Goto, dbVars, memVars, sdkVars
<1>18. ASSUME NEW d \in Daemon, RecoverFromRestart(d) PROVE Goal
  BY <1>18 DEF RecoverFromRestart, BootTurn, Idle, Fail, Tracked, InHand, InQueue,
     Alone, Unowned, TurnJob, CallerJob, Recovered, Afters, JobOpen, JobTerminal, TypeOK,
     Goto, dbVars, memVars, sdkVars
<1>19. ASSUME NEW d \in Daemon, Boot(d) PROVE Goal
  BY <1>19 DEF Boot, BootTurn, Tracked, InHand, InQueue, Alone, Idle, Unowned, TurnJob,
     CallerJob, Recovered, Afters, JobOpen, JobTerminal, TypeOK, Goto, dbVars, memVars,
     sdkVars
<1>20. ASSUME NEW d \in Daemon, Crash(d) PROVE Goal
  BY <1>20 DEF Crash, Idle, Owned, Tracked, InHand, InQueue, Alone, Unowned, TurnJob,
     CallerJob, Recovered, Afters, JobOpen, JobTerminal, TypeOK, Goto, dbVars, memVars,
     sdkVars
<1>21. ASSUME NEW d \in Daemon, NEW j \in Job, SpawnWorkerJob(d, j) PROVE Goal
  <2>1. e = d /\ ~InHand(d, i) /\ owner[i] = d /\ proc[d] = "up"
    BY <1>21 DEF Alone, SpawnWorkerJob, Free, Idle, TypeOK, InHand
  <2> QED
    BY <1>21, <2>1 DEF Tracked, SpawnWorkerJob, InQueue, memVars, sdkVars
<1>22. ASSUME NEW d \in Daemon, NEW j \in Job, PollTick(d, j) PROVE Goal
  <2>1. e = d /\ ~InHand(d, i) /\ owner[i] = d /\ proc[d] = "up"
    BY <1>22 DEF Alone, PollTick, Free, Idle, TypeOK, InHand, dbVars
  <2> QED
    BY <1>22, <2>1 DEF Tracked, PollTick, InQueue, dbVars, memVars, sdkVars
<1>23. ASSUME NEW d \in Daemon, NEW j \in Job, KillQueued(d, j) PROVE Goal
  <2>1. e = d /\ ~InHand(d, i) /\ owner[i] = d /\ proc[d] = "up" /\ after'[d] = Nothing
    BY <1>23 DEF Alone, KillQueued, Free, Idle, TypeOK, InHand, dbVars
  <2>2. i # j
    BY <1>23, <2>1 DEF KillQueued, Goto, FinishTurn, InHand, TypeOK
  <2>3. PICK n \in 1..Len(jobQueue[d]) : jobQueue[d][n] = j /\ jobQueue'[d] = Splice(jobQueue[d], n)
    BY <1>23 DEF KillQueued, TypeOK
  <2>5. jobQueue[d] \in Seq(Job)
    BY DEF TypeOK
  <2>4. InQueue(d, i) => InQueue(d, i)'
    BY <2>2, <2>3, <2>5, SpliceMembers DEF InQueue
  <2> QED
    BY <1>23, <2>1, <2>2, <2>4 DEF Tracked, KillQueued, dbVars, sdkVars
<1>24. ASSUME NEW d \in Daemon, NEW j \in Job, KillRunning(d, j) PROVE Goal
  BY <1>24 DEF KillRunning, FinishTurn, Idle, Free, Tracked, InHand, InQueue, Alone,
     Unowned, TurnJob, CallerJob, Recovered, Afters, JobOpen, JobTerminal, TypeOK, Goto,
     dbVars, memVars, sdkVars
<1> QED
  BY StepCases, <1>1, <1>2, <1>3, <1>4, <1>5, <1>6, <1>7, <1>8, <1>9, <1>10, <1>11,
     <1>12, <1>13, <1>14, <1>15, <1>16, <1>17, <1>18, <1>19, <1>20, <1>21, <1>22, <1>23,
     <1>24 DEF TurnStep

\* Heard is kept: the listeners run in the step that makes the job terminal.
LEMMA HeardStep ==
    ASSUME ~SharedDb, IInv, [Next]_vars, TypeOK'
    PROVE  Heard'
<1> USE DEF IInv, TypeOK, Goto, dbVars, memVars, sdkVars
<1>1. CASE QuietStep
  BY <1>1 DEF QuietStep, Heard, Alone, Idle, TurnJob, Unowned, JobOpen, JobTerminal
<1>2. CASE SdkStep
  BY <1>2 DEF SdkStep, Free, Heard, Alone, Idle, TurnJob, Unowned, JobOpen, JobTerminal
<1>3. ASSUME NEW d \in Daemon, InsertJob(d) PROVE Heard'
  BY <1>3, TurnFields DEF InsertJob, AdmitTurn, Heard, Alone, Idle, TurnJob, Unowned,
     JobOpen, JobTerminal
<1>4. ASSUME NEW d \in Daemon, AdmitNow(d) PROVE Heard'
  BY <1>4, TurnFields DEF AdmitNow, StartTurn, Heard, Alone, Idle, TurnJob, Unowned,
     JobOpen, JobTerminal
<1>5. ASSUME NEW d \in Daemon, AdmitLater(d) PROVE Heard'
  BY <1>5, TurnFields DEF AdmitLater, Idle, Heard, Alone, TurnJob, Unowned, JobOpen,
     JobTerminal
<1>6. ASSUME NEW d \in Daemon, StartWorker(d) PROVE Heard'
  BY <1>6, TurnFields DEF StartWorker, RunTurn, SdkSpawn, Heard, Alone, Idle, TurnJob,
     Unowned, JobOpen, JobTerminal
<1>7. ASSUME NEW d \in Daemon, StartPolling(d) PROVE Heard'
  <2>1. turn'[d].k \in {"drain", "after"}
    BY <1>7, TurnFields, ReturnKind DEF StartPolling
  <2> QED
    BY <1>7, <2>1, TurnFields DEF StartPolling, Heard, Alone, Idle, TurnJob, Unowned,
       JobOpen, JobTerminal
<1>8. ASSUME NEW d \in Daemon, StartThrows(d) PROVE Heard'
  BY <1>8, TurnFields DEF StartThrows, FinishTurn, SdkSpawn, Heard, Alone, Idle,
     TurnJob, Unowned, JobOpen, JobTerminal
<1>9. ASSUME NEW d \in Daemon, FinishIgnored(d) PROVE Heard'
  <2>1. turn'[d].k \in {"drain", "after"}
    BY <1>9, TurnFields, ReturnKind DEF FinishIgnored
  <2> QED
    BY <1>9, <2>1, TurnFields DEF FinishIgnored, Heard, Alone, Idle, TurnJob, Unowned,
       JobOpen, JobTerminal
<1>10. ASSUME NEW d \in Daemon, FinishJob(d) PROVE Heard'
  BY <1>10, TurnFields DEF FinishJob, RecordTurn, Heard, Alone, Idle, TurnJob, Unowned,
     JobOpen, JobTerminal
<1>11. ASSUME NEW d \in Daemon, RecordJob(d) PROVE Heard'
  <2>1. turn[d].j \in Job /\ turn[d].st \in JobTerminal
    BY <1>11, TurnFields DEF RecordJob
  <2>2. heard[turn[d].j] = <<>>
    BY <1>11, <2>1 DEF RecordJob, Heard, TurnJob, JobOpen, JobTerminal
  <2>3. <<>> \o onJobCompleteListeners = onJobCompleteListeners
    BY ListenersType, ConcatEmptySeq
  <2>4. heard' = [heard EXCEPT ![turn[d].j] = onJobCompleteListeners]
    BY <1>11, <2>1, <2>2, <2>3 DEF RecordJob
  <2>5. jobs'[turn[d].j] \in JobTerminal /\ heard'[turn[d].j] = onJobCompleteListeners
    BY <1>11, <2>1, <2>4 DEF RecordJob
  <2>6. \A i \in Job : i # turn[d].j => jobs'[i] = jobs[i] /\ heard'[i] = heard[i]
    BY <1>11, <2>1, <2>4 DEF RecordJob
  <2>7. proc' = proc /\ owner' = owner
    BY <1>11 DEF RecordJob
  <2> QED
    BY <2>5, <2>6, <2>7 DEF Heard
<1>12. ASSUME NEW d \in Daemon, ProcessQueueNext(d) PROVE Heard'
  BY <1>12 DEF ProcessQueueNext, Drain, StartTurn, Startable, Heard, Alone, Idle,
     TurnJob, Unowned, JobOpen, JobTerminal
<1>13. ASSUME NEW d \in Daemon, ProcessQueueEnd(d) PROVE Heard'
  BY <1>13 DEF ProcessQueueEnd, Drain, After, Heard, Alone, Idle, TurnJob, Unowned,
     JobOpen, JobTerminal
<1>14. ASSUME NEW d \in Daemon, FinishReturns(d) PROVE Heard'
  BY <1>14 DEF FinishReturns, After, Idle, Nothing, Heard, Alone, TurnJob, Unowned,
     JobOpen, JobTerminal
<1>15. ASSUME NEW d \in Daemon, FinishThrows(d) PROVE Heard'
  BY <1>15 DEF FinishThrows, Idle, Drain, Heard, Alone, TurnJob, Unowned, JobOpen,
     JobTerminal
<1>16. ASSUME NEW d \in Daemon, CleanupOrphanedResources(d) PROVE Heard'
  <2>1. \A e \in Daemon, i \in Job : proc[e] = "up" => owner[i] # e
    BY <1>16 DEF CleanupOrphanedResources, BootTurn, Alone, Unowned, Idle
  <2> QED
    BY <1>16, <2>1 DEF CleanupOrphanedResources, Fail, Heard, JobOpen, JobTerminal
<1>17. ASSUME NEW d \in Daemon, CleanupOrphanedAgents(d) PROVE Heard'
  BY <1>17 DEF CleanupOrphanedAgents, BootTurn, Fail, Heard, Alone, Idle, TurnJob,
     Unowned, JobOpen, JobTerminal
<1>18. ASSUME NEW d \in Daemon, RecoverFromRestart(d) PROVE Heard'
  BY <1>18 DEF RecoverFromRestart, BootTurn, Idle, Fail, Heard, Alone, TurnJob, Unowned,
     JobOpen, JobTerminal
<1>19. ASSUME NEW d \in Daemon, Boot(d) PROVE Heard'
  BY <1>19 DEF Boot, BootTurn, Heard, Alone, Idle, TurnJob, Unowned, JobOpen,
     JobTerminal
<1>20. ASSUME NEW d \in Daemon, Crash(d) PROVE Heard'
  BY <1>20 DEF Crash, Idle, Owned, Heard, Alone, TurnJob, Unowned, JobOpen, JobTerminal
<1>21. ASSUME NEW d \in Daemon, NEW j \in Job, SpawnWorkerJob(d, j) PROVE Heard'
  BY <1>21 DEF SpawnWorkerJob, InsertJobTurn, Idle, Free, Heard, Alone, TurnJob,
     Unowned, JobOpen, JobTerminal
<1>22. ASSUME NEW d \in Daemon, NEW j \in Job, PollTick(d, j) PROVE Heard'
  BY <1>22 DEF PollTick, FinishTurn, Idle, Free, Heard, Alone, TurnJob, Unowned,
     JobOpen, JobTerminal
<1>23. ASSUME NEW d \in Daemon, NEW j \in Job, KillQueued(d, j) PROVE Heard'
  BY <1>23 DEF KillQueued, FinishTurn, Idle, Free, Heard, Alone, TurnJob, Unowned,
     JobOpen, JobTerminal
<1>24. ASSUME NEW d \in Daemon, NEW j \in Job, KillRunning(d, j) PROVE Heard'
  BY <1>24 DEF KillRunning, FinishTurn, Idle, Free, Heard, Alone, TurnJob, Unowned,
     JobOpen, JobTerminal
<1> QED
  BY StepCases, <1>1, <1>2, <1>3, <1>4, <1>5, <1>6, <1>7, <1>8, <1>9, <1>10, <1>11,
     <1>12, <1>13, <1>14, <1>15, <1>16, <1>17, <1>18, <1>19, <1>20, <1>21, <1>22, <1>23,
     <1>24 DEF TurnStep

\* Recovered is kept: the three steps of a boot close every row, and later
\* rows belong to the live daemon.
LEMMA RecoveredStep ==
    ASSUME ~SharedDb, IInv, [Next]_vars, TypeOK'
    PROVE  Recovered'
<1> USE DEF IInv, TypeOK, Goto, dbVars, memVars, sdkVars
<1>1. CASE QuietStep
  BY <1>1 DEF QuietStep, Recovered, Alone, Idle, TurnJob, Unowned, InsertJobTurn,
     BootTurn, JobOpen, JobTerminal, AgentActive
<1>2. CASE SdkStep
  BY <1>2 DEF SdkStep, Free, Recovered, Alone, Idle, TurnJob, Unowned, InsertJobTurn,
     BootTurn, JobOpen, JobTerminal, AgentActive
<1>3. ASSUME NEW d \in Daemon, InsertJob(d) PROVE Recovered'
  BY <1>3, TurnFields DEF InsertJob, AdmitTurn, Recovered, Alone, Idle, TurnJob,
     Unowned, InsertJobTurn, BootTurn, JobOpen, JobTerminal, AgentActive
<1>4. ASSUME NEW d \in Daemon, AdmitNow(d) PROVE Recovered'
  BY <1>4, TurnFields DEF AdmitNow, StartTurn, Recovered, Alone, Idle, TurnJob, Unowned,
     InsertJobTurn, BootTurn, JobOpen, JobTerminal, AgentActive
<1>5. ASSUME NEW d \in Daemon, AdmitLater(d) PROVE Recovered'
  BY <1>5, TurnFields DEF AdmitLater, Idle, Recovered, Alone, TurnJob, Unowned,
     InsertJobTurn, BootTurn, JobOpen, JobTerminal, AgentActive
<1>6. ASSUME NEW d \in Daemon, StartWorker(d) PROVE Recovered'
  BY <1>6, TurnFields DEF StartWorker, RunTurn, SdkSpawn, Recovered, Alone, Idle,
     TurnJob, Unowned, InsertJobTurn, BootTurn, JobOpen, JobTerminal, AgentActive
<1>7. ASSUME NEW d \in Daemon, StartPolling(d) PROVE Recovered'
  <2>1. turn'[d].k \in {"drain", "after"}
    BY <1>7, TurnFields, ReturnKind DEF StartPolling
  <2> QED
    BY <1>7, <2>1, TurnFields DEF StartPolling, Recovered, Alone, Idle, TurnJob,
       Unowned, InsertJobTurn, BootTurn, JobOpen, JobTerminal, AgentActive
<1>8. ASSUME NEW d \in Daemon, StartThrows(d) PROVE Recovered'
  BY <1>8, TurnFields DEF StartThrows, FinishTurn, SdkSpawn, Recovered, Alone, Idle,
     TurnJob, Unowned, InsertJobTurn, BootTurn, JobOpen, JobTerminal, AgentActive
<1>9. ASSUME NEW d \in Daemon, FinishIgnored(d) PROVE Recovered'
  <2>1. turn'[d].k \in {"drain", "after"}
    BY <1>9, TurnFields, ReturnKind DEF FinishIgnored
  <2> QED
    BY <1>9, <2>1, TurnFields DEF FinishIgnored, Recovered, Alone, Idle, TurnJob,
       Unowned, InsertJobTurn, BootTurn, JobOpen, JobTerminal, AgentActive
<1>10. ASSUME NEW d \in Daemon, FinishJob(d) PROVE Recovered'
  BY <1>10, TurnFields DEF FinishJob, RecordTurn, Recovered, Alone, Idle, TurnJob,
     Unowned, InsertJobTurn, BootTurn, JobOpen, JobTerminal, AgentActive
<1>11. ASSUME NEW d \in Daemon, RecordJob(d) PROVE Recovered'
  BY <1>11, TurnFields DEF RecordJob, Drain, Recovered, Alone, Idle, TurnJob, Unowned,
     InsertJobTurn, BootTurn, JobOpen, JobTerminal, AgentActive
<1>12. ASSUME NEW d \in Daemon, ProcessQueueNext(d) PROVE Recovered'
  BY <1>12 DEF ProcessQueueNext, Drain, StartTurn, Startable, Recovered, Alone, Idle,
     TurnJob, Unowned, InsertJobTurn, BootTurn, JobOpen, JobTerminal, AgentActive
<1>13. ASSUME NEW d \in Daemon, ProcessQueueEnd(d) PROVE Recovered'
  BY <1>13 DEF ProcessQueueEnd, Drain, After, Recovered, Alone, Idle, TurnJob, Unowned,
     InsertJobTurn, BootTurn, JobOpen, JobTerminal, AgentActive
<1>14. ASSUME NEW d \in Daemon, FinishReturns(d) PROVE Recovered'
  BY <1>14 DEF FinishReturns, After, Idle, Nothing, Recovered, Alone, TurnJob, Unowned,
     InsertJobTurn, BootTurn, JobOpen, JobTerminal, AgentActive
<1>15. ASSUME NEW d \in Daemon, FinishThrows(d) PROVE Recovered'
  BY <1>15 DEF FinishThrows, Idle, Drain, Recovered, Alone, TurnJob, Unowned,
     InsertJobTurn, BootTurn, JobOpen, JobTerminal, AgentActive
<1>16. ASSUME NEW d \in Daemon, CleanupOrphanedResources(d) PROVE Recovered'
  BY <1>16 DEF CleanupOrphanedResources, BootTurn, Fail, Recovered, Alone, Idle,
     TurnJob, Unowned, InsertJobTurn, JobOpen, JobTerminal, AgentActive
<1>17. ASSUME NEW d \in Daemon, CleanupOrphanedAgents(d) PROVE Recovered'
  BY <1>17 DEF CleanupOrphanedAgents, BootTurn, Fail, Recovered, Alone, Idle, TurnJob,
     Unowned, InsertJobTurn, JobOpen, JobTerminal, AgentActive
<1>18. ASSUME NEW d \in Daemon, RecoverFromRestart(d) PROVE Recovered'
  BY <1>18 DEF RecoverFromRestart, BootTurn, Idle, Fail, Recovered, Alone, TurnJob,
     Unowned, InsertJobTurn, JobOpen, JobTerminal, AgentActive
<1>19. ASSUME NEW d \in Daemon, Boot(d) PROVE Recovered'
  BY <1>19 DEF Boot, BootTurn, Recovered, Alone, Idle, TurnJob, Unowned, InsertJobTurn,
     JobOpen, JobTerminal, AgentActive
<1>20. ASSUME NEW d \in Daemon, Crash(d) PROVE Recovered'
  BY <1>20 DEF Crash, Idle, Owned, Recovered, Alone, TurnJob, Unowned, InsertJobTurn,
     BootTurn, JobOpen, JobTerminal, AgentActive
<1>21. ASSUME NEW d \in Daemon, NEW j \in Job, SpawnWorkerJob(d, j) PROVE Recovered'
  BY <1>21 DEF SpawnWorkerJob, InsertJobTurn, Idle, Free, Recovered, Alone, TurnJob,
     Unowned, BootTurn, JobOpen, JobTerminal, AgentActive
<1>22. ASSUME NEW d \in Daemon, NEW j \in Job, PollTick(d, j) PROVE Recovered'
  BY <1>22 DEF PollTick, FinishTurn, Idle, Free, Recovered, Alone, TurnJob, Unowned,
     InsertJobTurn, BootTurn, JobOpen, JobTerminal, AgentActive
<1>23. ASSUME NEW d \in Daemon, NEW j \in Job, KillQueued(d, j) PROVE Recovered'
  BY <1>23 DEF KillQueued, FinishTurn, Idle, Free, Recovered, Alone, TurnJob, Unowned,
     InsertJobTurn, BootTurn, JobOpen, JobTerminal, AgentActive
<1>24. ASSUME NEW d \in Daemon, NEW j \in Job, KillRunning(d, j) PROVE Recovered'
  BY <1>24 DEF KillRunning, FinishTurn, Idle, Free, Recovered, Alone, TurnJob, Unowned,
     InsertJobTurn, BootTurn, JobOpen, JobTerminal, AgentActive
<1> QED
  BY StepCases, <1>1, <1>2, <1>3, <1>4, <1>5, <1>6, <1>7, <1>8, <1>9, <1>10, <1>11,
     <1>12, <1>13, <1>14, <1>15, <1>16, <1>17, <1>18, <1>19, <1>20, <1>21, <1>22, <1>23,
     <1>24 DEF TurnStep

\* RowsAgree is kept.
LEMMA RowsAgreeStep ==
    ASSUME ~SharedDb, IInv, [Next]_vars, TypeOK'
    PROVE  RowsAgree'
<1> USE DEF IInv, TypeOK, Goto, dbVars, memVars, sdkVars
<1>1. CASE QuietStep
  BY <1>1 DEF QuietStep, RowsAgree, IsProcessAlive, TurnJob, Alone, Idle, Unowned,
     Recovered, CallerJob, Tracked, InHand, JobOpen, JobTerminal, AgentActive
<1>2. CASE SdkStep
  BY <1>2 DEF SdkStep, Free, RowsAgree, IsProcessAlive, TurnJob, Alone, Idle, Unowned,
     Recovered, CallerJob, Tracked, InHand, JobOpen, JobTerminal, AgentActive
<1>3. ASSUME NEW d \in Daemon, InsertJob(d) PROVE RowsAgree'
  BY <1>3, TurnFields DEF InsertJob, AdmitTurn, RowsAgree, IsProcessAlive, TurnJob,
     Alone, Idle, Unowned, Recovered, CallerJob, Tracked, InHand, JobOpen, JobTerminal,
     AgentActive
<1>4. ASSUME NEW d \in Daemon, AdmitNow(d) PROVE RowsAgree'
  BY <1>4, TurnFields DEF AdmitNow, StartTurn, RowsAgree, IsProcessAlive, TurnJob,
     Alone, Idle, Unowned, Recovered, CallerJob, Tracked, InHand, JobOpen, JobTerminal,
     AgentActive
<1>5. ASSUME NEW d \in Daemon, AdmitLater(d) PROVE RowsAgree'
  BY <1>5, TurnFields DEF AdmitLater, Idle, RowsAgree, IsProcessAlive, TurnJob, Alone,
     Unowned, Recovered, CallerJob, Tracked, InHand, JobOpen, JobTerminal, AgentActive
<1>6. ASSUME NEW d \in Daemon, StartWorker(d) PROVE RowsAgree'
  BY <1>6, TurnFields DEF StartWorker, RunTurn, SdkSpawn, RowsAgree, IsProcessAlive,
     TurnJob, Alone, Idle, Unowned, Recovered, CallerJob, Tracked, InHand, JobOpen,
     JobTerminal, AgentActive
<1>7. ASSUME NEW d \in Daemon, StartPolling(d) PROVE RowsAgree'
  <2>1. turn'[d].k \in {"drain", "after"}
    BY <1>7, TurnFields, ReturnKind DEF StartPolling
  <2> QED
    BY <1>7, <2>1, TurnFields DEF StartPolling, RowsAgree, IsProcessAlive, TurnJob,
       Alone, Idle, Unowned, Recovered, CallerJob, Tracked, InHand, JobOpen, JobTerminal,
       AgentActive
<1>8. ASSUME NEW d \in Daemon, StartThrows(d) PROVE RowsAgree'
  BY <1>8, TurnFields DEF StartThrows, FinishTurn, SdkSpawn, RowsAgree, IsProcessAlive,
     TurnJob, Alone, Idle, Unowned, Recovered, CallerJob, Tracked, InHand, JobOpen,
     JobTerminal, AgentActive
<1>9. ASSUME NEW d \in Daemon, FinishIgnored(d) PROVE RowsAgree'
  <2>1. turn'[d].k \in {"drain", "after"}
    BY <1>9, TurnFields, ReturnKind DEF FinishIgnored
  <2> QED
    BY <1>9, <2>1, TurnFields DEF FinishIgnored, RowsAgree, IsProcessAlive, TurnJob,
       Alone, Idle, Unowned, Recovered, CallerJob, Tracked, InHand, JobOpen, JobTerminal,
       AgentActive
<1>10. ASSUME NEW d \in Daemon, FinishJob(d) PROVE RowsAgree'
  BY <1>10, TurnFields DEF FinishJob, RecordTurn, RowsAgree, IsProcessAlive, TurnJob,
     Alone, Idle, Unowned, Recovered, CallerJob, Tracked, InHand, JobOpen, JobTerminal,
     AgentActive
<1>11. ASSUME NEW d \in Daemon, RecordJob(d) PROVE RowsAgree'
  BY <1>11, TurnFields DEF RecordJob, Drain, RowsAgree, IsProcessAlive, TurnJob, Alone,
     Idle, Unowned, Recovered, CallerJob, Tracked, InHand, JobOpen, JobTerminal,
     AgentActive
<1>12. ASSUME NEW d \in Daemon, ProcessQueueNext(d) PROVE RowsAgree'
  BY <1>12 DEF ProcessQueueNext, Drain, StartTurn, Startable, RowsAgree, IsProcessAlive,
     TurnJob, Alone, Idle, Unowned, Recovered, CallerJob, Tracked, InHand, JobOpen,
     JobTerminal, AgentActive
<1>13. ASSUME NEW d \in Daemon, ProcessQueueEnd(d) PROVE RowsAgree'
  BY <1>13 DEF ProcessQueueEnd, Drain, After, RowsAgree, IsProcessAlive, TurnJob, Alone,
     Idle, Unowned, Recovered, CallerJob, Tracked, InHand, JobOpen, JobTerminal,
     AgentActive
<1>14. ASSUME NEW d \in Daemon, FinishReturns(d) PROVE RowsAgree'
  BY <1>14 DEF FinishReturns, After, Idle, Nothing, RowsAgree, IsProcessAlive, TurnJob,
     Alone, Unowned, Recovered, CallerJob, Tracked, InHand, JobOpen, JobTerminal,
     AgentActive
<1>15. ASSUME NEW d \in Daemon, FinishThrows(d) PROVE RowsAgree'
  BY <1>15 DEF FinishThrows, Idle, Drain, RowsAgree, IsProcessAlive, TurnJob, Alone,
     Unowned, Recovered, CallerJob, Tracked, InHand, JobOpen, JobTerminal, AgentActive
<1>16. ASSUME NEW d \in Daemon, CleanupOrphanedResources(d) PROVE RowsAgree'
  BY <1>16 DEF CleanupOrphanedResources, BootTurn, Fail, RowsAgree, IsProcessAlive,
     TurnJob, Alone, Idle, Unowned, Recovered, CallerJob, Tracked, InHand, JobOpen,
     JobTerminal, AgentActive
<1>17. ASSUME NEW d \in Daemon, CleanupOrphanedAgents(d) PROVE RowsAgree'
  <2>1. pollTimers = {}
    BY <1>17 DEF CleanupOrphanedAgents, BootTurn, RowsAgree, IsProcessAlive, Alone, Unowned,
       Idle
  <2> QED
    BY <1>17, <2>1 DEF CleanupOrphanedAgents, Fail, RowsAgree, JobOpen, AgentActive
<1>18. ASSUME NEW d \in Daemon, RecoverFromRestart(d) PROVE RowsAgree'
  BY <1>18 DEF RecoverFromRestart, BootTurn, Idle, Fail, RowsAgree, IsProcessAlive,
     TurnJob, Alone, Unowned, Recovered, CallerJob, Tracked, InHand, JobOpen, JobTerminal,
     AgentActive
<1>19. ASSUME NEW d \in Daemon, Boot(d) PROVE RowsAgree'
  BY <1>19 DEF Boot, BootTurn, RowsAgree, IsProcessAlive, TurnJob, Alone, Idle, Unowned,
     Recovered, CallerJob, Tracked, InHand, JobOpen, JobTerminal, AgentActive
<1>20. ASSUME NEW d \in Daemon, Crash(d) PROVE RowsAgree'
  BY <1>20 DEF Crash, Idle, Owned, RowsAgree, IsProcessAlive, TurnJob, Alone, Unowned,
     Recovered, CallerJob, Tracked, InHand, JobOpen, JobTerminal, AgentActive
<1>21. ASSUME NEW d \in Daemon, NEW j \in Job, SpawnWorkerJob(d, j) PROVE RowsAgree'
  BY <1>21 DEF SpawnWorkerJob, InsertJobTurn, Idle, Free, RowsAgree, IsProcessAlive,
     TurnJob, Alone, Unowned, Recovered, CallerJob, Tracked, InHand, JobOpen, JobTerminal,
     AgentActive
<1>22. ASSUME NEW d \in Daemon, NEW j \in Job, PollTick(d, j) PROVE RowsAgree'
  BY <1>22 DEF PollTick, FinishTurn, Idle, Free, RowsAgree, IsProcessAlive, TurnJob,
     Alone, Unowned, Recovered, CallerJob, Tracked, InHand, JobOpen, JobTerminal,
     AgentActive
<1>23. ASSUME NEW d \in Daemon, NEW j \in Job, KillQueued(d, j) PROVE RowsAgree'
  BY <1>23 DEF KillQueued, FinishTurn, Idle, Free, RowsAgree, IsProcessAlive, TurnJob,
     Alone, Unowned, Recovered, CallerJob, Tracked, InHand, JobOpen, JobTerminal,
     AgentActive
<1>24. ASSUME NEW d \in Daemon, NEW j \in Job, KillRunning(d, j) PROVE RowsAgree'
  BY <1>24 DEF KillRunning, FinishTurn, Idle, Free, RowsAgree, IsProcessAlive, TurnJob,
     Alone, Unowned, Recovered, CallerJob, Tracked, InHand, JobOpen, JobTerminal,
     AgentActive
<1> QED
  BY StepCases, <1>1, <1>2, <1>3, <1>4, <1>5, <1>6, <1>7, <1>8, <1>9, <1>10, <1>11,
     <1>12, <1>13, <1>14, <1>15, <1>16, <1>17, <1>18, <1>19, <1>20, <1>21, <1>22, <1>23,
     <1>24 DEF TurnStep

\* QueueClean is kept: a job enters the queue once, from its own AdmitTurn.
LEMMA QueueCleanStep ==
    ASSUME ~SharedDb, IInv, [Next]_vars, TypeOK'
    PROVE  QueueClean'
<1> USE DEF IInv, TypeOK, Goto, dbVars, memVars, sdkVars
<1>1. CASE QuietStep
  BY <1>1 DEF QuietStep, QueueClean, RowsAgree, TurnJob, Alone, Idle, Unowned, JobOpen,
     JobTerminal, InQueue
<1>2. CASE SdkStep
  BY <1>2 DEF SdkStep, Free, QueueClean, RowsAgree, TurnJob, Alone, Idle, Unowned,
     JobOpen, JobTerminal, InQueue
<1>3. ASSUME NEW d \in Daemon, InsertJob(d) PROVE QueueClean'
  BY <1>3, TurnFields DEF InsertJob, AdmitTurn, QueueClean, RowsAgree, TurnJob, Alone,
     Idle, Unowned, JobOpen, JobTerminal, InQueue
<1>4. ASSUME NEW d \in Daemon, AdmitNow(d) PROVE QueueClean'
  BY <1>4, TurnFields DEF AdmitNow, StartTurn, QueueClean, RowsAgree, TurnJob, Alone,
     Idle, Unowned, JobOpen, JobTerminal, InQueue
<1>5. ASSUME NEW d \in Daemon, AdmitLater(d) PROVE QueueClean'
  BY <1>5, TurnFields DEF AdmitLater, Idle, QueueClean, RowsAgree, TurnJob, Alone,
     Unowned, JobOpen, JobTerminal, InQueue
<1>6. ASSUME NEW d \in Daemon, StartWorker(d) PROVE QueueClean'
  BY <1>6, TurnFields DEF StartWorker, RunTurn, SdkSpawn, QueueClean, RowsAgree,
     TurnJob, Alone, Idle, Unowned, JobOpen, JobTerminal, InQueue
<1>7. ASSUME NEW d \in Daemon, StartPolling(d) PROVE QueueClean'
  <2>1. turn'[d].k \in {"drain", "after"}
    BY <1>7, TurnFields, ReturnKind DEF StartPolling
  <2> QED
    BY <1>7, <2>1, TurnFields DEF StartPolling, QueueClean, RowsAgree, TurnJob, Alone,
       Idle, Unowned, JobOpen, JobTerminal, InQueue
<1>8. ASSUME NEW d \in Daemon, StartThrows(d) PROVE QueueClean'
  BY <1>8, TurnFields DEF StartThrows, FinishTurn, SdkSpawn, QueueClean, RowsAgree,
     TurnJob, Alone, Idle, Unowned, JobOpen, JobTerminal, InQueue
<1>9. ASSUME NEW d \in Daemon, FinishIgnored(d) PROVE QueueClean'
  <2>1. turn'[d].k \in {"drain", "after"}
    BY <1>9, TurnFields, ReturnKind DEF FinishIgnored
  <2> QED
    BY <1>9, <2>1, TurnFields DEF FinishIgnored, QueueClean, RowsAgree, TurnJob, Alone,
       Idle, Unowned, JobOpen, JobTerminal, InQueue
<1>10. ASSUME NEW d \in Daemon, FinishJob(d) PROVE QueueClean'
  BY <1>10, TurnFields DEF FinishJob, RecordTurn, QueueClean, RowsAgree, TurnJob, Alone,
     Idle, Unowned, JobOpen, JobTerminal, InQueue
<1>11. ASSUME NEW d \in Daemon, RecordJob(d) PROVE QueueClean'
  BY <1>11, TurnFields DEF RecordJob, Drain, QueueClean, RowsAgree, TurnJob, Alone,
     Idle, Unowned, JobOpen, JobTerminal, InQueue
<1>12. ASSUME NEW d \in Daemon, ProcessQueueNext(d) PROVE QueueClean'
  BY <1>12 DEF ProcessQueueNext, Drain, StartTurn, Startable, QueueClean, RowsAgree,
     TurnJob, Alone, Idle, Unowned, JobOpen, JobTerminal, InQueue
<1>13. ASSUME NEW d \in Daemon, ProcessQueueEnd(d) PROVE QueueClean'
  BY <1>13 DEF ProcessQueueEnd, Drain, After, QueueClean, RowsAgree, TurnJob, Alone,
     Idle, Unowned, JobOpen, JobTerminal, InQueue
<1>14. ASSUME NEW d \in Daemon, FinishReturns(d) PROVE QueueClean'
  BY <1>14 DEF FinishReturns, After, Idle, Nothing, QueueClean, RowsAgree, TurnJob,
     Alone, Unowned, JobOpen, JobTerminal, InQueue
<1>15. ASSUME NEW d \in Daemon, FinishThrows(d) PROVE QueueClean'
  BY <1>15 DEF FinishThrows, Idle, Drain, QueueClean, RowsAgree, TurnJob, Alone,
     Unowned, JobOpen, JobTerminal, InQueue
<1>16. ASSUME NEW d \in Daemon, CleanupOrphanedResources(d) PROVE QueueClean'
  BY <1>16 DEF CleanupOrphanedResources, BootTurn, Fail, QueueClean, RowsAgree, TurnJob,
     Alone, Idle, Unowned, JobOpen, JobTerminal, InQueue
<1>17. ASSUME NEW d \in Daemon, CleanupOrphanedAgents(d) PROVE QueueClean'
  BY <1>17 DEF CleanupOrphanedAgents, BootTurn, Fail, QueueClean, RowsAgree, TurnJob,
     Alone, Idle, Unowned, JobOpen, JobTerminal, InQueue
<1>18. ASSUME NEW d \in Daemon, RecoverFromRestart(d) PROVE QueueClean'
  BY <1>18 DEF RecoverFromRestart, BootTurn, Idle, Fail, QueueClean, RowsAgree, TurnJob,
     Alone, Unowned, JobOpen, JobTerminal, InQueue
<1>19. ASSUME NEW d \in Daemon, Boot(d) PROVE QueueClean'
  BY <1>19 DEF Boot, BootTurn, QueueClean, RowsAgree, TurnJob, Alone, Idle, Unowned,
     JobOpen, JobTerminal, InQueue
<1>20. ASSUME NEW d \in Daemon, Crash(d) PROVE QueueClean'
  BY <1>20 DEF Crash, Idle, Owned, QueueClean, RowsAgree, TurnJob, Alone, Unowned,
     JobOpen, JobTerminal, InQueue
<1>21. ASSUME NEW d \in Daemon, NEW j \in Job, SpawnWorkerJob(d, j) PROVE QueueClean'
  BY <1>21 DEF SpawnWorkerJob, InsertJobTurn, Idle, Free, QueueClean, RowsAgree,
     TurnJob, Alone, Unowned, JobOpen, JobTerminal, InQueue
<1>22. ASSUME NEW d \in Daemon, NEW j \in Job, PollTick(d, j) PROVE QueueClean'
  BY <1>22 DEF PollTick, FinishTurn, Idle, Free, QueueClean, RowsAgree, TurnJob, Alone,
     Unowned, JobOpen, JobTerminal, InQueue
<1>23. ASSUME NEW d \in Daemon, NEW j \in Job, KillQueued(d, j) PROVE QueueClean'
  <2>1. PICK n \in 1..Len(jobQueue[d]) :
              jobQueue[d][n] = j /\ jobQueue' = [jobQueue EXCEPT ![d] = Splice(jobQueue[d], n)]
    BY <1>23 DEF KillQueued
  <2> DEFINE q == jobQueue[d]
             s == Splice(q, n)
  <2>2. q \in Seq(Job) /\ \A g, h \in 1..Len(q) : q[g] = q[h] => g = h
    BY DEF QueueClean
  <2>3. /\ \A h \in 1..Len(s) : \E g \in 1..Len(q) : g # n /\ s[h] = q[g]
        /\ \A g, h \in 1..Len(s) : s[g] = s[h] => g = h
    BY <2>2, SpliceClean
  <2>4. turn'[d].j = j /\ jobs' = jobs /\ agents' = agents
    BY <1>23 DEF KillQueued, FinishTurn
  <2>5. jobQueue'[d] = s /\ \A e \in Daemon : e # d => Len(jobQueue'[e]) = 0
    BY <1>23, <2>1 DEF KillQueued, Free, Alone
  <2>6. \A g \in 1..Len(q) : jobs[q[g]] = "queued" /\ agents[q[g]] = "queued" /\ (q[g] = j => g = n)
    BY <2>1 DEF QueueClean
  <2> HIDE DEF q, s
  <2>7. \A h \in 1..Len(s) : jobs[s[h]] = "queued" /\ agents[s[h]] = "queued" /\ s[h] # j
    <3> TAKE h \in 1..Len(s)
    <3>1. PICK g \in 1..Len(q) : g # n /\ s[h] = q[g]
      BY <2>3
    <3> QED
      BY <2>6, <3>1
  <2> SUFFICES ASSUME NEW e \in Daemon, NEW i \in 1..Len(jobQueue'[e])
               PROVE  /\ jobs'[jobQueue'[e][i]] = "queued" /\ agents'[jobQueue'[e][i]] = "queued"
                      /\ turn'[e].j # jobQueue'[e][i]
                      /\ \A h \in 1..Len(jobQueue'[e]) : jobQueue'[e][h] = jobQueue'[e][i] => h = i
    BY DEF QueueClean
  <2>8. e = d /\ jobQueue'[e] = s /\ i \in 1..Len(s)
    BY <2>5
  <2>9. jobs[s[i]] = "queued" /\ agents[s[i]] = "queued" /\ s[i] # j
    BY <2>7, <2>8
  <2>10. \A h \in 1..Len(s) : s[h] = s[i] => h = i
    BY <2>3, <2>8
  <2> QED
    BY <2>4, <2>8, <2>9, <2>10
<1>24. ASSUME NEW d \in Daemon, NEW j \in Job, KillRunning(d, j) PROVE QueueClean'
  BY <1>24 DEF KillRunning, FinishTurn, Idle, Free, QueueClean, RowsAgree, TurnJob,
     Alone, Unowned, JobOpen, JobTerminal, InQueue
<1> QED
  BY StepCases, <1>1, <1>2, <1>3, <1>4, <1>5, <1>6, <1>7, <1>8, <1>9, <1>10, <1>11,
     <1>12, <1>13, <1>14, <1>15, <1>16, <1>17, <1>18, <1>19, <1>20, <1>21, <1>22, <1>23,
     <1>24 DEF TurnStep

\* A free slot is a free worker slot.
LEMMA SlotFree ==
    ASSUME SlotsBounded, HasSlot
    PROVE  Cardinality(Slots) < MaxConcurrentAgents
BY FS_CardinalityType, MaxAssumption
   DEF SlotsBounded, HasSlot, countRunningAgents, Slots

\* A step that takes no slot, and begins a start only when one is free.
LEMMA SlotsShrink ==
    ASSUME SlotsBounded, Slots' \subseteq Slots,
           \A d \in Daemon : turn'[d].k = "start" => turn[d].k = "start" \/ HasSlot
    PROVE  SlotsBounded'
<1>1. IsFiniteSet(Slots') /\ Cardinality(Slots') <= Cardinality(Slots)
  BY FS_Subset DEF SlotsBounded
<1>2. Cardinality(Slots) \in Nat /\ Cardinality(Slots') \in Nat
  BY <1>1, FS_CardinalityType DEF SlotsBounded
<1> QED
  BY <1>1, <1>2, SlotFree, MaxAssumption DEF SlotsBounded

\* SlotsBounded is kept by every step: the check of spawnWorkerJob or of
\* processQueue still holds when startWorker takes the slot.
LEMMA SlotsBoundedStep ==
    ASSUME ~SharedDb, IInv, [Next]_vars, TypeOK'
    PROVE  SlotsBounded'
<1> USE DEF IInv, TypeOK, Goto, dbVars, memVars, sdkVars
<1> DEFINE Shrinks == /\ Slots' \subseteq Slots
                      /\ \A e \in Daemon : turn'[e].k = "start" => turn[e].k = "start" \/ HasSlot
<1>0. Shrinks => SlotsBounded'
  BY SlotsShrink
<1>1. QuietStep => Shrinks
  BY DEF QuietStep, Slots
<1>2. SdkStep => Shrinks
  BY DEF SdkStep, Slots
<1>3. ASSUME NEW d \in Daemon, InsertJob(d) PROVE Shrinks
  BY <1>3 DEF InsertJob, AdmitTurn, Slots
<1>4. ASSUME NEW d \in Daemon, AdmitNow(d) PROVE Shrinks
  BY <1>4 DEF AdmitNow, StartTurn, Slots
<1>5. ASSUME NEW d \in Daemon, AdmitLater(d) PROVE Shrinks
  BY <1>5 DEF AdmitLater, Idle, Slots
<1>6. ASSUME NEW d \in Daemon, StartWorker(d) PROVE SlotsBounded'
  <2>1. turn[d].j \in Job /\ turn[d].j \notin Slots /\ Slots' = Slots \cup {turn[d].j}
    BY <1>6, TurnFields DEF StartWorker, TurnJob, Slots, AgentActive
  <2>2. IsFiniteSet(Slots') /\ Cardinality(Slots') = Cardinality(Slots) + 1
    BY <2>1, FS_AddElement DEF SlotsBounded
  <2>3. Cardinality(Slots) < MaxConcurrentAgents /\ Cardinality(Slots) \in Nat
    BY <1>6, FS_CardinalityType DEF StartWorker, SlotsBounded
  <2>4. \A e \in Daemon : turn'[e].k # "start"
    BY <1>6 DEF StartWorker, RunTurn, Alone, Idle
  <2> QED
    BY <2>2, <2>3, <2>4, MaxAssumption DEF SlotsBounded
<1>7. ASSUME NEW d \in Daemon, StartPolling(d) PROVE Shrinks
  <2>1. turn'[d].k \in {"drain", "after"}
    BY <1>7, TurnFields, ReturnKind DEF StartPolling
  <2> QED
    BY <1>7, <2>1 DEF StartPolling, Slots
<1>8. ASSUME NEW d \in Daemon, StartThrows(d) PROVE Shrinks
  BY <1>8 DEF StartThrows, FinishTurn, SdkSpawn, Slots
<1>9. ASSUME NEW d \in Daemon, FinishIgnored(d) PROVE Shrinks
  <2>1. turn'[d].k \in {"drain", "after"}
    BY <1>9, TurnFields, ReturnKind DEF FinishIgnored
  <2> QED
    BY <1>9, <2>1 DEF FinishIgnored, Slots
<1>10. ASSUME NEW d \in Daemon, FinishJob(d) PROVE Shrinks
  BY <1>10, TurnFields DEF FinishJob, RecordTurn, Slots, AgentActive
<1>11. ASSUME NEW d \in Daemon, RecordJob(d) PROVE Shrinks
  BY <1>11 DEF RecordJob, Drain, Slots
<1>12. ASSUME NEW d \in Daemon, ProcessQueueNext(d) PROVE Shrinks
  BY <1>12 DEF ProcessQueueNext, Drain, StartTurn, Slots
<1>13. ASSUME NEW d \in Daemon, ProcessQueueEnd(d) PROVE Shrinks
  BY <1>13 DEF ProcessQueueEnd, Drain, After, Slots
<1>14. ASSUME NEW d \in Daemon, FinishReturns(d) PROVE Shrinks
  BY <1>14 DEF FinishReturns, After, Idle, Slots
<1>15. ASSUME NEW d \in Daemon, FinishThrows(d) PROVE Shrinks
  BY <1>15 DEF FinishThrows, Idle, Drain, Slots
<1>16. ASSUME NEW d \in Daemon, CleanupOrphanedResources(d) PROVE Shrinks
  BY <1>16 DEF CleanupOrphanedResources, BootTurn, Slots
<1>17. ASSUME NEW d \in Daemon, CleanupOrphanedAgents(d) PROVE Shrinks
  BY <1>17 DEF CleanupOrphanedAgents, BootTurn, Slots, AgentActive
<1>18. ASSUME NEW d \in Daemon, RecoverFromRestart(d) PROVE Shrinks
  BY <1>18 DEF RecoverFromRestart, BootTurn, Idle, Slots
<1>19. ASSUME NEW d \in Daemon, Boot(d) PROVE Shrinks
  BY <1>19 DEF Boot, BootTurn, Slots
<1>20. ASSUME NEW d \in Daemon, Crash(d) PROVE Shrinks
  BY <1>20 DEF Crash, Idle, Slots
<1>21. ASSUME NEW d \in Daemon, NEW j \in Job, SpawnWorkerJob(d, j) PROVE Shrinks
  BY <1>21 DEF SpawnWorkerJob, InsertJobTurn, Slots, AgentActive
<1>22. ASSUME NEW d \in Daemon, NEW j \in Job, PollTick(d, j) PROVE Shrinks
  BY <1>22 DEF PollTick, FinishTurn, Slots
<1>23. ASSUME NEW d \in Daemon, NEW j \in Job, KillQueued(d, j) PROVE Shrinks
  BY <1>23 DEF KillQueued, FinishTurn, Slots
<1>24. ASSUME NEW d \in Daemon, NEW j \in Job, KillRunning(d, j) PROVE Shrinks
  BY <1>24 DEF KillRunning, FinishTurn, Slots
<1> QED
  BY StepCases, <1>0, <1>1, <1>2, <1>3, <1>4, <1>5, <1>6, <1>7, <1>8, <1>9, <1>10,
     <1>11, <1>12, <1>13, <1>14, <1>15, <1>16, <1>17, <1>18, <1>19, <1>20, <1>21, <1>22,
     <1>23, <1>24 DEF TurnStep

-----------------------------------------------------------------------------
(* The theorems. *)

\* The inductive invariant is inductive.
LEMMA InductiveStep ==
    ASSUME ~SharedDb, IInv, [Next]_vars
    PROVE  IInv'
<1>1. TypeOK'
  BY TypeStep DEF IInv
<1> QED
  BY <1>1, AloneStep, UnownedStep, TurnJobStep, CallerJobStep, TrackedStep, HeardStep,
     RecoveredStep, RowsAgreeStep, QueueCleanStep, SlotsBoundedStep DEF IInv

\* It holds in the empty database, before any daemon has booted.
LEMMA InductiveInit ==
    ASSUME Init
    PROVE  IInv
<1>1. TypeOK
  BY TurnConstants DEF Init, TypeOK, Afters
<1>2. Alone /\ Unowned /\ CallerJob /\ Tracked /\ Heard /\ RowsAgree /\ QueueClean
  BY NoDaemonAssumption
  DEF Init, Alone, Unowned, CallerJob, Tracked, Heard, RowsAgree, QueueClean, Idle
<1>3. TurnJob /\ Recovered
  BY DEF Init, TurnJob, Recovered, Idle, BootTurn, JobOpen, AgentActive
<1>4. Slots = {} /\ \A d \in Daemon : turn[d].k = "idle"
  BY DEF Init, Slots, AgentActive, Idle
<1>5. SlotsBounded
  BY <1>4, FS_EmptySet, MaxAssumption DEF SlotsBounded
<1> QED
  BY <1>1, <1>2, <1>3, <1>5 DEF IInv

\* Every state a daemon with its own database can reach satisfies IInv.
THEOREM Invariance ==
    ASSUME ~SharedDb
    PROVE  Spec => []IInv
BY InductiveInit, InductiveStep, PTL DEF Spec

\* lifecycle.ts never loses track of a job: between two callbacks a queued row
\* is in the queue with its request, and a running row is polled.
THEOREM NoPhantomJobs ==
    ASSUME ~SharedDb
    PROVE  Spec => []NoPhantomJob
<1>1. IInv => NoPhantomJob
  BY DEF IInv, NoPhantomJob, Tracked, InHand, Free, Idle
<1> QED
  BY <1>1, Invariance, PTL

\* Whatever is spawned, killed, retried or restarted, the listeners of a job
\* run at most once, and exactly once if its daemon lives to see it end.
THEOREM ListenersOnce ==
    ASSUME ~SharedDb
    PROVE  Spec => []ListenersExactlyOnce
<1>1. IInv => ListenersExactlyOnce
  BY DEF IInv, ListenersExactlyOnce, Heard, Free
<1> QED
  BY <1>1, Invariance, PTL

\* A booted daemon finds nothing open that belongs to a dead process.
THEOREM RecoveryIsComplete ==
    ASSUME ~SharedDb
    PROVE  Spec => []RecoveryComplete
<1>1. ASSUME IInv, NEW d \in Daemon, Free(d), NEW j \in Job
      PROVE  /\ jobs[j] \in JobOpen => IsProcessAlive(owner[j])
             /\ agents[j] \in AgentActive \cup {"queued"} => jobs[j] \in JobOpen
  <2>1. turn[d] = Idle /\ Idle.k = "idle" /\ InsertJobTurn(j).k = "insertJob"
    BY <1>1 DEF Free, Idle, InsertJobTurn
  <2> QED
    BY <1>1, <2>1 DEF IInv, Recovered, Free, IsProcessAlive
<1>2. IInv => RecoveryComplete
  BY <1>1 DEF RecoveryComplete
<1> QED
  BY <1>2, Invariance, PTL

\* The SDK workers a daemon polls never outnumber maxConcurrentAgents.
THEOREM Capacity ==
    ASSUME ~SharedDb
    PROVE  Spec => []CapacityRespected
<1>1. ASSUME IInv PROVE CapacityRespected
  <2> DEFINE P == {j \in pollTimers : workers[j] = "running"}
  <2>1. P \in SUBSET Slots
    BY <1>1 DEF IInv, TypeOK, RowsAgree, Slots, AgentActive
  <2>2. IsFiniteSet(Slots) /\ Cardinality(Slots) <= MaxConcurrentAgents
    BY <1>1 DEF IInv, SlotsBounded
  <2>3. IsFiniteSet(P) /\ Cardinality(P) <= Cardinality(Slots)
    BY <2>1, <2>2, FS_Subset
  <2>4. Cardinality(P) \in Nat /\ Cardinality(Slots) \in Nat
    BY <2>2, <2>3, FS_CardinalityType
  <2> QED
    BY <2>2, <2>3, <2>4, MaxAssumption DEF CapacityRespected
<1> QED
  BY <1>1, Invariance, PTL

\* The terminal guard of finishJob holds: no step overwrites a result.
THEOREM TerminalStatusIsFinal ==
    ASSUME ~SharedDb
    PROVE  Spec => TerminalIsFinal
<1> DEFINE A == \A j \in Job : jobs[j] \in JobTerminal => jobs'[j] = jobs[j]
<1>1. ASSUME IInv, [Next]_vars PROVE [A]_vars
  <2> USE <1>1 DEF IInv, TypeOK, dbVars, JobTerminal, JobOpen
  <2>1. CASE QuietStep \/ SdkStep
    BY <2>1 DEF QuietStep, SdkStep
  <2>2. ASSUME NEW d \in Daemon, TurnStep(d) \/ Boot(d) \/ Crash(d) PROVE A
    <3>1. CASE InsertJob(d)
      BY <3>1, TurnFields DEF InsertJob, TurnJob
    <3>2. CASE StartPolling(d)
      BY <3>2, TurnFields DEF StartPolling, TurnJob
    <3>3. CASE RecordJob(d)
      BY <3>3, TurnFields DEF RecordJob, TurnJob
    <3>4. CASE CleanupOrphanedResources(d)
      BY <3>4 DEF CleanupOrphanedResources, Fail
    <3>5. CASE CleanupOrphanedAgents(d)
      BY <3>5 DEF CleanupOrphanedAgents, Fail
    <3>6. CASE RecoverFromRestart(d)
      BY <3>6 DEF RecoverFromRestart, Fail
    <3>7. CASE Boot(d) \/ Crash(d) \/ AdmitNow(d) \/ AdmitLater(d) \/ StartWorker(d)
               \/ StartThrows(d) \/ FinishIgnored(d) \/ FinishJob(d)
      BY <3>7 DEF Boot, Crash, AdmitNow, AdmitLater, StartWorker, StartThrows,
                  FinishIgnored, FinishJob
    <3>8. CASE ProcessQueueNext(d) \/ ProcessQueueEnd(d) \/ FinishReturns(d) \/ FinishThrows(d)
      BY <3>8 DEF ProcessQueueNext, ProcessQueueEnd, FinishReturns, FinishThrows
    <3> QED
      BY <2>2, <3>1, <3>2, <3>3, <3>4, <3>5, <3>6, <3>7, <3>8 DEF TurnStep
  <2>3. ASSUME NEW d \in Daemon, NEW j \in Job,
               \/ SpawnWorkerJob(d, j) \/ PollTick(d, j)
               \/ KillQueued(d, j) \/ KillRunning(d, j)
        PROVE  A
    BY <2>3 DEF SpawnWorkerJob, PollTick, KillQueued, KillRunning
  <2> QED
    BY <2>1, <2>2, <2>3, StepCases
<1>2. IInv /\ [Next]_vars => [A]_vars
  BY <1>1
<1> QED
  BY <1>2, Invariance, PTL DEF Spec, TerminalIsFinal

-----------------------------------------------------------------------------
(* Cancelled tasks.  The cancel of a task fails job rows of the lifecycle  *)
(* without its knowledge, so most of IInv is not an invariant of           *)
(* TasksSpec: rows are terminal that the queue still holds, or whose       *)
(* worker is polled.  What survives is enough for the listeners.           *)

\* One daemon lives, another has no turn, and while a cancel handler runs no
\* other callback does.
Exclusive ==
    /\ \A d, e \in Daemon : proc[d] = "up" /\ proc[e] = "up" => d = e
    /\ \A d \in Daemon : proc[d] # "up" => turn[d] = Idle
    /\ cancelling # NotCancelling => \A d \in Daemon : turn[d] = Idle

\* A job that is queued, polled, running or in a turn past its INSERT has a
\* row.
HasRow ==
    /\ \A j \in Job : agents[j] = "running" \/ j \in pollTimers => jobs[j] # "none"
    /\ \A d \in Daemon : \A i \in 1..Len(jobQueue[d]) : jobs[jobQueue[d][i]] # "none"
    /\ \A d \in Daemon : turn[d].k \in {"admit", "start", "run", "finish"} =>
                             jobs[turn[d].j] # "none"

\* finishJob found the row open, and nobody has closed it since.
RecordOpen ==
    \A d \in Daemon : turn[d].k = "record" => jobs[turn[d].j] \in JobOpen

CancelInv == TypeOK /\ Exclusive /\ HasRow /\ RecordOpen

\* A step of the lifecycle leaves at most one daemon up, the one in a turn.
LEMMA ExclusiveStep ==
    ASSUME ~SharedDb, CancelInv, LifecycleStep, TypeOK'
    PROVE  Exclusive'
<1> USE DEF CancelInv, TypeOK, Goto, dbVars, memVars, sdkVars
<1> [Next]_vars /\ cancelling = NotCancelling /\ cancelling' = NotCancelling
  BY DEF LifecycleStep, taskVars, NotCancelling
<1>1. CASE QuietStep
  BY <1>1 DEF QuietStep, Exclusive, Idle
<1>2. CASE SdkStep
  BY <1>2 DEF SdkStep, Exclusive, Idle
<1>3. ASSUME NEW d \in Daemon, InsertJob(d) PROVE Exclusive'
  BY <1>3, TurnFields DEF InsertJob, AdmitTurn, Exclusive, Idle
<1>4. ASSUME NEW d \in Daemon, AdmitNow(d) PROVE Exclusive'
  BY <1>4, TurnFields DEF AdmitNow, StartTurn, Exclusive, Idle
<1>5. ASSUME NEW d \in Daemon, AdmitLater(d) PROVE Exclusive'
  BY <1>5, TurnFields DEF AdmitLater, Exclusive, Idle
<1>6. ASSUME NEW d \in Daemon, StartWorker(d) PROVE Exclusive'
  BY <1>6, TurnFields DEF StartWorker, RunTurn, SdkSpawn, Exclusive, Idle
<1>7. ASSUME NEW d \in Daemon, StartPolling(d) PROVE Exclusive'
  <2>1. turn'[d].k \in {"drain", "after"}
    BY <1>7, TurnFields, ReturnKind DEF StartPolling
  <2> QED
    BY <1>7, <2>1, TurnFields DEF StartPolling, Exclusive, Idle
<1>8. ASSUME NEW d \in Daemon, StartThrows(d) PROVE Exclusive'
  BY <1>8, TurnFields DEF StartThrows, FinishTurn, SdkSpawn, Exclusive, Idle
<1>9. ASSUME NEW d \in Daemon, FinishIgnored(d) PROVE Exclusive'
  <2>1. turn'[d].k \in {"drain", "after"}
    BY <1>9, TurnFields, ReturnKind DEF FinishIgnored
  <2> QED
    BY <1>9, <2>1, TurnFields DEF FinishIgnored, Exclusive, Idle
<1>10. ASSUME NEW d \in Daemon, FinishJob(d) PROVE Exclusive'
  BY <1>10, TurnFields DEF FinishJob, RecordTurn, Exclusive, Idle
<1>11. ASSUME NEW d \in Daemon, RecordJob(d) PROVE Exclusive'
  BY <1>11, TurnFields DEF RecordJob, Drain, Exclusive, Idle
<1>12. ASSUME NEW d \in Daemon, ProcessQueueNext(d) PROVE Exclusive'
  BY <1>12 DEF ProcessQueueNext, Drain, StartTurn, Startable, Exclusive, Idle
<1>13. ASSUME NEW d \in Daemon, ProcessQueueEnd(d) PROVE Exclusive'
  BY <1>13, TurnFields DEF ProcessQueueEnd, Drain, After, Exclusive, Idle
<1>14. ASSUME NEW d \in Daemon, FinishReturns(d) PROVE Exclusive'
  BY <1>14, TurnFields DEF FinishReturns, After, Exclusive, Idle
<1>15. ASSUME NEW d \in Daemon, FinishThrows(d) PROVE Exclusive'
  BY <1>15, TurnFields DEF FinishThrows, Drain, Exclusive, Idle
<1>16. ASSUME NEW d \in Daemon, CleanupOrphanedResources(d) PROVE Exclusive'
  BY <1>16, TurnFields DEF CleanupOrphanedResources, BootTurn, Fail, Exclusive, Idle
<1>17. ASSUME NEW d \in Daemon, CleanupOrphanedAgents(d) PROVE Exclusive'
  BY <1>17, TurnFields DEF CleanupOrphanedAgents, BootTurn, Fail, Exclusive, Idle
<1>18. ASSUME NEW d \in Daemon, RecoverFromRestart(d) PROVE Exclusive'
  BY <1>18, TurnFields DEF RecoverFromRestart, BootTurn, Fail, Exclusive, Idle
<1>19. ASSUME NEW d \in Daemon, Boot(d) PROVE Exclusive'
  BY <1>19, TurnFields DEF Boot, BootTurn, Exclusive, Idle
<1>20. ASSUME NEW d \in Daemon, Crash(d) PROVE Exclusive'
  BY <1>20, TurnFields DEF Crash, Owned, Exclusive, Idle
<1>21. ASSUME NEW d \in Daemon, NEW j \in Job, SpawnWorkerJob(d, j) PROVE Exclusive'
  BY <1>21 DEF SpawnWorkerJob, InsertJobTurn, Free, Exclusive, Idle
<1>22. ASSUME NEW d \in Daemon, NEW j \in Job, PollTick(d, j) PROVE Exclusive'
  BY <1>22 DEF PollTick, FinishTurn, Free, Exclusive, Idle
<1>23. ASSUME NEW d \in Daemon, NEW j \in Job, KillQueued(d, j) PROVE Exclusive'
  BY <1>23 DEF KillQueued, FinishTurn, Free, Exclusive, Idle
<1>24. ASSUME NEW d \in Daemon, NEW j \in Job, KillRunning(d, j) PROVE Exclusive'
  BY <1>24 DEF KillRunning, FinishTurn, Free, Exclusive, Idle
<1> QED
  BY StepCases, <1>1, <1>2, <1>3, <1>4, <1>5, <1>6, <1>7, <1>8, <1>9, <1>10, <1>11,
     <1>12, <1>13, <1>14, <1>15, <1>16, <1>17, <1>18, <1>19, <1>20, <1>21, <1>22, <1>23,
     <1>24 DEF TurnStep

\* A row once inserted is never removed, and only jobs with a row get into
\* the queue, the timers and the turns.
LEMMA HasRowStep ==
    ASSUME CancelInv, [Next]_vars, TypeOK'
    PROVE  HasRow'
<1> USE DEF CancelInv, TypeOK, Goto, dbVars, memVars, sdkVars
<1>1. CASE QuietStep
  BY <1>1 DEF QuietStep, HasRow, Idle, JobOpen, JobTerminal
<1>2. CASE SdkStep
  BY <1>2 DEF SdkStep, HasRow, Idle, JobOpen, JobTerminal
<1>3. ASSUME NEW d \in Daemon, InsertJob(d) PROVE HasRow'
  BY <1>3, TurnFields DEF InsertJob, AdmitTurn, HasRow, Idle, JobOpen, JobTerminal
<1>4. ASSUME NEW d \in Daemon, AdmitNow(d) PROVE HasRow'
  BY <1>4, TurnFields DEF AdmitNow, StartTurn, HasRow, Idle, JobOpen, JobTerminal
<1>5. ASSUME NEW d \in Daemon, AdmitLater(d) PROVE HasRow'
  BY <1>5, TurnFields DEF AdmitLater, HasRow, Idle, JobOpen, JobTerminal
<1>6. ASSUME NEW d \in Daemon, StartWorker(d) PROVE HasRow'
  BY <1>6, TurnFields DEF StartWorker, RunTurn, SdkSpawn, HasRow, Idle, JobOpen, JobTerminal
<1>7. ASSUME NEW d \in Daemon, StartPolling(d) PROVE HasRow'
  <2>1. turn'[d].k \in {"drain", "after"}
    BY <1>7, TurnFields, ReturnKind DEF StartPolling
  <2> QED
    BY <1>7, <2>1, TurnFields DEF StartPolling, HasRow, Idle, JobOpen, JobTerminal
<1>8. ASSUME NEW d \in Daemon, StartThrows(d) PROVE HasRow'
  BY <1>8, TurnFields DEF StartThrows, FinishTurn, SdkSpawn, HasRow, Idle, JobOpen, JobTerminal
<1>9. ASSUME NEW d \in Daemon, FinishIgnored(d) PROVE HasRow'
  <2>1. turn'[d].k \in {"drain", "after"}
    BY <1>9, TurnFields, ReturnKind DEF FinishIgnored
  <2> QED
    BY <1>9, <2>1, TurnFields DEF FinishIgnored, HasRow, Idle, JobOpen, JobTerminal
<1>10. ASSUME NEW d \in Daemon, FinishJob(d) PROVE HasRow'
  BY <1>10, TurnFields DEF FinishJob, RecordTurn, HasRow, Idle, JobOpen, JobTerminal
<1>11. ASSUME NEW d \in Daemon, RecordJob(d) PROVE HasRow'
  BY <1>11, TurnFields DEF RecordJob, Drain, HasRow, Idle, JobOpen, JobTerminal
<1>12. ASSUME NEW d \in Daemon, ProcessQueueNext(d) PROVE HasRow'
  BY <1>12 DEF ProcessQueueNext, Drain, StartTurn, Startable, HasRow, Idle, JobOpen, JobTerminal
<1>13. ASSUME NEW d \in Daemon, ProcessQueueEnd(d) PROVE HasRow'
  BY <1>13, TurnFields DEF ProcessQueueEnd, Drain, After, HasRow, Idle, JobOpen, JobTerminal
<1>14. ASSUME NEW d \in Daemon, FinishReturns(d) PROVE HasRow'
  BY <1>14, TurnFields DEF FinishReturns, After, HasRow, Idle, JobOpen, JobTerminal
<1>15. ASSUME NEW d \in Daemon, FinishThrows(d) PROVE HasRow'
  BY <1>15, TurnFields DEF FinishThrows, Drain, HasRow, Idle, JobOpen, JobTerminal
<1>16. ASSUME NEW d \in Daemon, CleanupOrphanedResources(d) PROVE HasRow'
  BY <1>16, TurnFields DEF CleanupOrphanedResources, BootTurn, Fail, HasRow, Idle, JobOpen,
     JobTerminal
<1>17. ASSUME NEW d \in Daemon, CleanupOrphanedAgents(d) PROVE HasRow'
  BY <1>17, TurnFields DEF CleanupOrphanedAgents, BootTurn, Fail, HasRow, Idle, JobOpen,
     JobTerminal
<1>18. ASSUME NEW d \in Daemon, RecoverFromRestart(d) PROVE HasRow'
  BY <1>18, TurnFields DEF RecoverFromRestart, BootTurn, Fail, HasRow, Idle, JobOpen,
     JobTerminal
<1>19. ASSUME NEW d \in Daemon, Boot(d) PROVE HasRow'
  BY <1>19, TurnFields DEF Boot, BootTurn, HasRow, Idle, JobOpen, JobTerminal
<1>20. ASSUME NEW d \in Daemon, Crash(d) PROVE HasRow'
  BY <1>20, TurnFields DEF Crash, Owned, HasRow, Idle, JobOpen, JobTerminal
<1>21. ASSUME NEW d \in Daemon, NEW j \in Job, SpawnWorkerJob(d, j) PROVE HasRow'
  BY <1>21 DEF SpawnWorkerJob, InsertJobTurn, Free, HasRow, Idle, JobOpen, JobTerminal
<1>22. ASSUME NEW d \in Daemon, NEW j \in Job, PollTick(d, j) PROVE HasRow'
  BY <1>22 DEF PollTick, FinishTurn, Free, HasRow, Idle, JobOpen, JobTerminal
<1>23. ASSUME NEW d \in Daemon, NEW j \in Job, KillQueued(d, j) PROVE HasRow'
  <2>1. PICK i \in 1..Len(jobQueue[d]) : jobQueue[d][i] = j
                                         /\ jobQueue' = [jobQueue EXCEPT ![d] = Splice(@, i)]
    BY <1>23 DEF KillQueued
  <2>2. \A h \in 1..Len(jobQueue'[d]) : jobs[jobQueue'[d][h]] # "none"
    <3> DEFINE q == jobQueue[d]
    <3>1. q \in Seq(Job) /\ Len(q) \in Nat /\ jobQueue'[d] = Splice(q, i)
      BY <2>1
    <3>2. /\ Len(Splice(q, i)) = Len(q) - 1
          /\ \A h \in 1..(Len(q) - 1) : Splice(q, i)[h] = IF h < i THEN q[h] ELSE q[h + 1]
      BY <2>1, <3>1, SpliceQueue
    <3>3. \A h \in 1..Len(q) : jobs[q[h]] # "none"
      BY DEF HasRow
    <3> HIDE DEF q
    <3> SUFFICES ASSUME NEW h \in 1..(Len(q) - 1) PROVE jobs[Splice(q, i)[h]] # "none"
      BY <3>1, <3>2
    <3>4. h \in 1..Len(q) /\ h + 1 \in 1..Len(q)
      BY <3>1
    <3> QED
      BY <3>2, <3>3, <3>4
  <2> QED
    BY <1>23, <2>1, <2>2 DEF KillQueued, FinishTurn, HasRow
<1>24. ASSUME NEW d \in Daemon, NEW j \in Job, KillRunning(d, j) PROVE HasRow'
  BY <1>24 DEF KillRunning, FinishTurn, Free, HasRow, Idle, JobOpen, JobTerminal
<1> QED
  BY StepCases, <1>1, <1>2, <1>3, <1>4, <1>5, <1>6, <1>7, <1>8, <1>9, <1>10, <1>11,
     <1>12, <1>13, <1>14, <1>15, <1>16, <1>17, <1>18, <1>19, <1>20, <1>21, <1>22, <1>23,
     <1>24 DEF TurnStep

\* Between the guard of finishJob and its UPDATE no other callback runs, no
\* cancel handler either.
LEMMA RecordOpenStep ==
    ASSUME CancelInv, LifecycleStep, TypeOK'
    PROVE  RecordOpen'
<1> USE DEF CancelInv, TypeOK, Goto, dbVars, memVars, sdkVars
<1> [Next]_vars
  BY DEF LifecycleStep
<1>1. CASE QuietStep
  BY <1>1 DEF QuietStep, RecordOpen, Exclusive, HasRow, Idle, JobOpen, JobTerminal
<1>2. CASE SdkStep
  BY <1>2 DEF SdkStep, RecordOpen, Exclusive, HasRow, Idle, JobOpen, JobTerminal
<1>3. ASSUME NEW d \in Daemon, InsertJob(d) PROVE RecordOpen'
  BY <1>3, TurnFields DEF InsertJob, AdmitTurn, RecordOpen, Exclusive, HasRow, Idle, JobOpen,
     JobTerminal
<1>4. ASSUME NEW d \in Daemon, AdmitNow(d) PROVE RecordOpen'
  BY <1>4, TurnFields DEF AdmitNow, StartTurn, RecordOpen, Exclusive, HasRow, Idle, JobOpen,
     JobTerminal
<1>5. ASSUME NEW d \in Daemon, AdmitLater(d) PROVE RecordOpen'
  BY <1>5, TurnFields DEF AdmitLater, RecordOpen, Exclusive, HasRow, Idle, JobOpen, JobTerminal
<1>6. ASSUME NEW d \in Daemon, StartWorker(d) PROVE RecordOpen'
  BY <1>6, TurnFields DEF StartWorker, RunTurn, SdkSpawn, RecordOpen, Exclusive, HasRow, Idle,
     JobOpen, JobTerminal
<1>7. ASSUME NEW d \in Daemon, StartPolling(d) PROVE RecordOpen'
  <2>1. turn'[d].k \in {"drain", "after"}
    BY <1>7, TurnFields, ReturnKind DEF StartPolling
  <2> QED
    BY <1>7, <2>1, TurnFields DEF StartPolling, RecordOpen, Exclusive, HasRow, Idle, JobOpen,
       JobTerminal
<1>8. ASSUME NEW d \in Daemon, StartThrows(d) PROVE RecordOpen'
  BY <1>8, TurnFields DEF StartThrows, FinishTurn, SdkSpawn, RecordOpen, Exclusive, HasRow,
     Idle, JobOpen, JobTerminal
<1>9. ASSUME NEW d \in Daemon, FinishIgnored(d) PROVE RecordOpen'
  <2>1. turn'[d].k \in {"drain", "after"}
    BY <1>9, TurnFields, ReturnKind DEF FinishIgnored
  <2> QED
    BY <1>9, <2>1, TurnFields DEF FinishIgnored, RecordOpen, Exclusive, HasRow, Idle, JobOpen,
       JobTerminal
<1>10. ASSUME NEW d \in Daemon, FinishJob(d) PROVE RecordOpen'
  BY <1>10, TurnFields DEF FinishJob, RecordTurn, RecordOpen, Exclusive, HasRow, Idle,
     JobOpen, JobTerminal
<1>11. ASSUME NEW d \in Daemon, RecordJob(d) PROVE RecordOpen'
  BY <1>11, TurnFields DEF RecordJob, Drain, RecordOpen, Exclusive, HasRow, Idle, JobOpen,
     JobTerminal
<1>12. ASSUME NEW d \in Daemon, ProcessQueueNext(d) PROVE RecordOpen'
  BY <1>12 DEF ProcessQueueNext, Drain, StartTurn, Startable, RecordOpen, Exclusive, HasRow,
     Idle, JobOpen, JobTerminal
<1>13. ASSUME NEW d \in Daemon, ProcessQueueEnd(d) PROVE RecordOpen'
  BY <1>13, TurnFields DEF ProcessQueueEnd, Drain, After, RecordOpen, Exclusive, HasRow, Idle,
     JobOpen, JobTerminal
<1>14. ASSUME NEW d \in Daemon, FinishReturns(d) PROVE RecordOpen'
  BY <1>14, TurnFields DEF FinishReturns, After, RecordOpen, Exclusive, HasRow, Idle, JobOpen,
     JobTerminal
<1>15. ASSUME NEW d \in Daemon, FinishThrows(d) PROVE RecordOpen'
  BY <1>15, TurnFields DEF FinishThrows, Drain, RecordOpen, Exclusive, HasRow, Idle, JobOpen,
     JobTerminal
<1>16. ASSUME NEW d \in Daemon, CleanupOrphanedResources(d) PROVE RecordOpen'
  <2>1. turn[d].k = "boot"
    BY <1>16 DEF CleanupOrphanedResources, BootTurn
  <2>2. \A e \in Daemon : e # d => turn[e] = Idle
    BY <2>1 DEF Exclusive, Idle
  <2> QED
    BY <1>16, <2>2 DEF CleanupOrphanedResources, BootTurn, Idle, RecordOpen
<1>17. ASSUME NEW d \in Daemon, CleanupOrphanedAgents(d) PROVE RecordOpen'
  <2>1. turn[d].k = "boot"
    BY <1>17 DEF CleanupOrphanedAgents, BootTurn
  <2>2. \A e \in Daemon : e # d => turn[e] = Idle
    BY <2>1 DEF Exclusive, Idle
  <2> QED
    BY <1>17, <2>2 DEF CleanupOrphanedAgents, BootTurn, Idle, RecordOpen
<1>18. ASSUME NEW d \in Daemon, RecoverFromRestart(d) PROVE RecordOpen'
  <2>1. turn[d].k = "boot"
    BY <1>18 DEF RecoverFromRestart, BootTurn
  <2>2. \A e \in Daemon : e # d => turn[e] = Idle
    BY <2>1 DEF Exclusive, Idle
  <2> QED
    BY <1>18, <2>2 DEF RecoverFromRestart, BootTurn, Idle, RecordOpen
<1>19. ASSUME NEW d \in Daemon, Boot(d) PROVE RecordOpen'
  BY <1>19, TurnFields DEF Boot, BootTurn, RecordOpen, Exclusive, HasRow, Idle, JobOpen,
     JobTerminal
<1>20. ASSUME NEW d \in Daemon, Crash(d) PROVE RecordOpen'
  BY <1>20, TurnFields DEF Crash, Owned, RecordOpen, Exclusive, HasRow, Idle, JobOpen,
     JobTerminal
<1>21. ASSUME NEW d \in Daemon, NEW j \in Job, SpawnWorkerJob(d, j) PROVE RecordOpen'
  BY <1>21 DEF SpawnWorkerJob, InsertJobTurn, Free, RecordOpen, Exclusive, HasRow, Idle,
     JobOpen, JobTerminal
<1>22. ASSUME NEW d \in Daemon, NEW j \in Job, PollTick(d, j) PROVE RecordOpen'
  BY <1>22 DEF PollTick, FinishTurn, Free, RecordOpen, Exclusive, HasRow, Idle, JobOpen,
     JobTerminal
<1>23. ASSUME NEW d \in Daemon, NEW j \in Job, KillQueued(d, j) PROVE RecordOpen'
  BY <1>23 DEF KillQueued, FinishTurn, Free, RecordOpen, Exclusive, HasRow, Idle, JobOpen,
     JobTerminal
<1>24. ASSUME NEW d \in Daemon, NEW j \in Job, KillRunning(d, j) PROVE RecordOpen'
  BY <1>24 DEF KillRunning, FinishTurn, Free, RecordOpen, Exclusive, HasRow, Idle, JobOpen,
     JobTerminal
<1> QED
  BY StepCases, <1>1, <1>2, <1>3, <1>4, <1>5, <1>6, <1>7, <1>8, <1>9, <1>10, <1>11,
     <1>12, <1>13, <1>14, <1>15, <1>16, <1>17, <1>18, <1>19, <1>20, <1>21, <1>22, <1>23,
     <1>24 DEF TurnStep

\* The steps of the task API: their own tables, and open rows that fail.
LEMMA TaskApiStep ==
    ASSUME CancelInv, TasksNext, ~LifecycleStep
    PROVE  CancelInv' /\ heard' = heard
<1> USE DEF CancelInv, TypeOK, Exclusive, HasRow, RecordOpen
<1>1. ASSUME NEW d \in Daemon, CrashAll(d) PROVE CancelInv' /\ heard' = heard
  <2>1. TypeOK'
    BY <1>1, TypeStep DEF CrashAll, Next
  <2>2. HasRow'
    BY <1>1, <2>1, HasRowStep DEF CrashAll, Next
  <2>3. Exclusive' /\ RecordOpen' /\ heard' = heard
    BY <1>1 DEF CrashAll, Crash, Goto, Idle, dbVars
  <2> QED
    BY <2>1, <2>2, <2>3
<1>2. ASSUME NEW d \in Daemon, NEW t \in Task, CancelBegin(d, t)
      PROVE  CancelInv' /\ heard' = heard
  BY <1>2 DEF CancelBegin, Free, vars
<1>3. ASSUME NEW d \in Daemon, NEW t \in Task, NEW j \in Job, AssignWorker(d, t, j)
      PROVE  CancelInv' /\ heard' = heard
  BY <1>3 DEF AssignWorker, vars
<1>4. ASSUME NEW j \in Job, CancelWorker(j) PROVE CancelInv' /\ heard' = heard
  <2>1. cancelling # NotCancelling
    BY <1>4 DEF CancelWorker, NotCancelling
  <2> QED
    BY <1>4, <2>1 DEF CancelWorker, memVars, sdkVars, JobOpen, JobTerminal, Idle
<1>5. CASE CancelEnd
  BY <1>5 DEF CancelEnd, vars, NotCancelling
<1> QED
  BY <1>1, <1>2, <1>3, <1>4, <1>5 DEF TasksNext, CancelStep

\* Every step keeps the invariant, and listeners are called only with the
\* UPDATE that ends an open row.
LEMMA CancelInvStep ==
    ASSUME ~SharedDb, CancelInv, [TasksNext]_allVars
    PROVE  /\ CancelInv'
           /\ \A j \in Job : heard'[j] # heard[j] =>
                 jobs[j] \in JobOpen /\ jobs'[j] \in JobTerminal
<1>1. CASE UNCHANGED allVars
  BY <1>1 DEF allVars, vars, taskVars, CancelInv, TypeOK, Exclusive, HasRow, RecordOpen
<1>2. CASE LifecycleStep
  <2>1. TypeOK'
    BY <1>2, TypeStep DEF CancelInv, LifecycleStep
  <2>2. CancelInv'
    BY <1>2, <2>1, ExclusiveStep, HasRowStep, RecordOpenStep DEF CancelInv, LifecycleStep
  <2>3. ASSUME NEW j \in Job, heard'[j] # heard[j]
        PROVE  jobs[j] \in JobOpen /\ jobs'[j] \in JobTerminal
    <3>1. PICK d \in Daemon : RecordJob(d)
      <4> USE <2>3 DEF CancelInv, dbVars, memVars, sdkVars
      <4>1. ~(QuietStep \/ SdkStep)
        BY DEF QuietStep, SdkStep
      <4>2. ~(\E d \in Daemon, i \in Job : \/ SpawnWorkerJob(d, i) \/ PollTick(d, i)
                                           \/ KillQueued(d, i) \/ KillRunning(d, i))
        BY DEF SpawnWorkerJob, PollTick, KillQueued, KillRunning
      <4>3. PICK d \in Daemon : TurnStep(d) \/ Boot(d) \/ Crash(d)
        BY <1>2, <4>1, <4>2, StepCases DEF LifecycleStep
      <4>4. ~(Boot(d) \/ Crash(d) \/ InsertJob(d) \/ AdmitNow(d) \/ AdmitLater(d)
               \/ StartWorker(d) \/ StartPolling(d) \/ StartThrows(d))
        BY DEF Boot, Crash, InsertJob, AdmitNow, AdmitLater, StartWorker, StartPolling,
               StartThrows
      <4>5. ~(FinishIgnored(d) \/ FinishJob(d) \/ ProcessQueueNext(d) \/ ProcessQueueEnd(d)
               \/ FinishReturns(d) \/ FinishThrows(d))
        BY DEF FinishIgnored, FinishJob, ProcessQueueNext, ProcessQueueEnd, FinishReturns,
               FinishThrows
      <4>6. ~(CleanupOrphanedResources(d) \/ CleanupOrphanedAgents(d) \/ RecoverFromRestart(d))
        BY DEF CleanupOrphanedResources, CleanupOrphanedAgents, RecoverFromRestart
      <4> QED
        BY <4>3, <4>4, <4>5, <4>6 DEF TurnStep
    <3> QED
      BY <2>3, <3>1, TurnFields DEF RecordJob, CancelInv, TypeOK, RecordOpen
  <2> QED
    BY <2>2, <2>3
<1>3. CASE TasksNext /\ ~LifecycleStep
  BY <1>3, TaskApiStep
<1> QED
  BY <1>1, <1>2, <1>3

\* The listeners of a job are called only with the UPDATE that ends its open
\* row, so a worker that outlives the cancel of its task (api/task-queue.ts
\* 641-659) ends unheard, thanks to the guard of finishJob (lifecycle.ts
\* 449-457), with any tasks, jobs and crashes.
THEOREM CancelledJobsStayUnheard ==
    ASSUME ~SharedDb
    PROVE  TasksSpec => CancelledUnheard
<1> DEFINE A == \A j \in Job : heard'[j] # heard[j] =>
                    jobs[j] \in JobOpen /\ jobs'[j] \in JobTerminal
<1>1. TasksInit => CancelInv
  BY TurnConstants DEF TasksInit, Init, CancelInv, TypeOK, Afters, Exclusive, HasRow,
     RecordOpen, Idle
<1>2. CancelInv /\ [TasksNext]_allVars => CancelInv' /\ [A]_allVars
  BY CancelInvStep
<1> QED
  BY <1>1, <1>2, PTL DEF TasksSpec, CancelledUnheard

=============================================================================
