------------------------------ MODULE RetroLoop ------------------------------
(* The retrospective loop: a worker of a task ends, or the task is updated *)
(* to a terminal status, the task is evaluated, a retro worker may be      *)
(* spawned for it, and when that one completes its learnings are stored as *)
(* memories, one after the other, by a job-complete listener.  A backfill  *)
(* requested through the API stores the learnings of completed retro jobs  *)
(* that produced no memory.                                                *)
(*                                                                         *)
(* JavaScript runs to completion: thread names the ingest or backfill that *)
(* has not awaited anything yet, and nobody else moves until it does.  A   *)
(* store awaits only when it inserted a row and an embedding is computed.  *)
EXTENDS Integers, Sequences, FiniteSets, SequencesExt

CONSTANTS
    RetroTasks,      \* the tasks
    GenerateRetro,   \* GenerateRetro[t]: "on", "off" or "unset"
    Items,           \* what a retro worker's result may list
    Valid,           \* the items with a content and a known category
    Prefix,          \* Prefix[l]: the first 50 characters of an item's content
    Results,         \* the results a retro worker may give: sequences of Items
    Backfills,       \* backfill requests
    FreeThread,      \* nobody holds the thread
    Vectors,         \* whether embeddings are computed
    MaxLearnings,    \* retro.max_learnings_per_retro
    MaxEvents,       \* bound: evaluations of one task from outside
    MaxRetros,       \* bound: retro jobs
    MaxRetroRestarts \* bound: restarts of the daemon

ASSUME RetroSettings ==
    /\ GenerateRetro \in [RetroTasks -> {"on", "off", "unset"}]
    /\ Valid \subseteq Items /\ Results \subseteq Seq(Items)
    /\ Vectors \in BOOLEAN
    /\ {MaxLearnings, MaxEvents, MaxRetros, MaxRetroRestarts} \subseteq Nat
    /\ Backfills \cap ((1 .. MaxRetros) \cup {FreeThread}) = {}
    /\ FreeThread \notin 1 .. MaxRetros

VARIABLES
    signalled,   \* the tasks with an error, a retry, a failed worker or a correction
    retros,      \* the retro jobs in the order of creation: [task, status, result]
    ingests,     \* the ingests under way: [owner, job, todo], the entries to store
    backlog,     \* backlog[b]: the jobs backfill b has still to look at
    thread,      \* the owner that holds the thread, or FreeThread
    stored,      \* stored[<<j, l>>]: how many memories hold entry l of job j's result
    fresh,       \* the <<j, l>> stored less than five minutes ago
    evals,       \* history: evaluations of each task that something outside caused
    failed,      \* history: the <<j, l>> whose store failed
    cut,         \* history: the jobs whose ingest a restart cut short
    restarts     \* restarts of the daemon so far

retroVars == <<signalled, retros, ingests, backlog, thread, stored, fresh, evals, failed,
               cut, restarts>>
ingestVars == <<ingests, backlog, thread, stored, fresh, failed>>

Jobs == 1 .. MaxRetros

\* The entries of a result are named by their positions.
Entries == UNION {DOMAIN r : r \in Results}

RetroInit ==
    /\ signalled = {} /\ retros = <<>> /\ ingests = {}
    /\ backlog = [b \in Backfills |-> {}] /\ thread = FreeThread
    /\ stored = [x \in Jobs \X Entries |-> 0] /\ fresh = {}
    /\ evals = [t \in RetroTasks |-> 0] /\ failed = {} /\ cut = {} /\ restarts = 0

(***************************************************************************)
(* Evaluation                                                              *)
(***************************************************************************)

\* The task's own switch wins over the signals.
ShouldTriggerRetro(t, signals) ==
    /\ GenerateRetro[t] # "off"
    /\ GenerateRetro[t] = "on" \/ t \in signals

\* The retro jobs after an evaluation of t that finds these signals; the spawn
\* may be refused, which is logged.
SpawnRetro(t, signals) ==
    {retros} \cup
    {Append(retros, [task |-> t, status |-> "running", result |-> <<>>]) :
        x \in {y \in {t} : ShouldTriggerRetro(y, signals) /\ Len(retros) < MaxRetros}}

\* The tasks that task_workers links a retro job to: it is linked to none, so
\* its own end is not evaluated.
LinkedTasks(j) == {}

\* A worker of t ends, a retry or a correction is recorded, or the monitors
\* close the task: signals say what is known of the task by then.
EvaluateTask(t) ==
    /\ thread = FreeThread /\ evals[t] < MaxEvents
    /\ evals' = [evals EXCEPT ![t] = @ + 1]
    /\ signalled' \in {signalled, signalled \cup {t}}
    /\ retros' \in SpawnRetro(t, signalled')
    /\ UNCHANGED <<ingestVars, cut, restarts>>

(***************************************************************************)
(* Ingestion                                                               *)
(***************************************************************************)

\* parseRetroLearnings: the valid entries of a result ...
Parsed(result) == {l \in DOMAIN result : result[l] \in Valid}

\* ... capped.
LearningsOf(result) ==
    {l \in Parsed(result) : Cardinality({k \in Parsed(result) : k <= l}) <= MaxLearnings}

Learnings(j) == LearningsOf(retros[j].result)

\* The retro worker ends.  The listeners run in the order they were
\* registered: the evaluation of the job's task, then the ingest, which holds
\* the thread until its first await.
RetroEnds(j, status, result) ==
    /\ thread = FreeThread /\ retros[j].status = "running"
    /\ LET ended == [retros EXCEPT ![j].status = status, ![j].result = result]
       IN retros' \in {ended} \cup
            {Append(ended, [task |-> t, status |-> "running", result |-> <<>>]) :
                t \in {u \in LinkedTasks(j) : ShouldTriggerRetro(u, signalled)
                                              /\ Len(retros) < MaxRetros}}
    /\ IF status = "completed" /\ LearningsOf(result) # {}
       THEN ingests' = ingests \cup {[owner |-> j, job |-> j, todo |-> LearningsOf(result)]}
            /\ thread' = j
       ELSE UNCHANGED <<ingests, thread>>
    /\ UNCHANGED <<signalled, backlog, stored, fresh, evals, failed, cut, restarts>>

HasThread(o) == thread \in {FreeThread, o}

\* The learning i is about to store.
Current(i) == Min(i.todo)

\* The first 50 characters of an entry.
PrefixOf(j, l) == Prefix[retros[j].result[l]]

\* storeMemoryInternal finds a memory of this job, not five minutes old, that
\* starts with the same 50 characters.
RecentlyStored(i) ==
    \E x \in fresh : x[1] = i.job /\ PrefixOf(i.job, x[2]) = PrefixOf(i.job, Current(i))

\* i has dealt with one learning; when it was the last one the ingest returns,
\* and a backfill turns to its next job.
Advance(i, awaits) ==
    LET rest == i.todo \ {Current(i)}
    IN /\ ingests' = (ingests \ {i}) \cup
                     (IF rest = {} THEN {} ELSE {[i EXCEPT !.todo = rest]})
       /\ thread' = IF awaits \/ (rest = {} /\ i.owner \notin Backfills) THEN FreeThread
                    ELSE i.owner

\* A store that fails is logged and the loop goes on.
StoreFails(i) ==
    /\ HasThread(i.owner) /\ ~RecentlyStored(i)
    /\ failed' = failed \cup {<<i.job, Current(i)>>}
    /\ Advance(i, FALSE)
    /\ UNCHANGED <<signalled, retros, backlog, stored, fresh, evals, cut, restarts>>

\* A learning like a recent one is passed over.
StoreSkips(i) ==
    /\ HasThread(i.owner) /\ RecentlyStored(i)
    /\ Advance(i, FALSE)
    /\ UNCHANGED <<signalled, retros, backlog, stored, fresh, evals, failed, cut, restarts>>

\* The memory is inserted; its embedding, if there is one, is awaited.
StoreInserts(i) ==
    /\ HasThread(i.owner) /\ ~RecentlyStored(i)
    /\ stored' = [stored EXCEPT ![<<i.job, Current(i)>>] = @ + 1]
    /\ fresh' = fresh \cup {<<i.job, Current(i)>>}
    /\ Advance(i, Vectors)
    /\ UNCHANGED <<signalled, retros, backlog, evals, failed, cut, restarts>>

(***************************************************************************)
(* Backfill                                                                *)
(***************************************************************************)

\* Mutant: only the five minute window keeps a learning from a second store.
AlreadyIngestedNever(j) == FALSE

\* Some memory has this job as its source.
AlreadyIngested(j) == \E l \in Entries : stored[<<j, l>>] > 0

\* POST /api/self-improvement/retro-backfill with dry_run false: the completed
\* jobs with a result are listed once, oldest first.
StartBackfill(b) ==
    LET jobs == {j \in DOMAIN retros : retros[j].status = "completed" /\ retros[j].result # <<>>}
    IN /\ thread = FreeThread /\ backlog[b] = {} /\ jobs # {}
       /\ \A i \in ingests : i.owner # b
       /\ backlog' = [backlog EXCEPT ![b] = jobs]
       /\ thread' = b
       /\ UNCHANGED <<signalled, retros, ingests, stored, fresh, evals, failed, cut, restarts>>

\* The next job of a backfill: passed over when it has produced a memory or
\* has no learnings, ingested otherwise.
BackfillNext(b) ==
    LET j == Min(backlog[b])
        skip == AlreadyIngested(j) \/ Learnings(j) = {}
    IN /\ HasThread(b) /\ backlog[b] # {} /\ \A i \in ingests : i.owner # b
       /\ backlog' = [backlog EXCEPT ![b] = @ \ {j}]
       /\ ingests' = ingests \cup
                     (IF skip THEN {} ELSE {[owner |-> b, job |-> j, todo |-> Learnings(j)]})
       /\ thread' = IF skip /\ backlog[b] = {j} THEN FreeThread ELSE b
       /\ UNCHANGED <<signalled, retros, stored, fresh, evals, failed, cut, restarts>>

\* The last ingest of a backfill has returned: the answer is sent.
BackfillAnswers(b) ==
    /\ thread = b /\ backlog[b] = {} /\ \A i \in ingests : i.owner # b
    /\ thread' = FreeThread
    /\ UNCHANGED <<signalled, retros, ingests, backlog, stored, fresh, evals, failed, cut, restarts>>

(***************************************************************************)
(* The environment                                                         *)
(***************************************************************************)

\* A memory is five minutes old.
DedupWindowEnds(x) ==
    /\ fresh' = fresh \ {x}
    /\ UNCHANGED <<signalled, retros, ingests, backlog, thread, stored, evals, failed, cut,
                   restarts>>

\* The daemon restarts: ingests and backfills are gone and running jobs are
\* marked failed by the recovery at start-up.
RetroRestart ==
    /\ restarts < MaxRetroRestarts
    /\ restarts' = restarts + 1
    /\ cut' = cut \cup {i.job : i \in ingests}
    /\ retros' = [j \in DOMAIN retros |->
                    IF retros[j].status = "running" THEN [retros[j] EXCEPT !.status = "failed"]
                    ELSE retros[j]]
    /\ ingests' = {} /\ backlog' = [b \in Backfills |-> {}] /\ thread' = FreeThread
    /\ UNCHANGED <<signalled, stored, fresh, evals, failed>>

RetroNext ==
    \/ \E t \in RetroTasks : EvaluateTask(t)
    \/ \E j \in DOMAIN retros : \/ \E r \in Results : RetroEnds(j, "completed", r)
                                \/ RetroEnds(j, "failed", <<>>)
    \/ \E i \in ingests : StoreFails(i) \/ StoreSkips(i) \/ StoreInserts(i)
    \/ \E b \in Backfills : StartBackfill(b) \/ BackfillNext(b) \/ BackfillAnswers(b)
    \/ \E x \in fresh : DedupWindowEnds(x)
    \/ RetroRestart

-----------------------------------------------------------------------------
(* Properties *)

\* Retros do not breed: a task has at most as many retro jobs as evaluations
\* something outside the loop caused, so the end of a retro never starts one.
RetroIsCaused ==
    \A t \in RetroTasks :
        Cardinality({j \in DOMAIN retros : retros[j].task = t}) <= evals[t]

\* No learning of a retro job becomes two memories, whichever listener,
\* backfills and restarts looked at the job and however long after.
LearnedOnce == \A x \in Jobs \X Entries : stored[x] <= 1

\* Once nobody works on a completed retro any more, each of its learnings is
\* a memory, unless its own store failed, a sibling that starts alike was
\* stored, or a restart cut the ingest short: a sibling that fails or is
\* passed over never takes it along.
LearningsSurvive ==
    \A j \in DOMAIN retros : (\A i \in ingests : i.job # j) =>
        \A l \in Learnings(j) :
            \/ <<j, l>> \in failed \/ j \in cut
            \/ \E k \in Learnings(j) : PrefixOf(j, k) = PrefixOf(j, l) /\ stored[<<j, k>>] > 0

\* The loop does not feed itself and stores each learning, once.
RetroLearns == RetroIsCaused /\ LearnedOnce /\ LearningsSurvive
=============================================================================
