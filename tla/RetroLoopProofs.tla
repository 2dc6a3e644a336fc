--------------------------- MODULE RetroLoopProofs ---------------------------
(***************************************************************************)
(* Proofs about RetroLoop: the loop does not feed itself, and each         *)
(* learning of a completed retro is stored, once, for any number of tasks, *)
(* retros, backfills, results and restarts.                                *)
(***************************************************************************)
EXTENDS RetroLoop, FiniteSetTheorems, SequenceTheorems, WellFoundedInduction, TLAPS

RetroSpec == RetroInit /\ [][RetroNext]_retroVars

-----------------------------------------------------------------------------
(* The invariant                                                           *)

Retro == [task : RetroTasks, status : {"running", "completed", "failed"},
          result : Results \cup {<<>>}]

RetroTypeOK ==
    /\ retros \in Seq(Retro) /\ Len(retros) <= MaxRetros
    /\ stored \in [Jobs \X Entries -> Nat] /\ evals \in [RetroTasks -> Nat]
    /\ backlog \in [Backfills -> SUBSET Jobs] /\ fresh \subseteq Jobs \X Entries
    /\ ingests \subseteq [owner : Jobs \cup Backfills, job : Jobs, todo : SUBSET Nat]

Completed(j) == j \in DOMAIN retros /\ retros[j].status = "completed"

\* Entry l was stored, failed or was passed over for one that starts alike.
Settled(j, l) ==
    \/ <<j, l>> \in failed
    \/ \E k \in Learnings(j) : PrefixOf(j, k) = PrefixOf(j, l) /\ stored[<<j, k>>] > 0

\* An ingest works on a completed job; what it has to do is not stored, what
\* it has done is settled, and it gives up the thread only after a store.
IngestOK(i) ==
    /\ Completed(i.job) /\ (i.owner \in Backfills \/ i.owner = i.job)
    /\ i.todo \subseteq Learnings(i.job) /\ i.todo # {}
    /\ \A l \in i.todo : stored[<<i.job, l>>] = 0
    /\ \A l \in Learnings(i.job) \ i.todo : Settled(i.job, l)
    /\ i.owner = thread \/ AlreadyIngested(i.job)

\* Nobody runs two ingests, and no job is ingested twice at a time.
OneIngest == \A h, i \in ingests : h.owner = i.owner \/ h.job = i.job => h = i

\* Memories come from learnings of completed jobs.
StoredWasLearned ==
    \A j \in Jobs, l \in Entries : stored[<<j, l>>] > 0 => Completed(j) /\ l \in Learnings(j)

RetroInv ==
    /\ RetroTypeOK /\ RetroIsCaused /\ LearnedOnce /\ LearningsSurvive
    /\ StoredWasLearned /\ OneIngest
    /\ \A x \in fresh : stored[x] > 0
    /\ \A i \in ingests : IngestOK(i)
    /\ \A b \in Backfills : \A j \in backlog[b] : Completed(j)

-----------------------------------------------------------------------------
(* Helpers                                                                 *)

\* A set of positions has a first one, which is the entry an ingest stores
\* next.
LEMMA MinIn ==
    ASSUME NEW S \in SUBSET Nat, S # {}
    PROVE  Min(S) \in S
<1> DEFINE R == OpToRel(<, Nat)
<1>1. \A x, y \in Nat : x < y => <<x, y>> \in R
  BY DEF OpToRel
<1>2. IsWellFoundedOn(R, Nat)
  BY NatLessThanWellFounded
<1> HIDE DEF R
<1>3. PICK x \in S : \A y \in S : ~(<<y, x>> \in R)
  BY <1>2, WFMin
<1>4. ASSUME NEW y \in S
      PROVE  x <= y
  <2>1. x \in Nat /\ y \in Nat
    OBVIOUS
  <2>2. ~(y < x)
    BY <1>1, <1>3, <2>1
  <2> QED
    BY <2>1, <2>2
<1> QED
  BY <1>4 DEF Min

\* Entries are named by positions.
LEMMA EntriesAreNats == Entries \subseteq Nat
BY RetroSettings DEF Entries

\* The learnings are entries of the result.
LEMMA LearningsAreEntries ==
    ASSUME NEW r \in Results \cup {<<>>}
    PROVE  LearningsOf(r) \subseteq Entries /\ LearningsOf(<<>>) = {}
<1>1. LearningsOf(r) \subseteq DOMAIN r /\ LearningsOf(<<>>) \subseteq DOMAIN <<>>
  BY DEF LearningsOf, Parsed
<1>2. DOMAIN <<>> = {}
  OBVIOUS
<1>3. r \in Results => DOMAIN r \subseteq Entries
  BY DEF Entries
<1> QED
  BY <1>1, <1>2, <1>3

\* The learnings of a job are entries, and a running or failed job has none
\* that was stored.
LEMMA JobFacts ==
    ASSUME RetroTypeOK, NEW j \in DOMAIN retros
    PROVE  /\ j \in Jobs /\ retros[j] \in Retro
           /\ Learnings(j) \subseteq Entries /\ Learnings(j) \subseteq Nat
           /\ retros[j].result = <<>> => Learnings(j) = {}
<1>1. j \in Jobs
  BY RetroSettings DEF RetroTypeOK, Jobs
<1>2. retros[j] \in Retro
  BY DEF RetroTypeOK
<1>3. retros[j].result \in Results \cup {<<>>}
  BY <1>2 DEF Retro
<1> QED
  BY <1>1, <1>2, <1>3, LearningsAreEntries, EntriesAreNats DEF Learnings

\* An ingest under way belongs to a completed job and has an entry left to
\* store.
LEMMA IngestFacts ==
    ASSUME RetroInv, NEW i \in ingests
    PROVE  /\ i \in [owner : Jobs \cup Backfills, job : Jobs, todo : SUBSET Nat]
           /\ IngestOK(i) /\ i.job \in DOMAIN retros /\ i.owner # FreeThread
           /\ Current(i) \in i.todo /\ Current(i) \in Entries
<1>1. i \in [owner : Jobs \cup Backfills, job : Jobs, todo : SUBSET Nat] /\ IngestOK(i)
  BY DEF RetroInv, RetroTypeOK
<1>2. i.owner # FreeThread
  BY <1>1, RetroSettings DEF Jobs
<1>3. i.job \in DOMAIN retros /\ i.todo \subseteq Learnings(i.job) /\ i.todo # {}
  BY <1>1 DEF IngestOK, Completed
<1>4. Current(i) \in i.todo
  BY <1>1, <1>3, MinIn DEF Current
<1> QED
  BY <1>1, <1>2, <1>3, <1>4, JobFacts DEF RetroInv

\* Who does not hold the thread has stored something.
LEMMA OthersIngested ==
    ASSUME RetroInv, NEW i \in ingests, i.owner # thread
    PROVE  AlreadyIngested(i.job)
BY IngestFacts DEF IngestOK

\* What is settled stays settled.
LEMMA SettledStays ==
    ASSUME RetroTypeOK, NEW j \in DOMAIN retros, retros'[j].result = retros[j].result,
           failed \subseteq failed',
           \A l \in Entries : stored[<<j, l>>] > 0 => stored'[<<j, l>>] > 0
    PROVE  /\ Learnings(j)' = Learnings(j) /\ \A l : PrefixOf(j, l)' = PrefixOf(j, l)
           /\ \A l : Settled(j, l) => Settled(j, l)'
           /\ AlreadyIngested(j) => AlreadyIngested(j)'
<1>1. Learnings(j)' = Learnings(j) /\ \A l : PrefixOf(j, l)' = PrefixOf(j, l)
  BY DEF Learnings, PrefixOf
<1>2. Learnings(j) \subseteq Entries
  BY JobFacts
<1>3. ASSUME NEW l, Settled(j, l)
      PROVE  Settled(j, l)'
  <2>1. CASE <<j, l>> \in failed
    BY <2>1 DEF Settled
  <2>2. CASE \E k \in Learnings(j) : PrefixOf(j, k) = PrefixOf(j, l) /\ stored[<<j, k>>] > 0
    <3>1. PICK k \in Learnings(j) : PrefixOf(j, k) = PrefixOf(j, l) /\ stored[<<j, k>>] > 0
      BY <2>2
    <3>2. k \in Learnings(j)' /\ PrefixOf(j, k)' = PrefixOf(j, l)' /\ stored'[<<j, k>>] > 0
      BY <1>1, <1>2, <3>1
    <3> QED
      BY <3>2 DEF Settled
  <2> QED
    BY <1>3, <2>1, <2>2 DEF Settled
<1>4. AlreadyIngested(j) => AlreadyIngested(j)'
  BY DEF AlreadyIngested
<1> QED
  BY <1>1, <1>3, <1>4

-----------------------------------------------------------------------------
(* Steps that leave the ingests alone                                      *)

\* An ingest that does not hold the thread does not notice them.
LEMMA IngestStays ==
    ASSUME RetroInv, NEW i \in ingests, Completed(i.job)', retros'[i.job] = retros[i.job],
           failed \subseteq failed', \A l \in Entries : stored'[<<i.job, l>>] = stored[<<i.job, l>>],
           i.owner = thread' \/ AlreadyIngested(i.job)
    PROVE  IngestOK(i)'
<1>1. i.job \in DOMAIN retros /\ IngestOK(i)
  BY IngestFacts
<1>2. /\ Learnings(i.job)' = Learnings(i.job)
      /\ \A l : Settled(i.job, l) => Settled(i.job, l)'
      /\ AlreadyIngested(i.job) => AlreadyIngested(i.job)'
  <2>1. retros'[i.job].result = retros[i.job].result
    OBVIOUS
  <2>2. \A l \in Entries : stored[<<i.job, l>>] > 0 => stored'[<<i.job, l>>] > 0
    OBVIOUS
  <2> QED
    BY <1>1, <2>1, <2>2, SettledStays DEF RetroInv
<1>3. i.todo \subseteq Entries
  BY <1>1, JobFacts DEF IngestOK, RetroInv
<1>4. \A l \in i.todo : stored'[<<i.job, l>>] = 0
  BY <1>1, <1>3 DEF IngestOK
<1>5. \A l \in Learnings(i.job)' \ i.todo : Settled(i.job, l)'
  BY <1>1, <1>2 DEF IngestOK
<1> QED
  BY <1>1, <1>2, <1>4, <1>5 DEF IngestOK

\* Steps that change only the thread, the backlogs or the window.
LEMMA QuietStep ==
    ASSUME RetroInv, UNCHANGED <<retros, ingests, stored, evals, failed, cut>>,
           fresh' \subseteq fresh, backlog' \in [Backfills -> SUBSET Jobs],
           \A b \in Backfills : \A j \in backlog'[b] : Completed(j),
           \A i \in ingests : i.owner = thread' \/ AlreadyIngested(i.job)
    PROVE  RetroInv'
<1>1. RetroTypeOK'
  BY DEF RetroInv, RetroTypeOK
<1>2. RetroIsCaused' /\ LearnedOnce'
  BY DEF RetroInv, RetroIsCaused, LearnedOnce
<1>3. LearningsSurvive'
  BY DEF RetroInv, LearningsSurvive, Learnings, PrefixOf
<1>4. StoredWasLearned' /\ OneIngest'
  BY DEF RetroInv, StoredWasLearned, OneIngest, Completed, Learnings
<1>5. \A x \in fresh' : stored'[x] > 0
  BY DEF RetroInv
<1>6. ASSUME NEW i \in ingests
      PROVE  IngestOK(i)'
  <2>1. Completed(i.job)'
    BY IngestFacts DEF IngestOK, Completed
  <2> QED
    BY <2>1, IngestStays
<1>7. \A b \in Backfills : \A j \in backlog'[b] : Completed(j)'
  BY DEF Completed
<1> QED
  BY <1>1, <1>2, <1>3, <1>4, <1>5, <1>6, <1>7 DEF RetroInv

\* Steps of other components change nothing here.
LEMMA StutterStep ==
    ASSUME RetroInv, UNCHANGED retroVars
    PROVE  RetroInv'
<1>1. UNCHANGED <<retros, ingests, stored, evals, failed, cut, fresh, backlog, thread>>
  BY DEF retroVars
<1>2. /\ fresh' \subseteq fresh /\ backlog' \in [Backfills -> SUBSET Jobs]
      /\ \A b \in Backfills : \A j \in backlog'[b] : Completed(j)
  BY <1>1 DEF RetroInv, RetroTypeOK
<1>3. \A i \in ingests : i.owner = thread' \/ AlreadyIngested(i.job)
  BY <1>1, OthersIngested
<1> QED
  BY <1>1, <1>2, <1>3, QuietStep

\* A backfill lists the completed jobs.
LEMMA StartStep ==
    ASSUME RetroInv, NEW b \in Backfills, StartBackfill(b)
    PROVE  RetroInv'
<1> DEFINE jobs == {j \in DOMAIN retros : retros[j].status = "completed" /\ retros[j].result # <<>>}
<1>1. /\ UNCHANGED <<retros, ingests, stored, evals, failed, cut, fresh>>
      /\ thread = FreeThread /\ backlog' = [backlog EXCEPT ![b] = jobs]
  BY DEF StartBackfill
<1>2. jobs \subseteq Jobs /\ \A j \in jobs : Completed(j)
  BY JobFacts DEF RetroInv, Completed
<1> HIDE DEF jobs
<1>3. /\ backlog' \in [Backfills -> SUBSET Jobs]
      /\ \A d \in Backfills : \A j \in backlog'[d] : Completed(j)
  BY <1>1, <1>2 DEF RetroInv, RetroTypeOK
<1>4. \A i \in ingests : AlreadyIngested(i.job)
  BY <1>1, IngestFacts, OthersIngested
<1> QED
  BY <1>1, <1>3, <1>4, QuietStep

\* A backfill with an empty list answers.
LEMMA AnswerStep ==
    ASSUME RetroInv, NEW b \in Backfills, BackfillAnswers(b)
    PROVE  RetroInv'
<1>1. /\ UNCHANGED <<retros, ingests, stored, evals, failed, cut, fresh, backlog>>
      /\ thread = b /\ \A i \in ingests : i.owner # b
  BY DEF BackfillAnswers
<1>2. /\ fresh' \subseteq fresh /\ backlog' \in [Backfills -> SUBSET Jobs]
      /\ \A d \in Backfills : \A j \in backlog'[d] : Completed(j)
  BY <1>1 DEF RetroInv, RetroTypeOK
<1>3. \A i \in ingests : AlreadyIngested(i.job)
  BY <1>1, OthersIngested
<1> QED
  BY <1>1, <1>2, <1>3, QuietStep

\* A memory gets older than the deduplication window: nothing is stored by
\* that.
LEMMA WindowStep ==
    ASSUME RetroInv, NEW x \in fresh, DedupWindowEnds(x)
    PROVE  RetroInv'
<1>1. /\ UNCHANGED <<retros, ingests, stored, evals, failed, cut, backlog, thread>>
      /\ fresh' \subseteq fresh
  BY DEF DedupWindowEnds
<1>2. /\ backlog' \in [Backfills -> SUBSET Jobs]
      /\ \A b \in Backfills : \A j \in backlog'[b] : Completed(j)
  BY <1>1 DEF RetroInv, RetroTypeOK
<1>3. \A i \in ingests : i.owner = thread' \/ AlreadyIngested(i.job)
  BY <1>1, OthersIngested
<1> QED
  BY <1>1, <1>2, <1>3, QuietStep

-----------------------------------------------------------------------------
(* An ingest stores, fails to store or passes over its current learning    *)

\* An ingest that has dealt with its current entry, in whatever way, goes
\* on with the rest or returns; every entry behind it is stored, failed or
\* passed over.
LEMMA AdvanceStep ==
    ASSUME RetroInv, NEW i \in ingests, HasThread(i.owner), NEW awaits \in BOOLEAN,
           Advance(i, awaits), UNCHANGED <<retros, backlog, evals, cut>>,
           failed \subseteq failed', stored' \in [Jobs \X Entries -> Nat],
           \A x \in Jobs \X Entries : x # <<i.job, Current(i)>> => stored'[x] = stored[x],
           stored'[<<i.job, Current(i)>>] \in {stored[<<i.job, Current(i)>>], 1},
           fresh' \subseteq Jobs \X Entries, \A x \in fresh' : stored'[x] > 0,
           Settled(i.job, Current(i))', awaits => AlreadyIngested(i.job)'
    PROVE  RetroInv'
<1> DEFINE c == Current(i)
           rest == i.todo \ {c}
           more == [i EXCEPT !.todo = rest]
<1>1. /\ i \in [owner : Jobs \cup Backfills, job : Jobs, todo : SUBSET Nat]
      /\ IngestOK(i) /\ i.job \in DOMAIN retros /\ i.owner # FreeThread
      /\ c \in i.todo /\ c \in Entries
  BY IngestFacts
<1>2. /\ more.owner = i.owner /\ more.job = i.job /\ more.todo = rest
      /\ more \in [owner : Jobs \cup Backfills, job : Jobs, todo : SUBSET Nat]
  BY <1>1
<1>3. /\ ingests' = (ingests \ {i}) \cup (IF rest = {} THEN {} ELSE {more})
      /\ thread' = IF awaits \/ (rest = {} /\ i.owner \notin Backfills) THEN FreeThread ELSE i.owner
  BY DEF Advance
<1>4. stored[<<i.job, c>>] = 0 /\ c \in Learnings(i.job)
  BY <1>1 DEF IngestOK
<1>5. \A x \in Jobs \X Entries : stored[x] \in Nat /\ stored'[x] \in Nat
  BY DEF RetroInv, RetroTypeOK
<1>6. \A x \in Jobs \X Entries : stored[x] > 0 => stored'[x] > 0
  <2> TAKE x \in Jobs \X Entries
  <2>1. CASE x = <<i.job, c>>
    BY <1>4, <2>1
  <2>2. CASE x # <<i.job, c>>
    BY <2>2
  <2> QED
    BY <2>1, <2>2
<1> HIDE DEF c, rest, more
<1>7. ASSUME NEW j \in DOMAIN retros
      PROVE  /\ Learnings(j)' = Learnings(j) /\ \A l : PrefixOf(j, l)' = PrefixOf(j, l)
             /\ \A l : Settled(j, l) => Settled(j, l)'
             /\ AlreadyIngested(j) => AlreadyIngested(j)'
  <2>1. j \in Jobs
    BY JobFacts DEF RetroInv
  <2>2. \A l \in Entries : stored[<<j, l>>] > 0 => stored'[<<j, l>>] > 0
    BY <1>6, <2>1
  <2> QED
    BY <2>2, SettledStays DEF RetroInv
<1>8. RetroTypeOK'
  BY <1>2, <1>3 DEF RetroInv, RetroTypeOK
<1>9. RetroIsCaused'
  BY DEF RetroInv, RetroIsCaused
<1>10. LearnedOnce'
  <2> SUFFICES ASSUME NEW x \in Jobs \X Entries PROVE stored'[x] <= 1
    BY DEF LearnedOnce
  <2>1. CASE x = <<i.job, c>>
    BY <1>4, <2>1 DEF c
  <2>2. CASE x # <<i.job, c>>
    BY <2>2 DEF c, RetroInv, LearnedOnce
  <2> QED
    BY <2>1, <2>2
<1>11. StoredWasLearned'
  <2> SUFFICES ASSUME NEW j \in Jobs, NEW l \in Entries, stored'[<<j, l>>] > 0
               PROVE  Completed(j)' /\ l \in Learnings(j)'
    BY DEF StoredWasLearned
  <2>1. Completed(j) /\ l \in Learnings(j)
    <3>1. CASE <<j, l>> = <<i.job, c>>
      BY <1>1, <1>4, <3>1 DEF IngestOK
    <3>2. CASE <<j, l>> # <<i.job, c>>
      <4>1. stored[<<j, l>>] > 0
        BY <3>2 DEF c
      <4> QED
        BY <4>1 DEF RetroInv, StoredWasLearned
    <3> QED
      BY <3>1, <3>2
  <2> QED
    BY <1>7, <2>1 DEF Completed
<1>12. OneIngest'
  BY <1>2, <1>3 DEF RetroInv, OneIngest
<1>13. ASSUME NEW h \in ingests, h # i
       PROVE  IngestOK(h)'
  <2>1. h.owner # i.owner /\ h.job # i.job
    BY <1>13 DEF RetroInv, OneIngest
  <2>2. h.owner # thread
    BY <2>1, IngestFacts DEF HasThread
  <2>3. AlreadyIngested(h.job)
    BY <2>2, OthersIngested
  <2>4. h.job \in Jobs /\ Completed(h.job)'
    BY IngestFacts DEF IngestOK, Completed
  <2>5. \A l \in Entries : stored'[<<h.job, l>>] = stored[<<h.job, l>>]
    BY <2>1, <2>4
  <2> QED
    BY <2>3, <2>4, <2>5, IngestStays
<1>14. ASSUME rest # {}
       PROVE  IngestOK(more)'
  <2>1. /\ Completed(i.job)' /\ (i.owner \in Backfills \/ i.owner = i.job)
        /\ rest \subseteq Learnings(i.job)'
    BY <1>1, <1>7 DEF IngestOK, Completed, rest
  <2>2. ASSUME NEW l \in rest
        PROVE  stored'[<<i.job, l>>] = 0
    <3>1. l \in i.todo /\ l # c /\ l \in Entries
      BY <1>1, JobFacts DEF rest, IngestOK, RetroInv
    <3>2. <<i.job, l>> \in Jobs \X Entries /\ <<i.job, l>> # <<i.job, c>>
      BY <1>1, <3>1
    <3> QED
      BY <1>1, <3>1, <3>2 DEF IngestOK, c
  <2>3. \A l \in Learnings(i.job)' \ rest : Settled(i.job, l)'
    <3> SUFFICES ASSUME NEW l \in Learnings(i.job) \ rest PROVE Settled(i.job, l)'
      BY <1>1, <1>7
    <3>1. l = c \/ l \in Learnings(i.job) \ i.todo
      BY DEF rest
    <3>2. CASE l = c
      BY <3>2 DEF c
    <3>3. CASE l \in Learnings(i.job) \ i.todo
      BY <1>1, <1>7, <3>3 DEF IngestOK
    <3> QED
      BY <3>1, <3>2, <3>3
  <2>4. i.owner = thread' \/ AlreadyIngested(i.job)'
    BY <1>3, <1>14
  <2> QED
    BY <1>2, <1>14, <2>1, <2>2, <2>3, <2>4 DEF IngestOK
<1>15. LearningsSurvive'
  <2> SUFFICES ASSUME NEW j \in DOMAIN retros, \A h \in ingests' : h.job # j,
                      NEW l \in Learnings(j)
               PROVE  j \in cut \/ Settled(j, l)'
    <3>1. ASSUME NEW j \in DOMAIN retros', \A h \in ingests' : h.job # j, NEW l \in Learnings(j)',
                 j \in cut' \/ Settled(j, l)'
          PROVE  \/ <<j, l>> \in failed' \/ j \in cut'
                 \/ \E k \in Learnings(j)' : PrefixOf(j, k)' = PrefixOf(j, l)'
                                              /\ stored'[<<j, k>>] > 0
      BY <3>1 DEF Settled
    <3>2. \A j \in DOMAIN retros' : j \in DOMAIN retros /\ Learnings(j)' = Learnings(j)
      BY <1>7
    <3> QED
      BY <3>1, <3>2 DEF LearningsSurvive
  <2>1. CASE j = i.job
    <3>1. rest = {}
      BY <1>2, <1>3, <2>1
    <3>2. l = c \/ l \in Learnings(j) \ i.todo
      BY <2>1, <3>1 DEF rest
    <3>3. CASE l = c
      BY <2>1, <3>3 DEF c
    <3>4. CASE l \in Learnings(j) \ i.todo
      BY <1>1, <1>7, <2>1, <3>4 DEF IngestOK
    <3> QED
      BY <3>2, <3>3, <3>4
  <2>2. CASE j # i.job
    <3>1. \A h \in ingests : h.job # j
      BY <1>3, <2>2
    <3>2. j \in cut \/ Settled(j, l)
      BY <3>1 DEF RetroInv, LearningsSurvive, Settled
    <3> QED
      BY <1>7, <3>2
  <2> QED
    BY <2>1, <2>2
<1>16. \A b \in Backfills : \A j \in backlog'[b] : Completed(j)'
  BY DEF RetroInv, Completed
<1>17. \A h \in ingests' : IngestOK(h)'
  BY <1>3, <1>13, <1>14
<1> QED
  BY <1>8, <1>9, <1>10, <1>11, <1>12, <1>15, <1>16, <1>17 DEF RetroInv

\* A store that fails, is passed over for a recent one or inserts the
\* memory.
LEMMA StoreStep ==
    ASSUME RetroInv, NEW i \in ingests, StoreFails(i) \/ StoreSkips(i) \/ StoreInserts(i)
    PROVE  RetroInv'
<1> DEFINE c == Current(i)
           x == <<i.job, c>>
<1>1. /\ i \in [owner : Jobs \cup Backfills, job : Jobs, todo : SUBSET Nat]
      /\ IngestOK(i) /\ i.job \in DOMAIN retros /\ c \in i.todo /\ c \in Entries
  BY IngestFacts
<1>2. x \in Jobs \X Entries /\ stored[x] = 0 /\ c \in Learnings(i.job)
  BY <1>1 DEF IngestOK
<1>3. /\ stored \in [Jobs \X Entries -> Nat] /\ fresh \subseteq Jobs \X Entries
      /\ \A y \in fresh : stored[y] > 0
  BY DEF RetroInv, RetroTypeOK
<1>4. CASE StoreFails(i)
  <2>1. /\ HasThread(i.owner) /\ Advance(i, FALSE) /\ failed' = failed \cup {x}
        /\ UNCHANGED <<retros, backlog, stored, fresh, evals, cut>>
    BY <1>4 DEF StoreFails
  <2>2. Settled(i.job, c)'
    BY <2>1 DEF Settled
  <2> HIDE DEF c
  <2>3. failed \subseteq failed'
    BY <2>1
  <2> QED
    BY <1>3, <2>1, <2>2, <2>3, AdvanceStep DEF c
<1>5. CASE StoreSkips(i)
  <2>1. /\ HasThread(i.owner) /\ Advance(i, FALSE) /\ RecentlyStored(i)
        /\ UNCHANGED <<retros, backlog, stored, fresh, evals, cut, failed>>
    BY <1>5 DEF StoreSkips
  <2>2. PICK y \in fresh : y[1] = i.job /\ PrefixOf(i.job, y[2]) = PrefixOf(i.job, c)
    BY <2>1 DEF RecentlyStored
  <2>3. y = <<i.job, y[2]>> /\ y[2] \in Entries /\ stored[<<i.job, y[2]>>] > 0
    BY <1>1, <1>3, <2>2
  <2>4. y[2] \in Learnings(i.job)
    BY <1>1, <2>3 DEF RetroInv, StoredWasLearned
  <2>5. Settled(i.job, c)
    BY <2>2, <2>3, <2>4 DEF Settled
  <2> HIDE DEF c
  <2>6. Settled(i.job, c)'
    BY <1>1, <2>1, <2>5, SettledStays DEF RetroInv
  <2> QED
    BY <1>3, <2>1, <2>6, AdvanceStep DEF c
<1>6. CASE StoreInserts(i)
  <2>1. /\ HasThread(i.owner) /\ Advance(i, Vectors) /\ Vectors \in BOOLEAN
        /\ stored' = [stored EXCEPT ![x] = @ + 1] /\ fresh' = fresh \cup {x}
        /\ UNCHANGED <<retros, backlog, evals, cut, failed>>
    BY <1>6, RetroSettings DEF StoreInserts
  <2> HIDE DEF x
  <2>2. /\ stored'[x] = 1 /\ stored' \in [Jobs \X Entries -> Nat]
        /\ \A y \in Jobs \X Entries : y # x => stored'[y] = stored[y]
    BY <1>2, <1>3, <2>1
  <2>3. fresh' \subseteq Jobs \X Entries /\ \A y \in fresh' : stored'[y] > 0
    <3> SUFFICES ASSUME NEW y \in fresh' PROVE y \in Jobs \X Entries /\ stored'[y] > 0
      OBVIOUS
    <3>1. CASE y = x
      BY <1>2, <2>2, <3>1
    <3>2. CASE y \in fresh /\ y # x
      BY <1>3, <2>2, <3>2
    <3> QED
      BY <2>1, <3>1, <3>2
  <2>4. Learnings(i.job)' = Learnings(i.job)
    BY <2>1 DEF Learnings
  <2>5. Settled(i.job, c)'
    BY <1>2, <2>2, <2>4 DEF Settled, x
  <2>6. AlreadyIngested(i.job)'
    BY <1>1, <2>2 DEF AlreadyIngested, x
  <2> HIDE DEF c
  <2> QED
    BY <2>1, <2>2, <2>3, <2>5, <2>6, AdvanceStep DEF c, x
<1> QED
  BY <1>4, <1>5, <1>6

-----------------------------------------------------------------------------
(* A backfill turns to its next job                                        *)

\* A backfill passes over a job that left a memory, or begins its ingest.
LEMMA BackfillStep ==
    ASSUME RetroInv, NEW b \in Backfills, BackfillNext(b)
    PROVE  RetroInv'
<1>0. PICK j : j = Min(backlog[b])
  OBVIOUS
<1>. PICK todo : todo = Learnings(j)
  OBVIOUS
<1> DEFINE skip == AlreadyIngested(j) \/ todo = {}
           new == [owner |-> b, job |-> j, todo |-> todo]
<1>1. /\ HasThread(b) /\ backlog[b] # {} /\ \A i \in ingests : i.owner # b
      /\ backlog' = [backlog EXCEPT ![b] = @ \ {j}]
      /\ ingests' = ingests \cup (IF skip THEN {} ELSE {new})
      /\ thread' = IF skip /\ backlog[b] = {j} THEN FreeThread ELSE b
      /\ UNCHANGED <<retros, stored, fresh, evals, failed, cut>>
  BY <1>0 DEF BackfillNext
<1>2. j \in backlog[b]
  <2>1. backlog[b] \in SUBSET Nat
    BY DEF RetroInv, RetroTypeOK, Jobs
  <2> QED
    BY <1>0, <1>1, <2>1, MinIn
<1>3. Completed(j) /\ j \in DOMAIN retros /\ j \in Jobs
  BY <1>2, JobFacts DEF RetroInv, Completed
<1>4. \A i \in ingests : AlreadyIngested(i.job)
  BY <1>1, IngestFacts, OthersIngested DEF HasThread
<1>5. Learnings(j) \subseteq Entries /\ Learnings(j) \subseteq Nat
  BY <1>3, JobFacts DEF RetroInv
<1>6. /\ backlog' \in [Backfills -> SUBSET Jobs]
      /\ \A d \in Backfills : \A k \in backlog'[d] : Completed(k)
  BY <1>1 DEF RetroInv, RetroTypeOK
<1>7. CASE skip
  <2>1. ingests' = ingests /\ fresh' \subseteq fresh
    BY <1>1, <1>7
  <2> QED
    BY <1>1, <1>4, <1>6, <2>1, QuietStep
<1>8. CASE ~skip
  <2>1. ingests' = ingests \cup {new} /\ thread' = b
    BY <1>1, <1>8
  <2>2. /\ new \in [owner : Jobs \cup Backfills, job : Jobs, todo : SUBSET Nat]
        /\ new.owner = b /\ new.job = j /\ new.todo = Learnings(j)
    BY <1>3, <1>5
  <2>3. \A i \in ingests : i.job # j /\ i.owner # b
    BY <1>1, <1>4, <1>8
  <2>4. \A l \in Learnings(j) : stored[<<j, l>>] = 0
    <3> TAKE l \in Learnings(j)
    <3>1. ~(stored[<<j, l>>] > 0)
      BY <1>5, <1>8 DEF AlreadyIngested
    <3>2. stored[<<j, l>>] \in Nat
      BY <1>3, <1>5 DEF RetroInv, RetroTypeOK
    <3> QED
      BY <3>1, <3>2
  <2>5. Learnings(j)' = Learnings(j) /\ Learnings(j) # {}
    BY <1>1, <1>8 DEF Learnings
  <2> HIDE DEF skip, new
  <2>6. RetroTypeOK'
    BY <1>1, <1>6, <2>1, <2>2 DEF RetroInv, RetroTypeOK
  <2>7. RetroIsCaused' /\ LearnedOnce'
    BY <1>1 DEF RetroInv, RetroIsCaused, LearnedOnce
  <2>8. StoredWasLearned'
    BY <1>1 DEF RetroInv, StoredWasLearned, Completed, Learnings
  <2>9. OneIngest'
    BY <2>1, <2>2, <2>3 DEF RetroInv, OneIngest
  <2>10. ASSUME NEW i \in ingests
         PROVE  IngestOK(i)'
    <3>1. Completed(i.job)'
      BY <1>1, IngestFacts DEF IngestOK, Completed
    <3> QED
      BY <1>1, <1>4, <3>1, IngestStays
  <2>11. IngestOK(new)'
    <3>1. Completed(j)'
      BY <1>1, <1>3 DEF Completed
    <3> QED
      BY <1>1, <2>1, <2>2, <2>4, <2>5, <3>1 DEF IngestOK
  <2>12. LearningsSurvive'
    <3>1. \A k : (\A i \in ingests' : i.job # k) => \A i \in ingests : i.job # k
      BY <2>1
    <3>2. \A k : Learnings(k)' = Learnings(k) /\ \A l : PrefixOf(k, l)' = PrefixOf(k, l)
      BY <1>1 DEF Learnings, PrefixOf
    <3> QED
      BY <1>1, <3>1, <3>2 DEF RetroInv, LearningsSurvive
  <2>13. /\ \A x \in fresh' : stored'[x] > 0
         /\ \A d \in Backfills : \A k \in backlog'[d] : Completed(k)'
    BY <1>1, <1>6 DEF RetroInv, Completed
  <2>14. \A i \in ingests' : IngestOK(i)'
    BY <2>1, <2>10, <2>11
  <2> QED
    BY <2>6, <2>7, <2>8, <2>9, <2>12, <2>13, <2>14 DEF RetroInv
<1> QED
  BY <1>7, <1>8

-----------------------------------------------------------------------------
(* Steps that change the retro jobs                                        *)

\* Jobs may be added, without learnings, and completed ones stay as they are.
LEMMA JobsStep ==
    ASSUME RetroInv, retros' \in Seq(Retro), Len(retros') <= MaxRetros, DOMAIN retros \subseteq DOMAIN retros',
           \A j \in DOMAIN retros : retros'[j].result = retros[j].result,
           \A j \in DOMAIN retros : retros[j].status = "completed" => retros'[j] = retros[j],
           \A j \in DOMAIN retros' \ DOMAIN retros : retros'[j].result = <<>>,
           UNCHANGED <<stored, fresh, failed>>, ingests' \subseteq ingests,
           cut \subseteq cut', \A i \in ingests \ ingests' : i.job \in cut',
           backlog' \in [Backfills -> SUBSET Jobs],
           \A b \in Backfills : backlog'[b] \subseteq backlog[b],
           evals' \in [RetroTasks -> Nat], RetroIsCaused', thread' = thread \/ ingests' = {}
    PROVE  RetroInv'
<1>1. RetroTypeOK'
  BY DEF RetroInv, RetroTypeOK
<1>2. LearnedOnce' /\ OneIngest' /\ \A x \in fresh' : stored'[x] > 0
  BY DEF RetroInv, LearnedOnce, OneIngest
<1>3. ASSUME NEW j, Completed(j)
      PROVE  Completed(j)' /\ retros'[j] = retros[j] /\ Learnings(j)' = Learnings(j)
  BY <1>3 DEF Completed, Learnings
<1>4. StoredWasLearned'
  BY <1>3 DEF RetroInv, StoredWasLearned
<1>5. ASSUME NEW i \in ingests'
      PROVE  IngestOK(i)'
  <2>1. i \in ingests /\ Completed(i.job)
    BY IngestFacts DEF IngestOK
  <2>2. Completed(i.job)' /\ retros'[i.job] = retros[i.job]
    BY <1>3, <2>1
  <2>3. i.owner = thread' \/ AlreadyIngested(i.job)
    BY <2>1, OthersIngested
  <2> QED
    BY <2>1, <2>2, <2>3, IngestStays
<1>6. \A b \in Backfills : \A j \in backlog'[b] : Completed(j)'
  BY <1>3 DEF RetroInv
<1>7. LearningsSurvive'
  <2>1. ASSUME NEW j \in DOMAIN retros', \A i \in ingests' : i.job # j, NEW l \in Learnings(j)'
        PROVE  \/ <<j, l>> \in failed' \/ j \in cut'
               \/ \E k \in Learnings(j)' : PrefixOf(j, k)' = PrefixOf(j, l)'
                                            /\ stored'[<<j, k>>] > 0
    <3>1. j \in DOMAIN retros
      <4> SUFFICES ASSUME j \notin DOMAIN retros PROVE FALSE
        OBVIOUS
      <4>1. retros'[j].result = <<>>
        BY <2>1
      <4>2. Learnings(j)' = LearningsOf(<<>>)
        BY <4>1 DEF Learnings
      <4> QED
        BY <2>1, <4>2, LearningsAreEntries
    <3>2. Learnings(j)' = Learnings(j) /\ \A k : PrefixOf(j, k)' = PrefixOf(j, k)
      BY <3>1 DEF Learnings, PrefixOf
    <3>3. CASE \E i \in ingests : i.job = j
      BY <2>1, <3>3
    <3>4. CASE \A i \in ingests : i.job # j
      <4>1. \/ <<j, l>> \in failed \/ j \in cut
            \/ \E k \in Learnings(j) : PrefixOf(j, k) = PrefixOf(j, l) /\ stored[<<j, k>>] > 0
        BY <2>1, <3>1, <3>2, <3>4 DEF RetroInv, LearningsSurvive
      <4> QED
        BY <3>2, <4>1
    <3> QED
      BY <3>3, <3>4
  <2> QED
    BY <2>1 DEF LearningsSurvive
<1> QED
  BY <1>1, <1>2, <1>4, <1>5, <1>6, <1>7 DEF RetroInv

\* An evaluation caused from outside is counted before it may spawn a
\* retro.
LEMMA EvaluateStep ==
    ASSUME RetroInv, NEW t \in RetroTasks, EvaluateTask(t)
    PROVE  RetroInv'
<1> DEFINE job == [task |-> t, status |-> "running", result |-> <<>>]
           n == Len(retros)
<1>1. /\ evals' = [evals EXCEPT ![t] = @ + 1]
      /\ retros' = retros \/ (retros' = Append(retros, job) /\ n < MaxRetros)
      /\ UNCHANGED <<ingests, backlog, thread, stored, fresh, failed, cut>>
  BY DEF EvaluateTask, SpawnRetro, ingestVars
<1>2. job \in Retro /\ job.task = t /\ job.result = <<>>
  BY DEF Retro
<1>3. retros \in Seq(Retro) /\ n \in Nat /\ n <= MaxRetros /\ MaxRetros \in Nat
      /\ evals \in [RetroTasks -> Nat]
  BY RetroSettings DEF RetroInv, RetroTypeOK
<1> HIDE DEF job
<1>4. /\ retros' \in Seq(Retro) /\ Len(retros') <= MaxRetros
      /\ DOMAIN retros \subseteq DOMAIN retros'
      /\ \A j \in DOMAIN retros : retros'[j] = retros[j]
      /\ \A j \in DOMAIN retros' \ DOMAIN retros : retros'[j] = job /\ j = n + 1
  <2>1. CASE retros' = retros
    BY <1>3, <2>1
  <2>2. CASE retros' = Append(retros, job) /\ n < MaxRetros
    <3>1. DOMAIN retros = 1 .. n /\ DOMAIN retros' = 1 .. n + 1 /\ Len(retros') = n + 1
      BY <1>2, <1>3, <2>2
    <3>2. retros' \in Seq(Retro) /\ retros'[n + 1] = job
      BY <1>2, <1>3, <2>2
    <3>3. \A j \in 1 .. n : retros'[j] = retros[j]
      BY <1>3, <2>2
    <3>4. \A j \in 1 .. n + 1 : j \in 1 .. n \/ j = n + 1
      BY <1>3
    <3> HIDE DEF n
    <3> QED
      BY <1>3, <2>2, <3>1, <3>2, <3>3, <3>4
  <2> QED
    BY <1>1, <2>1, <2>2
<1>5. evals' \in [RetroTasks -> Nat] /\ evals'[t] = evals[t] + 1
      /\ \A u \in RetroTasks \ {t} : evals'[u] = evals[u]
  BY <1>1, <1>3
<1>6. RetroIsCaused'
  <2> SUFFICES ASSUME NEW u \in RetroTasks
               PROVE  Cardinality({j \in DOMAIN retros' : retros'[j].task = u}) <= evals'[u]
    BY DEF RetroIsCaused
  <2> DEFINE S == {j \in DOMAIN retros : retros[j].task = u}
             T == {j \in DOMAIN retros' : retros'[j].task = u}
  <2>1. IsFiniteSet(S) /\ Cardinality(S) \in Nat
    <3>1. DOMAIN retros = 1 .. n /\ IsFiniteSet(1 .. n)
      BY <1>3, FS_Interval
    <3> QED
      BY <3>1, FS_Subset, FS_CardinalityType
  <2>2. Cardinality(S) <= evals[u] /\ evals[u] \in Nat
    BY <1>3 DEF RetroInv, RetroIsCaused
  <2>3. T = S \/ (u = t /\ T = S \cup {n + 1} /\ n + 1 \notin S)
    <3>1. n + 1 \notin DOMAIN retros
      BY <1>3
    <3>2. \A j \in T : j \in S \/ (j = n + 1 /\ u = t)
      BY <1>2, <1>4
    <3>3. S \subseteq T
      BY <1>4
    <3> HIDE DEF n
    <3> QED
      BY <3>1, <3>2, <3>3
  <2>4. evals'[u] = IF u = t THEN evals[u] + 1 ELSE evals[u]
    BY <1>5
  <2>5. Cardinality(T) <= evals'[u]
    <3> HIDE DEF S, T
    <3>1. CASE T = S
      BY <2>1, <2>2, <2>4, <3>1
    <3>2. CASE u = t /\ T = S \cup {n + 1} /\ n + 1 \notin S
      <4>1. Cardinality(T) = Cardinality(S) + 1
        BY <2>1, <3>2, FS_AddElement
      <4> QED
        BY <2>1, <2>2, <2>4, <3>2, <4>1
    <3> QED
      BY <2>3, <3>1, <3>2
  <2> QED
    BY <2>5
<1>7. /\ \A j \in DOMAIN retros : retros'[j].result = retros[j].result
      /\ \A j \in DOMAIN retros' \ DOMAIN retros : retros'[j].result = <<>>
  BY <1>2, <1>4
<1>8. backlog' \in [Backfills -> SUBSET Jobs]
  BY <1>1 DEF RetroInv, RetroTypeOK
<1>9. /\ UNCHANGED <<stored, fresh, failed>> /\ ingests' \subseteq ingests
      /\ cut \subseteq cut' /\ (\A i \in ingests \ ingests' : i.job \in cut')
      /\ (\A b \in Backfills : backlog'[b] \subseteq backlog[b]) /\ thread' = thread
  BY <1>1
<1> QED
  BY <1>4, <1>5, <1>6, <1>7, <1>8, <1>9, JobsStep

\* A restart cuts the ingests under way, and only those.
LEMMA RestartStep ==
    ASSUME RetroInv, RetroRestart
    PROVE  RetroInv'
<1>1. /\ retros' = [j \in DOMAIN retros |->
                      IF retros[j].status = "running" THEN [retros[j] EXCEPT !.status = "failed"]
                      ELSE retros[j]]
      /\ ingests' = {} /\ backlog' = [b \in Backfills |-> {}]
      /\ cut' = cut \cup {i.job : i \in ingests}
      /\ UNCHANGED <<stored, fresh, evals, failed>>
  BY DEF RetroRestart
<1>2. retros \in Seq(Retro) /\ Len(retros) <= MaxRetros
  BY DEF RetroInv, RetroTypeOK
<1>3. ASSUME NEW j \in DOMAIN retros
      PROVE  /\ retros'[j] \in Retro /\ retros'[j].result = retros[j].result
             /\ retros'[j].task = retros[j].task
             /\ retros[j].status = "completed" => retros'[j] = retros[j]
  <2>1. retros[j] \in Retro
    BY <1>2
  <2> QED
    BY <1>1, <2>1 DEF Retro
<1>4. DOMAIN retros = 1 .. Len(retros) /\ Len(retros) \in Nat
  BY <1>2
<1>5. retros' \in Seq(Retro) /\ Len(retros') = Len(retros) /\ DOMAIN retros' = DOMAIN retros
  <2>1. retros' \in [1 .. Len(retros) -> Retro]
    BY <1>1, <1>3, <1>4
  <2>2. retros' \in Seq(Retro)
    BY <1>4, <2>1, SeqDef
  <2> QED
    BY <1>4, <2>1, <2>2
<1>6. RetroIsCaused'
  <2>1. \A t \in RetroTasks : {j \in DOMAIN retros' : retros'[j].task = t}
                              = {j \in DOMAIN retros : retros[j].task = t}
    BY <1>3, <1>5
  <2> QED
    BY <1>1, <2>1 DEF RetroInv, RetroIsCaused
<1>7. /\ backlog' \in [Backfills -> SUBSET Jobs]
      /\ \A b \in Backfills : backlog'[b] \subseteq backlog[b]
  BY <1>1
<1>8. /\ ingests' \subseteq ingests /\ cut \subseteq cut'
      /\ \A i \in ingests \ ingests' : i.job \in cut'
  BY <1>1
<1>9. evals' \in [RetroTasks -> Nat]
  BY <1>1 DEF RetroInv, RetroTypeOK
<1> QED
  BY <1>1, <1>2, <1>3, <1>5, <1>6, <1>7, <1>8, <1>9, JobsStep

\* The retro worker ends: nothing of its job is stored yet, and the ingest of
\* its learnings holds the thread.
LEMMA EndsStep ==
    ASSUME RetroInv, NEW j \in DOMAIN retros, NEW status \in {"completed", "failed"},
           NEW result \in Results \cup {<<>>}, status = "failed" => result = <<>>,
           RetroEnds(j, status, result)
    PROVE  RetroInv'
<1> DEFINE starts == status = "completed" /\ LearningsOf(result) # {}
           new == [owner |-> j, job |-> j, todo |-> LearningsOf(result)]
<1>1. /\ thread = FreeThread /\ retros[j].status = "running"
      /\ retros' = [retros EXCEPT ![j].status = status, ![j].result = result]
      /\ IF starts THEN ingests' = ingests \cup {new} /\ thread' = j
         ELSE UNCHANGED <<ingests, thread>>
      /\ UNCHANGED <<backlog, stored, fresh, evals, failed, cut>>
  BY DEF RetroEnds, LinkedTasks
<1>2. retros \in Seq(Retro) /\ retros[j] \in Retro /\ j \in Jobs /\ Len(retros) <= MaxRetros
  BY JobFacts DEF RetroInv, RetroTypeOK
<1>3. /\ DOMAIN retros' = DOMAIN retros /\ \A k \in DOMAIN retros \ {j} : retros'[k] = retros[k]
      /\ retros'[j] = [retros[j] EXCEPT !.status = status, !.result = result]
  BY <1>1, <1>2
<1>4. /\ retros'[j] \in Retro /\ retros'[j].task = retros[j].task
      /\ retros'[j].status = status /\ retros'[j].result = result
  BY <1>2, <1>3 DEF Retro
<1>5. retros' \in Seq(Retro) /\ Len(retros') <= MaxRetros
  <2>1. DOMAIN retros = 1 .. Len(retros) /\ Len(retros) \in Nat
    BY <1>2
  <2>2. retros' \in [1 .. Len(retros) -> Retro]
    BY <1>1, <1>2, <1>3, <1>4, <2>1
  <2>3. retros' \in Seq(Retro)
    BY <2>1, <2>2, SeqDef
  <2> QED
    BY <1>2, <2>1, <2>2, <2>3
<1>6. LearningsOf(result) \subseteq Entries /\ LearningsOf(result) \subseteq Nat
  BY LearningsAreEntries, EntriesAreNats
<1>7. Learnings(j)' = LearningsOf(result)
  BY <1>4 DEF Learnings
<1>8. ASSUME NEW k, Completed(k)
      PROVE  k # j /\ Completed(k)' /\ retros'[k] = retros[k] /\ Learnings(k)' = Learnings(k)
  BY <1>1, <1>3, <1>8 DEF Completed, Learnings
<1>9. \A l \in Entries : stored[<<j, l>>] = 0
  <2> TAKE l \in Entries
  <2>1. ~(stored[<<j, l>>] > 0)
    BY <1>2, <1>8 DEF RetroInv, StoredWasLearned
  <2>2. stored[<<j, l>>] \in Nat
    BY <1>2 DEF RetroInv, RetroTypeOK
  <2> QED
    BY <2>1, <2>2
<1>10. \A i \in ingests : AlreadyIngested(i.job) /\ i.job # j /\ i.owner # j
  <2> TAKE i \in ingests
  <2>1. AlreadyIngested(i.job)
    BY <1>1, IngestFacts, OthersIngested
  <2>2. Completed(i.job) /\ (i.owner \in Backfills \/ i.owner = i.job)
    BY IngestFacts DEF IngestOK
  <2>3. j \notin Backfills
    BY <1>2, RetroSettings DEF Jobs
  <2> QED
    BY <1>8, <2>1, <2>2, <2>3
<1>11. /\ new \in [owner : Jobs \cup Backfills, job : Jobs, todo : SUBSET Nat]
       /\ new.owner = j /\ new.job = j /\ new.todo = LearningsOf(result)
  BY <1>2, <1>6
<1>12. starts \in BOOLEAN /\ (~starts => LearningsOf(result) = {})
  BY LearningsAreEntries
<1>13. /\ ingests' = IF starts THEN ingests \cup {new} ELSE ingests
       /\ starts => thread' = j
  BY <1>1
<1> HIDE DEF new
<1>14. RetroTypeOK'
  BY <1>1, <1>5, <1>11, <1>13 DEF RetroInv, RetroTypeOK
<1>15. RetroIsCaused'
  <2>1. \A t \in RetroTasks : {k \in DOMAIN retros' : retros'[k].task = t}
                              = {k \in DOMAIN retros : retros[k].task = t}
    BY <1>3, <1>4
  <2> QED
    BY <1>1, <2>1 DEF RetroInv, RetroIsCaused
<1>16. LearnedOnce' /\ \A x \in fresh' : stored'[x] > 0
  BY <1>1 DEF RetroInv, LearnedOnce
<1>17. StoredWasLearned'
  BY <1>1, <1>8 DEF RetroInv, StoredWasLearned
<1>18. OneIngest'
  BY <1>10, <1>11, <1>13 DEF RetroInv, OneIngest
<1>19. ASSUME NEW i \in ingests
       PROVE  IngestOK(i)'
  <2>1. Completed(i.job)
    BY IngestFacts DEF IngestOK
  <2> QED
    BY <1>1, <1>8, <1>10, <2>1, IngestStays
<1>20. ASSUME starts
       PROVE  IngestOK(new)'
  <2>1. Completed(j)'
    BY <1>3, <1>4, <1>20 DEF Completed
  <2>2. \A l \in LearningsOf(result) : stored'[<<j, l>>] = 0
    BY <1>1, <1>6, <1>9
  <2>3. LearningsOf(result) # {} /\ thread' = j
    BY <1>13, <1>20
  <2> QED
    BY <1>7, <1>11, <2>1, <2>2, <2>3 DEF IngestOK
<1>21. \A i \in ingests' : IngestOK(i)'
  BY <1>13, <1>19, <1>20
<1>22. LearningsSurvive'
  <2>1. ASSUME NEW k \in DOMAIN retros', \A i \in ingests' : i.job # k, NEW l \in Learnings(k)'
        PROVE  \/ <<k, l>> \in failed' \/ k \in cut'
               \/ \E m \in Learnings(k)' : PrefixOf(k, m)' = PrefixOf(k, l)'
                                            /\ stored'[<<k, m>>] > 0
    <3>1. k # j
      BY <1>7, <1>11, <1>12, <1>13, <2>1
    <3>2. retros'[k] = retros[k] /\ k \in DOMAIN retros
      BY <1>3, <3>1
    <3>3. Learnings(k)' = Learnings(k) /\ \A m : PrefixOf(k, m)' = PrefixOf(k, m)
      BY <3>2 DEF Learnings, PrefixOf
    <3>4. \A i \in ingests : i.job # k
      BY <1>13, <2>1
    <3>5. \/ <<k, l>> \in failed \/ k \in cut
          \/ \E m \in Learnings(k) : PrefixOf(k, m) = PrefixOf(k, l) /\ stored[<<k, m>>] > 0
      BY <2>1, <3>2, <3>3, <3>4 DEF RetroInv, LearningsSurvive
    <3> QED
      BY <1>1, <3>3, <3>5
  <2> QED
    BY <2>1 DEF LearningsSurvive
<1>23. \A b \in Backfills : \A k \in backlog'[b] : Completed(k)'
  BY <1>1, <1>8 DEF RetroInv
<1> QED
  BY <1>14, <1>15, <1>16, <1>17, <1>18, <1>21, <1>22, <1>23 DEF RetroInv

-----------------------------------------------------------------------------
(* The theorem                                                             *)

\* Nothing is stored or under way at the start.
LEMMA InitInv ==
    ASSUME RetroInit
    PROVE  RetroInv
<1>1. /\ retros = <<>> /\ ingests = {} /\ fresh = {}
      /\ stored = [x \in Jobs \X Entries |-> 0] /\ evals = [t \in RetroTasks |-> 0]
      /\ backlog = [b \in Backfills |-> {}]
  BY DEF RetroInit
<1>2. RetroTypeOK
  BY <1>1, RetroSettings DEF RetroTypeOK
<1>3. RetroIsCaused
  <2>1. \A t \in RetroTasks : {j \in DOMAIN retros : retros[j].task = t} = {}
    BY <1>1
  <2>2. \A t \in RetroTasks : evals[t] = 0
    BY <1>1
  <2> QED
    BY <2>1, <2>2, FS_EmptySet DEF RetroIsCaused
<1>4. \A x \in Jobs \X Entries : stored[x] = 0
  BY <1>1
<1>5. LearnedOnce /\ StoredWasLearned
  BY <1>4 DEF LearnedOnce, StoredWasLearned
<1>6. LearningsSurvive /\ OneIngest
  BY <1>1 DEF LearningsSurvive, OneIngest
<1> QED
  BY <1>1, <1>2, <1>3, <1>5, <1>6 DEF RetroInv

\* Every step of the loop keeps the invariant.
LEMMA NextStep ==
    ASSUME RetroInv, RetroNext
    PROVE  RetroInv'
<1>1. CASE \E t \in RetroTasks : EvaluateTask(t)
  BY <1>1, EvaluateStep
<1>2. CASE \E j \in DOMAIN retros : \E r \in Results : RetroEnds(j, "completed", r)
  BY <1>2, EndsStep
<1>3. CASE \E j \in DOMAIN retros : RetroEnds(j, "failed", <<>>)
  BY <1>3, EndsStep
<1>4. CASE \E i \in ingests : StoreFails(i) \/ StoreSkips(i) \/ StoreInserts(i)
  BY <1>4, StoreStep
<1>5. CASE \E b \in Backfills : StartBackfill(b) \/ BackfillNext(b) \/ BackfillAnswers(b)
  BY <1>5, StartStep, BackfillStep, AnswerStep
<1>6. CASE \E x \in fresh : DedupWindowEnds(x)
  BY <1>6, WindowStep
<1>7. CASE RetroRestart
  BY <1>7, RestartStep
<1> QED
  BY <1>1, <1>2, <1>3, <1>4, <1>5, <1>6, <1>7 DEF RetroNext

\* The retrospective loop (retro-evaluator.ts, retro-ingest.ts) starts a retro
\* only for an evaluation from outside, turns no entry of a result into two
\* memories although a listener, backfills and restarts overlap, and loses no
\* valid sibling of an entry that failed or was passed over.
THEOREM RetroLoopLearns == RetroSpec => []RetroLearns
<1>1. RetroInv => RetroLearns
  BY DEF RetroInv, RetroLearns
<1>2. RetroInv /\ [RetroNext]_retroVars => RetroInv'
  BY NextStep, StutterStep
<1> QED
  BY <1>1, <1>2, InitInv, PTL DEF RetroSpec

=============================================================================
