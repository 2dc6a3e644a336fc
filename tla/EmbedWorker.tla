----------------------------- MODULE EmbedWorker -----------------------------
(***************************************************************************)
(* The embedding worker and its supervisor: the daemon forks a child,      *)
(* queues requests until it announces itself, matches answers to requests  *)
(* by id, and forks another one after an exit, with a pause after a storm  *)
(* of crashes.  Every fork has its own event handlers and start-up timer,  *)
(* and all of them write the one _child and the one _ready.                *)
(***************************************************************************)
EXTENDS Naturals, Sequences, FiniteSets

CONSTANTS
    Reqs,         \* calls of embed and embedBatch
    MaxForks,
    QueueMax,     \* QUEUE_MAX
    RapidMax      \* MAX_RAPID_CRASHES

ASSUME EmbedAssumption == MaxForks \in Nat \ {0} /\ QueueMax \in Nat /\ RapidMax \in Nat \ {0}

Forks == 1 .. MaxForks

VARIABLES
    proc,         \* the processes: "none", "starting", "up", "dead" (its exit not yet heard), "gone"
    readyMsg,     \* forks whose 'ready' is in the channel
    localReady,   \* forks whose 'ready' was heard
    settled,      \* forks whose promise is settled
    broken,       \* forks a send failed on
    killed,       \* forks that got a SIGTERM
    startTimers,  \* running start-up timers; timerHandle is the one remembered
    timerHandle,
    child,        \* _child, 0 for null
    ready,        \* _ready
    nforks,
    restartTimer, \* "none", "backoff" or "cooldown"
    cooldown,     \* _inCooldown
    crashes,      \* _crashTimestamps within the window
    stopped,
    status,       \* of a request: new, queued, sent, ok, failed
    got,          \* the request whose vectors the caller got
    embedQueue,   \* _queue
    pending,      \* _pending: <<id, request>>
    nextId,
    asked,        \* <<fork, id, request>> the process works on
    answers       \* <<id, request>>: answers in the channel

embedVars == <<proc, readyMsg, localReady, settled, broken, killed, startTimers, timerHandle, child, ready,
               nforks, restartTimer, cooldown, crashes, stopped, status, got, embedQueue, pending, nextId,
               asked, answers>>
procVars == <<proc, readyMsg, localReady, settled, broken, killed>>
forkVars == <<startTimers, timerHandle, child, ready, nforks>>
restartVars == <<restartTimer, cooldown, crashes, stopped>>
callVars == <<status, got, embedQueue, pending, nextId, asked, answers>>

EmbedInit ==
    /\ proc = [f \in Forks |-> "none"]
    /\ readyMsg = {} /\ localReady = {} /\ settled = {} /\ broken = {} /\ killed = {}
    /\ startTimers = {} /\ timerHandle = 0 /\ child = 0 /\ ready = FALSE /\ nforks = 0
    /\ restartTimer = "none" /\ cooldown = FALSE /\ crashes = 0 /\ stopped = FALSE
    /\ status = [r \in Reqs |-> "new"] /\ got = [r \in Reqs |-> r]
    /\ embedQueue = <<>> /\ pending = {} /\ nextId = 0 /\ asked = {} /\ answers = {}

-----------------------------------------------------------------------------
Queued == {embedQueue[i] : i \in DOMAIN embedQueue}
InFlight == {p[2] : p \in pending}
Fail(rs) == status' = [r \in Reqs |-> IF r \in rs THEN "failed" ELSE status[r]]

IsCrashStorm == crashes >= RapidMax

\* Mutant: ids start again with every fork.
DispatchIdPerFork(i) == i - 1

(* The id of the i-th request dispatched in this turn. *)
DispatchId(i) == nextId + i - 1

(* dispatchToWorker for each of rs, to whatever _child is; sending to a    *)
(* process that is dead makes it emit an error later.                      *)
Dispatch(rs) ==
    LET sent == {<<DispatchId(i), rs[i]>> : i \in DOMAIN rs} IN
    /\ pending' = {p \in pending : \A s \in sent : s[1] # p[1]} \cup sent
    /\ nextId' = nextId + Len(rs)
    /\ \/ proc[child] = "dead" /\ rs # <<>> /\ broken' = broken \cup {child} /\ UNCHANGED asked
       \/ ~(proc[child] = "dead" /\ rs # <<>>) /\ UNCHANGED broken
          /\ asked' = asked \cup {<<child, s[1], s[2]>> : s \in sent}

(* embed and embedBatch *)
Embed(r) ==
    /\ status[r] = "new"
    /\ \/ /\ ready /\ child # 0
          /\ Dispatch(<<r>>)
          /\ status' = [status EXCEPT ![r] = "sent"] /\ UNCHANGED embedQueue
       \/ /\ ~(ready /\ child # 0)
          /\ IF cooldown \/ Len(embedQueue) >= QueueMax
                THEN Fail({r}) /\ UNCHANGED embedQueue
                ELSE status' = [status EXCEPT ![r] = "queued"] /\ embedQueue' = Append(embedQueue, r)
          /\ UNCHANGED <<pending, nextId, asked, broken>>
    /\ UNCHANGED <<proc, readyMsg, localReady, settled, killed, got, answers>>
    /\ UNCHANGED forkVars /\ UNCHANGED restartVars

(* QUEUE_WAIT_TIMEOUT_MS *)
QueueTimeout(r) ==
    /\ r \in Queued
    /\ embedQueue' = SelectSeq(embedQueue, LAMBDA q : q # r)
    /\ Fail({r})
    /\ UNCHANGED <<got, pending, nextId, asked, answers>>
    /\ UNCHANGED procVars /\ UNCHANGED forkVars /\ UNCHANGED restartVars

(* REQUEST_TIMEOUT_MS *)
RequestTimeout(p) ==
    /\ p \in pending
    /\ pending' = pending \ {p} /\ Fail({p[2]})
    /\ UNCHANGED <<got, embedQueue, nextId, asked, answers>>
    /\ UNCHANGED procVars /\ UNCHANGED forkVars /\ UNCHANGED restartVars

-----------------------------------------------------------------------------

(* scheduleRestart; crashes beyond the limit are not counted. *)
ScheduleRestart ==
    IF stopped \/ restartTimer # "none" THEN UNCHANGED <<restartTimer, cooldown, crashes>>
    ELSE /\ crashes' = IF IsCrashStorm THEN crashes ELSE crashes + 1
         /\ IF crashes' >= RapidMax
               THEN restartTimer' = "cooldown" /\ cooldown' = TRUE
               ELSE restartTimer' = "backoff" /\ UNCHANGED cooldown

(* reject of forkWorker's promise: only doRestart's catch schedules        *)
(* another restart; that of the first start reports the failure.           *)
Reject(f) ==
    /\ settled' = settled \cup {f}
    /\ IF f # 1 /\ f \notin settled THEN ScheduleRestart ELSE UNCHANGED <<restartTimer, cooldown, crashes>>

(* forkWorker *)
ForkWorker ==
    /\ nforks' = nforks + 1 /\ child' = nforks + 1
    /\ proc' = [proc EXCEPT ![nforks + 1] = "starting"]
    /\ startTimers' = startTimers \cup {nforks + 1} /\ timerHandle' = nforks + 1

(* startEmbedWorker, once, at the start of the extension. *)
StartEmbedWorker ==
    /\ nforks = 0 /\ ~stopped
    /\ ForkWorker
    /\ UNCHANGED <<readyMsg, localReady, settled, broken, killed, ready>>
    /\ UNCHANGED restartVars /\ UNCHANGED callVars

TimerCleared == restartTimer' = "none"

(* The restart timer fires: doRestart does nothing when there is a _child. *)
RestartTimerFires ==
    /\ restartTimer \in {"backoff", "cooldown"} /\ (nforks < MaxForks \/ child # 0)
    /\ TimerCleared
    /\ IF restartTimer = "cooldown" THEN cooldown' = FALSE /\ crashes' = 0 ELSE UNCHANGED <<cooldown, crashes>>
    /\ IF child # 0 THEN UNCHANGED <<proc, startTimers, timerHandle, child, nforks>> ELSE ForkWorker
    /\ UNCHANGED <<readyMsg, localReady, settled, broken, killed, ready, stopped>> /\ UNCHANGED callVars

(* A crash leaves the window of RAPID_CRASH_WINDOW_MS. *)
CrashForgotten ==
    /\ crashes > 0 /\ crashes' = crashes - 1
    /\ UNCHANGED <<restartTimer, cooldown, stopped>>
    /\ UNCHANGED procVars /\ UNCHANGED forkVars /\ UNCHANGED callVars

-----------------------------------------------------------------------------
(* The child process: initialised, it says so; it may exit at any time. *)
ProcReady(f) ==
    /\ proc[f] = "starting" /\ f \notin killed
    /\ proc' = [proc EXCEPT ![f] = "up"] /\ readyMsg' = readyMsg \cup {f}
    /\ UNCHANGED <<localReady, settled, broken, killed>>
    /\ UNCHANGED forkVars /\ UNCHANGED restartVars /\ UNCHANGED callVars

ProcExits(f) ==
    /\ proc[f] \in {"starting", "up"}
    /\ proc' = [proc EXCEPT ![f] = "dead"]
    /\ asked' = {a \in asked : a[1] # f}
    /\ UNCHANGED <<readyMsg, localReady, settled, broken, killed, status, got, embedQueue, pending, nextId, answers>>
    /\ UNCHANGED forkVars /\ UNCHANGED restartVars

(* The message handler of the child posts the result or the error. *)
ProcAnswers(a) ==
    /\ a \in asked /\ asked' = asked \ {a}
    /\ answers' = answers \cup {<<a[2], a[3]>>}
    /\ UNCHANGED <<status, got, embedQueue, pending, nextId>>
    /\ UNCHANGED procVars /\ UNCHANGED forkVars /\ UNCHANGED restartVars

-----------------------------------------------------------------------------
(* The event handlers of fork f.  'ready' flushes the queue to _child,     *)
(* which may be another fork or null.                                      *)
HearReady(f) ==
    /\ f \in readyMsg /\ readyMsg' = readyMsg \ {f}
    /\ localReady' = localReady \cup {f} /\ settled' = settled \cup {f} /\ ready' = TRUE
    /\ \/ /\ child # 0
          /\ Dispatch(embedQueue) /\ embedQueue' = <<>>
          /\ status' = [r \in Reqs |-> IF r \in Queued THEN "sent" ELSE status[r]]
       \/ child = 0 /\ UNCHANGED <<pending, nextId, asked, broken, embedQueue, status>>
    /\ UNCHANGED <<proc, killed, startTimers, timerHandle, child, nforks, got, answers>>
    /\ UNCHANGED restartVars

(* 'result' (ok) or 'error': an id that is no longer pending is ignored. *)
HearAnswer(m, ok) ==
    /\ m \in answers /\ answers' = answers \ {m}
    /\ \/ /\ \E p \in pending :
                /\ p[1] = m[1] /\ pending' = pending \ {p}
                /\ status' = [status EXCEPT ![p[2]] = IF ok THEN "ok" ELSE "failed"]
                /\ got' = [got EXCEPT ![p[2]] = m[2]]
       \/ (\A p \in pending : p[1] # m[1]) /\ UNCHANGED <<pending, status, got>>
    /\ UNCHANGED <<embedQueue, nextId, asked>>
    /\ UNCHANGED procVars /\ UNCHANGED forkVars /\ UNCHANGED restartVars

(* 'exit', whichever fork _child is by now. *)
HearExit(f) ==
    /\ proc[f] = "dead" /\ f \notin readyMsg
    /\ proc' = [proc EXCEPT ![f] = "gone"]
    /\ child' = 0 /\ ready' = FALSE
    /\ pending' = {}
    /\ embedQueue' = IF IsCrashStorm THEN <<>> ELSE embedQueue
    /\ Fail(InFlight \cup IF IsCrashStorm THEN Queued ELSE {})
    /\ \/ f \notin localReady /\ Reject(f)
       \/ f \in localReady /\ ScheduleRestart /\ UNCHANGED settled
    /\ UNCHANGED <<readyMsg, localReady, broken, killed, startTimers, timerHandle, nforks, stopped,
                   got, nextId, asked, answers>>

(* 'error': a failed send to a dead process, in the next tick and before   *)
(* its exit, or a fork that could not be spawned, without an exit.         *)
HearError(f) ==
    /\ \/ f \in broken /\ broken' = broken \ {f} /\ UNCHANGED proc
       \/ proc[f] = "starting" /\ child = f /\ proc' = [proc EXCEPT ![f] = "gone"] /\ UNCHANGED broken
    /\ child' = 0 /\ ready' = FALSE
    /\ \/ f \notin localReady /\ Reject(f)
       \/ f \in localReady /\ UNCHANGED <<settled, restartTimer, cooldown, crashes>>
    /\ UNCHANGED <<readyMsg, localReady, killed, startTimers, timerHandle, nforks, stopped>> /\ UNCHANGED callVars

(* The start-up timers fire in the order of the forks and write the one    *)
(* handle and the one _child.                                              *)
StartupTimeout(f) ==
    /\ f \in startTimers /\ \A g \in startTimers : f <= g
    /\ startTimers' = startTimers \ {f} /\ timerHandle' = 0
    /\ \/ f \in localReady /\ UNCHANGED <<child, killed, settled, restartTimer, cooldown, crashes>>
       \/ f \notin localReady /\ child' = 0 /\ killed' = killed \cup {f} /\ Reject(f)
    /\ UNCHANGED <<proc, readyMsg, localReady, broken, ready, nforks, stopped>> /\ UNCHANGED callVars

StopFails == InFlight \cup Queued

(* stopEmbedWorker: the child loses its listeners before it is stopped. *)
StopEmbedWorker ==
    /\ nforks > 0 /\ ~stopped /\ stopped' = TRUE
    /\ restartTimer' = "none"
    /\ startTimers' = startTimers \ {timerHandle} /\ timerHandle' = 0
    /\ pending' = {} /\ embedQueue' = <<>> /\ Fail(StopFails)
    /\ child' = 0 /\ ready' = FALSE
    /\ proc' = [f \in Forks |-> IF f = child THEN "gone" ELSE proc[f]]
    /\ readyMsg' = readyMsg \ {child} /\ broken' = broken \ {child}
    /\ asked' = {a \in asked : a[1] # child}
    /\ UNCHANGED <<localReady, settled, killed, nforks, cooldown, crashes, got, nextId, answers>>

ForkStep(f) ==
    ProcReady(f) \/ ProcExits(f) \/ HearReady(f) \/ HearExit(f) \/ HearError(f) \/ StartupTimeout(f)

EmbedStep ==
    \/ StartEmbedWorker \/ StopEmbedWorker \/ RestartTimerFires \/ CrashForgotten
    \/ \E r \in Reqs : Embed(r) \/ QueueTimeout(r)
    \/ \E p \in pending : RequestTimeout(p)
    \/ \E a \in asked : ProcAnswers(a)
    \/ \E m \in answers, ok \in BOOLEAN : HearAnswer(m, ok)
    \/ \E f \in Forks : ForkStep(f)

SendErrors == \E f \in broken : HearError(f)

EmbedNext ==
    \/ SendErrors
    \/ broken = {} /\ EmbedStep

(* Timers fire. *)
SomeRestart == broken = {} /\ RestartTimerFires
SomeTimeout == broken = {} /\ ((\E r \in Reqs : QueueTimeout(r)) \/ \E p \in pending : RequestTimeout(p))

-----------------------------------------------------------------------------
(* A caller gets the vectors of its own text: no late answer of an earlier *)
(* worker, or after a timeout, is taken for that of another request.       *)
AnswerIsOwn == \A r \in Reqs : status[r] = "ok" => got[r] = r

Waiting == {r \in Reqs : status[r] \in {"queued", "sent"}}

(* A request neither waits for ever nor is dropped in silence: it is       *)
(* answered, fails with the worker, times out, or is refused by a stop.    *)
(* (A request waits once, so each has settled when none waits.)            *)
RequestSettles == (Waiting # {}) ~> (Waiting = {})

(* After a stop no fork is made: not by the restart timer, nor by an exit  *)
(* or a start-up timer of an earlier fork that comes late.                 *)
NoForkAfterStop == [][stopped => nforks' = nforks]_embedVars

(* The last fork had been ready and died, and may be replaced. *)
WorkerLost == nforks \in localReady /\ proc[nforks] = "gone" /\ nforks < MaxForks /\ ~stopped

(* The death of a worker that had been ready is followed by a new fork,    *)
(* storms included, unless the daemon stops.                               *)
CrashIsRepaired == WorkerLost ~> ~WorkerLost

(* The embedding worker, through crashes, storms and late answers: every   *)
(* request settles, with its own vectors if with any; a lost worker is     *)
(* replaced, and none is forked after a stop.                              *)
EmbeddingServes ==
    /\ AnswerIsOwn /\ [][AnswerIsOwn']_embedVars
    /\ NoForkAfterStop /\ RequestSettles /\ CrashIsRepaired
=============================================================================
