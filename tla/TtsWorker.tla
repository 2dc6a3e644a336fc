----------------------------- MODULE TtsWorker -----------------------------
(***************************************************************************)
(* The speech synthesiser: a Python process on a fixed port, started by    *)
(* the voice extension, watched by health checks and restarted when it     *)
(* exits.  All handlers share the module-level variables worker,           *)
(* workerReady and startupResolve, whichever process they belong to.       *)
(***************************************************************************)
EXTENDS Naturals, Sequences

CONSTANTS
    MaxSpeech,       \* bound on requests for speech
    MaxRetries,      \* MAX_RETRIES
    MaxTtsFaults     \* bound on crashes, slow starts, late lines and missed health answers

ASSUME TtsAssumption == MaxRetries \in Nat \ {0} /\ MaxTtsFaults \in Nat

VARIABLES
    procs,           \* the processes spawned: state, line (READY), exit, timer
    worker,          \* index into procs, or 0 for null
    workerReady, retryCount,
    startupResolve,  \* set while a start-up promise is open
    healthOn,        \* healthTimer
    checking,        \* "no", "asked", or "lost": the process asked has died
    synthesizing,    \* the shared flag
    busy,            \* the number of syntheses under way
    asked,           \* the number of syntheses begun
    torn,            \* a synthesis was left without an end
    overlapped,      \* two syntheses were under way at once
    stopped,         \* stopVoice was called
    pythonGone,      \* the interpreter of the virtual environment is missing
    ttsFaults

ttsVars == <<procs, worker, workerReady, retryCount, startupResolve, healthOn, checking,
             synthesizing, busy, asked, torn, overlapped, stopped, pythonGone, ttsFaults>>
envVars == <<stopped, pythonGone>>
flagVars == <<worker, workerReady, retryCount, startupResolve, healthOn>>
callVars == <<synthesizing, busy, asked, torn, overlapped>>

Started == [state |-> "loading", line |-> FALSE, exit |-> FALSE, timer |-> TRUE]
Live(p) == procs[p].state # "dead"
Serving == \E p \in DOMAIN procs : procs[p].state = "serving"

\* initVoice: the process is spawned, or the interpreter is missing.
TtsInit ==
    /\ pythonGone \in BOOLEAN /\ startupResolve = ~pythonGone
    /\ procs = (IF pythonGone THEN <<>> ELSE <<Started>>) /\ worker = Len(procs)
    /\ workerReady = FALSE /\ retryCount = 0 /\ healthOn = FALSE /\ checking = "no"
    /\ synthesizing = FALSE /\ busy = 0 /\ asked = 0 /\ torn = FALSE
    /\ overlapped = FALSE /\ stopped = FALSE /\ ttsFaults = 0

Fault == ttsFaults < MaxTtsFaults /\ ttsFaults' = ttsFaults + 1

-----------------------------------------------------------------------------
(* The process.                                                            *)

Set(p, field, value) == [procs EXCEPT ![p][field] = value]

\* The model is loaded: READY is written to stdout, then the port bound.
Loads(p) ==
    /\ procs[p].state = "loading"
    /\ procs' = [procs EXCEPT ![p].state = "binding", ![p].line = TRUE]
    /\ UNCHANGED <<flagVars, checking, callVars, envVars, ttsFaults>>

Binds(p) ==
    /\ procs[p].state = "binding"
    /\ procs' = Set(p, "state", "serving")
    /\ UNCHANGED <<flagVars, checking, callVars, envVars, ttsFaults>>

\* Its end, by itself or by SIGTERM; the event comes later, and a check or a
\* synthesis under way loses its connection.
Dies(p) ==
    /\ procs' = [procs EXCEPT ![p].state = "dead", ![p].exit = TRUE]
    /\ checking' = IF checking = "asked" THEN "lost" ELSE checking
    /\ UNCHANGED <<flagVars, callVars, envVars>>

Crashes(p) == procs[p].state \in {"loading", "binding", "serving"} /\ Dies(p) /\ Fault
Obeys(p) == procs[p].state = "killed" /\ Dies(p) /\ UNCHANGED ttsFaults

\* The virtual environment is removed, or rebuilt.
PythonGoes ==
    /\ ~pythonGone /\ Fault /\ pythonGone' = TRUE
    /\ UNCHANGED <<procs, flagVars, checking, callVars, stopped>>

\* SIGTERM
Killed(p) == IF p # 0 /\ Live(p) THEN Set(p, "state", "killed") ELSE procs

-----------------------------------------------------------------------------
(* The handlers of startWorker, in the name of process p.                  *)

\* spawn: worker and startupResolve now belong to the new process.
Spawn(ps) ==
    /\ procs' = Append(ps, Started)
    /\ worker' = Len(procs) + 1
    /\ startupResolve' = TRUE

\* spawn failed: nothing is retried.
SpawnError(p) ==
    /\ procs[p].state = "loading" /\ Fault
    /\ procs' = [procs EXCEPT ![p].state = "dead"]
    /\ workerReady' = FALSE /\ worker' = 0 /\ startupResolve' = FALSE
    /\ UNCHANGED <<retryCount, healthOn, checking, callVars, envVars>>

\* Now and then stdout is read after the exit event, or before the answer of a
\* check that has already failed.
Late(p) == checking = "lost" \/ ~(Live(p) \/ procs[p].exit)

HearReady(p) ==
    /\ procs[p].line
    /\ IF Late(p) THEN Fault ELSE UNCHANGED ttsFaults
    /\ procs' = Set(p, "line", FALSE)
    /\ workerReady' = TRUE /\ retryCount' = 0 /\ healthOn' = TRUE
    /\ startupResolve' = FALSE
    /\ UNCHANGED <<worker, checking, callVars, envVars>>

\* The exit event: an open start-up is rejected, anything else restarted.
HearExit(p) ==
    /\ procs[p].exit
    /\ LET ps == Set(p, "exit", FALSE)
           restart == ~startupResolve /\ retryCount < MaxRetries
       IN /\ retryCount' = IF restart THEN retryCount + 1 ELSE retryCount
          /\ \/ restart /\ ~pythonGone /\ Spawn(ps)
             \/ ~(restart /\ ~pythonGone) /\ procs' = ps /\ worker' = 0 /\ startupResolve' = FALSE
    /\ workerReady' = FALSE /\ healthOn' = FALSE
    /\ UNCHANGED <<checking, callVars, envVars, ttsFaults>>

\* stopWorker
StopWorker ==
    /\ healthOn' = FALSE
    /\ procs' = Killed(worker)
    /\ worker' = 0
    /\ workerReady' = IF worker # 0 THEN FALSE ELSE workerReady

\* The start-up timer of p is never cleared: it looks at the shared variables,
\* which may be those of a later process.  (It does nothing otherwise.)
StartTimeout(p) ==
    /\ procs[p].timer
    /\ ~workerReady /\ startupResolve /\ Fault
    /\ startupResolve' = FALSE /\ healthOn' = FALSE
    /\ procs' = [Killed(worker) EXCEPT ![p].timer = FALSE]
    /\ worker' = 0
    /\ UNCHANGED <<workerReady, retryCount, checking, callVars, envVars>>

\* stopVoice, when the daemon shuts down.  The exit event of the process it
\* stops finds no start-up open and starts another one.
StopVoice ==
    /\ ~stopped /\ stopped' = TRUE
    /\ StopWorker
    /\ UNCHANGED <<retryCount, startupResolve, checking, callVars, pythonGone, ttsFaults>>

-----------------------------------------------------------------------------
(* Health checks.                                                          *)

\* The process answers one request at a time: none is asked during a synthesis.
\* The first tick comes 30 seconds after READY: the port is bound by then.
HealthTick ==
    /\ healthOn /\ checking = "no" /\ ~synthesizing
    /\ \A p \in DOMAIN procs : procs[p].state # "binding"
    /\ checking' = IF Serving THEN "asked" ELSE "lost"
    /\ UNCHANGED <<procs, flagVars, callVars, envVars, ttsFaults>>

\* Mutant: a failed check replaces the process at once.
UnhealthySpawns == Spawn(Killed(worker)) /\ UNCHANGED <<retryCount, healthOn>>

\* The flag falls and the worker of the moment is stopped; its exit event
\* restarts it.
Unhealthy ==
    /\ procs' = Killed(worker)
    /\ UNCHANGED <<worker, retryCount, startupResolve, healthOn>>

HealthAnswer ==
    /\ checking # "no" /\ checking' = "no"
    /\ \/ checking = "asked" /\ UNCHANGED <<procs, flagVars, ttsFaults>>
       \/ ~workerReady /\ checking = "lost" /\ UNCHANGED <<procs, flagVars, ttsFaults>>
       \/ /\ workerReady /\ workerReady' = FALSE
          /\ \/ checking = "lost" /\ UNCHANGED ttsFaults
             \/ checking = "asked" /\ Fault
          /\ Unhealthy
    /\ UNCHANGED <<callVars, envVars>>

-----------------------------------------------------------------------------
(* Synthesis.                                                              *)

\* Refused at once unless the flag says ready.
Synthesize ==
    /\ workerReady /\ asked < MaxSpeech
    /\ synthesizing' = TRUE /\ busy' = busy + 1 /\ asked' = asked + 1
    /\ overlapped' = (overlapped \/ busy > 0)
    /\ UNCHANGED <<procs, flagVars, checking, torn, envVars, ttsFaults>>

\* The end of the answer, an error of the connection or the timeout.
SynthEnds ==
    /\ busy > 0
    /\ synthesizing' = FALSE /\ busy' = busy - 1
    /\ UNCHANGED <<procs, flagVars, checking, asked, torn, overlapped, envVars, ttsFaults>>

\* The connection breaks after the headers: no handler of the response listens
\* for that, and neither flag nor promise is ever settled.
SynthTorn ==
    /\ busy > 0 /\ ~Serving /\ Fault
    /\ busy' = busy - 1 /\ torn' = TRUE
    /\ UNCHANGED <<procs, flagVars, checking, synthesizing, asked, overlapped, envVars>>

-----------------------------------------------------------------------------
TtsProcess(p) == Loads(p) \/ Binds(p) \/ Obeys(p) \/ HearReady(p) \/ HearExit(p)
TtsStep(p) == TtsProcess(p) \/ Crashes(p) \/ SpawnError(p) \/ StartTimeout(p)

TtsNext ==
    \/ \E p \in DOMAIN procs : TtsStep(p)
    \/ HealthTick \/ HealthAnswer \/ StopVoice \/ PythonGoes
    \/ Synthesize \/ SynthEnds \/ SynthTorn

-----------------------------------------------------------------------------
(* One process owns the port: two are never alive at once, whatever crossed *)
(* (a late READY line, a stale start-up timer, a check of a dead process).  *)
OneProcess == \A p, q \in DOMAIN procs : Live(p) /\ Live(q) => p = q

(* Without overlapping syntheses the flag says whether one is under way, so *)
(* no check stops the process in the middle of one.                         *)
FlagIsTrue == (~overlapped /\ ~torn) => (synthesizing <=> busy > 0)

(* The extension does not stay ready without a process: a READY line that   *)
(* was read too late is corrected, as long as no torn answer and no endless *)
(* row of requests keeps the checks off and the extension was not stopped.  *)
ReadyIsTrue ==
    (workerReady /\ ~Serving) ~> (~workerReady \/ Serving \/ stopped \/ torn)

(* A process that had been ready and dies is replaced, whatever timers and   *)
(* checks of earlier processes do meanwhile.                                *)
LossIsRepaired ==
    \A p \in 1 .. MaxTtsFaults + 1 :
        (workerReady /\ worker = p /\ procs[p].state = "dead") ~> (Len(procs) > p \/ pythonGone)

(* Speech is served by one process, which is watched and replaced. *)
SpeechIsServed ==
    /\ OneProcess /\ FlagIsTrue /\ [][OneProcess' /\ FlagIsTrue']_ttsVars
    /\ ReadyIsTrue /\ LossIsRepaired
=============================================================================
