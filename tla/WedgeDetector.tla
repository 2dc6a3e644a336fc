---------------------------- MODULE WedgeDetector ----------------------------
(***************************************************************************)
(* The wedge detector of the context watchdog: three signals that a live   *)
(* orchestrator is stuck, their exemptions and fail-safes, the debounce,   *)
(* the restart with the re-queue of frozen tasks (gate 2) and the restart  *)
(* cap (gate 3).  updated_at is kept as a rank among the tasks and the     *)
(* value the detector remembers; 0 is null.                                *)
(***************************************************************************)
EXTENDS Naturals, FiniteSets

CONSTANTS
    WTasks,      \* orchestrator tasks
    Debounce,    \* WEDGE_DEBOUNCE_THRESHOLD
    Cap,         \* WEDGE_RESTART_CAP
    MaxUpsets    \* deaths and garbled panes

ASSUME WedgeAssumption == Debounce \in Nat \ {0} /\ Cap \in Nat \ {0}

VARIABLES
    orchAlive,
    status,     \* tasks.status
    stamp,      \* rank of updated_at of claimed tasks, and of lastWedgeIpMaxUpdatedAt
    stale,      \* claimed tasks with updated_at before the cutoff
    quiet,      \* last_activity before the cutoff
    fresh,      \* started_at after the cutoff
    worker,     \* "running", "recent" (completed within the grace) or "none"
    pane,       \* the pane shows the feedback prompt or literal tool XML
    signals,    \* consecutiveWedgeSignals
    count,      \* wedgeRestartCount
    acted,      \* what the last step restarted or failed
    blind,      \* the last step was a tick with a failed query
    seen,       \* signalling ticks since a clear one or a restart
    replaced,   \* the session died or was replaced since a clear tick
    upsets

wedgeVars == <<orchAlive, status, stamp, stale, quiet, fresh, worker, pane, signals, count,
               acted, blind, seen, replaced, upsets>>
orchRow == <<orchAlive, quiet, fresh, pane>>

Stamped == WTasks \cup {"last"}
Claimed == {"assigned", "in_progress"}

(* Ranks say which stamps are equal and which are older, nothing else. *)
Ranked(f) == LET used == {f[x] : x \in Stamped} \ {0} IN
    [x \in Stamped |-> IF f[x] = 0 THEN 0 ELSE 1 + Cardinality({v \in used : v < f[x]})]

Now == Cardinality(WTasks) + 2

(* The stamps after the tasks S were updated; only those of claimed tasks  *)
(* matter to the detector.                                                 *)
Stamps(S, last) ==
    Ranked([x \in Stamped |->
        CASE x = "last" -> last
          [] x # "last" /\ status'[x] \notin Claimed -> 0
          [] x # "last" /\ status'[x] \in Claimed -> IF x \in S THEN Now ELSE stamp[x]])

WedgeInit ==
    /\ orchAlive = TRUE /\ quiet = FALSE /\ fresh = TRUE /\ pane = FALSE
    /\ status = [t \in WTasks |-> "pending"]
    /\ stamp = [x \in Stamped |-> 0]
    /\ stale = {} /\ worker = "none"
    /\ signals = 0 /\ count = 0 /\ acted = "none" /\ blind = FALSE
    /\ seen = 0 /\ replaced = FALSE
    /\ upsets = 0

-----------------------------------------------------------------------------
(* The signals.  err: the queries that fail in this tick. *)

In(s) == {t \in WTasks : status[t] = s}

(* MAX(updated_at) of a population is older than the cutoff. *)
Frozen(s) == In(s) # {} /\ In(s) \subseteq stale

MaxStamp(s) == CHOOSE r \in {stamp[t] : t \in In(s)} : \A t \in In(s) : stamp[t] <= r

(* The older of the two frozen maxima. *)
FrozenSince == CHOOSE r \in {MaxStamp(s) : s \in {x \in Claimed : Frozen(x)}} :
                  \A s \in {x \in Claimed : Frozen(x)} : r <= MaxStamp(s)

(* Signal (i), with the synthesis grace and the running-worker exemption;  *)
(* an exemption that cannot be queried does not apply.                     *)
SignalI(err) ==
    /\ "tasks" \notin err
    /\ \E s \in Claimed : Frozen(s)
    /\ worker = "none" \/ "workers" \in err

\* Mutant: an empty queue is no excuse.
SignalIINoExcuse(err) == "agents" \notin err /\ quiet /\ ~fresh /\ worker # "running"

(* Signal (ii): not for a session younger than the cutoff, not while a     *)
(* worker runs, not with an empty queue.                                   *)
SignalII(err) ==
    /\ {"agents", "workers"} \cap err = {}
    /\ quiet /\ ~fresh /\ worker # "running"
    /\ "open" \in err \/ \E t \in WTasks : status[t] \in Claimed \cup {"pending"}

SignalIII(err) == "pane" \notin err /\ pane

-----------------------------------------------------------------------------

(* Gates 2 and 3 pick the tasks that are stale themselves. *)
FrozenTasks == {t \in stale : status[t] \in Claimed}

(* restartWedgedOrchestrator: the reset is in a try block of its own, the  *)
(* spawn may fail.                                                         *)
RestartWedged(err, last) ==
    LET reset == IF "reset" \in err THEN {} ELSE FrozenTasks IN
    /\ status' = [t \in WTasks |-> IF t \in reset THEN "pending" ELSE status[t]]
    /\ stamp' = Stamps(reset, last)
    /\ stale' = stale \ reset
    /\ pane' = FALSE
    /\ \/ orchAlive' = TRUE /\ quiet' = FALSE /\ fresh' = TRUE
       \/ orchAlive' = FALSE /\ UNCHANGED <<quiet, fresh>>
    /\ signals' = 0 /\ acted' = "restart"

(* The same frozen stamp as at the last restart is one more of a row. *)
Recurring == IF stamp["last"] = FrozenSince THEN count + 1 ELSE 1

(* The update is in a try block: when it fails the tasks stay frozen. *)
Failed(err) ==
    LET failed == IF "reset" \in err THEN {} ELSE FrozenTasks IN
    /\ status' = [t \in WTasks |-> IF t \in failed THEN "failed" ELSE status[t]]
    /\ stamp' = Stamps(failed, 0)
    /\ stale' = stale \ failed

(* Gate 3: the frozen tasks fail, the counter starts anew, no restart. *)
FailFrozen(err) ==
    /\ Failed(err)
    /\ count' = 0 /\ acted' = "cap"
    /\ UNCHANGED orchRow

Act(err) ==
    \/ /\ SignalI(err)
       /\ \/ Recurring >= Cap /\ FailFrozen(err) /\ UNCHANGED signals
          \/ Recurring < Cap /\ count' = Recurring /\ RestartWedged(err, FrozenSince)
    \/ ~SignalI(err) /\ RestartWedged(err, stamp["last"]) /\ UNCHANGED count

NoAction == acted' = "none" /\ UNCHANGED <<status, stamp, stale, count>> /\ UNCHANGED orchRow

(* No signal. *)
ClearTick == signals' = 0 /\ seen' = 0 /\ replaced' = FALSE /\ NoAction

(* Signals (i) and (ii) wait for confirmation by the next tick. *)
SlowSignal(err) ==
    /\ UNCHANGED replaced
    /\ \/ signals + 1 < Debounce /\ signals' = signals + 1 /\ NoAction
       \/ signals + 1 >= Debounce /\ Act(err)
    /\ seen' = IF acted' = "restart" THEN 0 ELSE IF seen < Debounce THEN seen + 1 ELSE seen

(* monitorOrchestratorWedge; a dead orchestrator leaves every counter as   *)
(* it is.  (signals is only told apart up to the threshold.)               *)
WedgeTick(err) ==
    /\ orchAlive
    /\ \/ ~SignalI(err) /\ ~SignalII(err) /\ ~SignalIII(err) /\ ClearTick
       \/ (SignalI(err) \/ SignalII(err)) /\ ~SignalIII(err) /\ SlowSignal(err)
       \/ SignalIII(err) /\ Act(err) /\ UNCHANGED <<seen, replaced>>
    /\ blind' = (err # {})
    /\ UNCHANGED <<worker, upsets>>

-----------------------------------------------------------------------------
(* The orchestrator, its workers and the clock (external). *)

Upset == upsets < MaxUpsets /\ upsets' = upsets + 1
Untouched == UNCHANGED <<signals, count>> /\ acted' = "none" /\ blind' = FALSE

OrchWorks(t, s) ==
    /\ orchAlive
    /\ \/ status[t] = "pending" /\ s = "assigned"
       \/ status[t] = "assigned" /\ s = "in_progress"
       \/ status[t] = "in_progress" /\ s \in {"in_progress", "completed"}
    /\ status' = [status EXCEPT ![t] = s]
    /\ stamp' = Stamps({t}, stamp["last"]) /\ stale' = stale \ {t}
    /\ quiet' = FALSE
    /\ UNCHANGED <<orchAlive, fresh, worker, pane, seen, replaced, upsets>> /\ Untouched

WorkerBecomes(w) ==
    /\ worker # w
    /\ worker' = w
    /\ UNCHANGED <<status, stamp, stale, seen, replaced, upsets>> /\ UNCHANGED orchRow /\ Untouched

OrchUpset ==
    /\ Upset
    /\ \/ orchAlive /\ orchAlive' = FALSE /\ replaced' = TRUE /\ UNCHANGED pane
       \/ orchAlive /\ pane' = TRUE /\ UNCHANGED <<orchAlive, replaced>>
    /\ UNCHANGED <<status, stamp, stale, quiet, fresh, worker, seen>> /\ Untouched

(* Somebody else spawns: last_activity is inherited. *)
OrchSpawned ==
    /\ ~orchAlive
    /\ orchAlive' = TRUE /\ fresh' = TRUE /\ pane' = FALSE
    /\ replaced' = TRUE
    /\ UNCHANGED <<status, stamp, stale, quiet, worker, seen, upsets>> /\ Untouched

(* The cutoff moves on: the oldest stamps fall behind it first. *)
CutoffMoves ==
    /\ \/ /\ \E r \in {stamp[t] : t \in WTasks \ stale} \ {0} :
                /\ \A t \in WTasks \ stale : stamp[t] = 0 \/ r <= stamp[t]
                /\ stale' = stale \cup {t \in WTasks : stamp[t] = r}
          /\ UNCHANGED <<quiet, fresh>>
       \/ ~quiet /\ ~fresh /\ quiet' = TRUE /\ UNCHANGED <<stale, fresh>>
       \/ fresh /\ fresh' = FALSE /\ UNCHANGED <<stale, quiet>>
    /\ UNCHANGED <<orchAlive, status, stamp, worker, pane, seen, replaced, upsets>> /\ Untouched

Queries == {"tasks", "workers", "agents", "open", "pane", "reset"}

WedgeNext ==
    \/ \E err \in {{}} \cup {{q} : q \in Queries} : WedgeTick(err)
    \/ \E t \in WTasks, s \in Claimed \cup {"completed"} : OrchWorks(t, s)
    \/ \E w \in {"none", "running", "recent"} : WorkerBecomes(w)
    \/ OrchUpset \/ OrchSpawned \/ CutoffMoves

(* The watchdog runs every few minutes and its queries do not fail for ever.*)
WedgeProgress == WedgeTick({})

-----------------------------------------------------------------------------

(* The detector kills a session only with a garbled pane, or with open     *)
(* work and no running worker, unless a query failed and it failed safe.   *)
RestartIsEarned ==
    [][acted' = "restart" =>
          pane \/ blind' \/ (worker # "running" /\ \E t \in WTasks : status[t] \in Claimed \cup {"pending"})
      ]_wedgeVars

(* The blast radius: the detector re-queues or fails only tasks whose own  *)
(* updated_at is older than the cutoff.                                    *)
HealthyTaskSpared ==
    [][acted' # "none" => \A t \in WTasks \ stale : status'[t] = status[t]]_wedgeVars

(* Without a garbled pane a session is restarted on the second signalling  *)
(* tick in a row at the earliest, unless it replaced a session in between. *)
RestartIsConfirmed ==
    [][acted' = "restart" => pane \/ replaced \/ seen + 1 >= Debounce]_wedgeVars

(* When the queries stop failing, a frozen population does not stay frozen *)
(* under a live orchestrator with no worker to wait for: it is re-queued   *)
(* or failed.  (A failing query counts as a clear tick and resets the      *)
(* debounce.)                                                              *)
FrozenEnds ==
    <>[]~blind =>
        \A s \in Claimed :
            (orchAlive /\ Frozen(s) /\ worker = "none") ~> (~Frozen(s) \/ ~orchAlive \/ worker # "none")

(* The detector acts on what is wedged and on nothing else: a kill is      *)
(* earned and confirmed, it spares healthy tasks, and a frozen population  *)
(* does not stay frozen.                                                   *)
WedgeIsJudged == RestartIsEarned /\ RestartIsConfirmed /\ HealthyTaskSpared /\ FrozenEnds
=============================================================================
