---------------------------- MODULE SelfWatchdog ----------------------------
(***************************************************************************)
(* The self-watchdog: when no real work was recorded for long enough it    *)
(* sends a warning or an alert over three channels, at most one per level  *)
(* and deduplication window.  The window is read before the channels are   *)
(* awaited and stored, as a whole, after; a run whose handler outlived the *)
(* scheduler's timeout can overlap the next one.                           *)
(***************************************************************************)
EXTENDS Naturals, FiniteSets

CONSTANTS WdRuns, MaxAlerts

Levels == {"warn", "alert"}
Channels == {"telegram", "tmux", "a2a"}

VARIABLES
    activity,   \* age of MAX over the activity tables: "none", "young", "warn", "alert"
    wdState,    \* feature_state: per level "none", "inside" or "outside" the window
    wdRun,      \* the runs: "off", or the level they send and the state they read
    sent,       \* per level: alerts sent in the window that is open
    crossedRuns,\* two runs overlapped, or the state could not be stored
    alerts      \* runs that sent

wdVars == <<activity, wdState, wdRun, sent, crossedRuns, alerts>>

Off == [on |-> FALSE, level |-> "warn", state |-> [l \in Levels |-> "none"], reached |-> {}, left |-> {}]

WdInit ==
    /\ activity = "none"
    /\ wdState = [l \in Levels |-> "none"]
    /\ wdRun = [r \in WdRuns |-> Off]
    /\ sent = [l \in Levels |-> 0] /\ crossedRuns = FALSE /\ alerts = 0

(* Work is recorded, or time goes by (external). *)
ActivityChanges(a) ==
    /\ a \in {"young", "warn", "alert"} /\ a # activity
    /\ a = "alert" => activity = "warn"
    /\ a = "warn" => activity = "young"
    /\ activity' = a
    /\ UNCHANGED <<wdState, wdRun, sent, crossedRuns, alerts>>

(* The window of a level, an hour, ends; not during the seconds a run takes.*)
WindowEnds(l) ==
    /\ wdState[l] = "inside"
    /\ \A r \in WdRuns : wdRun[r].on => wdRun[r].level # l
    /\ wdState' = [wdState EXCEPT ![l] = "outside"]
    /\ wdRun' = [r \in WdRuns |-> [wdRun[r] EXCEPT !.state[l] = IF @ = "inside" THEN "outside" ELSE @]]
    /\ sent' = [sent EXCEPT ![l] = 0]
    /\ UNCHANGED <<activity, crossedRuns, alerts>>

\* Mutant: no window.
SuppressedNever(l) == FALSE

(* The same level fired within the window. *)
Suppressed(l) == wdState[l] = "inside"

(* run() and fireSelfWatchdogAlert up to the first channel; no activity at *)
(* all is no evidence.                                                     *)
WatchdogFires(r) ==
    /\ ~wdRun[r].on /\ alerts < MaxAlerts
    /\ activity \in Levels /\ ~Suppressed(activity)
    /\ wdRun' = [wdRun EXCEPT ![r] = [on |-> TRUE, level |-> activity, state |-> wdState,
                                      reached |-> {}, left |-> Channels]]
    /\ crossedRuns' = (crossedRuns \/ \E x \in WdRuns \ {r} : wdRun[x].on)
    /\ alerts' = alerts + 1
    /\ UNCHANGED <<activity, wdState, sent>>

(* A channel answers or fails, each in its own try block, in order. *)
ChannelEnds(r, ok) ==
    /\ wdRun[r].on /\ wdRun[r].left # {}
    /\ LET c == CHOOSE c \in wdRun[r].left :
                   \/ c = "telegram"
                   \/ c = "tmux" /\ "telegram" \notin wdRun[r].left
                   \/ wdRun[r].left = {"a2a"}
       IN wdRun' = [wdRun EXCEPT ![r].left = @ \ {c}, ![r].reached = IF ok THEN @ \cup {c} ELSE @]
    /\ sent' = IF ok /\ wdRun[r].reached = {} THEN [sent EXCEPT ![wdRun[r].level] = @ + 1] ELSE sent
    /\ UNCHANGED <<activity, wdState, crossedRuns, alerts>>

(* writeDedupState: what was read, with this level's stamp; also when no   *)
(* channel was reached.                                                    *)
StateStored(r, ok) ==
    /\ wdRun[r].on /\ wdRun[r].left = {}
    /\ wdRun' = [wdRun EXCEPT ![r] = Off]
    /\ wdState' = IF ok THEN [wdRun[r].state EXCEPT ![wdRun[r].level] = "inside"] ELSE wdState
    /\ crossedRuns' = (crossedRuns \/ ~ok)
    /\ UNCHANGED <<activity, sent, alerts>>

WdNext ==
    \/ \E a \in {"young", "warn", "alert"} : ActivityChanges(a)
    \/ \E l \in Levels : WindowEnds(l)
    \/ \E r \in WdRuns : WatchdogFires(r) \/ \E ok \in BOOLEAN : ChannelEnds(r, ok) \/ StateStored(r, ok)

WdProgress(r) == WatchdogFires(r) \/ (\E ok \in BOOLEAN : ChannelEnds(r, ok)) \/ StateStored(r, TRUE)

-----------------------------------------------------------------------------
(* One alert per level and window, over any number of ticks and also when  *)
(* the level went up and down between, unless runs overlapped or the state *)
(* could not be stored.                                                    *)
OneAlertPerWindow == crossedRuns \/ \A l \in Levels : sent[l] <= 1

(* A daemon idle beyond the alert threshold raises the alert even if the   *)
(* warning was sent a moment ago: the levels do not suppress each other.   *)
ZombieIsReported ==
    (activity = "alert" /\ wdState["alert"] # "inside") ~>
        (activity # "alert" \/ wdState["alert"] = "inside" \/ alerts = MaxAlerts)

(* An idle daemon is reported, once per level and window. *)
AlertsAreSent ==
    OneAlertPerWindow /\ [][OneAlertPerWindow']_wdVars /\ ZombieIsReported
=============================================================================
