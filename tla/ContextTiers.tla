---------------------------- MODULE ContextTiers ----------------------------
(***************************************************************************)
(* The usage tiers of the context watchdog.  Each monitored session writes *)
(* its usage to a file with its session id; a tick of the watchdog reads   *)
(* the file, forgets the tiers it fired when the id changed, and injects   *)
(* one warning per tier passed and not yet fired.  The comms monitor is    *)
(* synchronous; the orchestrator monitor awaits every injection.           *)
(***************************************************************************)
EXTENDS Naturals

CONSTANTS
    Tiers,         \* the thresholds, as levels of usage
    MaxSwaps       \* deaths and replacements of the sessions

ASSUME TiersAssumption == Tiers \subseteq Nat /\ MaxSwaps \in Nat

Agents == {"comms", "orch"}
Usage == {0} \cup Tiers

VARIABLES
    live,      \* live[a]: the session that runs, 0 when none
    usedNow,   \* what its usage is
    ctxFile,   \* context-usage.json and context-usage-orch.json; id 0: missing or over an hour old
    tracked,   \* commsSessionId, orchSessionId
    fired,     \* commsFiredTiers, orchFiredTiers
    scan,      \* monitorOrchestrator between two awaits: the data it read and the tiers left
    told,      \* <<agent, about, tier>>: warnings delivered since the last death seen
    swaps

tierVars == <<live, usedNow, ctxFile, tracked, fired, scan, told, swaps>>
worldVars == <<live, usedNow, ctxFile, swaps>>

NoScan == [on |-> FALSE, id |-> 0, used |-> 0, left |-> {}]

TiersInit ==
    /\ live = [a \in Agents |-> 1] /\ usedNow = [a \in Agents |-> 0]
    /\ ctxFile = [a \in Agents |-> [id |-> 0, used |-> 0]]
    /\ tracked = [a \in Agents |-> 0] /\ fired = [a \in Agents |-> {}]
    /\ scan = NoScan /\ told = {} /\ swaps = 0

-----------------------------------------------------------------------------
(* The statusline script of the session that runs (external). *)
StatusLine(a, u) ==
    /\ live[a] # 0 /\ u >= usedNow[a]
    /\ usedNow' = [usedNow EXCEPT ![a] = u]
    /\ ctxFile' = [ctxFile EXCEPT ![a] = [id |-> live[a], used |-> u]]
    /\ UNCHANGED <<live, tracked, fired, scan, told, swaps>>

(* A session ends; the next one has the next id and writes no file yet. *)
SessionSwaps(a) ==
    /\ swaps < MaxSwaps /\ swaps' = swaps + 1
    /\ \/ live[a] # 0 /\ live' = [live EXCEPT ![a] = 0]
       \/ live[a] = 0 /\ live' = [live EXCEPT ![a] = swaps + 2]
    /\ usedNow' = [usedNow EXCEPT ![a] = 0]
    /\ UNCHANGED <<ctxFile, tracked, fired, scan, told>>

(* readContextFile returns null after an hour without a write. *)
FileGoesStale(a) ==
    /\ ctxFile[a].id # 0 /\ live[a] = 0
    /\ ctxFile' = [ctxFile EXCEPT ![a] = [id |-> 0, used |-> 0]]
    /\ UNCHANGED <<live, usedNow, tracked, fired, scan, told, swaps>>

-----------------------------------------------------------------------------
\* Mutant: the tracked session is not compared.
KnownTiersNever(a) == {}

(* A session id that is not the tracked one resets the fired tiers. *)
KnownTiers(a) == IF ctxFile[a].id = tracked[a] THEN fired[a] ELSE {}

DueTiers(a) == {t \in Tiers : t <= ctxFile[a].used} \ KnownTiers(a)

(* Only a delivered tier counts as fired. *)
FiredAfter(a, injected) == KnownTiers(a) \cup injected

(* monitorComms: every due tier is tried, a failed one at the next tick    *)
(* again.                                                                  *)
MonitorComms(injected) ==
    /\ ctxFile["comms"].id # 0
    /\ injected \subseteq DueTiers("comms")
    /\ live["comms"] = 0 => injected = {}
    /\ tracked' = [tracked EXCEPT !["comms"] = ctxFile["comms"].id]
    /\ fired' = [fired EXCEPT !["comms"] = FiredAfter("comms", injected)]
    /\ told' = told \cup {<<"comms", ctxFile["comms"].id, t>> : t \in injected}
    /\ UNCHANGED scan /\ UNCHANGED worldVars

(* monitorOrchestrator with no orchestrator: the tracking is reset. *)
OrchGone ==
    /\ live["orch"] = 0
    /\ tracked' = [tracked EXCEPT !["orch"] = 0]
    /\ fired' = [fired EXCEPT !["orch"] = {}]
    /\ told' = {w \in told : w[1] # "orch"}

OrchScanStarts ==
    /\ ~scan.on
    /\ \/ OrchGone /\ UNCHANGED scan
       \/ /\ live["orch"] # 0 /\ ctxFile["orch"].id # 0
          /\ tracked' = [tracked EXCEPT !["orch"] = ctxFile["orch"].id]
          /\ fired' = [fired EXCEPT !["orch"] = KnownTiers("orch")]
          /\ scan' = [on |-> TRUE, id |-> ctxFile["orch"].id, used |-> ctxFile["orch"].used,
                      left |-> DueTiers("orch")]
          /\ UNCHANGED told
    /\ UNCHANGED worldVars

(* One tier of the loop: the injection went to whatever session is there   *)
(* when it is made.                                                        *)
OrchTier(ok) ==
    /\ scan.on /\ scan.left # {}
    /\ ok => live["orch"] # 0
    /\ \E t \in scan.left :
          /\ \A x \in scan.left : t <= x
          /\ scan' = [scan EXCEPT !.left = @ \ {t}]
          /\ fired' = IF ok THEN [fired EXCEPT !["orch"] = @ \cup {t}] ELSE fired
          /\ told' = IF ok THEN told \cup {<<"orch", scan.id, t>>} ELSE told
    /\ UNCHANGED <<tracked>> /\ UNCHANGED worldVars

OrchScanEnds ==
    /\ scan.on /\ scan.left = {}
    /\ scan' = NoScan
    /\ UNCHANGED <<tracked, fired, told>> /\ UNCHANGED worldVars

TiersNext ==
    \/ \E a \in Agents : SessionSwaps(a) \/ FileGoesStale(a) \/ \E u \in Usage : StatusLine(a, u)
    \/ \E injected \in SUBSET Tiers : MonitorComms(injected)
    \/ \E ok \in BOOLEAN : OrchTier(ok)
    \/ OrchScanStarts \/ OrchScanEnds

(* The watchdog keeps ticking and injections do not fail for ever. *)
CommsTickSucceeds == MonitorComms(DueTiers("comms"))

-----------------------------------------------------------------------------
(* Each tier is told once per session: no retry, no change of session and  *)
(* no overlap of the awaited injections with a death tells it twice.       *)
TierOncePerSession ==
    [][\A a \in Agents, t \in Tiers :
          t \in fired'[a] /\ (tracked'[a] = tracked[a] => t \notin fired[a])
              => <<a, tracked'[a], t>> \notin told]_tierVars

(* A session whose usage has passed a tier is told so before it ends, also *)
(* when injections failed before and when earlier sessions were told.      *)
HighUsageIsTold ==
    \A a \in Agents, t \in Tiers :
        (usedNow[a] >= t) ~> (<<a, live[a], t>> \in told \/ usedNow[a] < t)

(* A session hears of every tier it passes, and once. *)
TiersAreTold == TierOncePerSession /\ HighUsageIsTold
=============================================================================
