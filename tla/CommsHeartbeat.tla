--------------------------- MODULE CommsHeartbeat ---------------------------
(***************************************************************************)
(* The comms heartbeat: workers that finished and were not acknowledged    *)
(* are counted in one nudge to the comms session; when the injection       *)
(* worked those workers, and no others, are acknowledged.  When the        *)
(* session is seen back the pending messages are flushed.                  *)
(***************************************************************************)
EXTENDS Naturals, FiniteSets

CONSTANTS HbWorkers, MaxCommsSwaps, MaxHbRestarts

VARIABLES
    finished,    \* agents with status completed or failed
    hbAcked,     \* agents with acknowledged_at
    nudged,      \* workers counted in a nudge the session got
    batch,       \* the workers of the nudge being injected
    nudging,     \* run() waits for injectMessage
    commsUp,
    prevAlive,   \* _prevCommsAlive
    awaySeen,    \* the last tick found the session away
    stranded,    \* messages that came while the session was away
    commsSwaps,
    hbRestarts

hbVars == <<finished, hbAcked, nudged, batch, nudging, commsUp, prevAlive, awaySeen, stranded, commsSwaps, hbRestarts>>

HbInit ==
    /\ finished = {} /\ hbAcked = {} /\ nudged = {} /\ batch = {}
    /\ nudging = FALSE /\ commsUp = TRUE /\ prevAlive = FALSE /\ awaySeen = FALSE /\ stranded = FALSE
    /\ commsSwaps = 0 /\ hbRestarts = 0

WorkerFinishes(w) ==
    /\ w \notin finished
    /\ finished' = finished \cup {w}
    /\ UNCHANGED <<hbAcked, nudged, batch, nudging, commsUp, prevAlive, awaySeen, stranded, commsSwaps, hbRestarts>>

PendingWorkers == finished \ hbAcked

(* _prevCommsAlive after a tick. *)
AliveSeen == commsUp

(* run() up to the injection. *)
HeartbeatTick ==
    /\ ~nudging
    /\ stranded' = (stranded /\ ~(commsUp /\ ~prevAlive))
    /\ prevAlive' = AliveSeen /\ awaySeen' = ~commsUp
    /\ \/ /\ commsUp /\ PendingWorkers # {}
          /\ batch' = PendingWorkers /\ nudging' = TRUE
       \/ (~commsUp \/ PendingWorkers = {}) /\ UNCHANGED <<batch, nudging>>
    /\ UNCHANGED <<finished, hbAcked, nudged, commsUp, commsSwaps, hbRestarts>>

\* Mutant: whatever is pending after the injection is acknowledged.
AcknowledgedAll == PendingWorkers

(* acknowledgeWorkers(ids). *)
Acknowledged == batch

InjectionEnds(ok) ==
    /\ nudging
    /\ ok => commsUp
    /\ nudging' = FALSE /\ batch' = {}
    /\ nudged' = IF ok THEN nudged \cup batch ELSE nudged
    /\ hbAcked' = IF ok THEN hbAcked \cup Acknowledged ELSE hbAcked
    /\ UNCHANGED <<finished, commsUp, prevAlive, awaySeen, stranded, commsSwaps, hbRestarts>>

(* The session goes and comes (external); away, relay messages pile up. *)
CommsSwaps ==
    /\ commsSwaps < MaxCommsSwaps /\ commsSwaps' = commsSwaps + 1
    /\ commsUp' = ~commsUp
    /\ stranded' = (stranded \/ commsUp)
    /\ UNCHANGED <<finished, hbAcked, nudged, batch, nudging, prevAlive, awaySeen, hbRestarts>>

(* The nudge may have been typed, and not been acknowledged, before. *)
HbRestart ==
    /\ hbRestarts < MaxHbRestarts /\ hbRestarts' = hbRestarts + 1
    /\ prevAlive' = FALSE /\ nudging' = FALSE /\ batch' = {}
    /\ nudged' \in {nudged, nudged \cup batch}
    /\ UNCHANGED <<finished, hbAcked, commsUp, awaySeen, stranded, commsSwaps>>

HbNext ==
    \/ \E w \in HbWorkers : WorkerFinishes(w)
    \/ \E ok \in BOOLEAN : InjectionEnds(ok)
    \/ HeartbeatTick \/ CommsSwaps \/ HbRestart

-----------------------------------------------------------------------------
(* No worker is acknowledged, and so dropped from the heartbeat for good,  *)
(* unless a nudge that counted it reached the session: a worker that ends  *)
(* while a nudge is injected waits for the next one.                       *)
AcknowledgedWasNudged == hbAcked \subseteq nudged

(* A finished worker is acknowledged in the end, if the comms session      *)
(* comes back to stay and injections do not fail for ever.                 *)
FinishedIsAcknowledged ==
    <>[]commsUp => \A w \in HbWorkers : (w \in finished) ~> (w \in hbAcked)

(* Messages stranded by an absence that a tick has seen are flushed when   *)
(* the session is back.                                                    *)
ReturnIsFlushed ==
    (stranded /\ awaySeen /\ commsUp) ~> (~stranded \/ ~commsUp)

(* The heartbeat loses nothing: a worker leaves it only when a nudge that  *)
(* counted it arrived, each leaves it in the end, and what an absence      *)
(* stranded is flushed.                                                    *)
HeartbeatReaches == 
    /\ AcknowledgedWasNudged /\ [][AcknowledgedWasNudged']_hbVars
    /\ FinishedIsAcknowledged /\ ReturnIsFlushed
=============================================================================
