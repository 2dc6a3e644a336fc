----------------------------- MODULE PeerHeartbeat -----------------------------
(***************************************************************************)
(* The peer-heartbeat task: one status message to each peer per run, and   *)
(* the guards between a failed one and declaring the peer down (relay      *)
(* probe for mDNS hosts, quiet period, live ping).  Each probe is an       *)
(* await, during which the peer may come back or go.  A router answer of   *)
(* ok covers "queued": the SDK took the message for an absent peer.        *)
(***************************************************************************)
EXTENDS Naturals

CONSTANTS MdnsPeers, OtherPeers, MaxFlaps

HbPeers == MdnsPeers \cup OtherPeers

VARIABLES
    alive,      \* the peer's daemon answers
    traffic,    \* it sent a message of its own within the look-back window
    peerState,  \* _peerStates
    probe,      \* where run() is with this peer
    proof,      \* probes that failed in this run
    contact,    \* the peer itself answered in this run
    flaps

hbVars == <<alive, traffic, peerState, probe, proof, contact, flaps>>

HbInit ==
    /\ alive = [p \in HbPeers |-> TRUE]
    /\ traffic = [p \in HbPeers |-> FALSE]
    /\ peerState = [p \in HbPeers |-> "none"]
    /\ probe = [p \in HbPeers |-> "rest"]
    /\ proof = [p \in HbPeers |-> {}]
    /\ contact = [p \in HbPeers |-> FALSE]
    /\ flaps = 0

(* run() takes the peers one by one. *)
HeartbeatPeer(p) ==
    /\ \A q \in HbPeers : probe[q] = "rest"
    /\ probe' = [probe EXCEPT ![p] = "send"]
    /\ proof' = [proof EXCEPT ![p] = {}]
    /\ contact' = [contact EXCEPT ![p] = FALSE]
    /\ UNCHANGED <<alive, traffic, peerState, flaps>>

Verdict(p, s) ==
    /\ peerState' = [peerState EXCEPT ![p] = s]
    /\ probe' = [probe EXCEPT ![p] = "rest"]

NoVerdict(p) == probe' = [probe EXCEPT ![p] = "rest"] /\ UNCHANGED peerState

(* sendAgentMessage: delivered only by a peer that is alive, queued by the *)
(* SDK for any, and failed or thrown for any.                              *)
SendOk(p) ==
    /\ probe[p] = "send"
    /\ Verdict(p, "idle")
    /\ contact' \in {[contact EXCEPT ![p] = FALSE], [contact EXCEPT ![p] = alive[p]]}
    /\ UNCHANGED <<alive, traffic, proof, flaps>>

Failed(p, what) == proof' = [proof EXCEPT ![p] = @ \cup {what}]

\* Mutant: an mDNS host gets no relay probe.
SendFailedNoRelay(p) ==
    /\ probe[p] = "send"
    /\ Failed(p, "send")
    /\ probe' = [probe EXCEPT ![p] = "quiet"]
    /\ UNCHANGED <<alive, traffic, peerState, contact, flaps>>

SendFailed(p) ==
    /\ probe[p] = "send"
    /\ Failed(p, "send")
    /\ probe' = [probe EXCEPT ![p] = IF p \in MdnsPeers THEN "relay" ELSE "quiet"]
    /\ UNCHANGED <<alive, traffic, peerState, contact, flaps>>

(* sendAgentMessage throws (logging the send failed): the catch block goes *)
(* on to the quiet period, without the relay probe.                        *)
SendThrows(p) ==
    /\ probe[p] = "send"
    /\ Failed(p, "throw")
    /\ probe' = [probe EXCEPT ![p] = "quiet"]
    /\ UNCHANGED <<alive, traffic, peerState, contact, flaps>>

(* probeViaRelay: ok is again delivered or queued. *)
RelayProbe(p) ==
    /\ probe[p] = "relay"
    /\ \/ /\ Verdict(p, "local-dns-indeterminate")
          /\ contact' \in {contact, [contact EXCEPT ![p] = alive[p]]}
          /\ UNCHANGED proof
       \/ /\ Failed(p, "relay")
          /\ probe' = [probe EXCEPT ![p] = "quiet"]
          /\ UNCHANGED <<peerState, contact>>
    /\ UNCHANGED <<alive, traffic, flaps>>

(* getMessageCounts: a peer that sent nothing is left as it was; a         *)
(* database error counts as traffic.                                       *)
QuietCheck(p) ==
    /\ probe[p] = "quiet"
    /\ \/ ~traffic[p] /\ NoVerdict(p)
       \/ probe' = [probe EXCEPT ![p] = "ping"] /\ UNCHANGED peerState
    /\ UNCHANGED <<alive, traffic, proof, contact, flaps>>

DownState(p) == IF "relay" \in proof[p] THEN "unreachable" ELSE "unknown"

(* sendLivePing: /health of the peer itself, then updatePeerState and the  *)
(* rate-limited LAN scan, which only sets an address override.             *)
LivePing(p) ==
    /\ probe[p] = "ping"
    /\ \/ alive[p] /\ NoVerdict(p) /\ contact' = [contact EXCEPT ![p] = TRUE] /\ UNCHANGED proof
       \/ Verdict(p, DownState(p)) /\ Failed(p, "ping") /\ UNCHANGED contact
    /\ UNCHANGED <<alive, traffic, flaps>>

(* The peer goes or comes back; its messages are recent or age away. *)
PeerFlaps(p) ==
    /\ flaps < MaxFlaps
    /\ flaps' = flaps + 1
    /\ \/ alive' = [alive EXCEPT ![p] = ~@] /\ UNCHANGED traffic
       \/ traffic' = [traffic EXCEPT ![p] = ~@] /\ UNCHANGED alive
    /\ UNCHANGED <<peerState, probe, proof, contact>>

HbStep(p) ==
    \/ HeartbeatPeer(p) \/ SendOk(p) \/ SendFailed(p) \/ SendThrows(p)
    \/ RelayProbe(p) \/ QuietCheck(p) \/ LivePing(p)

HbNext == \E p \in HbPeers : HbStep(p) \/ PeerFlaps(p)

-----------------------------------------------------------------------------

(* A peer is declared down only after every probe of the run failed: the   *)
(* message, for an mDNS host the relay too unless the send threw, and the  *)
(* live ping; a peer that answered in the run is not declared down.        *)
DownNeedsEveryProbe ==
    [][\A p \in HbPeers :
         peerState'[p] # peerState[p] /\ peerState'[p] \in {"unknown", "unreachable"} =>
            /\ \/ proof'[p] = {"throw", "ping"}
               \/ proof'[p] = {"send", "ping"} \cup (IF p \in MdnsPeers THEN {"relay"} ELSE {})
            /\ ~contact'[p]]_hbVars
=============================================================================
