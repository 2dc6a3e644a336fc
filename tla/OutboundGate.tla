---------------------------- MODULE OutboundGate ----------------------------
(***************************************************************************)
(* Outbound messages: POST /api/send, the channel router, the approval     *)
(* gate in front of every adapter, the approval card, the human's taps and *)
(* the decision API, timeouts, and the sweep at the start of the daemon.   *)
(* The start-up code that registers the gate and the card delivery, sweeps *)
(* and records recipients is not part of the repository; it is modelled    *)
(* from the exports it uses.                                               *)
(***************************************************************************)
EXTENDS Naturals

CONSTANTS
    Requests,       \* POST /api/send
    Sends,          \* a request for one channel each
    RequestOf,
    PolicyOf,       \* approval_policies[channel].require_approval_for, or "none"
    RecipientsOf,   \* metadata.recipients
    MaxGateCrashes, MaxTaps

Policies == {"none", "all", "first_time_recipient", "external_only", "never", "unrecognized"}

ASSUME GateAssumption == /\ PolicyOf \in [Sends -> Policies]
                         /\ MaxGateCrashes \in Nat /\ MaxTaps \in Nat

VARIABLES
    stage,      \* of a send: new, gated, sending, sent, failed, refused, or gone with the process
    decision,   \* approval_decisions.decision, "none" without a row
    gates,      \* _pendingGates
    card,       \* the approval card: none, under way, seen by the human (perhaps not yet answered)
    known,      \* agent_sent_recipients
    notice,     \* sends whose failure was reported to comms
    answered,   \* what the human tapped while the gate was open
    gateUp,     \* the daemon runs
    gateCrashes, taps

gateVars == <<stage, decision, gates, card, known, notice, answered, gateUp, gateCrashes, taps>>
gateBounds == <<gateCrashes, taps>>

GateInit ==
    /\ stage = [s \in Sends |-> "new"] /\ decision = [s \in Sends |-> "none"]
    /\ gates = {} /\ card = [s \in Sends |-> "none"] /\ known = {} /\ notice = {}
    /\ answered = [s \in Sends |-> "none"]
    /\ gateUp = TRUE /\ gateCrashes = 0 /\ taps = 0

-----------------------------------------------------------------------------
(* normalizeApprovalFor: what is not recognized counts as "all". *)
NormalizeApprovalFor(p) == IF p = "unrecognized" THEN "all" ELSE p

(* evaluateRequirement: the sender's domain is not known, so external_only *)
(* gates everything; an empty recipient list has no first-time recipient.  *)
NeedsApproval(s) == LET p == NormalizeApprovalFor(PolicyOf[s]) IN
    \/ p \in {"all", "external_only"}
    \/ p = "first_time_recipient" /\ ~(RecipientsOf[s] \subseteq known)

(* routeMessage starts every channel of the request in one turn.  A send   *)
(* that passes without a human leaves an audit row unless its channel has  *)
(* no policy; a gated one leaves the pending row first, then the promise   *)
(* with its timeout, then the card.  A gate that throws on writing its row *)
(* refuses.                                                                *)
RouteMessage(q) ==
    LET mine == {s \in Sends : RequestOf[s] = q}
        gated == {s \in mine : NeedsApproval(s)}
    IN
    /\ gateUp /\ \A s \in mine : stage[s] = "new"
    /\ \E thrown \in SUBSET {s \in mine : PolicyOf[s] # "none"} :
          /\ stage' = [s \in Sends |-> CASE s \notin mine -> stage[s]
                                          [] s \in thrown -> "refused"
                                          [] s \in gated \ thrown -> "gated"
                                          [] s \in mine \ (gated \cup thrown) -> "sending"]
          /\ decision' = [s \in Sends |->
                IF s \notin mine \ thrown \/ PolicyOf[s] = "none" THEN decision[s]
                ELSE IF s \in gated THEN "pending" ELSE "approved"]
          /\ gates' = gates \cup (gated \ thrown)
          /\ card' = [s \in Sends |-> IF s \in gated \ thrown THEN "underway" ELSE card[s]]
    /\ UNCHANGED <<known, notice, answered, gateUp>> /\ UNCHANGED gateBounds

-----------------------------------------------------------------------------
(* UPDATE ... WHERE approval_id = ? AND decided_at IS NULL. *)
Decide(s, d) == decision' = [decision EXCEPT ![s] = IF @ = "pending" THEN d ELSE @]

(* The gate's promise: the first resolution counts, and the message is     *)
(* handed to the adapter or aborted in the same turn.                      *)
Resolve(s, approved) ==
    /\ gates' = gates \ {s}
    /\ stage' = [stage EXCEPT ![s] = IF approved THEN "sending" ELSE "refused"]

(* The human sees the card, even if the daemon never hears of it. *)
CardSeen(s) ==
    /\ card[s] = "underway"
    /\ card' = [card EXCEPT ![s] = "seen"]
    /\ UNCHANGED <<stage, decision, gates, known, notice, answered, gateUp>> /\ UNCHANGED gateBounds

(* Card delivery failed, or seemed to: fail closed, unless resolved. *)
CardFails(s) ==
    \/ s \in gates /\ Decide(s, "timeout") /\ Resolve(s, FALSE)
    \/ s \notin gates /\ UNCHANGED <<stage, decision, gates>>

CardDeliveryFails(s) ==
    /\ gateUp /\ card[s] # "none" /\ stage[s] = "gated"
    /\ CardFails(s)
    /\ card' = [card EXCEPT ![s] = IF @ = "underway" THEN "none" ELSE @]
    /\ UNCHANGED <<known, notice, answered, gateUp>> /\ UNCHANGED gateBounds

(* The timer of the gate. *)
Timeout(s) == Decide(s, "timeout") /\ Resolve(s, FALSE)

GateTimesOut(s) ==
    /\ gateUp /\ s \in gates
    /\ Timeout(s)
    /\ UNCHANGED <<card, known, notice, answered, gateUp>> /\ UNCHANGED gateBounds

(* resolveGate: only a gate in the map is resolved; otherwise "not_found"  *)
(* or "already_resolved" and nothing changes.                              *)
ResolveGate(s, d) ==
    \/ s \in gates /\ Decide(s, d) /\ Resolve(s, d = "approved")
    \/ s \notin gates /\ UNCHANGED <<stage, decision, gates>>

(* A tap on a button of the card or POST /api/approval/decision by the     *)
(* comms agent, at any time and any number of times.                       *)
HumanDecides(s, d) ==
    /\ gateUp /\ taps < MaxTaps /\ taps' = taps + 1
    /\ card[s] = "seen"
    /\ ResolveGate(s, d)
    /\ answered' = [answered EXCEPT ![s] = IF s \in gates THEN d ELSE @]
    /\ UNCHANGED <<card, known, notice, gateUp, gateCrashes>>

-----------------------------------------------------------------------------
(* The adapter's answer, thrown errors included; the recipients of a       *)
(* successful send become known.                                           *)
AdapterAnswers(s, ok) ==
    /\ gateUp /\ stage[s] = "sending"
    /\ stage' = [stage EXCEPT ![s] = IF ok THEN "sent" ELSE "failed"]
    /\ known' = IF ok THEN known \cup RecipientsOf[s] ELSE known
    /\ UNCHANGED <<decision, gates, card, notice, answered, gateUp>> /\ UNCHANGED gateBounds

(* The channels that failed are reported to comms in one message. *)
Reported(q) == {s \in Sends : RequestOf[s] = q /\ stage[s] \in {"refused", "failed"}}

(* The rest of the handler, when the last channel of the request is done.  *)
RequestEnds(q) ==
    /\ gateUp
    /\ \A s \in Sends : RequestOf[s] = q => stage[s] \in {"sent", "refused", "failed"}
    /\ ~(Reported(q) \subseteq notice)
    /\ notice' = notice \cup Reported(q)
    /\ UNCHANGED <<stage, decision, gates, card, known, answered, gateUp>> /\ UNCHANGED gateBounds

(* The process ends: also when the timer's UPDATE throws, which is an      *)
(* uncaught exception.                                                     *)
DaemonEnds ==
    /\ gateUp /\ gateCrashes < MaxGateCrashes
    /\ gateUp' = FALSE /\ gateCrashes' = gateCrashes + 1
    /\ gates' = {}
    /\ stage' = [s \in Sends |-> IF stage[s] \in {"gated", "sending"} THEN "gone" ELSE stage[s]]
    /\ UNCHANGED <<decision, card, known, notice, answered, taps>>

\* Mutant: only rows whose card was delivered are swept.
SweptOld(s) == decision[s] = "pending" /\ card[s] = "seen"

Swept(s) == decision[s] = "pending"

(* sweepStaleApprovals: every undecided row, whatever its age.  A sweep    *)
(* that throws aborts the start.                                           *)
DaemonStarts ==
    /\ ~gateUp
    /\ gateUp' = TRUE
    /\ decision' = [s \in Sends |-> IF Swept(s) THEN "timeout" ELSE decision[s]]
    /\ UNCHANGED <<stage, gates, card, known, notice, answered>> /\ UNCHANGED gateBounds

GateNext ==
    \/ DaemonEnds \/ DaemonStarts
    \/ \E q \in Requests : RouteMessage(q) \/ RequestEnds(q)
    \/ \E s \in Sends :
          \/ CardSeen(s) \/ CardDeliveryFails(s) \/ GateTimesOut(s)
          \/ \E d \in {"approved", "rejected"} : HumanDecides(s, d)
          \/ \E ok \in BOOLEAN : AdapterAnswers(s, ok)

(* Timers fire, adapters answer (they have timeouts of their own) and the  *)
(* process is started again.                                               *)
GateProgress(s) == GateTimesOut(s) \/ (\E ok \in BOOLEAN : AdapterAnswers(s, ok))

-----------------------------------------------------------------------------
Left(s) == stage[s] \in {"sending", "sent", "failed"}

(* Nothing a policy guards is handed to an adapter unless a human approved *)
(* it while its gate was open: not after a timeout, a failed card, a late  *)
(* or second tap, or a restart.                                            *)
NothingUnapproved ==
    \A s \in Sends :
        Left(s) /\ NormalizeApprovalFor(PolicyOf[s]) \in {"all", "external_only"} => answered[s] = "approved"

(* The audit trail tells the truth: what was sent is recorded approved,    *)
(* what was refused is not, and a row still pending has an open gate.      *)
AuditIsTrue ==
    \A s \in Sends :
        /\ Left(s) /\ PolicyOf[s] # "none" => decision[s] = "approved"
        /\ stage[s] = "refused" => decision[s] # "approved"
        /\ gateUp /\ decision[s] = "pending" => s \in gates

(* A decision is final: no tap, timer, card failure or sweep changes it.   *)
DecisionIsFinal ==
    [][\A s \in Sends : decision[s] \in {"approved", "rejected", "timeout"} => decision'[s] = decision[s]]_gateVars

(* No send hangs at the gate, also when nobody answers. *)
GateEnds == \A s \in Sends : stage[s] = "gated" ~> stage[s] # "gated"

(* Every channel a request failed on is reported to comms, also when       *)
(* another channel of it waited at a gate, unless the process ended first. *)
FailureIsReported ==
    \A s \in Sends : stage[s] \in {"refused", "failed"} ~> (s \in notice \/ gateCrashes > 0)

(* What left was approved and the record of it is true, in every state. *)
RecordIsSound == NothingUnapproved /\ AuditIsTrue

(* The gate: what leaves was approved, the record of it is true and final, *)
(* no send hangs and no failure goes unreported.                           *)
GateHolds ==
    /\ RecordIsSound /\ [][RecordIsSound']_gateVars /\ DecisionIsFinal
    /\ GateEnds /\ FailureIsReported
=============================================================================
