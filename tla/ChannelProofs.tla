---------------------------- MODULE ChannelProofs ----------------------------
(***************************************************************************)
(* Proofs about what leaves the daemon and what it lets in: the approval   *)
(* gate, for any sends, policies, taps and restarts, and the sender lists  *)
(* and rate limiters, for any window, limit and clock.                     *)
(***************************************************************************)
EXTENDS OutboundGate, SenderAccess, FiniteSetTheorems, TLAPS

GateSpec == GateInit /\ [][GateNext]_gateVars

-----------------------------------------------------------------------------
(* The approval gate                                                       *)

SendStages == {"new", "gated", "sending", "sent", "failed", "refused", "gone"}
Decisions  == {"none", "pending", "approved", "rejected", "timeout"}

GateTypeOK ==
    /\ stage \in [Sends -> SendStages] /\ decision \in [Sends -> Decisions]
    /\ gates \subseteq Sends /\ gateUp \in BOOLEAN
    /\ answered \in [Sends -> {"none", "approved", "rejected"}]

\* The map of gates holds the sends that wait, each has a row that is still
\* undecided, and a send that did not start has no row; no gate outlives the
\* process.
GatesMatchRows ==
    /\ ~gateUp => gates = {}
    /\ \A s \in Sends :
          /\ s \in gates <=> stage[s] = "gated"
          /\ stage[s] = "gated" => decision[s] = "pending"
          /\ stage[s] = "new" => decision[s] = "none"

GateInv == GateTypeOK /\ GatesMatchRows /\ RecordIsSound

\* A step that records and resolves one send, the way a tap, the timer or a
\* failed card does: it ends a wait, and approval is what the human answered.
LEMMA ResolveStep ==
    ASSUME GateInv, NEW s \in gates, NEW d \in {"approved", "rejected", "timeout"},
           Decide(s, d), Resolve(s, d = "approved"), UNCHANGED gateUp,
           \/ d # "approved" /\ answered' = answered
           \/ d # "timeout" /\ answered' = [answered EXCEPT ![s] = d]
    PROVE  GateInv'
<1> USE DEF GateInv, GateTypeOK, SendStages, Decisions
<1>1. /\ s \in Sends /\ stage[s] = "gated" /\ decision[s] = "pending"
      /\ stage' = [stage EXCEPT ![s] = IF d = "approved" THEN "sending" ELSE "refused"]
      /\ decision' = [decision EXCEPT ![s] = d]
      /\ gates' = gates \ {s}
  BY DEF GatesMatchRows, Decide, Resolve
<1>2. GateTypeOK'
  BY <1>1
<1>3. GatesMatchRows'
  BY <1>1 DEF GatesMatchRows
<1>4. NothingUnapproved'
  BY <1>1 DEF RecordIsSound, NothingUnapproved, Left, GatesMatchRows
<1>5. AuditIsTrue'
  BY <1>1 DEF RecordIsSound, AuditIsTrue, Left, GatesMatchRows
<1> QED
  BY <1>2, <1>3, <1>4, <1>5 DEF RecordIsSound

\* A step that leaves the gates, the sends and the answers as they are.
LEMMA GateIdleStep ==
    ASSUME GateInv, UNCHANGED <<stage, decision, gates, answered, gateUp>>
    PROVE  GateInv'
BY DEF GateInv, GateTypeOK, GatesMatchRows, RecordIsSound, NothingUnapproved, AuditIsTrue, Left

\* A request sends at once what needs no approval and opens a gate, with a
\* pending row, for the rest.
LEMMA RouteStep ==
    ASSUME GateInv, NEW q \in Requests, RouteMessage(q)
    PROVE  GateInv'
<1> USE DEF GateInv, GateTypeOK, SendStages, Decisions
<1> DEFINE mine == {s \in Sends : RequestOf[s] = q}
           gated == {s \in mine : NeedsApproval(s)}
<1>1. PICK thrown \in SUBSET {s \in mine : PolicyOf[s] # "none"} :
          /\ stage' = [s \in Sends |-> CASE s \notin mine -> stage[s]
                                          [] s \in thrown -> "refused"
                                          [] s \in gated \ thrown -> "gated"
                                          [] s \in mine \ (gated \cup thrown) -> "sending"]
          /\ decision' = [s \in Sends |->
                IF s \notin mine \ thrown \/ PolicyOf[s] = "none" THEN decision[s]
                ELSE IF s \in gated THEN "pending" ELSE "approved"]
          /\ gates' = gates \cup (gated \ thrown)
  BY DEF RouteMessage
<1>2. \A s \in mine : stage[s] = "new" /\ decision[s] = "none" /\ s \notin gates
  BY DEF RouteMessage, GatesMatchRows
<1>3. \A s \in gated : PolicyOf[s] # "none"
  BY DEF NeedsApproval, NormalizeApprovalFor
<1>4. \A s \in Sends \ mine : stage'[s] = stage[s] /\ decision'[s] = decision[s]
  BY <1>1
<1>5. \A s \in mine : \/ s \in thrown /\ stage'[s] = "refused" /\ decision'[s] = "none"
                      \/ s \in gated \ thrown /\ stage'[s] = "gated" /\ decision'[s] = "pending"
                      \/ /\ s \in mine \ (gated \cup thrown) /\ stage'[s] = "sending"
                         /\ decision'[s] = IF PolicyOf[s] = "none" THEN "none" ELSE "approved"
  <2> TAKE s \in mine
  <2>1. CASE s \in thrown
    BY <1>1, <1>2, <2>1
  <2>2. CASE s \in gated \ thrown
    BY <1>1, <1>3, <2>2
  <2>3. CASE s \in mine \ (gated \cup thrown)
    BY <1>1, <1>2, <2>3
  <2> QED
    BY <2>1, <2>2, <2>3
<1>6. gateUp /\ UNCHANGED <<answered, gateUp>>
  BY DEF RouteMessage
<1>7. GateTypeOK'
  <2>1. stage' = [s \in Sends |-> stage'[s]] /\ decision' = [s \in Sends |-> decision'[s]]
    BY <1>1
  <2>2. \A s \in Sends : stage'[s] \in SendStages /\ decision'[s] \in Decisions
    BY <1>4, <1>5
  <2> QED
    BY <1>1, <1>6, <2>1, <2>2
<1>8. GatesMatchRows'
  <2> SUFFICES ASSUME NEW s \in Sends
               PROVE  /\ s \in gates' <=> stage'[s] = "gated"
                      /\ stage'[s] = "gated" => decision'[s] = "pending"
                      /\ stage'[s] = "new" => decision'[s] = "none"
    BY <1>6 DEF GatesMatchRows
  <2>1. CASE s \in mine
    BY <1>1, <1>2, <1>5, <2>1
  <2>2. CASE s \notin mine
    BY <1>1, <1>4, <2>2 DEF GatesMatchRows
  <2> QED
    BY <2>1, <2>2
<1>9. NothingUnapproved'
  <2>1. \A s \in mine : Left(s)' => NormalizeApprovalFor(PolicyOf[s]) \notin {"all", "external_only"}
    BY <1>5 DEF Left, NeedsApproval
  <2> QED
    BY <1>4, <1>6, <2>1 DEF RecordIsSound, NothingUnapproved, Left
<1>10. AuditIsTrue'
  <2> SUFFICES ASSUME NEW s \in Sends
               PROVE  /\ Left(s)' /\ PolicyOf[s] # "none" => decision'[s] = "approved"
                      /\ stage'[s] = "refused" => decision'[s] # "approved"
                      /\ gateUp' /\ decision'[s] = "pending" => s \in gates'
    BY DEF AuditIsTrue
  <2>1. CASE s \in mine
    BY <1>1, <1>5, <2>1 DEF Left
  <2>2. CASE s \notin mine
    BY <1>1, <1>4, <1>6, <2>2 DEF RecordIsSound, AuditIsTrue, Left
  <2> QED
    BY <2>1, <2>2
<1> QED
  BY <1>7, <1>8, <1>9, <1>10 DEF RecordIsSound

\* The answer of an adapter ends a send that was let through.
LEMMA AdapterStep ==
    ASSUME GateInv, NEW s \in Sends, NEW ok \in BOOLEAN, AdapterAnswers(s, ok)
    PROVE  GateInv'
<1> USE DEF GateInv, GateTypeOK, SendStages, Decisions
<1>1. /\ stage[s] = "sending" /\ UNCHANGED <<decision, gates, answered, gateUp>>
      /\ stage' = [stage EXCEPT ![s] = IF ok THEN "sent" ELSE "failed"]
  BY DEF AdapterAnswers
<1>2. GateTypeOK'
  BY <1>1
<1>3. GatesMatchRows'
  BY <1>1 DEF GatesMatchRows
<1>4. \A r \in Sends : (Left(r)' <=> Left(r)) /\ (stage'[r] = "refused" <=> stage[r] = "refused")
  BY <1>1 DEF Left
<1>5. NothingUnapproved' /\ AuditIsTrue'
  BY <1>1, <1>4 DEF RecordIsSound, NothingUnapproved, AuditIsTrue
<1> QED
  BY <1>2, <1>3, <1>5 DEF RecordIsSound

\* The gates die with the process; the sweep of the next one times their
\* rows out.
LEMMA RestartStep ==
    ASSUME GateInv, DaemonEnds \/ DaemonStarts
    PROVE  GateInv'
<1> USE DEF GateInv, GateTypeOK, SendStages, Decisions
<1>1. CASE DaemonEnds
  <2>1. /\ stage' = [s \in Sends |-> IF stage[s] \in {"gated", "sending"} THEN "gone" ELSE stage[s]]
        /\ gates' = {} /\ gateUp' = FALSE /\ UNCHANGED <<decision, answered>>
    BY <1>1 DEF DaemonEnds
  <2>2. GateTypeOK'
    BY <2>1
  <2>3. GatesMatchRows'
    BY <2>1 DEF GatesMatchRows
  <2>4. NothingUnapproved'
    BY <2>1 DEF RecordIsSound, NothingUnapproved, Left
  <2>5. AuditIsTrue'
    BY <2>1 DEF RecordIsSound, AuditIsTrue, Left
  <2> QED
    BY <2>2, <2>3, <2>4, <2>5 DEF RecordIsSound
<1>2. CASE DaemonStarts
  <2>1. /\ decision' = [s \in Sends |-> IF decision[s] = "pending" THEN "timeout" ELSE decision[s]]
        /\ gateUp' = TRUE /\ UNCHANGED <<stage, gates, answered>>
    BY <1>2 DEF DaemonStarts, Swept
  <2>2. GateTypeOK'
    BY <2>1
  <2>3. NothingUnapproved'
    BY <2>1 DEF RecordIsSound, NothingUnapproved, Left
  <2>4. AuditIsTrue'
    BY <2>1 DEF RecordIsSound, AuditIsTrue, Left
  <2>5. GatesMatchRows'
    BY <1>2, <2>1 DEF GatesMatchRows, DaemonStarts
  <2> QED
    BY <2>2, <2>3, <2>4, <2>5 DEF RecordIsSound
<1> QED
  BY <1>1, <1>2

\* Every step of requests, humans, timers and restarts keeps the invariant.
LEMMA GateStep ==
    ASSUME GateInv, [GateNext]_gateVars
    PROVE  GateInv'
<1>1. ASSUME NEW s \in Sends, CardDeliveryFails(s)
      PROVE  GateInv'
  <2>1. CASE s \in gates /\ Decide(s, "timeout") /\ Resolve(s, FALSE)
    <3>1. Resolve(s, "timeout" = "approved")
      BY <2>1
    <3> QED
      BY <1>1, <2>1, <3>1, ResolveStep DEF CardDeliveryFails
  <2>2. CASE UNCHANGED <<stage, decision, gates>>
    BY <1>1, <2>2, GateIdleStep DEF CardDeliveryFails
  <2> QED
    BY <1>1, <2>1, <2>2 DEF CardDeliveryFails, CardFails
<1>2. ASSUME NEW s \in Sends, GateTimesOut(s)
      PROVE  GateInv'
  <2>1. Resolve(s, "timeout" = "approved")
    BY <1>2 DEF GateTimesOut, Timeout
  <2> QED
    BY <1>2, <2>1, ResolveStep DEF GateTimesOut, Timeout
<1>3. ASSUME NEW s \in Sends, NEW d \in {"approved", "rejected"}, HumanDecides(s, d)
      PROVE  GateInv'
  <2>1. CASE s \in gates
    BY <1>3, <2>1, ResolveStep DEF HumanDecides, ResolveGate
  <2>2. CASE s \notin gates
    <3>1. answered' = answered
      BY <1>3, <2>2 DEF HumanDecides, GateInv, GateTypeOK
    <3> QED
      BY <1>3, <2>2, <3>1, GateIdleStep DEF HumanDecides, ResolveGate
  <2> QED
    BY <2>1, <2>2
<1>4. ASSUME NEW s \in Sends, CardSeen(s)
      PROVE  GateInv'
  BY <1>4, GateIdleStep DEF CardSeen
<1>5. ASSUME NEW q \in Requests, RequestEnds(q)
      PROVE  GateInv'
  BY <1>5, GateIdleStep DEF RequestEnds
<1>6. CASE UNCHANGED gateVars
  BY <1>6, GateIdleStep DEF gateVars
<1> QED
  BY <1>1, <1>2, <1>3, <1>4, <1>5, <1>6, RouteStep, AdapterStep, RestartStep DEF GateNext

\* No step takes back a decision: the row of a gate that may still be
\* resolved is undecided, and the other writes ask for an undecided row.
LEMMA DecisionStep ==
    ASSUME GateInv, [GateNext]_gateVars, NEW r \in Sends, decision[r] \in {"approved", "rejected", "timeout"}
    PROVE  decision'[r] = decision[r]
<1> USE DEF GateInv, GateTypeOK
<1>1. ASSUME NEW s \in Sends, NEW d, Decide(s, d)
      PROVE  decision'[r] = decision[r]
  BY <1>1 DEF Decide
<1>2. ASSUME NEW q \in Requests, RouteMessage(q)
      PROVE  decision'[r] = decision[r]
  <2>1. RequestOf[r] # q
    BY <1>2 DEF RouteMessage, GatesMatchRows
  <2> QED
    BY <1>2, <2>1 DEF RouteMessage
<1>3. ASSUME NEW s \in Sends, CardDeliveryFails(s) \/ GateTimesOut(s)
      PROVE  decision'[r] = decision[r]
  BY <1>1, <1>3 DEF CardDeliveryFails, CardFails, GateTimesOut, Timeout
<1>4. ASSUME NEW s \in Sends, NEW d \in {"approved", "rejected"}, HumanDecides(s, d)
      PROVE  decision'[r] = decision[r]
  BY <1>1, <1>4 DEF HumanDecides, ResolveGate
<1>5. CASE DaemonStarts
  BY <1>5 DEF DaemonStarts, Swept
<1>6. (\/ DaemonEnds \/ UNCHANGED gateVars \/ (\E q \in Requests : RequestEnds(q))
       \/ \E s \in Sends : CardSeen(s) \/ \E ok \in BOOLEAN : AdapterAnswers(s, ok))
      => decision'[r] = decision[r]
  BY DEF DaemonEnds, gateVars, RequestEnds, CardSeen, AdapterAnswers
<1> QED
  BY <1>2, <1>3, <1>4, <1>5, <1>6 DEF GateNext

\* No request was made at the start.
LEMMA GateInitInv == GateInit => GateInv
BY DEF GateInit, GateInv, GateTypeOK, SendStages, Decisions, GatesMatchRows, RecordIsSound,
       NothingUnapproved, AuditIsTrue, Left

\* Nothing a policy guards is handed to an adapter unless the human approved
\* it while its gate was open, and the audit rows say what happened, however
\* taps, timers, failed cards, restarts and sweeps follow each other
\* (approvalGate of comms/approval-gate.ts, routeMessage of
\* comms/channel-router.ts).
THEOREM GateIsSound == GateSpec => []RecordIsSound
<1>1. GateInv => RecordIsSound
  BY DEF GateInv
<1>2. GateInv /\ [GateNext]_gateVars => GateInv'
  BY GateStep
<1> QED
  BY <1>1, <1>2, GateInitInv, PTL DEF GateSpec

\* A decision that was recorded is never changed (writeDecisionRow and
\* sweepStaleApprovals of comms/approval-gate.ts).
THEOREM DecisionsAreFinal == GateSpec => DecisionIsFinal
<1>1. GateInv /\ [GateNext]_gateVars => GateInv'
  BY GateStep
<1>2. GateInv /\ [GateNext]_gateVars =>
        [\A s \in Sends : decision[s] \in {"approved", "rejected", "timeout"} => decision'[s] = decision[s]]_gateVars
  BY DecisionStep
<1> QED
  BY <1>1, <1>2, GateInitInv, PTL DEF GateSpec, DecisionIsFinal

-----------------------------------------------------------------------------
(* Sender lists and rate limits                                            *)

\* The lists and the three limiters run side by side on one clock.
AccessNext ==
    \/ CheckIncomingRate \/ CheckOutgoingRate \/ CheckWindow \/ ClockTicks
    \/ \E s \in Contacts : ListStep(s)

AccessSpec == AccessInit /\ [][AccessNext]_accessVars

Lists == {"blocked", "approved", "denied", "pending"}

\* A record of accepted requests, none of them in the future.
IsLog(times) == times \subseteq Nat \X Nat /\ IsFiniteSet(times) /\ \A x \in times : x[1] <= clock

AccessTypeOK ==
    /\ listed \in [Contacts -> SUBSET Lists] /\ clock \in Nat
    /\ IsLog(stamps) /\ IsLog(inTimes) /\ IsLog(outTimes) /\ IsLog(p2pTimes)
    /\ tokens \in 0 .. PerWindow * Window /\ refilled \in 0 .. clock
    /\ opened \in [count : Nat, resetAt : Nat]

Since(times, t) == {x \in times : x[1] >= t}
Recent(times)   == {x \in times : clock - x[1] < Window}

\* The pruned list of timestamps has every request of the last minute.
SlidingSound == Recent(inTimes) = KeptStamps

\* What was spent since any moment, with what is left, is at most a full
\* bucket and the refill since then.
BucketSound ==
    /\ \A x \in outTimes : x[1] <= refilled
    /\ \A t \in Int : t <= refilled =>
          Cardinality(Since(outTimes, t)) * Window + tokens <= PerWindow * Window + (refilled - t) * PerWindow

\* The open window and the minute before it have at most one limit each.
WindowSound ==
    LET start == opened.resetAt - Window IN
    /\ start <= clock /\ \A x \in p2pTimes : x[1] < opened.resetAt
    /\ opened.count = 0 => p2pTimes = {}
    /\ Cardinality(Since(p2pTimes, start)) <= opened.count
    /\ Cardinality(Since(p2pTimes, start)) <= PerWindow
    /\ Cardinality({x \in p2pTimes : start - Window <= x[1] /\ x[1] < start}) <= PerWindow

AccessInv == AccessTypeOK /\ SlidingSound /\ BucketSound /\ WindowSound /\ RatesHold

-----------------------------------------------------------------------------
(* Logs of accepted requests *)

\* A selection of logged requests can be counted.
LEMMA PartOfLog ==
    ASSUME NEW times, IsFiniteSet(times), NEW S \in SUBSET times
    PROVE  IsFiniteSet(S) /\ Cardinality(S) \in Nat
BY FS_Subset, FS_CardinalityType

\* One more request makes a count grow by at most one.
LEMMA OneMore ==
    ASSUME NEW S, NEW T, NEW y, IsFiniteSet(S), T \subseteq S \cup {y}
    PROVE  /\ IsFiniteSet(T) /\ Cardinality(T) \in Nat /\ Cardinality(S) \in Nat
           /\ Cardinality(T) <= Cardinality(S) + 1
<1>1. /\ IsFiniteSet(S \cup {y}) /\ Cardinality(S) \in Nat
      /\ Cardinality(S \cup {y}) = IF y \in S THEN Cardinality(S) ELSE Cardinality(S) + 1
  BY FS_AddElement, FS_CardinalityType
<1>2. Cardinality(S \cup {y}) <= Cardinality(S) + 1 /\ Cardinality(S \cup {y}) \in Nat
  BY <1>1
<1>3. IsFiniteSet(T) /\ Cardinality(T) <= Cardinality(S \cup {y})
  BY <1>1, FS_Subset
<1>4. Cardinality(T) \in Nat
  BY <1>3, FS_CardinalityType
<1> QED
  BY <1>1, <1>2, <1>3, <1>4

\* The entry that Next1 adds, and the log it makes.
LEMMA LogGrows ==
    ASSUME NEW times, IsLog(times), clock \in Nat
    PROVE  /\ IsLog(Next1(times))
           /\ \E n \in Nat : Next1(times) = times \cup {<<clock, n>>}
<1> DEFINE n == Cardinality({x \in times : x[1] = clock})
<1>1. n \in Nat
  BY PartOfLog DEF IsLog
<1>2. Next1(times) = times \cup {<<clock, n>>}
  BY DEF Next1
<1> HIDE DEF n
<1>3. IsFiniteSet(times \cup {<<clock, n>>})
  BY FS_AddElement DEF IsLog
<1> QED
  BY <1>1, <1>2, <1>3 DEF IsLog

\* A request accepted now changes no minute that ended earlier.
LEMMA EarlierMinutes ==
    ASSUME NEW times, IsLog(times), clock \in Nat, NEW n \in Nat, NEW t \in 0 .. clock, t # clock
    PROVE  Within(times \cup {<<clock, n>>}, t) = Within(times, t)
<1>1. {x \in times \cup {<<clock, n>>} : x[1] <= t /\ t < x[1] + Window} =
      {x \in times : x[1] <= t /\ t < x[1] + Window}
  BY DEF IsLog
<1> QED
  BY <1>1 DEF Within

\* The minute that ends now
LEMMA ThisMinute ==
    ASSUME NEW times, IsLog(times), clock \in Nat
    PROVE  Within(times, clock) = Cardinality(Recent(times))
<1>1. {x \in times : x[1] <= clock /\ clock < x[1] + Window} = Recent(times)
  BY AccessAssumption DEF IsLog, Recent
<1> QED
  BY <1>1 DEF Within

\* The next minute has no request that this one has not, before one is made.
LEMMA NextMinute ==
    ASSUME NEW times, IsLog(times), clock \in Nat
    PROVE  /\ Within(times, clock + 1) <= Within(times, clock)
           /\ Within(times, clock + 1) \in Nat /\ Within(times, clock) \in Nat
<1> DEFINE A == {x \in times : x[1] <= clock + 1 /\ clock + 1 < x[1] + Window}
           B == {x \in times : x[1] <= clock /\ clock < x[1] + Window}
<1>1. A \subseteq B
  BY AccessAssumption DEF IsLog
<1>2. IsFiniteSet(B) /\ Cardinality(B) \in Nat
  BY PartOfLog DEF IsLog
<1>3. Cardinality(A) <= Cardinality(B) /\ Cardinality(A) \in Nat
  BY <1>1, <1>2, FS_Subset, FS_CardinalityType
<1> QED
  BY <1>2, <1>3 DEF Within

-----------------------------------------------------------------------------
(* The limiters, one by one *)

\* The rate bound of one log: every minute so far has at most limit requests.
Bounded(times, limit) == \A t \in 0 .. clock : Within(times, t) <= limit

\* A log that grew by a request of now keeps its bound when this minute does.
LEMMA BoundKept ==
    ASSUME NEW times, IsLog(times), clock \in Nat, NEW limit \in Nat, Bounded(times, limit),
           NEW more, more = times \/ more = Next1(times), Cardinality(Recent(more)) <= limit
    PROVE  Bounded(more, limit)
<1>1. CASE more = times
  BY <1>1
<1>2. CASE more = Next1(times)
  <2>1. PICK n \in Nat : more = times \cup {<<clock, n>>}
    BY <1>2, LogGrows
  <2>2. IsLog(more)
    BY <1>2, LogGrows
  <2>3. Within(more, clock) <= limit
    BY <2>2, ThisMinute
  <2>4. ASSUME NEW t \in 0 .. clock
        PROVE  Within(more, t) <= limit
    BY <2>1, <2>3, EarlierMinutes DEF Bounded
  <2> QED
    BY <2>4 DEF Bounded
<1> QED
  BY <1>1, <1>2

\* The sliding window of incoming requests: what it kept is exactly what
\* was let in during the last window.
LEMMA SlidingStep ==
    ASSUME AccessTypeOK, SlidingSound, SlidingWindowHolds, CheckIncomingRate
    PROVE  IsLog(stamps)' /\ IsLog(inTimes)' /\ SlidingSound' /\ SlidingWindowHolds'
<1> USE AccessAssumption DEF AccessTypeOK
<1>0. UNCHANGED clock
  BY DEF CheckIncomingRate, Rated
<1>1. /\ IsLog(KeptStamps) /\ IsFiniteSet(KeptStamps) /\ Cardinality(KeptStamps) \in Nat
      /\ KeptStamps \subseteq stamps
  <2>1. KeptStamps \in SUBSET stamps
    BY DEF KeptStamps
  <2>2. IsFiniteSet(KeptStamps) /\ Cardinality(KeptStamps) \in Nat
    BY <2>1, PartOfLog DEF IsLog
  <2> QED
    BY <2>1, <2>2 DEF IsLog
<1>2. Recent(inTimes) = KeptStamps /\ Recent(KeptStamps) = KeptStamps
  BY DEF SlidingSound, Recent, KeptStamps
<1>3. CASE Cardinality(KeptStamps) < PerWindow
  <2>1. stamps' = Next1(KeptStamps) /\ inTimes' = Next1(inTimes)
    BY <1>3 DEF CheckIncomingRate
  <2> DEFINE n == Cardinality({x \in inTimes : x[1] = clock})
  <2>2. {x \in inTimes : x[1] = clock} = {x \in KeptStamps : x[1] = clock}
    BY <1>2 DEF Recent
  <2>3. Next1(inTimes) = inTimes \cup {<<clock, n>>} /\ Next1(KeptStamps) = KeptStamps \cup {<<clock, n>>}
    BY <2>2 DEF Next1
  <2> HIDE DEF n
  <2>4. Recent(inTimes \cup {<<clock, n>>}) = KeptStamps \cup {<<clock, n>>}
    BY <1>2 DEF Recent
  <2>5. {x \in KeptStamps \cup {<<clock, n>>} : clock - x[1] < Window} = KeptStamps \cup {<<clock, n>>}
    BY <1>2 DEF Recent
  <2>6. SlidingSound'
    <3>1. Recent(inTimes)' = {x \in inTimes' : clock - x[1] < Window}
      BY <1>0 DEF Recent
    <3>2. KeptStamps' = {x \in stamps' : clock - x[1] < Window}
      BY <1>0 DEF KeptStamps
    <3> QED
      BY <2>1, <2>3, <2>4, <2>5, <3>1, <3>2 DEF SlidingSound, Recent
  <2>7. Cardinality(Recent(Next1(inTimes))) <= PerWindow
    <3>1. /\ Cardinality(KeptStamps \cup {<<clock, n>>}) <= Cardinality(KeptStamps) + 1
          /\ Cardinality(KeptStamps \cup {<<clock, n>>}) \in Nat
      BY <1>1, OneMore
    <3>2. Cardinality(KeptStamps \cup {<<clock, n>>}) <= PerWindow
      BY <1>1, <1>3, <3>1
    <3> QED
      BY <2>3, <2>4, <3>2
  <2>8. Bounded(Next1(inTimes), PerWindow)
    BY <2>7, BoundKept DEF SlidingWindowHolds, Bounded
  <2>9. SlidingWindowHolds'
    BY <1>0, <2>1, <2>8 DEF SlidingWindowHolds, Bounded, Within
  <2>10. IsLog(stamps)' /\ IsLog(inTimes)'
    BY <1>0, <1>1, <2>1, LogGrows DEF IsLog
  <2> QED
    BY <2>6, <2>9, <2>10
<1>4. CASE ~(Cardinality(KeptStamps) < PerWindow)
  <2>1. stamps' = KeptStamps /\ inTimes' = inTimes
    BY <1>4 DEF CheckIncomingRate
  <2>2. SlidingSound'
    BY <1>0, <1>2, <2>1 DEF SlidingSound, Recent, KeptStamps
  <2>3. SlidingWindowHolds'
    BY <1>0, <2>1 DEF SlidingWindowHolds, Within
  <2>4. IsLog(stamps)' /\ IsLog(inTimes)'
    BY <1>0, <1>1, <2>1 DEF IsLog
  <2> QED
    BY <2>2, <2>3, <2>4
<1> QED
  BY <1>3, <1>4

\* A minute's refill and a full bucket are less than two limits and one.
LEMMA TwoLimits ==
    ASSUME NEW n \in Nat, NEW w \in Nat \ {0}, NEW p \in Nat \ {0}, n * w <= p * w + (w - 1) * p
    PROVE  n <= 2 * p
<1>1. (w - 1) * p = w * p - p
  OBVIOUS
<1>2. n * w < (2 * p) * w
  BY <1>1
<1>3. ~(n >= 2 * p + 1)
  <2> SUFFICES ASSUME n >= 2 * p + 1
               PROVE  FALSE
    OBVIOUS
  <2>1. PICK d \in Nat : n = 2 * p + d
    <3>1. n - 2 * p \in Nat /\ n = 2 * p + (n - 2 * p)
      OBVIOUS
    <3> QED
      BY <3>1
  <2>2. d * w \in Nat /\ (2 * p + d) * w = (2 * p) * w + d * w
    OBVIOUS
  <2>3. n * w >= (2 * p) * w
    BY <2>1, <2>2
  <2> QED
    BY <1>2, <2>3
<1> QED
  BY <1>3

\* Requests that cost w each, and the refill from r to c
LEMMA Spent ==
    ASSUME NEW n \in Nat, NEW w \in Nat, NEW p \in Nat, NEW m \in Nat, m <= n + 1,
           NEW k \in Nat, NEW full \in Nat, NEW t \in Int, NEW r \in Int, NEW c \in Int,
           n * w + k <= full + (r - t) * p,
           NEW g \in Nat, g <= k + (c - r) * p
    PROVE  /\ n * w + g <= full + (c - t) * p
           /\ g >= w => m * w + (g - w) <= full + (c - t) * p
<1>1. (r - t) * p + (c - r) * p = (c - t) * p
  OBVIOUS
<1>2. n * w \in Nat /\ (r - t) * p \in Int /\ (c - r) * p \in Int /\ (c - t) * p \in Int
  OBVIOUS
<1>3. n * w + g <= full + (c - t) * p
  BY <1>1, <1>2
<1>4. (n + 1) * w = n * w + w
  OBVIOUS
<1>5. m * w <= (n + 1) * w /\ m * w \in Nat
  OBVIOUS
<1> QED
  BY <1>2, <1>3, <1>4, <1>5

\* The token bucket of outgoing requests: what was let out since any moment
\* is paid for by the tokens of then and the refill since.
LEMMA BucketStep ==
    ASSUME AccessTypeOK, BucketSound, Bounded(outTimes, 2 * PerWindow), CheckOutgoingRate
    PROVE  /\ IsLog(outTimes)' /\ tokens' \in 0 .. PerWindow * Window /\ refilled' \in 0 .. clock'
           /\ BucketSound' /\ Bounded(outTimes, 2 * PerWindow)'
<1> USE AccessAssumption DEF AccessTypeOK
<1> DEFINE full == PerWindow * Window
           W    == Window
           P    == PerWindow
<1>0. UNCHANGED clock /\ refilled' = clock
  BY DEF CheckOutgoingRate, Rated
<1>1. full \in Nat /\ (clock - refilled) * P \in Nat
  OBVIOUS
<1>2. Refilled \in Nat /\ Refilled <= full /\ Refilled <= tokens + (clock - refilled) * P
  BY <1>1 DEF Refilled
<1>3. tokens' \in 0 .. full
  BY <1>1, <1>2 DEF CheckOutgoingRate
<1>4. outTimes' = outTimes \/ outTimes' = Next1(outTimes)
  BY DEF CheckOutgoingRate
<1>5. IsLog(outTimes)'
  BY <1>0, <1>4, LogGrows DEF IsLog
<1>6. \A x \in outTimes' : x[1] <= refilled'
  BY <1>0, <1>5 DEF IsLog
<1>7. ASSUME NEW t \in Int, t <= clock
      PROVE  Cardinality(Since(outTimes', t)) * W + tokens' <= full + (clock - t) * P
  <2> DEFINE N == Cardinality(Since(outTimes, t))
             M == Cardinality(Since(outTimes', t))
  <2>1. IsFiniteSet(Since(outTimes, t)) /\ N \in Nat
    BY PartOfLog DEF IsLog, Since
  <2>2. PICK y : outTimes' \subseteq outTimes \cup {y}
    BY <1>4, LogGrows
  <2>3. M <= N + 1 /\ M \in Nat
    <3>1. Since(outTimes', t) \subseteq Since(outTimes, t) \cup {y}
      BY <2>2 DEF Since
    <3> QED
      BY <2>1, <3>1, OneMore
  <2>4. \/ Refilled >= W /\ tokens' = Refilled - W
        \/ outTimes' = outTimes /\ tokens' = Refilled
    BY DEF CheckOutgoingRate
  <2>5. CASE t <= refilled
    <3>1. N * W + tokens <= full + (refilled - t) * P
      BY <2>5 DEF BucketSound
    <3>2. /\ N * W + Refilled <= full + (clock - t) * P
          /\ Refilled >= W => M * W + (Refilled - W) <= full + (clock - t) * P
      BY <1>1, <1>2, <2>1, <2>3, <3>1, Spent
    <3> QED
      BY <2>4, <3>2
  <2>6. CASE ~(t <= refilled)
    <3>1. Since(outTimes, t) = {}
      BY <2>6 DEF BucketSound, Since, IsLog
    <3>2. N = 0
      BY <3>1, FS_EmptySet
    <3>3. (clock - t) * P >= 0 /\ (clock - t) * P \in Int
      BY <1>7
    <3>4. M * W <= W /\ M * W \in Nat
      <4>1. M = 0 \/ M = 1
        BY <2>3, <3>2
      <4> QED
        BY <4>1
    <3>5. CASE Refilled >= W /\ tokens' = Refilled - W
      BY <1>1, <1>2, <3>3, <3>4, <3>5
    <3>6. CASE outTimes' = outTimes /\ tokens' = Refilled
      <4>1. M * W = 0
        BY <3>2, <3>6
      <4> QED
        BY <1>1, <1>2, <3>3, <3>6, <4>1
    <3> QED
      BY <2>4, <3>5, <3>6
  <2> QED
    BY <2>5, <2>6
<1>8. BucketSound'
  BY <1>0, <1>6, <1>7 DEF BucketSound, Since
<1>9. Cardinality(Recent(outTimes')) <= 2 * P
  <2> DEFINE M == Cardinality(Since(outTimes', clock - W + 1))
  <2>1. Recent(outTimes') \subseteq Since(outTimes', clock - W + 1)
    BY <1>5 DEF IsLog, Recent, Since
  <2>2. IsFiniteSet(Since(outTimes', clock - W + 1)) /\ M \in Nat
    BY <1>5, PartOfLog DEF IsLog, Since
  <2>3. Cardinality(Recent(outTimes')) <= M /\ Cardinality(Recent(outTimes')) \in Nat
    BY <2>1, <2>2, FS_Subset, FS_CardinalityType
  <2>4. M * W + tokens' <= full + (clock - (clock - W + 1)) * P
    BY <1>7
  <2>5. M * W <= full + (W - 1) * P
    <3>1. clock - (clock - W + 1) = W - 1
      OBVIOUS
    <3>2. M * W \in Nat /\ (W - 1) * P \in Int
      BY <2>2
    <3> QED
      BY <1>1, <1>3, <2>4, <3>1, <3>2
  <2>6. M <= 2 * P
    BY <2>2, <2>5, TwoLimits
  <2> QED
    BY <2>2, <2>3, <2>6
<1>10. Bounded(outTimes', 2 * P)
  BY <1>4, <1>9, BoundKept
<1>11. Bounded(outTimes, 2 * P)'
  BY <1>0, <1>10 DEF Bounded, Within
<1> QED
  BY <1>0, <1>3, <1>5, <1>8, <1>11

\* The fixed window of peer requests: at most one full window lies on each
\* side of a reset.
LEMMA WindowStep ==
    ASSUME AccessTypeOK, WindowSound, Bounded(p2pTimes, 2 * PerWindow), CheckWindow
    PROVE  /\ IsLog(p2pTimes)' /\ opened' \in [count : Nat, resetAt : Nat]
           /\ WindowSound' /\ Bounded(p2pTimes, 2 * PerWindow)'
<1> USE AccessAssumption DEF AccessTypeOK
<1> DEFINE W     == Window
           P     == PerWindow
           start == opened.resetAt - W
           Past(times, t) == {x \in times : t - W <= x[1] /\ x[1] < t}
           fresh == opened.count = 0 \/ clock >= opened.resetAt
<1>0. UNCHANGED clock
  BY DEF CheckWindow, Rated
<1>1. p2pTimes' = p2pTimes \/ p2pTimes' = Next1(p2pTimes)
  BY DEF CheckWindow
<1>2. IsLog(p2pTimes') /\ IsLog(p2pTimes)'
  BY <1>0, <1>1, LogGrows DEF IsLog
<1>3. start \in Int /\ opened.count \in Nat
  OBVIOUS
<1>4. /\ IsFiniteSet(Since(p2pTimes, start)) /\ Cardinality(Since(p2pTimes, start)) \in Nat
      /\ IsFiniteSet(Past(p2pTimes, start)) /\ Cardinality(Past(p2pTimes, start)) \in Nat
  BY PartOfLog DEF IsLog, Since
<1>5. PICK n \in Nat : Next1(p2pTimes) = p2pTimes \cup {<<clock, n>>}
  BY LogGrows
<1>6. /\ start <= clock /\ \A x \in p2pTimes : x[1] < opened.resetAt
      /\ opened.count = 0 => p2pTimes = {}
      /\ Cardinality(Since(p2pTimes, start)) <= opened.count
      /\ Cardinality(Since(p2pTimes, start)) <= P
      /\ Cardinality(Past(p2pTimes, start)) <= P
  BY DEF WindowSound
<1>7. ASSUME fresh
      PROVE  WindowSound' /\ opened' \in [count : Nat, resetAt : Nat]
  <2>1. opened' = [count |-> 1, resetAt |-> clock + W] /\ p2pTimes' = p2pTimes \cup {<<clock, n>>}
    BY <1>5, <1>7 DEF CheckWindow
  <2>2. \A x \in p2pTimes : x[1] < clock
    BY <1>6, <1>7 DEF IsLog
  <2>3. Since(p2pTimes', clock) = {<<clock, n>>}
    BY <2>1, <2>2 DEF Since, IsLog
  <2>4. Cardinality(Since(p2pTimes', clock)) = 1
    BY <2>3, FS_Singleton
  <2>5. Past(p2pTimes', clock) \subseteq Since(p2pTimes, start)
    BY <1>6, <1>7, <2>1 DEF Since, IsLog
  <2>6. Cardinality(Past(p2pTimes', clock)) <= P
    <3>1. IsFiniteSet(Past(p2pTimes', clock)) /\ Cardinality(Past(p2pTimes', clock)) <= Cardinality(Since(p2pTimes, start))
      BY <1>4, <2>5, FS_Subset
    <3>2. Cardinality(Past(p2pTimes', clock)) \in Nat
      BY <3>1, FS_CardinalityType
    <3> QED
      BY <1>4, <1>6, <3>1, <3>2
  <2>7. /\ opened'.resetAt - W = clock /\ opened'.count = 1 /\ opened'.resetAt = clock + W
        /\ opened' \in [count : Nat, resetAt : Nat]
    BY <2>1
  <2>8. \A x \in p2pTimes' : x[1] < opened'.resetAt
    BY <1>2, <2>7 DEF IsLog
  <2>9. WindowSound'
    BY <1>0, <2>4, <2>6, <2>7, <2>8 DEF WindowSound, Since
  <2> QED
    BY <2>7, <2>9
<1>8. ASSUME ~fresh
      PROVE  WindowSound' /\ opened' \in [count : Nat, resetAt : Nat]
  <2>1. /\ opened' = [opened EXCEPT !.count = IF @ <= P THEN @ + 1 ELSE @]
        /\ p2pTimes' = IF opened.count < P THEN Next1(p2pTimes) ELSE p2pTimes
    BY <1>8 DEF CheckWindow
  <2>2. /\ opened'.resetAt = opened.resetAt /\ opened'.resetAt - W = start
        /\ opened'.count = (IF opened.count <= P THEN opened.count + 1 ELSE opened.count)
        /\ opened' \in [count : Nat, resetAt : Nat]
    BY <2>1
  <2>3. \A x \in p2pTimes' : x[1] < opened'.resetAt
    BY <1>2, <1>8, <2>2 DEF IsLog
  <2>4. Past(p2pTimes', start) = Past(p2pTimes, start)
    BY <1>5, <1>6, <2>1
  <2>5. Cardinality(Since(p2pTimes', start)) <= opened'.count /\ Cardinality(Since(p2pTimes', start)) <= P
    <3>1. CASE opened.count < P
      <4>1. Since(p2pTimes', start) \subseteq Since(p2pTimes, start) \cup {<<clock, n>>}
        BY <1>5, <2>1, <3>1 DEF Since
      <4>2. /\ Cardinality(Since(p2pTimes', start)) <= Cardinality(Since(p2pTimes, start)) + 1
            /\ Cardinality(Since(p2pTimes', start)) \in Nat
        <5> HIDE DEF start
        <5> QED
          BY <1>4, <4>1, OneMore
      <4> QED
        BY <1>3, <1>4, <1>6, <2>2, <3>1, <4>2
    <3>2. CASE ~(opened.count < P)
      <4>1. p2pTimes' = p2pTimes
        BY <2>1, <3>2
      <4> QED
        BY <1>3, <1>4, <1>6, <2>2, <4>1
    <3> QED
      BY <3>1, <3>2
  <2>6. opened'.count # 0
    BY <1>3, <1>8, <2>2
  <2>7. Cardinality(Past(p2pTimes', start)) <= P
    BY <1>6, <2>4
  <2>8. WindowSound'
    BY <1>0, <1>6, <2>2, <2>3, <2>5, <2>6, <2>7 DEF WindowSound, Since
  <2> QED
    BY <2>2, <2>8
<1>9. WindowSound' /\ opened' \in [count : Nat, resetAt : Nat]
  BY <1>7, <1>8
<1>10. clock < opened'.resetAt
  BY <1>7, <1>8 DEF CheckWindow
<1>11. Cardinality(Recent(p2pTimes')) <= 2 * P
  <2> DEFINE s == opened'.resetAt - W
  <2>1. s \in Int /\ s <= clock
    BY <1>0, <1>9 DEF WindowSound
  <2>2. /\ Cardinality(Since(p2pTimes', s)) <= P
        /\ Cardinality(Past(p2pTimes', s)) <= P
    BY <1>9 DEF WindowSound, Since
  <2>3. /\ IsFiniteSet(Since(p2pTimes', s)) /\ Cardinality(Since(p2pTimes', s)) \in Nat
        /\ IsFiniteSet(Past(p2pTimes', s)) /\ Cardinality(Past(p2pTimes', s)) \in Nat
    BY <1>2, PartOfLog DEF IsLog, Since
  <2>4. Recent(p2pTimes') \subseteq Since(p2pTimes', s) \cup Past(p2pTimes', s)
    <3>1. clock < s + W
      BY <1>9, <1>10
    <3> SUFFICES ASSUME NEW x \in p2pTimes', clock - x[1] < W, ~(x[1] >= s)
                 PROVE  s - W <= x[1] /\ x[1] < s
      BY DEF Recent, Since
    <3>2. x[1] \in Nat
      BY <1>2 DEF IsLog
    <3> HIDE DEF s
    <3> QED
      BY <2>1, <3>1, <3>2
  <2> HIDE DEF s, Past
  <2>5. /\ IsFiniteSet(Since(p2pTimes', s) \cup Past(p2pTimes', s))
        /\ Cardinality(Since(p2pTimes', s) \cup Past(p2pTimes', s)) <=
             Cardinality(Since(p2pTimes', s)) + Cardinality(Past(p2pTimes', s))
    <3>1. /\ IsFiniteSet(Since(p2pTimes', s) \cup Past(p2pTimes', s))
          /\ Cardinality(Since(p2pTimes', s) \cup Past(p2pTimes', s)) =
               Cardinality(Since(p2pTimes', s)) + Cardinality(Past(p2pTimes', s))
               - Cardinality(Since(p2pTimes', s) \cap Past(p2pTimes', s))
      BY <2>3, FS_Union
    <3>2. Cardinality(Since(p2pTimes', s) \cap Past(p2pTimes', s)) \in Nat
      BY <2>3, FS_Intersection, FS_CardinalityType
    <3> QED
      BY <2>3, <3>1, <3>2
  <2>6. /\ Cardinality(Recent(p2pTimes')) <= Cardinality(Since(p2pTimes', s) \cup Past(p2pTimes', s))
        /\ Cardinality(Recent(p2pTimes')) \in Nat
        /\ Cardinality(Since(p2pTimes', s) \cup Past(p2pTimes', s)) \in Nat
    BY <2>4, <2>5, FS_Subset, FS_CardinalityType
  <2> QED
    BY <2>2, <2>3, <2>5, <2>6
<1>12. Bounded(p2pTimes', 2 * P)
  BY <1>1, <1>11, BoundKept
<1>13. Bounded(p2pTimes, 2 * P)'
  BY <1>0, <1>12 DEF Bounded, Within
<1> QED
  BY <1>2, <1>9, <1>13

-----------------------------------------------------------------------------
(* All of them *)

\* The bounds of the three logs
LEMMA RatesAreBounds ==
    RatesHold <=> /\ Bounded(inTimes, PerWindow)
                  /\ Bounded(outTimes, 2 * PerWindow) /\ Bounded(p2pTimes, 2 * PerWindow)
BY DEF RatesHold, SlidingWindowHolds, BurstIsBounded, Bounded

\* A limiter that does not run keeps what is said of it.
LEMMA SlidingIdle ==
    ASSUME AccessTypeOK, SlidingSound, Bounded(inTimes, PerWindow), UNCHANGED <<stamps, inTimes, clock>>
    PROVE  IsLog(stamps)' /\ IsLog(inTimes)' /\ SlidingSound' /\ Bounded(inTimes, PerWindow)'
BY DEF AccessTypeOK, SlidingSound, Bounded, Within, Recent, KeptStamps, IsLog

\* A step that leaves the bucket and its log alone keeps what is known of
\* them.
LEMMA BucketIdle ==
    ASSUME AccessTypeOK, BucketSound, Bounded(outTimes, 2 * PerWindow),
           UNCHANGED <<tokens, refilled, outTimes, clock>>
    PROVE  /\ IsLog(outTimes)' /\ tokens' \in 0 .. PerWindow * Window /\ refilled' \in 0 .. clock'
           /\ BucketSound' /\ Bounded(outTimes, 2 * PerWindow)'
BY DEF AccessTypeOK, BucketSound, Bounded, Within, Since, IsLog

\* A step that leaves the fixed window and its log alone keeps what is
\* known of them.
LEMMA WindowIdle ==
    ASSUME AccessTypeOK, WindowSound, Bounded(p2pTimes, 2 * PerWindow), UNCHANGED <<opened, p2pTimes, clock>>
    PROVE  /\ IsLog(p2pTimes)' /\ opened' \in [count : Nat, resetAt : Nat]
           /\ WindowSound' /\ Bounded(p2pTimes, 2 * PerWindow)'
BY DEF AccessTypeOK, WindowSound, Bounded, Within, Since, IsLog

\* A check of one limiter leaves the other two alone.
LEMMA RateChecks ==
    ASSUME AccessInv, CheckIncomingRate \/ CheckOutgoingRate \/ CheckWindow
    PROVE  AccessInv'
<1> USE RatesAreBounds DEF AccessInv
<1>1. UNCHANGED <<clock, listed>>
  BY DEF CheckIncomingRate, CheckOutgoingRate, CheckWindow, Rated, listVars
<1>2. IsLog(stamps)' /\ IsLog(inTimes)' /\ SlidingSound' /\ Bounded(inTimes, PerWindow)'
  <2>1. CASE CheckIncomingRate
    BY <2>1, SlidingStep DEF SlidingWindowHolds, Bounded
  <2>2. CASE CheckOutgoingRate \/ CheckWindow
    BY <1>1, <2>2, SlidingIdle DEF CheckOutgoingRate, CheckWindow
  <2> QED
    BY <2>1, <2>2
<1>3. /\ IsLog(outTimes)' /\ tokens' \in 0 .. PerWindow * Window /\ refilled' \in 0 .. clock'
      /\ BucketSound' /\ Bounded(outTimes, 2 * PerWindow)'
  <2>1. CASE CheckOutgoingRate
    BY <2>1, BucketStep
  <2>2. CASE CheckIncomingRate \/ CheckWindow
    BY <1>1, <2>2, BucketIdle DEF CheckIncomingRate, CheckWindow
  <2> QED
    BY <2>1, <2>2
<1>4. /\ IsLog(p2pTimes)' /\ opened' \in [count : Nat, resetAt : Nat]
      /\ WindowSound' /\ Bounded(p2pTimes, 2 * PerWindow)'
  <2>1. CASE CheckWindow
    BY <2>1, WindowStep
  <2>2. CASE CheckIncomingRate \/ CheckOutgoingRate
    BY <1>1, <2>2, WindowIdle DEF CheckIncomingRate, CheckOutgoingRate
  <2> QED
    BY <2>1, <2>2
<1>5. AccessTypeOK'
  BY <1>1, <1>2, <1>3, <1>4 DEF AccessTypeOK
<1>6. RatesHold'
  BY <1>2, <1>3, <1>4 DEF RatesHold, SlidingWindowHolds, BurstIsBounded, Bounded
<1> QED
  BY <1>2, <1>3, <1>4, <1>5, <1>6

\* Time passes: stamps leave the windows, none enters.
LEMMA TickStep ==
    ASSUME AccessInv, ClockTicks
    PROVE  AccessInv'
<1> USE AccessAssumption DEF AccessInv, AccessTypeOK
<1>1. clock' = clock + 1 /\ UNCHANGED <<listed, stamps, tokens, refilled, opened, inTimes, outTimes, p2pTimes>>
  BY DEF ClockTicks, listVars, rateVars
<1>2. ASSUME NEW times, IsLog(times)
      PROVE  \A x \in times : x[1] <= clock + 1
  BY <1>2 DEF IsLog
<1>3. AccessTypeOK'
  BY <1>1, <1>2 DEF IsLog
<1>4. SlidingSound'
  <2>1. inTimes' = inTimes /\ stamps' = stamps /\ clock' = clock + 1
    BY <1>1
  <2>2. /\ Recent(inTimes)' = {x \in inTimes' : clock' - x[1] < Window}
        /\ KeptStamps' = {x \in stamps' : clock' - x[1] < Window}
    BY DEF Recent, KeptStamps
  <2>3. ASSUME NEW x, clock' - x[1] < Window, x \in inTimes \/ x \in stamps
        PROVE  clock - x[1] < Window
    BY <2>1, <2>3 DEF IsLog
  <2>4. ASSUME NEW x, clock - x[1] < Window
        PROVE  x \in inTimes <=> x \in stamps
    BY <2>4 DEF SlidingSound, Recent, KeptStamps
  <2>5. {x \in inTimes' : clock' - x[1] < Window} = {x \in stamps' : clock' - x[1] < Window}
    BY <2>1, <2>3, <2>4
  <2> QED
    BY <2>2, <2>5 DEF SlidingSound
<1>5. BucketSound'
  BY <1>1 DEF BucketSound, Since
<1>6. WindowSound'
  BY <1>1 DEF WindowSound, Since
<1>7. ASSUME NEW times, IsLog(times), NEW limit \in Nat, Bounded(times, limit)
      PROVE  \A t \in 0 .. clock + 1 : Within(times, t) <= limit
  <2>1. Within(times, clock + 1) <= limit
    BY <1>7, NextMinute DEF Bounded
  <2> QED
    BY <1>7, <2>1 DEF Bounded
<1>8. RatesHold'
  <2>1. /\ \A t \in 0 .. clock + 1 : Within(inTimes, t) <= PerWindow
        /\ \A t \in 0 .. clock + 1 : Within(outTimes, t) <= 2 * PerWindow
        /\ \A t \in 0 .. clock + 1 : Within(p2pTimes, t) <= 2 * PerWindow
    BY <1>7, RatesAreBounds
  <2> QED
    BY <1>1, <2>1 DEF RatesHold, SlidingWindowHolds, BurstIsBounded, Within
<1> QED
  BY <1>3, <1>4, <1>5, <1>6, <1>8

\* An edit of the sender lists leaves the limiters alone.
LEMMA ListsStep ==
    ASSUME AccessInv, listed' \in [Contacts -> SUBSET Lists], UNCHANGED clock, UNCHANGED rateVars
    PROVE  AccessInv'
<1> USE RatesAreBounds DEF AccessInv, rateVars
<1>1. IsLog(stamps)' /\ IsLog(inTimes)' /\ SlidingSound' /\ Bounded(inTimes, PerWindow)'
  BY SlidingIdle
<1>2. /\ IsLog(outTimes)' /\ tokens' \in 0 .. PerWindow * Window /\ refilled' \in 0 .. clock'
      /\ BucketSound' /\ Bounded(outTimes, 2 * PerWindow)'
  BY BucketIdle
<1>3. /\ IsLog(p2pTimes)' /\ opened' \in [count : Nat, resetAt : Nat]
      /\ WindowSound' /\ Bounded(p2pTimes, 2 * PerWindow)'
  BY WindowIdle
<1>4. AccessTypeOK'
  BY <1>1, <1>2, <1>3 DEF AccessTypeOK
<1>5. RatesHold'
  BY <1>1, <1>2, <1>3 DEF RatesHold, SlidingWindowHolds, BurstIsBounded, Bounded
<1> QED
  BY <1>1, <1>2, <1>3, <1>4, <1>5

\* The first test of classifyAgentSender, before and after a step
LEMMA BlockedTier ==
    ASSUME NEW s \in Contacts
    PROVE  /\ Tier(s) = "blocked" <=> "blocked" \in listed[s]
           /\ Tier(s)' = "blocked" <=> "blocked" \in listed'[s]
<1>1. Tier(s) = "blocked" <=> "blocked" \in listed[s]
  <2>1. CASE "blocked" \in listed[s]
    BY <2>1 DEF Tier
  <2>2. CASE "blocked" \notin listed[s] /\ "approved" \in listed[s]
    BY <2>2 DEF Tier
  <2>3. CASE listed[s] \cap {"blocked", "approved"} = {}
    BY <2>3 DEF Tier
  <2> QED
    BY <2>1, <2>2, <2>3
<1>2. Tier(s)' = "blocked" <=> "blocked" \in listed'[s]
  <2>1. CASE "blocked" \in listed'[s]
    BY <2>1 DEF Tier
  <2>2. CASE "blocked" \notin listed'[s] /\ "approved" \in listed'[s]
    BY <2>2 DEF Tier
  <2>3. CASE listed'[s] \cap {"blocked", "approved"} = {}
    BY <2>3 DEF Tier
  <2> QED
    BY <2>1, <2>2, <2>3
<1> QED
  BY <1>1, <1>2

\* Nothing was let through at the start.
LEMMA AccessInitInv == AccessInit => AccessInv
<1> SUFFICES ASSUME AccessInit
             PROVE  AccessInv
  OBVIOUS
<1> USE AccessAssumption DEF AccessInit
<1>1. IsFiniteSet({}) /\ Cardinality({}) = 0
  BY FS_EmptySet
<1>2. PerWindow * Window \in Nat
  OBVIOUS
<1>3. AccessTypeOK
  BY <1>1, <1>2 DEF AccessTypeOK, IsLog, Lists
<1>4. \A t : Since(outTimes, t) = {} /\ Since(p2pTimes, t) = {}
  BY DEF Since
<1>5. BucketSound
  <2>1. ASSUME NEW t \in Int, t <= 0
        PROVE  0 * Window + PerWindow * Window <= PerWindow * Window + (0 - t) * PerWindow
    <3>1. (0 - t) * PerWindow >= 0 /\ (0 - t) * PerWindow \in Int
      BY <2>1
    <3> QED
      BY <1>2, <3>1
  <2> QED
    BY <1>1, <1>4, <2>1 DEF BucketSound
<1>6. WindowSound
  <2>1. {x \in p2pTimes : opened.resetAt - Window - Window <= x[1] /\ x[1] < opened.resetAt - Window} = {}
    OBVIOUS
  <2> QED
    BY <1>1, <1>4, <2>1 DEF WindowSound
<1>7. \A t : Within(inTimes, t) = 0 /\ Within(outTimes, t) = 0 /\ Within(p2pTimes, t) = 0
  <2>1. \A t : {x \in {} : x[1] <= t /\ t < x[1] + Window} = {}
    OBVIOUS
  <2> QED
    BY <1>1, <2>1 DEF Within
<1>8. RatesHold
  BY <1>7 DEF RatesHold, SlidingWindowHolds, BurstIsBounded
<1>9. SlidingSound
  BY DEF SlidingSound, Recent, KeptStamps
<1> QED
  BY <1>3, <1>5, <1>6, <1>8, <1>9 DEF AccessInv

\* An edit of the sender lists, of any kind, ends a block only when it is
\* meant to.
LEMMA EditStep ==
    ASSUME AccessInv, NEW s \in Contacts, ListStep(s)
    PROVE  /\ listed' \in [Contacts -> SUBSET Lists] /\ UNCHANGED clock /\ UNCHANGED rateVars
           /\ \A r \in Contacts : "blocked" \in listed[r] =>
                 "blocked" \in listed'[r] \/ lastOp' \in {"unblock", "remove"}
<1> USE DEF AccessInv, AccessTypeOK, Lists
<1>1. CASE \E lists \in SUBSET Lists : \E op :
              /\ Edit(s, lists, op)
              /\ "blocked" \in lists \/ "blocked" \notin listed[s] \/ op \in {"unblock", "remove"}
  BY <1>1 DEF Edit
<1>2. CASE ApprovalExpires(s)
  BY <1>2 DEF ApprovalExpires
<1> QED
  BY <1>1, <1>2 DEF ListStep, AddApproved, AddDenied, AddBlocked, AddPending, RemoveSender,
     UnblockSender, ApprovedLists

\* No minute, wherever it starts, has more incoming requests than the limit
\* or more outgoing and peer requests than twice the limit, and a block ends
\* only by unblocking or removing the sender (checkIncomingRate,
\* checkOutgoingRate and the lists of extensions/access-control.ts, RateLimiter
\* of core/rate-limiter.ts).
THEOREM LimitsAreKept == AccessSpec => LimitsHold
<1> DEFINE Block == \A s \in Contacts : Tier(s) = "blocked" =>
                        Tier(s)' = "blocked" \/ lastOp' \in {"unblock", "remove"}
<1>1. AccessInv /\ [AccessNext]_accessVars => AccessInv' /\ [Block]_accessVars
  <2> SUFFICES ASSUME AccessInv, [AccessNext]_accessVars
               PROVE  AccessInv' /\ [Block]_accessVars
    OBVIOUS
  <2>1. /\ \A s \in Contacts : Tier(s) = "blocked" <=> "blocked" \in listed[s]
        /\ \A s \in Contacts : Tier(s)' = "blocked" <=> "blocked" \in listed'[s]
    BY BlockedTier
  <2>2. CASE CheckIncomingRate \/ CheckOutgoingRate \/ CheckWindow \/ ClockTicks
    <3>1. UNCHANGED listed
      BY <2>2 DEF CheckIncomingRate, CheckOutgoingRate, CheckWindow, ClockTicks, Rated, listVars
    <3>2. AccessInv'
      BY <2>2, RateChecks, TickStep
    <3> QED
      BY <2>1, <3>1, <3>2
  <2>3. CASE \E s \in Contacts : ListStep(s)
    <3>1. AccessInv'
      BY <2>3, EditStep, ListsStep
    <3>2. Block
      BY <2>1, <2>3, EditStep
    <3> QED
      BY <3>1, <3>2
  <2>4. CASE UNCHANGED accessVars
    <3>1. listed' \in [Contacts -> SUBSET Lists] /\ UNCHANGED clock /\ UNCHANGED rateVars
      BY <2>4 DEF accessVars, rateVars, AccessInv, AccessTypeOK
    <3>2. AccessInv'
      BY <3>1, ListsStep
    <3> QED
      BY <2>4, <3>2
  <2> QED
    BY <2>2, <2>3, <2>4 DEF AccessNext
<1>2. AccessInv => RatesHold
  BY DEF AccessInv
<1>3. AccessInv' => RatesHold'
  BY DEF AccessInv
<1> QED
  BY <1>1, <1>2, <1>3, AccessInitInv, PTL DEF AccessSpec, LimitsHold, BlockStays

=============================================================================
