---------------------------- MODULE NetworkProofs ----------------------------
(***************************************************************************)
(* Proofs about the network side of an agent.  A2ADelivery, for any        *)
(* messages, retry and LAN limits, any queue and dedup capacity and any    *)
(* number of restarts: what a caller of the router may rely on, and that   *)
(* each step of router, SDK, retry queue and peer is a step of             *)
(* MessageLink.  ContactCache and PeerHeartbeat, for any sets of contacts, *)
(* concurrent fetches and peers: what the agent remembers of the network.  *)
(***************************************************************************)
EXTENDS A2ADelivery, ContactCache, PeerHeartbeat, FiniteSetTheorems, TLAPS

A2ASpec == A2AInit /\ [][A2ANext]_a2aVars

-----------------------------------------------------------------------------
(* A2ADelivery: the invariant                                              *)

\* A message with an entry in the retry queue, a pass under way or a status
\* event was answered "queued" and has used no LAN address; an entry that is
\* being sent is not due as well; and the queue is done with a message it
\* reported delivered or failed.
SenderSound(m) ==
    /\ pc[m] # "answered" => /\ queue[m] = "absent" /\ attempt[m] = "none"
                             /\ statuses[m] = {} /\ tries[m] = 0 /\ reply[m] = "none"
    /\ pc[m] \in {"idle", "presence", "posting"} => host[m] = 0
    /\ queue[m] # "absent" \/ attempt[m] # "none" \/ statuses[m] # {} =>
          reply[m] = "queued" /\ host[m] = 0
    /\ attempt[m] # "none" => queue[m] # "pending"
    /\ queue[m] = "pending" => tries[m] < MaxAttempts
    /\ "delivered" \in statuses[m] \/ "failed" \in statuses[m] =>
          /\ queue[m] = "absent" /\ attempt[m] = "none"
          /\ ~({"delivered", "failed"} \subseteq statuses[m])

\* The attempts at a message whose posts are in S, among the attempts I.
Slots(S, m, I) == {k \in I : Post(m, k) \in S}
SdkTries == 0 .. MaxAttempts
LanTries == MaxAttempts + 1 .. MaxAttempts + LanHosts

\* The SDK posts of a message made so far, at most.
SdkSent(m) ==
    IF pc[m] \in {"idle", "presence"} THEN 0
    ELSE IF attempt[m] = "presence" THEN tries[m] ELSE tries[m] + 1

\* A copy was heard, is on the wire or waits for the member list, and each
\* post accounts for one of them at most.
CopiesCounted(m) ==
    /\ heard[m].sdk + Cardinality(Slots(wire, m, SdkTries))
                    + Cardinality(Slots(checking, m, SdkTries)) <= SdkSent(m)
    /\ heard[m].lan + Cardinality(Slots(wire, m, LanTries)) <= host[m]

Arrived(m) == heard[m].sdk + heard[m].lan > 0 \/ m \in refused

PeerTypeOK ==
    /\ seen \in [{"dm", "group"} -> Seq(A2AMessages \X {"messageId", "retryId"})]
    /\ heard \in [A2AMessages -> [sdk : Nat, lan : Nat]]

\* Nothing arrives, or is refused, of a message that was not sent, and only
\* group envelopes of the SDK wait for the member list.
WireSound ==
    /\ \A w \in wire \cup checking : pc[w.msg] # "idle"
    /\ \A w \in checking : ~IsLan(w) /\ w.msg \notin Dms
    /\ \A m \in refused : pc[m] # "idle"

\* Remembered ids are those of messages that were heard; until ids are lost,
\* a direct message that was heard is remembered and was heard once.
SeenSound ==
    /\ \A k \in {"dm", "group"} : \A i \in DOMAIN seen[k] : heard[seen[k][i][1]].sdk > 0
    /\ ~forgot => \A m \in Dms :
          /\ heard[m].sdk <= 1
          /\ heard[m].sdk > 0 => \E i \in DOMAIN seen["dm"] : seen["dm"][i] = <<m, "messageId">>

\* What the peer answered with 200 has arrived.
AckedSound == \A w \in acked : Arrived(w.msg)

DeliveryInv ==
    /\ A2ATypeOK /\ PeerTypeOK
    /\ \A m \in A2AMessages : SenderSound(m) /\ CopiesCounted(m)
    /\ WireSound /\ SeenSound /\ AckedSound /\ DeliveredWasHandled

-----------------------------------------------------------------------------
(* Counting posts                                                          *)

\* The counts are numbers.
LEMMA SlotsFinite ==
    ASSUME NEW S, NEW m, NEW I, I = SdkTries \/ I = LanTries
    PROVE  IsFiniteSet(Slots(S, m, I)) /\ Cardinality(Slots(S, m, I)) \in Nat
<1>1. IsFiniteSet(I)
  BY FS_Interval, A2AAssumption DEF SdkTries, LanTries
<1>2. IsFiniteSet(Slots(S, m, I))
  BY <1>1, FS_Subset DEF Slots
<1> QED
  BY <1>2, FS_CardinalityType

\* A new post adds one copy at most, and only to the attempts it belongs to.
LEMMA SlotAdded ==
    ASSUME NEW S, NEW m, NEW I, I = SdkTries \/ I = LanTries, NEW k
    PROVE  /\ Cardinality(Slots(S \cup {Post(m, k)}, m, I)) <= Cardinality(Slots(S, m, I)) + 1
           /\ k \notin I => Slots(S \cup {Post(m, k)}, m, I) = Slots(S, m, I)
<1>1. IsFiniteSet(Slots(S, m, I)) /\ Cardinality(Slots(S, m, I)) \in Nat
  BY SlotsFinite
<1>2. CASE k \in I
  <2>1. Slots(S \cup {Post(m, k)}, m, I) = Slots(S, m, I) \cup {k}
    BY <1>2 DEF Slots, Post
  <2> DEFINE T == Slots(S, m, I)
  <2>2. IsFiniteSet(T) /\ Cardinality(T) \in Nat
    BY <1>1
  <2> HIDE DEF T
  <2>3. Cardinality(T \cup {k}) = IF k \in T THEN Cardinality(T) ELSE Cardinality(T) + 1
    BY <2>2, FS_AddElement
  <2>4. Cardinality(T \cup {k}) <= Cardinality(T) + 1
    BY <2>2, <2>3
  <2> QED
    BY <1>2, <2>1, <2>4 DEF T
<1>3. CASE k \notin I
  <2>1. Slots(S \cup {Post(m, k)}, m, I) = Slots(S, m, I)
    BY <1>3 DEF Slots, Post
  <2> QED
    BY <1>1, <1>3, <2>1
<1> QED
  BY <1>2, <1>3

\* Taking a post away takes one copy from the attempts it belongs to.
LEMMA SlotRemoved ==
    ASSUME NEW S, NEW m, NEW I, I = SdkTries \/ I = LanTries, NEW k, Post(m, k) \in S
    PROVE  /\ k \in I => Cardinality(Slots(S \ {Post(m, k)}, m, I))
                            = Cardinality(Slots(S, m, I)) - 1
           /\ k \notin I => Slots(S \ {Post(m, k)}, m, I) = Slots(S, m, I)
<1>1. IsFiniteSet(Slots(S, m, I)) /\ Cardinality(Slots(S, m, I)) \in Nat
  BY SlotsFinite
<1>2. CASE k \in I
  <2>1. Slots(S \ {Post(m, k)}, m, I) = Slots(S, m, I) \ {k} /\ k \in Slots(S, m, I)
    BY <1>2 DEF Slots, Post
  <2> QED
    BY <1>1, <1>2, <2>1, FS_RemoveElement
<1>3. CASE k \notin I
  BY <1>3 DEF Slots, Post
<1> QED
  BY <1>2, <1>3

\* The posts of other messages are not counted.
LEMMA SlotsOfOthers ==
    ASSUME NEW S, NEW m, NEW o, o # m, NEW I, NEW k
    PROVE  /\ Slots(S \cup {Post(m, k)}, o, I) = Slots(S, o, I)
           /\ Slots(S \ {Post(m, k)}, o, I) = Slots(S, o, I)
BY DEF Slots, Post

\* The invariant implies what the runs check.
LEMMA InvImpliesSound == DeliveryInv => DeliverySound
<1> SUFFICES ASSUME DeliveryInv PROVE DeliverySound
  OBVIOUS
<1>1. A2ATypeOK /\ DeliveredWasHandled
  BY DEF DeliveryInv
<1>2. OneVerdict
  BY DEF DeliveryInv, OneVerdict, SenderSound
<1>3. ASSUME NEW m \in A2AMessages
      PROVE  /\ heard[m].sdk \in Nat /\ heard[m].lan \in Nat
             /\ heard[m].sdk <= MaxAttempts + 1 /\ heard[m].lan <= host[m]
             /\ host[m] \in 0 .. LanHosts
  <2>2. /\ Cardinality(Slots(wire, m, SdkTries)) \in Nat
        /\ Cardinality(Slots(checking, m, SdkTries)) \in Nat
        /\ Cardinality(Slots(wire, m, LanTries)) \in Nat
    BY SlotsFinite
  <2>3. heard[m].sdk \in Nat /\ heard[m].lan \in Nat /\ host[m] \in 0 .. LanHosts
        /\ tries[m] \in 0 .. MaxAttempts
    BY DEF DeliveryInv, A2ATypeOK, PeerTypeOK
  <2>4. CopiesCounted(m)
    BY DEF DeliveryInv
  <2>5. SdkSent(m) \in Nat /\ SdkSent(m) <= MaxAttempts + 1
    BY <2>3, A2AAssumption DEF SdkSent
  <2> QED
    BY <2>2, <2>3, <2>4, <2>5, A2AAssumption DEF CopiesCounted
<1>4. OneRoutePerMessage
  <2>1. ASSUME NEW m \in A2AMessages, heard[m].lan > 0
        PROVE  host[m] # 0
    BY <1>3, <2>1
  <2> QED
    BY <2>1 DEF DeliveryInv, OneRoutePerMessage, SenderSound
<1>5. CopiesBounded
  <2>1. ASSUME NEW m \in A2AMessages, ~forgot, m \in Dms
        PROVE  heard[m].sdk <= 1
    BY <2>1 DEF DeliveryInv, SeenSound
  <2>2. ASSUME NEW m \in A2AMessages
        PROVE  heard[m].lan <= LanHosts
    BY <1>3, A2AAssumption
  <2> QED
    BY <1>3, <2>1, <2>2 DEF CopiesBounded
<1> QED
  BY <1>1, <1>2, <1>4, <1>5 DEF DeliverySound

-----------------------------------------------------------------------------
(* The sender                                                              *)

SenderTypeOK ==
    /\ route \in [A2AMessages -> {"auto", "lan", "relay"}]
    /\ pc \in [A2AMessages -> {"idle", "presence", "posting", "lan", "lanWait", "answered"}]
    /\ reply \in [A2AMessages -> {"none", "delivered", "queued", "failed"}]
    /\ queue \in [A2AMessages -> {"absent", "pending", "sending"}]
    /\ attempt \in [A2AMessages -> {"none", "presence", "posting"}]
    /\ tries \in [A2AMessages -> 0 .. MaxAttempts]
    /\ host \in [A2AMessages -> 0 .. LanHosts]
    /\ statuses \in [A2AMessages -> SUBSET {"delivered", "failed", "expired"}]

\* A step for one message leaves the others alone.
OthersKept(m) ==
    \A o \in A2AMessages \ {m} :
        /\ pc'[o] = pc[o] /\ reply'[o] = reply[o] /\ queue'[o] = queue[o]
        /\ attempt'[o] = attempt[o] /\ tries'[o] = tries[o] /\ host'[o] = host[o]
        /\ statuses'[o] = statuses[o]

\* A step posts nothing, or one post that the limits of its route count.
PostsCounted(m) ==
    \/ wire' = wire /\ SdkSent(m)' >= SdkSent(m) /\ host'[m] = host[m]
    \/ /\ pc[m] # "idle" /\ host'[m] = host[m]
       /\ \E k \in SdkTries : wire' = wire \cup {Post(m, k)}
       /\ SdkSent(m)' >= SdkSent(m) + 1
    \/ /\ pc[m] # "idle" /\ host'[m] = host[m] + 1
       /\ \E k \in LanTries : wire' = wire \cup {Post(m, k)}
       /\ SdkSent(m)' >= SdkSent(m)

\* "delivered" is said of what had arrived.
DeliveredStep(m) == SaysDelivered(m)' => SaysDelivered(m) \/ Arrived(m)

SenderAdvance(m) ==
    /\ SenderTypeOK' /\ SenderSound(m)' /\ OthersKept(m) /\ PostsCounted(m) /\ DeliveredStep(m)
    /\ pc'[m] # "idle"
    /\ UNCHANGED <<acked, restarts, peerVars>>

\* What sendDM or sendGroup does with the answer of the SDK.
LEMMA AfterRelayCases ==
    ASSUME NEW m, NEW status, AfterRelay(m, status)
    PROVE  \/ Answer(m, status)
           \/ status = "failed" /\ pc' = [pc EXCEPT ![m] = "lan"] /\ UNCHANGED <<reply, host>>
BY DEF AfterRelay, GroupAnswer

\* A message that was not delivered at once is queued and answered so, or
\* the queue is full and the next route is tried.
LEMMA EnqueueCases ==
    ASSUME NEW m, EnqueueOrFail(m)
    PROVE  \/ queue' = [queue EXCEPT ![m] = "pending"] /\ Answer(m, "queued")
           \/ queue' = queue /\ AfterRelay(m, "failed")
BY AfterRelayCases DEF EnqueueOrFail

\* An answer of 200 means that the message arrived.
LEMMA AckMeansArrived ==
    ASSUME DeliveryInv, NEW m, NEW k, Post(m, k) \in acked
    PROVE  Arrived(m)
BY DEF DeliveryInv, AckedSound, Post

\* The router's own steps.
LEMMA RouterAdvance ==
    ASSUME DeliveryInv, NEW m \in A2AMessages,
           \/ \E r \in {"auto", "lan", "relay"} : RouterSend(m, r)
           \/ LanPost(m) \/ LanReturn(m)
    PROVE  SenderAdvance(m)
<1>0. SenderTypeOK /\ SenderSound(m) /\ tries[m] \in Nat /\ host[m] \in Nat
  BY A2AAssumption DEF DeliveryInv, A2ATypeOK, SenderTypeOK
<1> USE <1>0 DEF SenderAdvance, OthersKept, PostsCounted, DeliveredStep, SdkSent, SaysDelivered
<1>1. ASSUME NEW r \in {"auto", "lan", "relay"}, RouterSend(m, r)
      PROVE  SenderAdvance(m)
  <2>1. SenderTypeOK'
    BY <1>1 DEF RouterSend, RefuseRequest, Answer, SenderTypeOK
  <2>2. SenderSound(m)'
    BY <1>1 DEF RouterSend, RefuseRequest, Answer, SenderTypeOK, SenderSound
  <2> QED
    BY <1>1, <2>1, <2>2
       DEF RouterSend, RefuseRequest, Answer, SenderTypeOK, SenderSound, peerVars
<1>2. CASE LanPost(m)
  <2>1. SenderTypeOK'
    BY <1>2, A2AAssumption DEF LanPost, Answer, SenderTypeOK
  <2>2. SenderSound(m)'
    BY <1>2, A2AAssumption DEF LanPost, Answer, SenderTypeOK, SenderSound
  <2>3. /\ OthersKept(m) /\ DeliveredStep(m) /\ pc'[m] # "idle"
        /\ UNCHANGED <<acked, restarts, peerVars>>
    BY <1>2, A2AAssumption DEF LanPost, Answer, SenderTypeOK, SenderSound, peerVars
  <2>4. PostsCounted(m)
    <3>1. CASE host' = [host EXCEPT ![m] = @ + 1]
      <4>1. host'[m] = host[m] + 1 /\ LanTry(host'[m]) \in LanTries
        BY <1>2, <3>1, A2AAssumption DEF LanPost, SenderTypeOK, LanTry, LanTries
      <4>2. wire' = wire \cup {Post(m, LanTry(host'[m]))}
        BY <1>2, <3>1, <4>1 DEF LanPost, Answer
      <4> QED
        BY <1>2, <4>1, <4>2 DEF LanPost, Answer, SenderTypeOK, SenderSound
    <3>2. CASE wire' = wire /\ host' = host
      BY <1>2, <3>2 DEF LanPost, Answer, SenderTypeOK, SenderSound
    <3> QED
      BY <1>2, <3>1, <3>2 DEF LanPost, Answer
  <2> QED
    BY <2>1, <2>2, <2>3, <2>4
<1>3. CASE LanReturn(m)
  <2>1. SenderTypeOK'
    BY <1>3 DEF LanReturn, Answer, SenderTypeOK
  <2>2. SenderSound(m)'
    BY <1>3 DEF LanReturn, Answer, SenderTypeOK, SenderSound
  <2>3. DeliveredStep(m)
    BY <1>3, AckMeansArrived DEF LanReturn, Answer, SenderTypeOK, SenderSound
  <2> QED
    BY <1>3, <2>1, <2>2, <2>3 DEF LanReturn, Answer, SenderTypeOK, SenderSound, peerVars
<1> QED
  BY <1>1, <1>2, <1>3

\* The SDK: presence, the direct post and its return.
LEMMA SdkAdvance ==
    ASSUME DeliveryInv, NEW m \in A2AMessages,
           SdkRefuses(m) \/ PresenceOffline(m) \/ PresenceOnline(m) \/ DirectReturn(m)
    PROVE  SenderAdvance(m)
<1>0. SenderTypeOK /\ SenderSound(m) /\ tries[m] \in Nat /\ host[m] \in Nat
  BY A2AAssumption DEF DeliveryInv, A2ATypeOK, SenderTypeOK
<1> USE <1>0 DEF SenderAdvance, OthersKept, PostsCounted, DeliveredStep, SdkSent, SaysDelivered
<1>1. CASE PresenceOnline(m)
  <2>1. SenderTypeOK'
    BY <1>1 DEF PresenceOnline, SenderTypeOK
  <2>2. SenderSound(m)'
    BY <1>1 DEF PresenceOnline, SenderTypeOK, SenderSound
  <2>3. 0 \in SdkTries
    BY A2AAssumption DEF SdkTries
  <2> QED
    BY <1>1, <2>1, <2>2, <2>3 DEF PresenceOnline, SenderTypeOK, SenderSound, peerVars
<1>2. ASSUME SdkRefuses(m) \/ PresenceOffline(m) \/ DirectReturn(m)
      PROVE  SenderAdvance(m)
  <2>1. /\ pc[m] \in {"presence", "posting"}
        /\ UNCHANGED <<route, attempt, tries, statuses, wire, acked, restarts, peerVars>>
    BY <1>2 DEF SdkRefuses, PresenceOffline, DirectReturn, peerVars
  <2>2. \/ queue' = [queue EXCEPT ![m] = "pending"] /\ Answer(m, "queued")
        \/ queue' = queue /\ Answer(m, "failed")
        \/ queue' = queue /\ pc' = [pc EXCEPT ![m] = "lan"] /\ UNCHANGED <<reply, host>>
        \/ queue' = queue /\ Answer(m, "delivered") /\ Arrived(m)
    BY <1>2, EnqueueCases, AfterRelayCases, AckMeansArrived
       DEF SdkRefuses, PresenceOffline, DirectReturn
  <2>3. SenderTypeOK'
    BY <2>1, <2>2 DEF Answer, SenderTypeOK
  <2>4. SenderSound(m)'
    BY <2>1, <2>2, A2AAssumption DEF Answer, SenderTypeOK, SenderSound
  <2> QED
    BY <2>1, <2>2, <2>3, <2>4 DEF Answer, SenderTypeOK, SenderSound
<1> QED
  BY <1>1, <1>2

\* The retry queue.
LEMMA RetryAdvance ==
    ASSUME DeliveryInv, NEW m \in A2AMessages,
           \/ RetryStart(m) \/ RetryOffline(m) \/ RetryOnline(m) \/ RetryThrows(m)
           \/ RetryReturn(m) \/ Expire(m)
    PROVE  SenderAdvance(m)
<1>0. SenderTypeOK /\ SenderSound(m) /\ tries[m] \in Nat /\ host[m] \in Nat
  BY A2AAssumption DEF DeliveryInv, A2ATypeOK, SenderTypeOK
<1> USE <1>0 DEF SenderAdvance, OthersKept, PostsCounted, DeliveredStep, SdkSent, SaysDelivered
<1>1. CASE RetryStart(m)
  <2>1. SenderTypeOK'
    BY <1>1, A2AAssumption DEF RetryStart, SenderTypeOK, SenderSound
  <2>2. SenderSound(m)'
    BY <1>1 DEF RetryStart, SenderTypeOK, SenderSound
  <2> QED
    BY <1>1, <2>1, <2>2 DEF RetryStart, SenderTypeOK, SenderSound, peerVars
<1>2. CASE RetryOnline(m)
  <2>1. SenderTypeOK'
    BY <1>2 DEF RetryOnline, SenderTypeOK
  <2>2. SenderSound(m)'
    BY <1>2 DEF RetryOnline, SenderTypeOK, SenderSound
  <2>3. tries[m] \in SdkTries
    BY DEF SdkTries, SenderTypeOK
  <2> QED
    BY <1>2, <2>1, <2>2, <2>3 DEF RetryOnline, SenderTypeOK, SenderSound, peerVars
<1>3. CASE RetryThrows(m)
  <2>1. SenderTypeOK'
    BY <1>3 DEF RetryThrows, SenderTypeOK
  <2>2. SenderSound(m)'
    BY <1>3 DEF RetryThrows, SenderTypeOK, SenderSound
  <2> QED
    BY <1>3, <2>1, <2>2 DEF RetryThrows, SenderTypeOK, SenderSound, peerVars
<1>4. CASE Expire(m)
  <2>1. SenderTypeOK'
    BY <1>4 DEF Expire, SenderTypeOK
  <2>2. SenderSound(m)'
    BY <1>4 DEF Expire, SenderTypeOK, SenderSound
  <2> QED
    BY <1>4, <2>1, <2>2 DEF Expire, SenderTypeOK, SenderSound, peerVars
<1>5. ASSUME NEW success \in BOOLEAN, RetryEnds(m, success), attempt[m] # "none",
             success => Arrived(m),
             UNCHANGED <<route, pc, reply, tries, host, wire, acked, restarts, peerVars>>
      PROVE  SenderAdvance(m)
  <2>1. SenderTypeOK'
    BY <1>5 DEF RetryEnds, SenderTypeOK
  <2>2. SenderSound(m)'
    BY <1>5, A2AAssumption DEF RetryEnds, SenderTypeOK, SenderSound
  <2>3. OthersKept(m) /\ PostsCounted(m)
    BY <1>5 DEF RetryEnds, SenderTypeOK, SenderSound
  <2>4. DeliveredStep(m)
    BY <1>5 DEF RetryEnds, SenderTypeOK, SenderSound
  <2> QED
    BY <1>5, <2>1, <2>2, <2>3, <2>4 DEF SenderSound
<1> QED
  BY <1>1, <1>2, <1>3, <1>4, <1>5, AckMeansArrived DEF RetryOffline, RetryReturn, peerVars

\* Every step of router, SDK and retry queue on a message moves its own
\* bookkeeping only forward.
LEMMA MessageAdvance ==
    ASSUME DeliveryInv, NEW m \in A2AMessages, MessageStep(m)
    PROVE  SenderAdvance(m)
BY RouterAdvance, SdkAdvance, RetryAdvance DEF MessageStep

\* A step of the sender keeps the whole invariant.
LEMMA SenderKeepsInv ==
    ASSUME DeliveryInv, NEW m \in A2AMessages, SenderAdvance(m)
    PROVE  DeliveryInv'
<1>0. /\ SenderTypeOK /\ SenderTypeOK' /\ PeerTypeOK
      /\ UNCHANGED <<acked, restarts, checking, seen, heard, refused, trusts, forgot>>
  BY DEF DeliveryInv, A2ATypeOK, SenderTypeOK, SenderAdvance, peerVars
<1>1. A2ATypeOK'
  <2>1. wire' \subseteq Posts
    BY A2AAssumption DEF SenderAdvance, PostsCounted, DeliveryInv, A2ATypeOK, Posts, Post,
       SdkTries, LanTries
  <2> QED
    BY <1>0, <2>1 DEF DeliveryInv, A2ATypeOK, SenderTypeOK
<1>2. ASSUME NEW o \in A2AMessages \ {m}
      PROVE  /\ SenderSound(o)' /\ CopiesCounted(o)' /\ SaysDelivered(o)' = SaysDelivered(o)
             /\ pc'[o] = pc[o]
  <2>1. /\ pc'[o] = pc[o] /\ reply'[o] = reply[o] /\ queue'[o] = queue[o]
        /\ attempt'[o] = attempt[o] /\ tries'[o] = tries[o] /\ host'[o] = host[o]
        /\ statuses'[o] = statuses[o]
    BY DEF SenderAdvance, OthersKept
  <2>2. /\ Slots(wire', o, SdkTries) = Slots(wire, o, SdkTries)
        /\ Slots(wire', o, LanTries) = Slots(wire, o, LanTries)
    BY SlotsOfOthers DEF SenderAdvance, PostsCounted
  <2>3. SenderSound(o) /\ CopiesCounted(o)
    BY DEF DeliveryInv
  <2>4. SenderSound(o)' /\ SaysDelivered(o)' = SaysDelivered(o)
    BY <2>1, <2>3 DEF SenderSound, SaysDelivered
  <2>5. SdkSent(o)' = SdkSent(o)
    BY <2>1 DEF SdkSent
  <2> QED
    BY <1>0, <2>1, <2>2, <2>3, <2>4, <2>5 DEF CopiesCounted
<1>3. CopiesCounted(m)'
  <2> DEFINE s  == Cardinality(Slots(wire, m, SdkTries))
             s1 == Cardinality(Slots(wire', m, SdkTries))
             l  == Cardinality(Slots(wire, m, LanTries))
             l1 == Cardinality(Slots(wire', m, LanTries))
             c  == Cardinality(Slots(checking, m, SdkTries))
  <2>1. s \in Nat /\ s1 \in Nat /\ l \in Nat /\ l1 \in Nat /\ c \in Nat
    BY SlotsFinite
  <2>2. /\ heard[m].sdk \in Nat /\ heard[m].lan \in Nat /\ host[m] \in Nat /\ host'[m] \in Nat
        /\ SdkSent(m) \in Nat /\ SdkSent(m)' \in Nat
    BY <1>0, A2AAssumption DEF PeerTypeOK, SenderTypeOK, SdkSent
  <2>3. heard[m].sdk + s + c <= SdkSent(m) /\ heard[m].lan + l <= host[m]
    BY DEF DeliveryInv, CopiesCounted
  <2>4. SdkTries \cap LanTries = {}
    BY A2AAssumption DEF SdkTries, LanTries
  <2>5. \/ s1 = s /\ l1 = l /\ SdkSent(m)' >= SdkSent(m) /\ host'[m] = host[m]
        \/ s1 <= s + 1 /\ l1 = l /\ SdkSent(m)' >= SdkSent(m) + 1 /\ host'[m] = host[m]
        \/ s1 = s /\ l1 <= l + 1 /\ SdkSent(m)' >= SdkSent(m) /\ host'[m] = host[m] + 1
    <3>1. CASE wire' = wire /\ SdkSent(m)' >= SdkSent(m) /\ host'[m] = host[m]
      BY <3>1
    <3>2. ASSUME NEW k \in SdkTries, wire' = wire \cup {Post(m, k)}
          PROVE  s1 <= s + 1 /\ l1 = l
      BY <2>4, <3>2, SlotAdded
    <3>3. ASSUME NEW k \in LanTries, wire' = wire \cup {Post(m, k)}
          PROVE  s1 = s /\ l1 <= l + 1
      BY <2>4, <3>3, SlotAdded
    <3> QED
      BY <3>1, <3>2, <3>3 DEF SenderAdvance, PostsCounted
  <2> HIDE DEF s, s1, l, l1, c
  <2>6. heard[m].sdk + s1 + c <= SdkSent(m)' /\ heard[m].lan + l1 <= host'[m]
    BY <2>1, <2>2, <2>3, <2>5
  <2> QED
    BY <1>0, <2>6 DEF CopiesCounted, s1, l1, c
<1>4. WireSound'
  <2>1. ASSUME NEW w \in wire' \cup checking'
        PROVE  pc'[w.msg] # "idle"
    <3>1. CASE w \in wire \cup checking
      <4>1. w.msg \in A2AMessages /\ pc[w.msg] # "idle"
        BY <3>1 DEF DeliveryInv, A2ATypeOK, WireSound, Posts
      <4>2. CASE w.msg = m
        BY <4>2 DEF SenderAdvance
      <4>3. CASE w.msg # m
        BY <1>2, <4>1, <4>3
      <4> QED
        BY <4>2, <4>3
    <3>2. CASE w \notin wire \cup checking
      <4>1. w.msg = m
        BY <1>0, <2>1, <3>2 DEF SenderAdvance, PostsCounted, Post
      <4> QED
        BY <4>1 DEF SenderAdvance
    <3> QED
      BY <3>1, <3>2
  <2>2. \A w \in checking' : ~IsLan(w) /\ w.msg \notin Dms
    BY <1>0 DEF DeliveryInv, WireSound
  <2>3. ASSUME NEW o \in refused'
        PROVE  pc'[o] # "idle"
    <3>1. o \in A2AMessages /\ pc[o] # "idle"
      BY <1>0, <2>3 DEF DeliveryInv, WireSound, A2ATypeOK, A2AMessages
    <3>2. CASE o = m
      BY <3>2 DEF SenderAdvance
    <3>3. CASE o # m
      BY <1>2, <3>1, <3>3
    <3> QED
      BY <3>2, <3>3
  <2> QED
    BY <2>1, <2>2, <2>3 DEF WireSound, IsLan
<1>5. PeerTypeOK' /\ SeenSound' /\ AckedSound'
  BY <1>0 DEF DeliveryInv, PeerTypeOK, SeenSound, AckedSound, Arrived
<1>6. DeliveredWasHandled'
  <2>1. ASSUME NEW o \in A2AMessages, SaysDelivered(o)'
        PROVE  SaysDelivered(o) \/ Arrived(o)
    BY <1>2, <2>1 DEF SenderAdvance, DeliveredStep
  <2> QED
    BY <1>0, <2>1 DEF DeliveredWasHandled, DeliveryInv, Arrived
<1>7. \A o \in A2AMessages : SenderSound(o)' /\ CopiesCounted(o)'
  BY <1>2, <1>3 DEF SenderAdvance
<1> QED
  BY <1>1, <1>4, <1>5, <1>6, <1>7 DEF DeliveryInv

\* A restart of the sender forgets its queue and its calls, not its posts.
LEMMA SenderRestartKeepsInv ==
    ASSUME DeliveryInv, SenderRestart
    PROVE  DeliveryInv'
<1>0. /\ UNCHANGED <<route, reply, tries, host, statuses, wire, acked, checking, seen, heard,
                     refused, trusts, forgot>>
      /\ pc' = [m \in A2AMessages |-> IF pc[m] = "idle" THEN "idle" ELSE "answered"]
      /\ queue' = [m \in A2AMessages |-> "absent"]
      /\ attempt' = [m \in A2AMessages |-> "none"]
  BY DEF SenderRestart, peerVars
<1>1. A2ATypeOK'
  <2>1. pc' \in [A2AMessages -> {"idle", "presence", "posting", "lan", "lanWait", "answered"}]
    BY <1>0
  <2>2. restarts' \in 0 .. MaxRestarts
    BY A2AAssumption DEF SenderRestart, DeliveryInv, A2ATypeOK
  <2> QED
    BY <1>0, <2>1, <2>2 DEF DeliveryInv, A2ATypeOK
<1>2. ASSUME NEW m \in A2AMessages
      PROVE  SenderSound(m)' /\ CopiesCounted(m)'
  <2>1. SenderSound(m) /\ CopiesCounted(m) /\ tries[m] \in Nat
    BY A2AAssumption DEF DeliveryInv, A2ATypeOK
  <2>2. SenderSound(m)'
    BY <1>0, <2>1 DEF SenderSound
  <2>3. SdkSent(m)' >= SdkSent(m) /\ SdkSent(m)' \in Nat /\ SdkSent(m) \in Nat
    BY <1>0, <2>1 DEF SdkSent, SenderSound
  <2>4. /\ Cardinality(Slots(wire, m, SdkTries)) \in Nat
        /\ Cardinality(Slots(checking, m, SdkTries)) \in Nat /\ heard[m].sdk \in Nat
    BY SlotsFinite DEF DeliveryInv, PeerTypeOK
  <2> QED
    BY <1>0, <2>1, <2>2, <2>3, <2>4 DEF CopiesCounted
<1>3. WireSound'
  BY <1>0 DEF DeliveryInv, A2ATypeOK, WireSound, Posts, IsLan, A2AMessages
<1>4. PeerTypeOK' /\ SeenSound' /\ AckedSound' /\ DeliveredWasHandled'
  BY <1>0 DEF DeliveryInv, PeerTypeOK, SeenSound, AckedSound, Arrived, DeliveredWasHandled,
              SaysDelivered
<1> QED
  BY <1>1, <1>2, <1>3, <1>4 DEF DeliveryInv

-----------------------------------------------------------------------------
(* The peer                                                                *)

\* A post is its message and its attempt, which belongs to one route.
LEMMA PostParts ==
    ASSUME NEW w \in Posts
    PROVE  /\ w.msg \in A2AMessages /\ w = Post(w.msg, w.try)
           /\ IsLan(w) => w.try \in LanTries /\ w.try \notin SdkTries
           /\ ~IsLan(w) => w.try \in SdkTries /\ w.try \notin LanTries
BY A2AAssumption DEF Posts, Post, IsLan, SdkTries, LanTries

\* The id of an envelope names its message; that of a direct one is fixed.
LEMMA EnvelopeParts ==
    ASSUME NEW w \in Posts
    PROVE  /\ EnvelopeId(w) \in A2AMessages \X {"messageId", "retryId"}
           /\ EnvelopeId(w)[1] = w.msg
           /\ w.msg \in Dms => EnvelopeId(w) = <<w.msg, "messageId">> /\ Kind(w) = "dm"
           /\ w.msg \notin Dms => Kind(w) = "group"
BY A2AAssumption DEF EnvelopeId, Posts, Kind

\* Remembering an id keeps a sequence of ids, each an old one or the new
\* one, and unless ids were lost it keeps all of them.
LEMMA RememberKeeps ==
    ASSUME PeerTypeOK, forgot \in BOOLEAN, NEW w \in Posts, Remember(w)
    PROVE  /\ seen' \in [{"dm", "group"} -> Seq(A2AMessages \X {"messageId", "retryId"})]
           /\ forgot' \in BOOLEAN
           /\ \A k \in {"dm", "group"} : \A i \in DOMAIN seen'[k] :
                 seen'[k][i] = EnvelopeId(w) \/ \E j \in DOMAIN seen[k] : seen'[k][i] = seen[k][j]
           /\ ~forgot' =>
                 /\ ~forgot
                 /\ \E i \in DOMAIN seen'[Kind(w)] : seen'[Kind(w)][i] = EnvelopeId(w)
                 /\ \A k \in {"dm", "group"} : \A j \in DOMAIN seen[k] :
                       \E i \in DOMAIN seen'[k] : seen'[k][i] = seen[k][j]
<1> DEFINE Ids == A2AMessages \X {"messageId", "retryId"}
           K == Kind(w)
           id == EnvelopeId(w)
           old == seen[K]
           longer == Append(old, id)
           new == IF Len(longer) > SeenMax THEN Tail(longer) ELSE longer
<1>1. K \in {"dm", "group"} /\ id \in Ids /\ old \in Seq(Ids)
  BY EnvelopeParts DEF Kind, PeerTypeOK
<1>2. seen' = [seen EXCEPT ![K] = new] /\ forgot' = (forgot \/ Len(longer) > SeenMax)
  BY DEF Remember
<1> HIDE DEF Ids, K, id
<1>3. /\ longer \in Seq(Ids) /\ Len(longer) = Len(old) + 1 /\ longer # << >>
      /\ \A i \in 1 .. Len(old) : longer[i] = old[i]
      /\ longer[Len(old) + 1] = id /\ Len(old) \in Nat
  BY <1>1
<1>4. /\ Tail(longer) \in Seq(Ids) /\ Len(Tail(longer)) = Len(old)
      /\ \A i \in 1 .. Len(old) : Tail(longer)[i] = longer[i + 1]
  BY <1>3
<1>5. new \in Seq(Ids)
  BY <1>3, <1>4
<1>6. \A i \in DOMAIN new : new[i] = id \/ \E j \in DOMAIN old : new[i] = old[j]
  <2>1. ASSUME NEW i \in DOMAIN longer
        PROVE  longer[i] = id \/ \E j \in DOMAIN old : longer[i] = old[j]
    BY <1>1, <1>3
  <2>2. ASSUME NEW i \in DOMAIN Tail(longer)
        PROVE  i + 1 \in DOMAIN longer /\ Tail(longer)[i] = longer[i + 1]
    BY <1>3, <1>4
  <2> QED
    BY <2>1, <2>2
<1>7. ASSUME ~(Len(longer) > SeenMax)
      PROVE  /\ \E i \in DOMAIN new : new[i] = id
             /\ \A j \in DOMAIN old : \E i \in DOMAIN new : new[i] = old[j]
  BY <1>1, <1>3, <1>7
<1> HIDE DEF old, longer, new
<1>8. /\ seen' \in [{"dm", "group"} -> Seq(Ids)] /\ seen'[K] = new
      /\ \A k \in {"dm", "group"} \ {K} : seen'[k] = seen[k]
  BY <1>1, <1>2, <1>5 DEF PeerTypeOK, Ids
<1>9. \A k \in {"dm", "group"} : \A i \in DOMAIN seen'[k] :
          seen'[k][i] = id \/ \E j \in DOMAIN seen[k] : seen'[k][i] = seen[k][j]
  BY <1>6, <1>8 DEF old
<1>10. ~forgot' => /\ ~forgot
                   /\ \E i \in DOMAIN seen'[K] : seen'[K][i] = id
                   /\ \A k \in {"dm", "group"} : \A j \in DOMAIN seen[k] :
                         \E i \in DOMAIN seen'[k] : seen'[k][i] = seen[k][j]
  BY <1>2, <1>7, <1>8 DEF old
<1> QED
  BY <1>2, <1>8, <1>9, <1>10 DEF Ids, K, id

\* A message handed to comms through the SDK is counted and remembered; a
\* direct one was not remembered before.
LEMMA EmitKeeps ==
    ASSUME PeerTypeOK, forgot \in BOOLEAN, SeenSound, NEW w \in Posts, Emit(w),
           w.msg \in Dms => ~SeenBefore(w)
    PROVE  /\ PeerTypeOK' /\ SeenSound' /\ forgot' \in BOOLEAN
           /\ heard'[w.msg].sdk = heard[w.msg].sdk + 1 /\ heard'[w.msg].lan = heard[w.msg].lan
           /\ \A o \in A2AMessages \ {w.msg} : heard'[o] = heard[o]
<1>1. Remember(w) /\ heard' = [heard EXCEPT ![w.msg].sdk = @ + 1] /\ w.msg \in A2AMessages
  BY PostParts DEF Emit, InjectForComms
<1>2. /\ heard' \in [A2AMessages -> [sdk : Nat, lan : Nat]]
      /\ heard'[w.msg].sdk = heard[w.msg].sdk + 1 /\ heard'[w.msg].lan = heard[w.msg].lan
      /\ \A o \in A2AMessages \ {w.msg} : heard'[o] = heard[o]
  <2> DEFINE h == [heard[w.msg] EXCEPT !.sdk = @ + 1]
  <2>1. heard[w.msg] \in [sdk : Nat, lan : Nat]
    BY <1>1 DEF PeerTypeOK
  <2>2. h \in [sdk : Nat, lan : Nat] /\ h.sdk = heard[w.msg].sdk + 1 /\ h.lan = heard[w.msg].lan
    BY <2>1
  <2>3. heard' = [heard EXCEPT ![w.msg] = h]
    BY <1>1
  <2> HIDE DEF h
  <2> QED
    BY <1>1, <2>2, <2>3 DEF PeerTypeOK
<1>3. PeerTypeOK' /\ forgot' \in BOOLEAN
  BY <1>1, <1>2, RememberKeeps DEF PeerTypeOK
<1>4. ASSUME NEW k \in {"dm", "group"}, NEW i \in DOMAIN seen'[k]
      PROVE  heard'[seen'[k][i][1]].sdk > 0
  <2>1. CASE seen'[k][i] = EnvelopeId(w)
    BY <1>2, <2>1, EnvelopeParts, PostParts DEF PeerTypeOK
  <2>2. CASE \E j \in DOMAIN seen[k] : seen'[k][i] = seen[k][j]
    <3>1. PICK j \in DOMAIN seen[k] : seen'[k][i] = seen[k][j]
      BY <2>2
    <3>2. seen[k][j][1] \in A2AMessages /\ heard[seen[k][j][1]].sdk > 0
      <4>1. seen[k] \in Seq(A2AMessages \X {"messageId", "retryId"})
        BY DEF PeerTypeOK
      <4>2. seen[k][j] \in A2AMessages \X {"messageId", "retryId"}
        BY <4>1
      <4> QED
        BY <4>2 DEF SeenSound
    <3>3. CASE seen[k][j][1] = w.msg
      BY <1>2, <3>1, <3>2, <3>3 DEF PeerTypeOK
    <3>4. CASE seen[k][j][1] # w.msg
      BY <1>2, <3>1, <3>2, <3>4
    <3> QED
      BY <3>3, <3>4
  <2> QED
    BY <1>1, <2>1, <2>2, RememberKeeps
<1>5. ASSUME ~forgot', NEW m \in Dms
      PROVE  /\ heard'[m].sdk <= 1
             /\ heard'[m].sdk > 0 =>
                   \E i \in DOMAIN seen'["dm"] : seen'["dm"][i] = <<m, "messageId">>
  <2>1. ~forgot /\ m \in A2AMessages
    BY <1>1, <1>5, RememberKeeps DEF A2AMessages
  <2>2. CASE m = w.msg
    <3>1. EnvelopeId(w) = <<m, "messageId">> /\ Kind(w) = "dm" /\ ~SeenBefore(w)
      BY <2>2, EnvelopeParts
    <3>2. ~(heard[m].sdk > 0)
      BY <2>1, <3>1 DEF SeenSound, SeenBefore
    <3>3. heard'[m].sdk = 1
      BY <1>2, <2>1, <2>2, <3>2 DEF PeerTypeOK
    <3>4. \E i \in DOMAIN seen'["dm"] : seen'["dm"][i] = <<m, "messageId">>
      <4>1. \E i \in DOMAIN seen'[Kind(w)] : seen'[Kind(w)][i] = EnvelopeId(w)
        BY <1>1, <1>5, RememberKeeps
      <4> QED
        BY <3>1, <4>1
    <3> QED
      BY <3>3, <3>4
  <2>3. CASE m # w.msg
    <3>1. heard'[m] = heard[m]
      BY <1>2, <2>1, <2>3
    <3>2. heard[m].sdk <= 1 /\ (heard[m].sdk > 0 =>
              \E j \in DOMAIN seen["dm"] : seen["dm"][j] = <<m, "messageId">>)
      BY <2>1 DEF SeenSound
    <3>3. \A j \in DOMAIN seen["dm"] : \E i \in DOMAIN seen'["dm"] : seen'["dm"][i] = seen["dm"][j]
      BY <1>1, <1>5, RememberKeeps
    <3> QED
      BY <3>1, <3>2, <3>3
  <2> QED
    BY <2>2, <2>3
<1> QED
  BY <1>2, <1>3, <1>4, <1>5 DEF SeenSound

\* The sender's part of the invariant survives what the peer does.
LEMMA PeerKeepsInv ==
    ASSUME DeliveryInv, UNCHANGED senderVars, A2ATypeOK', PeerTypeOK',
           \A m \in A2AMessages : CopiesCounted(m)', WireSound', SeenSound',
           \A m \in A2AMessages : Arrived(m) => Arrived(m)',
           \A w \in acked' : w \in acked \/ Arrived(w.msg)'
    PROVE  DeliveryInv'
<1>1. \A m \in A2AMessages : SenderSound(m)' /\ SaysDelivered(m)' = SaysDelivered(m)
  BY DEF DeliveryInv, senderVars, SenderSound, SaysDelivered
<1>2. AckedSound'
  <2>1. \A w \in acked : w.msg \in A2AMessages /\ Arrived(w.msg)
    BY DEF DeliveryInv, A2ATypeOK, Posts, AckedSound
  <2> QED
    BY <2>1 DEF AckedSound
<1>3. DeliveredWasHandled'
  <2>1. \A m \in A2AMessages : SaysDelivered(m) => Arrived(m)
    BY DEF DeliveryInv, DeliveredWasHandled, Arrived
  <2> QED
    BY <1>1, <2>1 DEF DeliveredWasHandled, Arrived
<1> QED
  BY <1>1, <1>2, <1>3 DEF DeliveryInv

\* A post that leaves the wire pays for the copy that is heard or waits.
LEMMA CountWire ==
    ASSUME DeliveryInv, PeerTypeOK', UNCHANGED senderVars, NEW w \in Posts, w \in wire,
           wire' = wire \ {w},
           \A o \in A2AMessages \ {w.msg} : heard'[o] = heard[o],
           \/ /\ ~IsLan(w) /\ heard'[w.msg].lan = heard[w.msg].lan
              /\ \/ heard'[w.msg].sdk = heard[w.msg].sdk /\ checking' = checking \cup {w}
                 \/ heard'[w.msg].sdk <= heard[w.msg].sdk + 1 /\ checking' = checking
           \/ /\ IsLan(w) /\ checking' = checking /\ heard'[w.msg].sdk = heard[w.msg].sdk
              /\ heard'[w.msg].lan <= heard[w.msg].lan + 1
    PROVE  \A m \in A2AMessages : CopiesCounted(m)'
<1>1. /\ w.msg \in A2AMessages /\ w = Post(w.msg, w.try)
      /\ IsLan(w) => w.try \in LanTries /\ w.try \notin SdkTries
      /\ ~IsLan(w) => w.try \in SdkTries /\ w.try \notin LanTries
  BY PostParts
<1>2. ASSUME NEW m \in A2AMessages
      PROVE  CopiesCounted(m) /\ SdkSent(m)' = SdkSent(m) /\ host'[m] = host[m]
  BY DEF DeliveryInv, senderVars, SdkSent
<1>3. ASSUME NEW o \in A2AMessages \ {w.msg}
      PROVE  CopiesCounted(o)'
  <2>1. /\ Slots(wire', o, SdkTries) = Slots(wire, o, SdkTries)
        /\ Slots(wire', o, LanTries) = Slots(wire, o, LanTries)
        /\ Slots(checking', o, SdkTries) = Slots(checking, o, SdkTries)
    BY <1>1, SlotsOfOthers
  <2> QED
    BY <1>2, <2>1 DEF CopiesCounted
<1>4. CopiesCounted(w.msg)'
  <2> DEFINE m  == w.msg
             s  == Cardinality(Slots(wire, m, SdkTries))
             s1 == Cardinality(Slots(wire', m, SdkTries))
             l  == Cardinality(Slots(wire, m, LanTries))
             l1 == Cardinality(Slots(wire', m, LanTries))
             c  == Cardinality(Slots(checking, m, SdkTries))
             c1 == Cardinality(Slots(checking', m, SdkTries))
  <2>1. s \in Nat /\ s1 \in Nat /\ l \in Nat /\ l1 \in Nat /\ c \in Nat /\ c1 \in Nat
    BY SlotsFinite
  <2>2. /\ heard[m].sdk \in Nat /\ heard[m].lan \in Nat /\ host[m] \in Nat
        /\ heard'[m].sdk \in Nat /\ heard'[m].lan \in Nat /\ SdkSent(m) \in Nat
    <3>1. heard'[m] \in [sdk : Nat, lan : Nat] /\ heard[m] \in [sdk : Nat, lan : Nat]
      BY <1>1 DEF DeliveryInv, PeerTypeOK
    <3>2. host[m] \in Nat /\ tries[m] \in Nat
      BY <1>1, A2AAssumption DEF DeliveryInv, A2ATypeOK
    <3> QED
      BY <3>1, <3>2 DEF SdkSent
  <2>3. heard[m].sdk + s + c <= SdkSent(m) /\ heard[m].lan + l <= host[m]
    BY <1>1, <1>2 DEF CopiesCounted
  <2>4. IsLan(w) => s1 = s /\ l1 = l - 1
    BY <1>1, SlotRemoved
  <2>5. ~IsLan(w) => s1 = s - 1 /\ l1 = l
    BY <1>1, SlotRemoved
  <2>6. checking' = checking \cup {w} => c1 <= c + 1
    BY <1>1, SlotAdded
  <2>7. checking' = checking => c1 = c
    OBVIOUS
  <2>8. SdkSent(m)' = SdkSent(m) /\ host'[m] = host[m]
    BY <1>1, <1>2
  <2> HIDE DEF s, s1, l, l1, c, c1
  <2>9. heard'[m].sdk + s1 + c1 <= SdkSent(m) /\ heard'[m].lan + l1 <= host[m]
    BY <2>1, <2>2, <2>3, <2>4, <2>5, <2>6, <2>7
  <2> QED
    BY <2>8, <2>9 DEF CopiesCounted, s1, l1, c1
<1> QED
  BY <1>3, <1>4

\* So does an envelope that stops waiting for the member list.
LEMMA CountChecking ==
    ASSUME DeliveryInv, PeerTypeOK', UNCHANGED <<senderVars, wire>>, NEW w \in checking,
           checking' = checking \ {w},
           \A o \in A2AMessages \ {w.msg} : heard'[o] = heard[o],
           heard'[w.msg].lan = heard[w.msg].lan, heard'[w.msg].sdk <= heard[w.msg].sdk + 1
    PROVE  \A m \in A2AMessages : CopiesCounted(m)'
<1>1. /\ w.msg \in A2AMessages /\ w = Post(w.msg, w.try) /\ w.try \in SdkTries
  BY PostParts DEF DeliveryInv, A2ATypeOK, WireSound
<1>2. ASSUME NEW m \in A2AMessages
      PROVE  CopiesCounted(m) /\ SdkSent(m)' = SdkSent(m) /\ host'[m] = host[m]
  BY DEF DeliveryInv, senderVars, SdkSent
<1>3. ASSUME NEW o \in A2AMessages \ {w.msg}
      PROVE  CopiesCounted(o)'
  <2>1. Slots(checking', o, SdkTries) = Slots(checking, o, SdkTries)
    BY <1>1, SlotsOfOthers
  <2> QED
    BY <1>2, <2>1 DEF CopiesCounted
<1>4. CopiesCounted(w.msg)'
  <2> DEFINE m  == w.msg
             s  == Cardinality(Slots(wire, m, SdkTries))
             c  == Cardinality(Slots(checking, m, SdkTries))
             c1 == Cardinality(Slots(checking', m, SdkTries))
  <2>1. s \in Nat /\ c \in Nat /\ c1 \in Nat
    BY SlotsFinite
  <2>2. heard[m].sdk \in Nat /\ heard'[m].sdk \in Nat /\ SdkSent(m) \in Nat
    BY <1>1, A2AAssumption DEF DeliveryInv, PeerTypeOK, A2ATypeOK, SdkSent
  <2>3. heard[m].sdk + s + c <= SdkSent(m)
    BY <1>1, <1>2 DEF CopiesCounted
  <2>4. c1 = c - 1
    BY <1>1, SlotRemoved
  <2> HIDE DEF s, c, c1
  <2>5. heard'[m].sdk + s + c1 <= SdkSent(m)
    BY <2>1, <2>2, <2>3, <2>4
  <2> QED
    BY <1>1, <1>2, <2>5 DEF CopiesCounted, s, c1
<1> QED
  BY <1>3, <1>4

\* A post that arrives at the peer.
LEMMA ReceiveKeepsInv ==
    ASSUME DeliveryInv, NEW w \in Posts, Receive(w)
    PROVE  DeliveryInv'
<1>0. /\ w \in wire /\ wire' = wire \ {w} /\ UNCHANGED senderVars /\ UNCHANGED <<trusts, restarts>>
      /\ w.msg \in A2AMessages /\ w = Post(w.msg, w.try)
      /\ PeerTypeOK /\ SeenSound /\ forgot \in BOOLEAN
  BY PostParts DEF Receive, DeliveryInv, A2ATypeOK
<1>1. \/ IsLan(w) /\ ReceiveLan(w)
      \/ ~IsLan(w) /\ w.msg \in Dms /\ ReceiveDm(w)
      \/ ~IsLan(w) /\ w.msg \in GroupMsgs /\ ReceiveGroup(w)
  BY DEF Receive
<1>2. /\ PeerTypeOK' /\ SeenSound' /\ forgot' \in BOOLEAN
      /\ \A o \in A2AMessages \ {w.msg} : heard'[o] = heard[o]
      /\ heard'[w.msg].sdk >= heard[w.msg].sdk /\ heard'[w.msg].lan >= heard[w.msg].lan
      /\ \/ /\ ~IsLan(w) /\ heard'[w.msg].lan = heard[w.msg].lan
            /\ \/ heard'[w.msg].sdk = heard[w.msg].sdk /\ checking' = checking \cup {w}
               \/ heard'[w.msg].sdk <= heard[w.msg].sdk + 1 /\ checking' = checking
         \/ /\ IsLan(w) /\ checking' = checking /\ heard'[w.msg].sdk = heard[w.msg].sdk
            /\ heard'[w.msg].lan <= heard[w.msg].lan + 1
  <2>0. heard[w.msg].sdk \in Nat /\ heard[w.msg].lan \in Nat
    BY <1>0 DEF PeerTypeOK
  <2>1. CASE UNCHANGED <<seen, forgot, heard>> /\ ~IsLan(w)
    <3>1. checking' = checking \/ checking' = checking \cup {w}
      BY <1>1, <2>1 DEF ReceiveDm, ReceiveGroup
    <3>2. PeerTypeOK' /\ SeenSound'
      BY <1>0, <2>1 DEF PeerTypeOK, SeenSound
    <3> QED
      BY <1>0, <2>0, <2>1, <3>1, <3>2
  <2>2. CASE Emit(w) /\ ~IsLan(w) /\ checking' = checking /\ (w.msg \in Dms => ~SeenBefore(w))
    <3>1. /\ PeerTypeOK' /\ SeenSound' /\ forgot' \in BOOLEAN
          /\ heard'[w.msg].sdk = heard[w.msg].sdk + 1 /\ heard'[w.msg].lan = heard[w.msg].lan
          /\ \A o \in A2AMessages \ {w.msg} : heard'[o] = heard[o]
      BY <1>0, <2>2, EmitKeeps
    <3> QED
      BY <2>0, <2>2, <3>1
  <2>3. CASE IsLan(w) /\ ReceiveLan(w)
    <3> DEFINE h == [heard[w.msg] EXCEPT !.lan = @ + 1]
    <3>1. heard[w.msg] \in [sdk : Nat, lan : Nat]
      BY <1>0 DEF PeerTypeOK
    <3>2. h \in [sdk : Nat, lan : Nat] /\ h.lan = heard[w.msg].lan + 1 /\ h.sdk = heard[w.msg].sdk
      BY <3>1
    <3>3. heard' = [heard EXCEPT ![w.msg] = h] /\ UNCHANGED <<seen, forgot, checking>>
      BY <2>3 DEF ReceiveLan, PersistForComms
    <3> HIDE DEF h
    <3>4. /\ heard' \in [A2AMessages -> [sdk : Nat, lan : Nat]] /\ heard'[w.msg] = h
          /\ \A o \in A2AMessages \ {w.msg} : heard'[o] = heard[o]
      BY <1>0, <3>2, <3>3 DEF PeerTypeOK
    <3>5. PeerTypeOK'
      BY <1>0, <3>3, <3>4 DEF PeerTypeOK
    <3>6. \A o \in A2AMessages : heard'[o].sdk = heard[o].sdk
      BY <3>2, <3>4
    <3>7. \A k \in {"dm", "group"} : \A i \in DOMAIN seen[k] : seen[k][i][1] \in A2AMessages
      <4>1. ASSUME NEW k \in {"dm", "group"}, NEW i \in DOMAIN seen[k]
            PROVE  seen[k][i] \in A2AMessages \X {"messageId", "retryId"}
        BY <1>0, <4>1 DEF PeerTypeOK
      <4> QED
        BY <4>1
    <3>8. SeenSound'
      BY <1>0, <3>3, <3>6, <3>7 DEF SeenSound, A2AMessages
    <3> QED
      BY <1>0, <2>0, <2>3, <3>2, <3>3, <3>4, <3>5, <3>8
  <2> QED
    BY <1>1, <2>1, <2>2, <2>3 DEF ReceiveDm, ReceiveGroup
<1>3. \A m \in A2AMessages : CopiesCounted(m)'
  BY <1>0, <1>2, CountWire
<1>4. A2ATypeOK'
  <2>1. /\ acked' \subseteq acked \cup {w} /\ refused' \subseteq refused \cup ({w.msg} \cap Dms)
        /\ checking' \subseteq checking \cup {w}
    BY <1>1 DEF ReceiveLan, ReceiveDm, ReceiveGroup, Ack
  <2> QED
    BY <1>0, <1>2, <2>1 DEF DeliveryInv, A2ATypeOK, senderVars
<1>5. WireSound'
  <2>1. ASSUME NEW x \in wire' \cup checking'
        PROVE  pc'[x.msg] # "idle"
    BY <1>0, <1>2, <2>1 DEF DeliveryInv, WireSound, senderVars
  <2>2. ASSUME NEW x \in checking', x \notin checking
        PROVE  ~IsLan(x) /\ x.msg \notin Dms
    BY <1>1, <2>2, A2AAssumption DEF ReceiveLan, ReceiveDm, ReceiveGroup
  <2>3. \A m \in refused' : pc'[m] # "idle"
    <3>1. refused' \subseteq refused \cup {w.msg}
      BY <1>1 DEF ReceiveLan, ReceiveDm, ReceiveGroup
    <3> QED
      BY <1>0, <3>1 DEF DeliveryInv, WireSound, senderVars
  <2> QED
    BY <2>1, <2>2, <2>3 DEF DeliveryInv, WireSound, IsLan
<1>6. \A m \in A2AMessages : Arrived(m) => Arrived(m)'
  <2>1. refused \subseteq refused'
    BY <1>1 DEF ReceiveLan, ReceiveDm, ReceiveGroup
  <2>2. ASSUME NEW m \in A2AMessages
        PROVE  /\ heard[m].sdk \in Nat /\ heard[m].lan \in Nat
               /\ heard'[m].sdk \in Nat /\ heard'[m].lan \in Nat
               /\ heard'[m].sdk >= heard[m].sdk /\ heard'[m].lan >= heard[m].lan
    <3>1. heard'[m] \in [sdk : Nat, lan : Nat] /\ heard[m] \in [sdk : Nat, lan : Nat]
      BY <1>0, <1>2 DEF PeerTypeOK
    <3>2. CASE m = w.msg
      BY <1>2, <3>1, <3>2
    <3>3. CASE m # w.msg
      <4>1. heard'[m] = heard[m]
        BY <1>2, <3>3
      <4> QED
        BY <3>1, <4>1
    <3> QED
      BY <3>2, <3>3
  <2> QED
    BY <2>1, <2>2 DEF Arrived
<1>7. w \in acked' /\ w \notin acked => Arrived(w.msg)'
  <2>0. heard[w.msg].sdk \in Nat /\ heard[w.msg].lan \in Nat
    BY <1>0 DEF PeerTypeOK
  <2>1. CASE IsLan(w) /\ ReceiveLan(w)
    <3>1. heard'[w.msg].sdk + heard'[w.msg].lan > 0
      BY <1>0, <2>0, <2>1 DEF ReceiveLan, PersistForComms, PeerTypeOK
    <3> QED
      BY <3>1 DEF Arrived
  <2>2. CASE Emit(w)
    <3>1. heard'[w.msg].sdk + heard'[w.msg].lan > 0
      BY <1>0, <2>0, <2>2 DEF Emit, InjectForComms, PeerTypeOK
    <3> QED
      BY <3>1 DEF Arrived
  <2>3. CASE SeenBefore(w)
    <3>1. heard[w.msg].sdk > 0
      BY <1>0, <2>3, EnvelopeParts DEF SeenSound, SeenBefore, Kind
    <3>2. Arrived(w.msg)
      BY <2>0, <3>1 DEF Arrived
    <3> QED
      BY <1>0, <1>6, <3>2
  <2>4. CASE w.msg \in refused'
    BY <2>4 DEF Arrived
  <2> QED
    BY <1>1, <2>1, <2>2, <2>3, <2>4 DEF ReceiveDm, ReceiveGroup
<1>8. acked' \subseteq acked \cup {w}
  BY <1>1 DEF ReceiveLan, ReceiveDm, ReceiveGroup, Ack
<1> QED
  BY <1>0, <1>2, <1>3, <1>4, <1>5, <1>6, <1>7, <1>8, PeerKeepsInv

\* The member list arrives for a waiting group envelope.
LEMMA MembersKeepInv ==
    ASSUME DeliveryInv, NEW w \in Posts, MembersKnown(w)
    PROVE  DeliveryInv'
<1>0. /\ w \in checking /\ checking' = checking \ {w} /\ UNCHANGED senderVars
      /\ UNCHANGED <<refused, trusts, wire, restarts>>
      /\ w.msg \in A2AMessages /\ w.msg \notin Dms
      /\ PeerTypeOK /\ SeenSound /\ forgot \in BOOLEAN
  BY PostParts DEF MembersKnown, DeliveryInv, A2ATypeOK, WireSound
<1>1. heard[w.msg] \in [sdk : Nat, lan : Nat]
  BY <1>0 DEF PeerTypeOK
<1>2. /\ PeerTypeOK' /\ SeenSound' /\ forgot' \in BOOLEAN
      /\ \A o \in A2AMessages \ {w.msg} : heard'[o] = heard[o]
      /\ heard'[w.msg].lan = heard[w.msg].lan
      /\ \/ Emit(w) /\ acked' = acked \cup {w} /\ heard'[w.msg].sdk = heard[w.msg].sdk + 1
         \/ acked' = acked /\ heard'[w.msg].sdk = heard[w.msg].sdk
  <2>1. CASE Emit(w) /\ Ack(w)
    BY <1>0, <2>1, EmitKeeps DEF Ack
  <2>2. CASE UNCHANGED <<seen, forgot, heard, acked>>
    <3>1. PeerTypeOK' /\ SeenSound'
      BY <1>0, <2>2 DEF PeerTypeOK, SeenSound
    <3> QED
      BY <1>0, <2>2, <3>1
  <2> QED
    BY <2>1, <2>2 DEF MembersKnown
<1>3. \A m \in A2AMessages : CopiesCounted(m)'
  <2>1. heard'[w.msg].sdk <= heard[w.msg].sdk + 1
    BY <1>1, <1>2
  <2> QED
    BY <1>0, <1>2, <2>1, CountChecking
<1>4. A2ATypeOK' /\ WireSound'
  BY <1>0, <1>2 DEF DeliveryInv, A2ATypeOK, WireSound, IsLan, senderVars
<1>5. ASSUME NEW m \in A2AMessages, Arrived(m)
      PROVE  Arrived(m)'
  <2>1. CASE m = w.msg
    BY <1>0, <1>1, <1>2, <1>5, <2>1 DEF Arrived
  <2>2. CASE m # w.msg
    BY <1>0, <1>2, <1>5, <2>2 DEF Arrived
  <2> QED
    BY <2>1, <2>2
<1>6. w \in acked' /\ w \notin acked => Arrived(w.msg)'
  BY <1>1, <1>2 DEF Arrived
<1> QED
  BY <1>0, <1>2, <1>3, <1>4, <1>5, <1>6, PeerKeepsInv

\* A post that is lost, a change of trust, a restart of the peer.
LEMMA OtherPeerSteps ==
    ASSUME DeliveryInv, (\E w \in Posts : Drop(w)) \/ TrustChanges \/ PeerRestart
    PROVE  DeliveryInv'
<1>0. UNCHANGED senderVars /\ UNCHANGED <<acked, heard, refused>> /\ PeerTypeOK /\ SeenSound
  BY DEF Drop, TrustChanges, PeerRestart, peerVars, DeliveryInv
<1>1. ASSUME PeerTypeOK', SeenSound', A2ATypeOK', WireSound',
             \A m \in A2AMessages : CopiesCounted(m)'
      PROVE  DeliveryInv'
  <2>1. \A m \in A2AMessages : Arrived(m) => Arrived(m)'
    BY <1>0 DEF Arrived
  <2> QED
    BY <1>0, <1>1, <2>1, PeerKeepsInv
<1>2. ASSUME NEW w \in Posts, Drop(w)
      PROVE  DeliveryInv'
  <2>1. /\ w \in wire /\ wire' = wire \ {w}
        /\ UNCHANGED <<checking, seen, trusts, forgot, restarts>>
    BY <1>2 DEF Drop, peerVars
  <2>2. PeerTypeOK' /\ SeenSound'
    BY <1>0, <2>1 DEF PeerTypeOK, SeenSound
  <2>3. A2ATypeOK' /\ WireSound'
    BY <1>0, <2>1 DEF DeliveryInv, A2ATypeOK, WireSound, IsLan, senderVars
  <2>4. heard[w.msg].sdk \in Nat /\ heard[w.msg].lan \in Nat
    BY <1>0, PostParts DEF PeerTypeOK
  <2>5. \A m \in A2AMessages : CopiesCounted(m)'
    BY <1>0, <2>1, <2>2, <2>4, CountWire
  <2> QED
    BY <1>1, <2>2, <2>3, <2>5
<1>3. CASE TrustChanges
  <2>1. UNCHANGED <<wire, checking, seen, forgot, restarts>> /\ trusts' \in BOOLEAN
    BY <1>3 DEF TrustChanges
  <2>2. PeerTypeOK' /\ SeenSound' /\ A2ATypeOK' /\ WireSound'
    BY <1>0, <2>1
       DEF DeliveryInv, PeerTypeOK, SeenSound, A2ATypeOK, WireSound, IsLan, senderVars
  <2>3. \A m \in A2AMessages : CopiesCounted(m)'
    BY <1>0, <2>1 DEF DeliveryInv, CopiesCounted, SdkSent, senderVars
  <2> QED
    BY <1>1, <2>2, <2>3
<1>4. CASE PeerRestart
  <2>1. /\ UNCHANGED <<wire, trusts>> /\ checking' = {} /\ forgot' = TRUE
        /\ seen' = [k \in {"dm", "group"} |-> <<>>]
    BY <1>4 DEF PeerRestart
  <2>2. PeerTypeOK' /\ SeenSound'
    BY <1>0, <2>1 DEF PeerTypeOK, SeenSound
  <2>3. restarts' \in 0 .. MaxRestarts
    BY <1>4, A2AAssumption DEF PeerRestart, DeliveryInv, A2ATypeOK
  <2>4. A2ATypeOK' /\ WireSound'
    BY <1>0, <2>1, <2>3 DEF DeliveryInv, A2ATypeOK, WireSound, IsLan, senderVars
  <2>5. ASSUME NEW m \in A2AMessages
        PROVE  CopiesCounted(m)'
    <3>1. Slots(checking', m, SdkTries) = {}
      BY <2>1 DEF Slots
    <3>2. Cardinality(Slots(checking', m, SdkTries)) = 0
      BY <3>1, FS_EmptySet
    <3>3. /\ Cardinality(Slots(wire, m, SdkTries)) \in Nat
          /\ Cardinality(Slots(checking, m, SdkTries)) \in Nat
      BY SlotsFinite
    <3>4. heard[m].sdk \in Nat /\ CopiesCounted(m) /\ SdkSent(m) \in Nat
      BY A2AAssumption DEF DeliveryInv, PeerTypeOK, A2ATypeOK, SdkSent
    <3>5. SdkSent(m)' = SdkSent(m) /\ host'[m] = host[m] /\ heard' = heard /\ wire' = wire
      BY <1>0, <2>1 DEF SdkSent, senderVars
    <3> QED
      BY <3>2, <3>3, <3>4, <3>5 DEF CopiesCounted
  <2> QED
    BY <1>1, <2>2, <2>4, <2>5
<1> QED
  BY <1>2, <1>3, <1>4

-----------------------------------------------------------------------------
(* The invariant of the whole network                                      *)

\* No message is under way at the start.
LEMMA DeliveryInit == A2AInit => DeliveryInv
<1> SUFFICES ASSUME A2AInit PROVE DeliveryInv
  OBVIOUS
<1> USE DEF A2AInit
<1>1. A2ATypeOK /\ PeerTypeOK
  <2>1. A2ATypeOK
    <3>1. SenderTypeOK
      BY A2AAssumption DEF SenderTypeOK
    <3>2. trusts \in BOOLEAN /\ forgot \in BOOLEAN
      OBVIOUS
    <3>3. restarts \in 0 .. MaxRestarts
      BY A2AAssumption
    <3> QED
      BY <3>1, <3>2, <3>3 DEF A2ATypeOK, SenderTypeOK
  <2>2. seen \in [{"dm", "group"} -> Seq(A2AMessages \X {"messageId", "retryId"})]
    OBVIOUS
  <2>3. heard \in [A2AMessages -> [sdk : Nat, lan : Nat]]
    OBVIOUS
  <2> QED
    BY <2>1, <2>2, <2>3 DEF PeerTypeOK
<1>2. ASSUME NEW m \in A2AMessages
      PROVE  SenderSound(m) /\ CopiesCounted(m)
  <2>1. SenderSound(m)
    BY DEF SenderSound
  <2>2. Slots({}, m, SdkTries) = {} /\ Slots({}, m, LanTries) = {}
    BY DEF Slots
  <2>3. Cardinality(Slots({}, m, SdkTries)) = 0 /\ Cardinality(Slots({}, m, LanTries)) = 0
    BY <2>2, FS_EmptySet
  <2> QED
    BY <2>1, <2>3 DEF CopiesCounted, SdkSent
<1>3. WireSound /\ AckedSound /\ DeliveredWasHandled
  BY DEF WireSound, AckedSound, DeliveredWasHandled, SaysDelivered
<1>4. SeenSound
  BY DEF SeenSound, A2AMessages
<1> QED
  BY <1>1, <1>2, <1>3, <1>4 DEF DeliveryInv

\* Every step of sender, wire and peer keeps the invariant.
LEMMA DeliveryStep ==
    ASSUME DeliveryInv, [A2ANext]_a2aVars
    PROVE  DeliveryInv'
<1>1. CASE UNCHANGED a2aVars
  <2>1. \A m \in A2AMessages : SenderSound(m)' /\ CopiesCounted(m)'
    BY <1>1 DEF a2aVars, DeliveryInv, SenderSound, CopiesCounted, SdkSent
  <2>2. A2ATypeOK' /\ PeerTypeOK'
    BY <1>1 DEF a2aVars, DeliveryInv, A2ATypeOK, PeerTypeOK
  <2>3. WireSound' /\ SeenSound' /\ AckedSound' /\ DeliveredWasHandled'
    BY <1>1 DEF a2aVars, DeliveryInv, WireSound, IsLan, SeenSound, AckedSound, Arrived,
                DeliveredWasHandled, SaysDelivered
  <2> QED
    BY <2>1, <2>2, <2>3 DEF DeliveryInv
<1>2. ASSUME NEW m \in A2AMessages, MessageStep(m)
      PROVE  DeliveryInv'
  BY <1>2, MessageAdvance, SenderKeepsInv
<1> QED
  BY <1>1, <1>2, SenderRestartKeepsInv, ReceiveKeepsInv, MembersKeepInv, OtherPeerSteps
     DEF A2ANext

\* In every state each message keeps to one route, is heard a bounded number
\* of times, gets one verdict and is called delivered only if it was handled,
\* whatever is lost, late, repeated or restarted.
THEOREM NetworkDeliversSoundly == A2ASpec => []DeliverySound
<1>1. DeliveryInv /\ [A2ANext]_a2aVars => DeliveryInv'
  BY DeliveryStep
<1> QED
  BY DeliveryInit, <1>1, InvImpliesSound, PTL DEF A2ASpec

-----------------------------------------------------------------------------
(* Refinement: router, SDK, retry queue and peer implement the safety part *)
(* of MessageLink.                                                         *)

\* The verdict of a message under the mapping of Link.
VerdictOf(m) ==
    IF pc[m] = "idle" THEN "new"
    ELSE IF ~Closed(m) THEN "open"
    ELSE IF SaysDelivered(m) THEN "delivered" ELSE "failed"

\* Nothing has happened to a message that was not handed over, and an open
\* message has not been called delivered.
LEMMA VerdictFacts ==
    ASSUME DeliveryInv, NEW m \in A2AMessages
    PROVE  /\ VerdictOf(m) = "new" => ~Arrived(m) /\ ~SaysDelivered(m)
           /\ VerdictOf(m) = "open" => ~SaysDelivered(m)
           /\ VerdictOf(m) \in {"new", "open", "delivered", "failed"}
<1>1. SenderSound(m) /\ CopiesCounted(m)
  BY DEF DeliveryInv
<1>2. ASSUME pc[m] = "idle"
      PROVE  ~Arrived(m) /\ ~SaysDelivered(m)
  <2>1. heard[m].sdk \in Nat /\ heard[m].lan \in Nat
    BY DEF DeliveryInv, PeerTypeOK
  <2>2. /\ Cardinality(Slots(wire, m, SdkTries)) \in Nat
        /\ Cardinality(Slots(checking, m, SdkTries)) \in Nat
        /\ Cardinality(Slots(wire, m, LanTries)) \in Nat
    BY SlotsFinite
  <2>3. heard[m].sdk = 0 /\ heard[m].lan = 0
    BY <1>1, <1>2, <2>1, <2>2 DEF CopiesCounted, SdkSent, SenderSound
  <2>4. m \notin refused
    BY <1>2 DEF DeliveryInv, WireSound
  <2> QED
    BY <1>1, <1>2, <2>3, <2>4 DEF Arrived, SaysDelivered, SenderSound
<1> QED
  BY <1>1, <1>2 DEF VerdictOf, Closed, SaysDelivered, SenderSound

\* A step that changes neither verdicts nor arrivals is invisible.
LEMMA LinkStutter ==
    ASSUME \A m \in A2AMessages : VerdictOf(m)' = VerdictOf(m) /\ Arrived(m)' = Arrived(m)
    PROVE  UNCHANGED Link!linkVars
BY DEF Link!linkVars, VerdictOf, Arrived

\* A step that changes the verdict of one message.
LEMMA LinkVerdict ==
    ASSUME NEW m \in A2AMessages,
           \A o \in A2AMessages \ {m} : VerdictOf(o)' = VerdictOf(o),
           \A o \in A2AMessages : Arrived(o)' = Arrived(o),
           \/ VerdictOf(m) = "new" /\ VerdictOf(m)' \in {"open", "failed"}
           \/ VerdictOf(m) = "open" /\ VerdictOf(m)' = "delivered" /\ Arrived(m)
           \/ VerdictOf(m) = "open" /\ VerdictOf(m)' = "failed"
    PROVE  Link!LinkNext
<1> DEFINE v == [o \in A2AMessages |-> VerdictOf(o)]
           a == [o \in A2AMessages |-> Arrived(o)]
<1>1. v' = [v EXCEPT ![m] = VerdictOf(m)'] /\ a' = a
  OBVIOUS
<1>2. CASE VerdictOf(m) = "new" /\ VerdictOf(m)' = "open"
  <2>1. Link!Open(m)
    BY <1>1, <1>2 DEF Link!Open, VerdictOf, Arrived
  <2> QED
    BY <2>1 DEF Link!LinkNext
<1>3. CASE VerdictOf(m) = "new" /\ VerdictOf(m)' = "failed"
  <2>1. Link!Refuse(m)
    BY <1>1, <1>3 DEF Link!Refuse, VerdictOf, Arrived
  <2> QED
    BY <2>1 DEF Link!LinkNext
<1>4. CASE VerdictOf(m) = "open" /\ VerdictOf(m)' = "delivered" /\ Arrived(m)
  <2>1. Link!Confirm(m)
    BY <1>1, <1>4 DEF Link!Confirm, VerdictOf, Arrived
  <2> QED
    BY <2>1 DEF Link!LinkNext
<1>5. CASE VerdictOf(m) = "open" /\ VerdictOf(m)' = "failed"
  <2>1. Link!GiveUp({m})
    BY <1>1, <1>5 DEF Link!GiveUp, VerdictOf, Arrived
  <2> QED
    BY <2>1 DEF Link!LinkNext
<1> QED
  BY <1>2, <1>3, <1>4, <1>5

\* A message with a verdict takes no further step.
LEMMA ClosedIsFinal ==
    ASSUME NEW m \in A2AMessages, Closed(m)
    PROVE  ~MessageStep(m)
BY DEF Closed, MessageStep, RouterSend, LanPost, LanReturn, SdkRefuses, PresenceOffline,
       PresenceOnline, DirectReturn, RetryStart, RetryOffline, RetryOnline, RetryThrows,
       RetryReturn, Expire

\* A step of the sender opens, refuses, confirms or gives up its message.
LEMMA MessageStepRefines ==
    ASSUME DeliveryInv, NEW m \in A2AMessages, MessageStep(m)
    PROVE  [Link!LinkNext]_Link!linkVars
<1>1. SenderAdvance(m)
  BY MessageAdvance
<1>2. ~Closed(m)
  BY ClosedIsFinal
<1>3. DeliveryInv'
  BY <1>1, SenderKeepsInv
<1>4. \A o \in A2AMessages : Arrived(o)' = Arrived(o)
  BY <1>1 DEF SenderAdvance, peerVars, Arrived
<1>5. \A o \in A2AMessages \ {m} : VerdictOf(o)' = VerdictOf(o)
  BY <1>1 DEF SenderAdvance, OthersKept, VerdictOf, Closed, SaysDelivered
<1>6. VerdictOf(m) \in {"new", "open"}
  BY <1>2 DEF VerdictOf
<1>7. VerdictOf(m)' \in {"open", "delivered", "failed"}
  BY <1>1 DEF SenderAdvance, VerdictOf
<1>8. VerdictOf(m)' = "delivered" => Arrived(m)
  <2>1. VerdictOf(m)' = "delivered" => SaysDelivered(m)'
    BY DEF VerdictOf
  <2>2. SaysDelivered(m)' => SaysDelivered(m) \/ Arrived(m)
    BY <1>1 DEF SenderAdvance, DeliveredStep
  <2>3. SaysDelivered(m) => Arrived(m)
    BY DEF DeliveryInv, DeliveredWasHandled, Arrived
  <2> QED
    BY <2>1, <2>2, <2>3
<1>9. VerdictOf(m) = "new" => VerdictOf(m)' # "delivered"
  BY <1>8, VerdictFacts
<1>10. CASE VerdictOf(m)' = VerdictOf(m)
  BY <1>4, <1>5, <1>10, LinkStutter
<1>11. CASE VerdictOf(m)' # VerdictOf(m)
  <2>1. Link!LinkNext
    BY <1>4, <1>5, <1>6, <1>7, <1>8, <1>9, <1>11, LinkVerdict
  <2> QED
    BY <2>1
<1> QED
  BY <1>10, <1>11

\* A restart of the sender gives up every open message at once.
LEMMA SenderRestartRefines ==
    ASSUME DeliveryInv, SenderRestart
    PROVE  Link!LinkNext
<1>0. PICK S \in SUBSET A2AMessages : S = {m \in A2AMessages : VerdictOf(m) = "open"}
  OBVIOUS
<1>1. \A m \in A2AMessages : Arrived(m)' = Arrived(m)
  BY DEF SenderRestart, peerVars, Arrived
<1>2. ASSUME NEW m \in A2AMessages
      PROVE  VerdictOf(m)' = IF m \in S THEN "failed" ELSE VerdictOf(m)
  <2>1. /\ SaysDelivered(m)' = SaysDelivered(m)
        /\ pc'[m] = (IF pc[m] = "idle" THEN "idle" ELSE "answered")
        /\ queue'[m] = "absent" /\ attempt'[m] = "none"
    BY DEF SenderRestart, SaysDelivered
  <2>2. VerdictOf(m) = "open" => ~SaysDelivered(m)
    BY VerdictFacts
  <2> QED
    BY <1>0, <2>1, <2>2 DEF VerdictOf, Closed
<1>3. Link!GiveUp(S)
  BY <1>0, <1>1, <1>2 DEF Link!GiveUp, VerdictOf, Arrived
<1> QED
  BY <1>3 DEF Link!LinkNext

\* What the peer does concerns one message, and what arrived stays arrived.
LEMMA PeerArrivals ==
    ASSUME DeliveryInv, NEW w \in Posts, Receive(w) \/ MembersKnown(w)
    PROVE  /\ \A o \in A2AMessages \ {w.msg} : Arrived(o)' = Arrived(o)
           /\ Arrived(w.msg) => Arrived(w.msg)'
<1>1. w.msg \in A2AMessages /\ heard[w.msg] \in [sdk : Nat, lan : Nat]
  BY PostParts DEF DeliveryInv, PeerTypeOK
<1>2. refused' = refused \/ refused' = refused \cup {w.msg}
  BY DEF Receive, ReceiveLan, ReceiveDm, ReceiveGroup, MembersKnown
<1>3. \/ heard' = heard
      \/ heard' = [heard EXCEPT ![w.msg].sdk = @ + 1]
      \/ heard' = [heard EXCEPT ![w.msg].lan = @ + 1]
  BY DEF Receive, ReceiveLan, ReceiveDm, ReceiveGroup, MembersKnown, PersistForComms, Emit,
         InjectForComms
<1>4. /\ \A o \in A2AMessages \ {w.msg} : heard'[o] = heard[o]
      /\ \/ heard'[w.msg] = heard[w.msg]
         \/ heard'[w.msg] = [heard[w.msg] EXCEPT !.sdk = @ + 1]
         \/ heard'[w.msg] = [heard[w.msg] EXCEPT !.lan = @ + 1]
  BY <1>1, <1>3 DEF DeliveryInv, PeerTypeOK
<1>5. heard[w.msg].sdk + heard[w.msg].lan > 0 => heard'[w.msg].sdk + heard'[w.msg].lan > 0
  BY <1>1, <1>4
<1>6. ASSUME NEW o \in A2AMessages \ {w.msg}
      PROVE  Arrived(o)' = Arrived(o)
  <2>1. heard'[o] = heard[o] /\ (o \in refused' <=> o \in refused)
    BY <1>2, <1>4
  <2> QED
    BY <2>1 DEF Arrived
<1> QED
  BY <1>2, <1>5, <1>6 DEF Arrived

\* A post that arrives reaches the peer, once.
LEMMA PeerStepRefines ==
    ASSUME DeliveryInv, NEW w \in Posts, Receive(w) \/ MembersKnown(w)
    PROVE  [Link!LinkNext]_Link!linkVars
<1>1. UNCHANGED senderVars /\ w.msg \in A2AMessages /\ pc[w.msg] # "idle"
  BY PostParts DEF Receive, MembersKnown, DeliveryInv, WireSound
<1>2. \A m \in A2AMessages : VerdictOf(m)' = VerdictOf(m)
  BY <1>1 DEF senderVars, VerdictOf, Closed, SaysDelivered
<1>3. CASE Arrived(w.msg)' = Arrived(w.msg)
  BY <1>2, <1>3, PeerArrivals, LinkStutter
<1>4. CASE Arrived(w.msg)' # Arrived(w.msg)
  <2>1. Arrived(w.msg)' /\ ~Arrived(w.msg)
    BY <1>4, PeerArrivals DEF Arrived
  <2>2. VerdictOf(w.msg) # "new"
    BY <1>1 DEF VerdictOf, Closed
  <2> DEFINE v == [m \in A2AMessages |-> VerdictOf(m)]
             a == [m \in A2AMessages |-> Arrived(m)]
  <2>3. v' = v
    BY <1>2
  <2>4. a' = [a EXCEPT ![w.msg] = TRUE]
    BY <1>1, <2>1, PeerArrivals
  <2>5. Link!Reach(w.msg)
    BY <1>1, <2>2, <2>3, <2>4 DEF Link!Reach, VerdictOf, Arrived
  <2> QED
    BY <1>1, <2>5 DEF Link!LinkNext
<1> QED
  BY <1>3, <1>4

\* Losing a post, a change of trust and a restart of the peer are invisible.
LEMMA HiddenSteps ==
    ASSUME (\E w \in Posts : Drop(w)) \/ TrustChanges \/ PeerRestart \/ UNCHANGED a2aVars
    PROVE  UNCHANGED Link!linkVars
<1>1. UNCHANGED senderVars /\ UNCHANGED <<heard, refused>>
  BY DEF Drop, TrustChanges, PeerRestart, peerVars, senderVars, a2aVars
<1>2. \A m \in A2AMessages : VerdictOf(m)' = VerdictOf(m) /\ Arrived(m)' = Arrived(m)
  BY <1>1 DEF senderVars, VerdictOf, Closed, SaysDelivered, Arrived
<1> QED
  BY <1>2, LinkStutter

\* The network, as its callers see it, is a link: a message is opened once,
\* its one verdict is final, and "delivered" is only said of a message that
\* has arrived.  (That every open message gets a verdict needs fairness and
\* is checked by TLC.)
THEOREM NetworkImplementsLink == A2ASpec => Link!LinkSafety
<1>1. A2AInit => Link!LinkInit
  <2> SUFFICES ASSUME A2AInit PROVE Link!LinkInit
    OBVIOUS
  <2>1. \A m \in A2AMessages : VerdictOf(m) = "new" /\ Arrived(m) = FALSE
    <3>1. \A m \in A2AMessages : VerdictOf(m) = "new"
      BY DEF A2AInit, VerdictOf
    <3>2. \A m \in A2AMessages : ~Arrived(m)
      BY <3>1, DeliveryInit, VerdictFacts
    <3> QED
      BY <3>1, <3>2 DEF Arrived
  <2> QED
    BY <2>1 DEF Link!LinkInit, VerdictOf, Arrived
<1>2. DeliveryInv /\ [A2ANext]_a2aVars => DeliveryInv'
  BY DeliveryStep
<1>3. DeliveryInv /\ [A2ANext]_a2aVars => [Link!LinkNext]_Link!linkVars
  BY MessageStepRefines, SenderRestartRefines, PeerStepRefines, HiddenSteps DEF A2ANext
<1> QED
  BY DeliveryInit, <1>1, <1>2, <1>3, PTL DEF A2ASpec, Link!LinkSafety

ContactSpec == ContactInit /\ [][ContactNext]_contactVars
HbSpec      == HbInit /\ [][HbNext]_hbVars

-----------------------------------------------------------------------------
(* The contact cache                                                       *)

\* A removed contact has left every place a later cache can come from: the
\* relay, each answer in flight, and a file that can be read.
RemovedNowhere ==
    \A c \in removed \ overlapped :
        /\ c \notin relaySet
        /\ \A f \in Fetches : c \notin fetch[f].list
        /\ disk.readable => c \notin disk.list

\* A removal in progress has taken effect at the relay, and a client that is
\* not running has no call under way.
CallsSound ==
    /\ removing \cap relaySet = {}
    /\ ~running => removing = {} /\ \A f \in Fetches : fetch[f] = Idle

ContactInv == CacheSound /\ RemovedNowhere /\ CallsSound

\* Every step of the client and the relay keeps the types.
LEMMA ContactTypeStep ==
    ASSUME ContactTypeOK, ContactNext
    PROVE  ContactTypeOK'
<1> USE DEF ContactTypeOK
<1>0. \A list \in SUBSET Contacts : Saved(list) \in [readable : BOOLEAN, list : SUBSET Contacts]
  BY DEF Saved
<1>1. CASE StartClient
  <2>1. cache' \subseteq Contacts /\ disk' \in [readable : BOOLEAN, list : SUBSET Contacts]
    BY <1>0, <1>1 DEF StartClient, UpdateContactsCache
  <2> QED
    BY <1>1, <2>1 DEF StartClient
<1>2. CASE StopClient
  <2>1. disk' \in [readable : BOOLEAN, list : SUBSET Contacts]
    <3>1. Saved(cache) \in [readable : BOOLEAN, list : SUBSET Contacts]
      BY <1>0
    <3>2. disk' = Saved(cache) \/ disk' = [readable |-> FALSE, list |-> {}]
      BY <1>2 DEF StopClient
    <3>3. [readable |-> FALSE, list |-> {}] \in [readable : BOOLEAN, list : SUBSET Contacts]
      OBVIOUS
    <3> QED
      BY <3>1, <3>2, <3>3
  <2>2. fetch' \in [Fetches -> [state : {"idle", "asked", "answered"}, list : SUBSET Contacts]]
    BY <1>2 DEF StopClient, Idle
  <2> QED
    BY <1>2, <2>1, <2>2 DEF StopClient
<1>3. ASSUME NEW f \in Fetches, FetchStarts(f) \/ RelayAnswers(f) \/ FetchFails(f)
      PROVE  ContactTypeOK'
  BY <1>3 DEF FetchStarts, RelayAnswers, FetchFails, Idle, Asked
<1>4. ASSUME NEW f \in Fetches, FetchReturns(f)
      PROVE  ContactTypeOK'
  BY <1>4 DEF FetchReturns, UpdateContactsCache, Saved, Idle
<1>5. ASSUME NEW c \in Contacts, ContactAdded(c) \/ RemoveContact(c)
      PROVE  ContactTypeOK'
  BY <1>5 DEF ContactAdded, RemoveContact
<1>6. ASSUME NEW c \in Contacts, RemoveReturns(c)
      PROVE  ContactTypeOK'
  BY <1>6 DEF RemoveReturns, DropFromCache, Saved
<1> QED
  BY <1>1, <1>2, <1>3, <1>4, <1>5, <1>6 DEF ContactNext

\* Every step of the client and the relay keeps the invariant.
LEMMA ContactStep ==
    ASSUME ContactInv, [ContactNext]_contactVars
    PROVE  ContactInv'
<1> USE DEF ContactInv, CacheSound, RemovedStaysRemoved, FileIsCache, RemovedNowhere, CallsSound
<1>0. CASE UNCHANGED contactVars
  BY <1>0 DEF contactVars, ContactTypeOK
<1>1. ContactNext => ContactTypeOK'
  BY ContactTypeStep
<1>2. CASE StartClient
  BY <1>1, <1>2 DEF ContactNext, StartClient, UpdateContactsCache, Saved
<1>3. CASE StopClient
  <2>1. ContactTypeOK' /\ ~running' /\ removing' = {} /\ \A f \in Fetches : fetch'[f] = Idle
    BY <1>1, <1>3 DEF ContactNext, StopClient
  <2>2. \A c \in removed \ overlapped : disk'.readable => c \notin disk'.list
    BY <1>3 DEF StopClient, Saved
  <2> QED
    BY <1>3, <2>1, <2>2 DEF StopClient, Idle
<1>4. ASSUME NEW f \in Fetches, FetchStarts(f) \/ FetchFails(f)
      PROVE  ContactInv'
  BY <1>1, <1>4 DEF ContactNext, FetchStarts, FetchFails, ContactTypeOK, Idle, Asked
<1>5. ASSUME NEW f \in Fetches, RelayAnswers(f)
      PROVE  ContactInv'
  <2>1. running
    BY <1>5 DEF RelayAnswers, Idle, Asked
  <2> QED
    BY <1>1, <1>5, <2>1 DEF ContactNext, RelayAnswers, ContactTypeOK
<1>6. ASSUME NEW f \in Fetches, FetchReturns(f)
      PROVE  ContactInv'
  <2>1. running
    BY <1>6 DEF FetchReturns, Idle
  <2> QED
    BY <1>1, <1>6, <2>1
       DEF ContactNext, FetchReturns, UpdateContactsCache, Saved, ContactTypeOK, Idle
<1>7. ASSUME NEW c \in Contacts, ContactAdded(c)
      PROVE  ContactInv'
  BY <1>1, <1>7 DEF ContactNext, ContactAdded
<1>8. ASSUME NEW c \in Contacts, RemoveContact(c)
      PROVE  ContactInv'
  BY <1>1, <1>8 DEF ContactNext, RemoveContact
<1>9. ASSUME NEW c \in Contacts, RemoveReturns(c)
      PROVE  ContactInv'
  <2>1. ContactTypeOK' /\ running /\ c \notin relaySet
    BY <1>1, <1>9 DEF ContactNext, RemoveReturns
  <2>2. FileIsCache' /\ cache' = cache \ {c} /\ (disk'.readable => disk'.list = cache')
    BY <1>9, <2>1 DEF RemoveReturns, DropFromCache, Saved
  <2>3. RemovedStaysRemoved'
    BY <1>9, <2>1, <2>2 DEF RemoveReturns
  <2>4. RemovedNowhere'
    BY <1>9, <2>1, <2>2, <2>3 DEF RemoveReturns
  <2>5. CallsSound'
    BY <1>9, <2>1 DEF RemoveReturns
  <2> QED
    BY <2>1, <2>2, <2>3, <2>4, <2>5
<1> QED
  BY <1>0, <1>2, <1>3, <1>4, <1>5, <1>6, <1>7, <1>8, <1>9 DEF ContactNext

\* The cache in memory, its file and the removals of the client agree in
\* every state, however fetches, removals and restarts interleave: a removed
\* contact returns only with an answer that was in flight at its removal.
THEOREM ContactCacheSound == ContactSpec => []CacheSound
<1>1. ContactInit => ContactInv
  <2> SUFFICES ASSUME ContactInit PROVE ContactInv
    OBVIOUS
  <2>1. ContactTypeOK
    BY DEF ContactInit, ContactTypeOK, Idle
  <2> QED
    BY <2>1 DEF ContactInit, ContactInv, CacheSound, RemovedStaysRemoved, FileIsCache,
                RemovedNowhere, CallsSound
<1>2. ContactInv /\ [ContactNext]_contactVars => ContactInv'
  BY ContactStep
<1>3. ContactInv => CacheSound
  BY DEF ContactInv
<1> QED
  BY <1>1, <1>2, <1>3, PTL DEF ContactSpec

-----------------------------------------------------------------------------
(* The peer heartbeat                                                      *)

\* The probes that have failed when run() reaches the quiet period.
SentInVain(p) ==
    \/ proof[p] = {"throw"}
    \/ proof[p] = {"send"} \cup (IF p \in MdnsPeers THEN {"relay"} ELSE {})

\* Where run() is with a peer tells which probes have failed, and the peer
\* has not answered yet.
ProbesInOrder ==
    \A p \in HbPeers :
        /\ probe[p] # "rest" => ~contact[p]
        /\ probe[p] = "send" => proof[p] = {}
        /\ probe[p] = "relay" => p \in MdnsPeers /\ proof[p] = {"send"}
        /\ probe[p] \in {"quiet", "ping"} => SentInVain(p)

HbTypeOK ==
    /\ alive \in [HbPeers -> BOOLEAN]
    /\ traffic \in [HbPeers -> BOOLEAN]
    /\ probe \in [HbPeers -> {"rest", "send", "relay", "quiet", "ping"}]
    /\ proof \in [HbPeers -> SUBSET {"send", "throw", "relay", "ping"}]
    /\ contact \in [HbPeers -> BOOLEAN]
    /\ peerState \in [HbPeers -> {"none", "idle", "local-dns-indeterminate",
                                  "unknown", "unreachable"}]

HbInv == HbTypeOK /\ ProbesInOrder

\* The body of DownNeedsEveryProbe, for one peer.
DownStep(p) ==
    peerState'[p] # peerState[p] /\ peerState'[p] \in {"unknown", "unreachable"} =>
        /\ \/ proof'[p] = {"throw", "ping"}
           \/ proof'[p] = {"send", "ping"} \cup (IF p \in MdnsPeers THEN {"relay"} ELSE {})
        /\ ~contact'[p]

\* A probe that fails is remembered in the run it belongs to, and a peer
\* goes down only at the last of them.
LEMMA HbStepOK ==
    ASSUME HbInv, NEW p \in HbPeers, HbStep(p) \/ PeerFlaps(p)
    PROVE  HbInv' /\ \A q \in HbPeers : DownStep(q)
<1> USE DEF HbInv, HbTypeOK, ProbesInOrder, SentInVain, DownStep
<1>1. CASE HeartbeatPeer(p)
  BY <1>1 DEF HeartbeatPeer
<1>2. CASE SendOk(p)
  <2>1. contact' \in [HbPeers -> BOOLEAN] /\ \A q \in HbPeers \ {p} : contact'[q] = contact[q]
    BY <1>2 DEF SendOk
  <2> QED
    BY <1>2, <2>1 DEF SendOk, Verdict
<1>3. CASE SendFailed(p)
  BY <1>3 DEF SendFailed, Failed
<1>4. CASE SendThrows(p)
  BY <1>4 DEF SendThrows, Failed
<1>5. CASE RelayProbe(p)
  BY <1>5 DEF RelayProbe, Verdict, Failed
<1>6. CASE QuietCheck(p)
  BY <1>6 DEF QuietCheck, NoVerdict
<1>7. CASE LivePing(p)
  <2>1. CASE alive[p] /\ NoVerdict(p) /\ contact' = [contact EXCEPT ![p] = TRUE] /\ UNCHANGED proof
    BY <1>7, <2>1 DEF LivePing, NoVerdict
  <2>2. CASE Verdict(p, DownState(p)) /\ Failed(p, "ping") /\ UNCHANGED contact
    <3>1. DownState(p) \in {"unknown", "unreachable"}
      BY DEF DownState
    <3>2. proof' = [proof EXCEPT ![p] = @ \cup {"ping"}] /\ SentInVain(p) /\ ~contact[p]
      BY <1>7, <2>2 DEF LivePing, Failed
    <3> QED
      BY <1>7, <2>2, <3>1, <3>2 DEF LivePing, Verdict
  <2> QED
    BY <1>7, <2>1, <2>2 DEF LivePing
<1>8. CASE PeerFlaps(p)
  BY <1>8 DEF PeerFlaps
<1> QED
  BY <1>1, <1>2, <1>3, <1>4, <1>5, <1>6, <1>7, <1>8 DEF HbStep

\* The probes of a run are always those its stage says.
LEMMA HbInvariant == HbSpec => []HbInv
<1>1. HbInit => HbInv
  BY DEF HbInit, HbInv, HbTypeOK, ProbesInOrder
<1>2. HbInv /\ [HbNext]_hbVars => HbInv'
  BY HbStepOK DEF HbNext, hbVars, HbInv, HbTypeOK, ProbesInOrder, SentInVain
<1> QED
  BY <1>1, <1>2, PTL DEF HbSpec

\* No peer is declared down unless every probe the code has for it failed in
\* that run and the peer did not answer meanwhile.
THEOREM DownPeersWereProbed == HbSpec => DownNeedsEveryProbe
<1> DEFINE A == \A p \in HbPeers : DownStep(p)
<1>1. HbInv /\ [HbNext]_hbVars => [A]_hbVars
  BY HbStepOK DEF HbNext
<1>2. HbSpec => [][A]_hbVars
  <2> HIDE DEF A
  <2> QED
    BY HbInvariant, <1>1, PTL DEF HbSpec
<1> QED
  BY <1>2 DEF DownNeedsEveryProbe, DownStep
=============================================================================
