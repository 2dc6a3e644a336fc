----------------------------- MODULE A2ADelivery -----------------------------
(***************************************************************************)
(* One agent sending to one peer, both running this daemon.                *)
(*                                                                         *)
(* Sender: UnifiedA2ARouter (daemon/src/a2a/router.ts) tries the SDK first *)
(* and the LAN second; the SDK (A2ANetwork.send, sendToGroup) asks the     *)
(* relay for presence, posts the envelope to the peer, and leaves what     *)
(* failed to its RetryQueue, whose one-second timer starts overlapping     *)
(* passes.  Receiver: POST /agent/p2p -> handleIncomingP2P -> SDK receive, *)
(* and POST /agent/message -> handleAgentMessage.                          *)
(*                                                                         *)
(* Posts may be lost, arrive late, or be answered after the sender gave up *)
(* waiting.  Encryption is abstract: an envelope is its message and the    *)
(* number of the attempt.  Time is abstract: a retry is due, a wait times  *)
(* out and an entry expires (a sleeping host) whenever it may.             *)
(***************************************************************************)
EXTENDS Naturals, FiniteSets, Sequences

CONSTANTS
    Dms,           \* direct messages
    GroupMsgs,     \* group messages, followed for one member
    QueueMax,      \* retryQueueMax: entries the retry queue holds
    MaxAttempts,   \* length of retryDelays: attempts of one queued message
    LanHosts,      \* addresses buildPeerHosts yields for the peer
    SeenMax,       \* MAX_SEEN_MSG_IDS, MAX_SEEN_GROUP_MSG_IDS
    MaxRestarts    \* bound: restarts of either agent

ASSUME A2AAssumption ==
    /\ Dms \cap GroupMsgs = {}
    /\ QueueMax \in Nat \ {0} /\ MaxAttempts \in Nat \ {0}
    /\ LanHosts \in Nat \ {0} /\ SeenMax \in Nat \ {0} /\ MaxRestarts \in Nat

VARIABLES
    route,      \* the route the caller asked for
    pc,         \* where router.send is for the message
    reply,      \* what router.send answered
    queue,      \* the entry in the retry queue
    attempt,    \* the sendFn call of a pass, which may outlive the entry
    tries,      \* attempts the queue made
    host,       \* index of the LAN address being tried
    statuses,   \* terminal delivery-status events emitted
    wire,       \* posts on their way to the peer
    acked,      \* posts the peer answered with 200
    checking,   \* group envelopes waiting for the member list
    seen,       \* seenMessageIds and seenGroupMessageIds of the peer
    heard,      \* copies handed to the peer's comms session, by route
    refused,    \* direct messages receiveMessage rejected
    trusts,     \* the peer's contact cache holds the sender and its key
    forgot,     \* the peer lost ids of messages it had heard
    restarts

a2aVars == <<route, pc, reply, queue, attempt, tries, host, statuses, wire, acked,
             checking, seen, heard, refused, trusts, forgot, restarts>>

senderVars == <<route, pc, reply, queue, attempt, tries, host, statuses>>
peerVars   == <<checking, seen, heard, refused, trusts, forgot>>

A2AMessages == Dms \cup GroupMsgs

\* attempt 0 is the direct post, 1..MaxAttempts the queue's, the rest the LAN's
LanTry(h) == MaxAttempts + h
Posts == [msg : A2AMessages, try : 0 .. MaxAttempts + LanHosts]
Post(m, k) == [msg |-> m, try |-> k]
IsLan(w) == w.try > MaxAttempts

\* Mutant: every attempt builds its envelope under a fresh id.
FreshEnvelopeId(w) == <<w.msg, w.try>>

(* A direct retry repeats the messageId; sendToGroup queues under a fresh  *)
(* retryId, which then travels as the messageId.                           *)
EnvelopeId(w) == <<w.msg, IF w.msg \in GroupMsgs /\ w.try > 0 THEN "retryId" ELSE "messageId">>

A2AInit ==
    /\ route = [m \in A2AMessages |-> "auto"]
    /\ pc = [m \in A2AMessages |-> "idle"]
    /\ reply = [m \in A2AMessages |-> "none"]
    /\ queue = [m \in A2AMessages |-> "absent"]
    /\ attempt = [m \in A2AMessages |-> "none"]
    /\ tries = [m \in A2AMessages |-> 0]
    /\ host = [m \in A2AMessages |-> 0]
    /\ statuses = [m \in A2AMessages |-> {}]
    /\ wire = {} /\ acked = {} /\ checking = {}
    /\ seen = [k \in {"dm", "group"} |-> <<>>]
    /\ heard = [m \in A2AMessages |-> [sdk |-> 0, lan |-> 0]]
    /\ refused = {} /\ trusts = TRUE /\ forgot = FALSE /\ restarts = 0

-----------------------------------------------------------------------------
(* The router. *)

Answer(m, r) ==
    /\ reply' = [reply EXCEPT ![m] = r]
    /\ pc' = [pc EXCEPT ![m] = "answered"]
    /\ UNCHANGED host

(* validate: the LAN cannot carry a group. *)
ValidRoute(m, r) == r = "lan" => m \in Dms

(* What send refuses before any await or after looking the target up: a    *)
(* malformed body, a text longer than the receiver can inject, a group     *)
(* name given as a peer, a group or peer nobody knows.                     *)
RefuseRequest(m) == Answer(m, "failed")

(* send, and sendDM or sendGroup up to the first delivery: a forced LAN    *)
(* route skips the SDK.                                                    *)
RouterSend(m, r) ==
    /\ pc[m] = "idle"
    /\ route' = [route EXCEPT ![m] = r]
    /\ \/ RefuseRequest(m)
       \/ /\ ValidRoute(m, r)
          /\ pc' = [pc EXCEPT ![m] = IF r = "lan" THEN "lan" ELSE "presence"]
          /\ UNCHANGED <<reply, host>>
    /\ UNCHANGED <<queue, attempt, tries, statuses, wire, acked, restarts>>
    /\ UNCHANGED peerVars

(* sendGroup passes on what sendToGroup found for the member. *)
GroupAnswer(m, status) == m \in GroupMsgs /\ Answer(m, status)

(* sendDM after attemptRelay: "queued" counts as success, only a failure   *)
(* on the auto route falls back to the LAN, and only for a known peer.     *)
AfterRelay(m, status) ==
    \/ GroupAnswer(m, status)
    \/ /\ m \in Dms /\ (status # "failed" \/ route[m] = "relay")
       /\ Answer(m, status)
    \/ /\ m \in Dms /\ status = "failed" /\ route[m] = "auto"
       /\ \/ Answer(m, "failed")
          \/ pc' = [pc EXCEPT ![m] = "lan"] /\ UNCHANGED <<reply, host>>

(* attemptLAN: without the shared secret nothing is sent. *)
LanPost(m) ==
    /\ pc[m] = "lan"
    /\ host[m] < LanHosts
    /\ \/ /\ host' = [host EXCEPT ![m] = @ + 1]
          /\ wire' = wire \cup {Post(m, LanTry(host'[m]))}
          /\ pc' = [pc EXCEPT ![m] = "lanWait"]
          /\ UNCHANGED reply
       \/ host[m] = 0 /\ Answer(m, "failed") /\ UNCHANGED wire
    /\ UNCHANGED <<route, queue, attempt, tries, statuses, acked, restarts>>
    /\ UNCHANGED peerVars

(* sendViaLAN: a failed or timed-out curl moves on to the next address. *)
LanReturn(m) ==
    /\ pc[m] = "lanWait"
    /\ \/ Post(m, LanTry(host[m])) \in acked /\ Answer(m, "delivered")
       \/ host[m] < LanHosts /\ pc' = [pc EXCEPT ![m] = "lan"] /\ UNCHANGED <<reply, host>>
       \/ host[m] = LanHosts /\ Answer(m, "failed")
    /\ UNCHANGED <<route, queue, attempt, tries, statuses, wire, acked, restarts>>
    /\ UNCHANGED peerVars

-----------------------------------------------------------------------------
(* The SDK: send and sendToGroup. *)

InQueue == {m \in A2AMessages : queue[m] # "absent"}

(* RetryQueue.enqueue, and what send answers when the queue is full: other *)
(* messages, to other peers too, hold any number of its places.            *)
EnqueueOrFail(m) ==
    \E others \in 0 .. QueueMax :
        \/ /\ Cardinality(InQueue) + others < QueueMax
           /\ queue' = [queue EXCEPT ![m] = "pending"]
           /\ AfterRelay(m, "queued")
        \/ /\ Cardinality(InQueue) + others >= QueueMax
           /\ AfterRelay(m, "failed")
           /\ UNCHANGED queue

(* No client, no contact, no key, no endpoint, or the relay call threw. *)
SdkRefuses(m) ==
    /\ pc[m] = "presence"
    /\ AfterRelay(m, "failed")
    /\ UNCHANGED <<route, queue, attempt, tries, statuses, wire, acked, restarts>>
    /\ UNCHANGED peerVars

PresenceOffline(m) ==
    /\ pc[m] = "presence"
    /\ EnqueueOrFail(m)
    /\ UNCHANGED <<route, attempt, tries, statuses, wire, acked, restarts>>
    /\ UNCHANGED peerVars

PresenceOnline(m) ==
    /\ pc[m] = "presence"
    /\ pc' = [pc EXCEPT ![m] = "posting"]
    /\ wire' = wire \cup {Post(m, 0)}
    /\ UNCHANGED <<route, reply, queue, attempt, tries, host, statuses, acked, restarts>>
    /\ UNCHANGED peerVars

(* deliverFn returns: true only for a 200, false for a refusal, an error   *)
(* or a timeout, which does not recall the post.                           *)
DirectReturn(m) ==
    /\ pc[m] = "posting"
    /\ \/ Post(m, 0) \in acked /\ AfterRelay(m, "delivered") /\ UNCHANGED queue
       \/ EnqueueOrFail(m)
    /\ UNCHANGED <<route, attempt, tries, statuses, wire, acked, restarts>>
    /\ UNCHANGED peerVars

-----------------------------------------------------------------------------
(* The retry queue. *)

(* A pass takes a due entry; the passes overlap, an entry being sent is    *)
(* skipped.                                                                *)
RetryStart(m) ==
    /\ queue[m] = "pending"
    /\ queue' = [queue EXCEPT ![m] = "sending"]
    /\ attempt' = [attempt EXCEPT ![m] = "presence"]
    /\ tries' = [tries EXCEPT ![m] = @ + 1]
    /\ UNCHANGED <<route, pc, reply, host, statuses, wire, acked, restarts>>
    /\ UNCHANGED peerVars

(* process after sendFn: the entry may have expired meanwhile, then the    *)
(* verdict is still emitted for it.                                        *)
RetryEnds(m, success) ==
    /\ attempt' = [attempt EXCEPT ![m] = "none"]
    /\ \/ /\ success \/ tries[m] >= MaxAttempts
          /\ statuses' = [statuses EXCEPT ![m] = @ \cup {IF success THEN "delivered" ELSE "failed"}]
          /\ queue' = [queue EXCEPT ![m] = "absent"]
       \/ /\ ~success /\ tries[m] < MaxAttempts
          /\ queue' = [queue EXCEPT ![m] = IF @ = "absent" THEN "absent" ELSE "pending"]
          /\ UNCHANGED statuses

RetryOffline(m) ==
    /\ attempt[m] = "presence"
    /\ RetryEnds(m, FALSE)
    /\ UNCHANGED <<route, pc, reply, tries, host, wire, acked, restarts>>
    /\ UNCHANGED peerVars

RetryOnline(m) ==
    /\ attempt[m] = "presence"
    /\ attempt' = [attempt EXCEPT ![m] = "posting"]
    /\ wire' = wire \cup {Post(m, tries[m])}
    /\ UNCHANGED <<route, pc, reply, queue, tries, host, statuses, acked, restarts>>
    /\ UNCHANGED peerVars

(* sendFn throws (a key that cannot be parsed): the pass dies and the      *)
(* entry stays "sending", which no later pass picks up.                    *)
RetryThrows(m) ==
    /\ attempt[m] = "presence"
    /\ attempt' = [attempt EXCEPT ![m] = "none"]
    /\ UNCHANGED <<route, pc, reply, queue, tries, host, statuses, wire, acked, restarts>>
    /\ UNCHANGED peerVars

RetryReturn(m) ==
    /\ attempt[m] = "posting"
    /\ \/ Post(m, tries[m]) \in acked /\ RetryEnds(m, TRUE)
       \/ RetryEnds(m, FALSE)
    /\ UNCHANGED <<route, pc, reply, tries, host, wire, acked, restarts>>
    /\ UNCHANGED peerVars

\* Mutant: an entry that is being sent does not expire.
ExpirePendingOnly(m) ==
    /\ queue[m] = "pending"
    /\ queue' = [queue EXCEPT ![m] = "absent"]
    /\ statuses' = [statuses EXCEPT ![m] = @ \cup {"expired"}]
    /\ UNCHANGED <<route, pc, reply, attempt, tries, host, wire, acked, restarts>>
    /\ UNCHANGED peerVars

(* An entry older than MAX_AGE is dropped, one that is being sent too. *)
Expire(m) ==
    /\ queue[m] # "absent"
    /\ queue' = [queue EXCEPT ![m] = "absent"]
    /\ statuses' = [statuses EXCEPT ![m] = @ \cup {"expired"}]
    /\ UNCHANGED <<route, pc, reply, attempt, tries, host, wire, acked, restarts>>
    /\ UNCHANGED peerVars

(* The queue and the calls live in memory only. *)
SenderRestart ==
    /\ restarts < MaxRestarts
    /\ restarts' = restarts + 1
    /\ pc' = [m \in A2AMessages |-> IF pc[m] = "idle" THEN "idle" ELSE "answered"]
    /\ queue' = [m \in A2AMessages |-> "absent"]
    /\ attempt' = [m \in A2AMessages |-> "none"]
    /\ UNCHANGED <<route, reply, tries, host, statuses, wire, acked>>
    /\ UNCHANGED peerVars

-----------------------------------------------------------------------------
(* The peer. *)

Kind(w) == IF w.msg \in Dms THEN "dm" ELSE "group"

SeenBefore(w) == \E i \in DOMAIN seen[Kind(w)] : seen[Kind(w)][i] = EnvelopeId(w)

(* The id is remembered, the oldest one beyond the cap forgotten. *)
Remember(w) ==
    LET longer == Append(seen[Kind(w)], EnvelopeId(w)) IN
    /\ seen' = [seen EXCEPT ![Kind(w)] = IF Len(longer) > SeenMax THEN Tail(longer) ELSE longer]
    /\ forgot' = (forgot \/ Len(longer) > SeenMax)

(* The 'message' and 'group-message' listeners: a verified message becomes *)
(* a row for comms and is injected.  (processEnvelope verified it.)        *)
InjectForComms(w) == heard' = [heard EXCEPT ![w.msg].sdk = @ + 1]

Emit(w) == Remember(w) /\ InjectForComms(w)

Ack(w) == acked' = acked \cup {w}

(* receiveMessage.  handleIncomingP2P does not await it: what it rejects   *)
(* is answered with 200 all the same.                                      *)
ReceiveDm(w) ==
    /\ Ack(w)
    /\ UNCHANGED checking
    /\ \/ ~trusts /\ refused' = refused \cup {w.msg} /\ UNCHANGED <<seen, forgot, heard>>
       \/ trusts /\ SeenBefore(w) /\ UNCHANGED <<seen, forgot, heard, refused>>
       \/ trusts /\ ~SeenBefore(w) /\ Emit(w) /\ UNCHANGED refused

(* receiveGroupMessage up to the member check, which awaits the relay when *)
(* the cached list lacks the sender.  What it throws becomes a 422.        *)
ReceiveGroup(w) ==
    /\ UNCHANGED refused
    /\ \/ SeenBefore(w) /\ Ack(w) /\ UNCHANGED <<seen, forgot, heard, checking>>
       \/ ~SeenBefore(w) /\ ~trusts /\ UNCHANGED <<seen, forgot, heard, checking, acked>>
       \/ ~SeenBefore(w) /\ trusts /\ Emit(w) /\ Ack(w) /\ UNCHANGED checking
       \/ /\ ~SeenBefore(w) /\ trusts
          /\ checking' = checking \cup {w}
          /\ UNCHANGED <<seen, forgot, heard, acked>>

(* handleAgentMessage: no dedup on the LAN path; status pings are logged   *)
(* only and are not among the messages here.                               *)
PersistForComms(w) == heard' = [heard EXCEPT ![w.msg].lan = @ + 1]

(* handleAgentMessageRoute: the signature policy accepts or warns; what it *)
(* rejects is a Drop.                                                      *)
ReceiveLan(w) ==
    /\ PersistForComms(w)
    /\ Ack(w)
    /\ UNCHANGED <<seen, forgot, refused, checking>>

Receive(w) ==
    /\ w \in wire
    /\ wire' = wire \ {w}
    /\ \/ IsLan(w) /\ ReceiveLan(w)
       \/ ~IsLan(w) /\ w.msg \in Dms /\ ReceiveDm(w)
       \/ ~IsLan(w) /\ w.msg \in GroupMsgs /\ ReceiveGroup(w)
    /\ UNCHANGED <<trusts, restarts>>
    /\ UNCHANGED senderVars

(* The member list arrives.  Nothing looks at seenGroupMessageIds again.   *)
MembersKnown(w) ==
    /\ w \in checking
    /\ checking' = checking \ {w}
    /\ \/ Emit(w) /\ Ack(w)
       \/ UNCHANGED <<seen, forgot, heard, acked>>
    /\ UNCHANGED <<refused, trusts, wire, restarts>>
    /\ UNCHANGED senderVars

(* Lost, rate limited (429), refused by the signature policy (401), or the *)
(* SDK of the peer is not up (503).                                        *)
Drop(w) ==
    /\ w \in wire
    /\ wire' = wire \ {w}
    /\ UNCHANGED <<acked, restarts>>
    /\ UNCHANGED senderVars
    /\ UNCHANGED peerVars

(* A contact is removed or accepted, a refresh changes the cache. *)
TrustChanges ==
    /\ trusts' = ~trusts
    /\ UNCHANGED <<wire, acked, checking, seen, heard, refused, forgot, restarts>>
    /\ UNCHANGED senderVars

PeerRestart ==
    /\ restarts < MaxRestarts
    /\ restarts' = restarts + 1
    /\ seen' = [k \in {"dm", "group"} |-> <<>>]
    /\ checking' = {}
    /\ forgot' = TRUE
    /\ UNCHANGED <<wire, acked, heard, refused, trusts>>
    /\ UNCHANGED senderVars

-----------------------------------------------------------------------------
MessageStep(m) ==
    \/ \E r \in {"auto", "lan", "relay"} : RouterSend(m, r)
    \/ LanPost(m) \/ LanReturn(m) \/ SdkRefuses(m) \/ PresenceOffline(m)
    \/ PresenceOnline(m) \/ DirectReturn(m)
    \/ RetryStart(m) \/ RetryOffline(m) \/ RetryOnline(m) \/ RetryThrows(m) \/ RetryReturn(m)
    \/ Expire(m)

A2ANext ==
    \/ \E m \in A2AMessages : MessageStep(m)
    \/ \E w \in Posts : Receive(w) \/ MembersKnown(w) \/ Drop(w)
    \/ SenderRestart \/ TrustChanges \/ PeerRestart

(* Every await of the sender ends (fetch and curl have timeouts), and the  *)
(* one-second timer runs as long as the queue holds an entry.              *)
SenderProgress(m) ==
    \/ LanPost(m) \/ LanReturn(m)
    \/ SdkRefuses(m) \/ PresenceOffline(m) \/ PresenceOnline(m) \/ DirectReturn(m)
    \/ RetryOffline(m) \/ RetryOnline(m) \/ RetryThrows(m) \/ RetryReturn(m)

-----------------------------------------------------------------------------
(* Properties. *)

(* The types of the state; the only type invariant of this module. *)
A2ATypeOK ==
    /\ route \in [A2AMessages -> {"auto", "lan", "relay"}]
    /\ pc \in [A2AMessages -> {"idle", "presence", "posting", "lan", "lanWait", "answered"}]
    /\ reply \in [A2AMessages -> {"none", "delivered", "queued", "failed"}]
    /\ queue \in [A2AMessages -> {"absent", "pending", "sending"}]
    /\ attempt \in [A2AMessages -> {"none", "presence", "posting"}]
    /\ tries \in [A2AMessages -> 0 .. MaxAttempts]
    /\ host \in [A2AMessages -> 0 .. LanHosts]
    /\ statuses \in [A2AMessages -> SUBSET {"delivered", "failed", "expired"}]
    /\ wire \subseteq Posts /\ acked \subseteq Posts /\ checking \subseteq Posts
    /\ refused \subseteq Dms
    /\ trusts \in BOOLEAN /\ forgot \in BOOLEAN /\ restarts \in 0 .. MaxRestarts

(* A message the SDK has taken into its retry queue is never sent over the *)
(* LAN as well: sendDM falls back only after a definite "failed".          *)
OneRoutePerMessage ==
    \A m \in A2AMessages :
        (pc[m] \in {"lan", "lanWait"} \/ heard[m].lan > 0) =>
            queue[m] = "absent" /\ attempt[m] = "none" /\ statuses[m] = {}

(* However many posts of it were lost, answered late or repeated, comms    *)
(* hears a direct message at most once through the SDK, unless the peer    *)
(* forgot the ids it had seen.  A group message, whose retries carry       *)
(* another id, is heard at most once per post, and the LAN, which has no   *)
(* dedup, adds at most one copy per address.                               *)
CopiesBounded ==
    \A m \in A2AMessages :
        /\ ~forgot /\ m \in Dms => heard[m].sdk <= 1
        /\ heard[m].sdk <= MaxAttempts + 1
        /\ heard[m].lan <= LanHosts

(* The verdicts of the retry queue: a message is not reported both         *)
(* delivered and failed, although passes overlap and answers come late.    *)
OneVerdict == \A m \in A2AMessages : ~({"delivered", "failed"} \subseteq statuses[m])

(* "delivered", as the answer of the router or as a status event, means    *)
(* that the peer heard the message or refused it as a direct message.      *)
SaysDelivered(m) == reply[m] = "delivered" \/ "delivered" \in statuses[m]
DeliveredWasHandled ==
    \A m \in A2AMessages :
        SaysDelivered(m) => heard[m].sdk + heard[m].lan > 0 \/ m \in refused

(* The network as its callers see it. *)
Closed(m) == pc[m] = "answered" /\ attempt[m] = "none" /\ queue[m] = "absent"
Link == INSTANCE MessageLink WITH
    Msg <- A2AMessages,
    verdict <- [m \in A2AMessages |->
                  IF pc[m] = "idle" THEN "new"
                  ELSE IF ~Closed(m) THEN "open"
                  ELSE IF SaysDelivered(m) THEN "delivered" ELSE "failed"],
    arrived <- [m \in A2AMessages |->
                  heard[m].sdk + heard[m].lan > 0 \/ m \in refused]

(* Router, SDK, retry queue and peer together implement MessageLink: one   *)
(* final verdict per message, "delivered" only after it arrived, and no    *)
(* message stays open for ever.                                            *)
ImplementsLink == Link!LinkSpec

(* What a caller may rely on for each message: one route, a bounded number *)
(* of copies, one verdict, and "delivered" only for what was handled.      *)
DeliverySound ==
    A2ATypeOK /\ OneRoutePerMessage /\ CopiesBounded /\ OneVerdict /\ DeliveredWasHandled
=============================================================================
