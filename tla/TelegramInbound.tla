-------------------------- MODULE TelegramInbound --------------------------
(***************************************************************************)
(* Messages that come in over Telegram: the webhook with its               *)
(* deduplication, the classification of the sender, the approval flow for  *)
(* unknown senders, the wake-up of an absent comms session (twelve seconds *)
(* during which messages wait), media downloads and the Siri shortcut.     *)
(***************************************************************************)
EXTENDS Naturals, Sequences, SequencesExt

CONSTANTS
    TgMsgs,        \* updates, each with an update_id
    SenderOf,      \* their senders
    TierOf,        \* classifySender: "safe", "approved", "blocked" or "unknown"
    Media,         \* photos and documents, which are downloaded first
    Shortcuts,     \* messages that come by the shortcut endpoint
    MaxDeliveries, MaxTgFaults, MaxReplies

ASSUME TgAssumption == Media \subseteq TgMsgs /\ Shortcuts \subseteq TgMsgs /\ MaxTgFaults \in Nat

VARIABLES
    recentIds,    \* _recentUpdateIds
    tgDo,         \* handlers at an await: <<"download" | "ack", message>>
    tgWaiting,    \* _pendingMessages
    starting,     \* _sessionStarting: "no", or "own" / "third", the waker's isThirdParty
    queueOf,      \* _approvalQueues
    context,      \* _pendingApprovalContext
    tgUp,         \* the comms session
    heard,        \* what the session got: <<message, tagged as third party>>
    arrived,      \* first deliveries, in order
    released,     \* senders the primary approved
    lost,         \* messages injected while no session was there, or gone with the process
    deliveries, tgFaults, replies

tgVars == <<recentIds, tgDo, tgWaiting, starting, queueOf, context, tgUp, heard, arrived,
            released, lost, deliveries, tgFaults, replies>>
askVars == <<queueOf, context, released>>
tgBounds == <<tgFaults, replies>>

Senders == {SenderOf[m] : m \in TgMsgs}
Nobody == "nobody"

TgInit ==
    /\ recentIds = {} /\ tgDo = {} /\ tgWaiting = <<>> /\ starting = "no"
    /\ queueOf = [s \in Senders |-> <<>>] /\ context = Nobody
    /\ tgUp = TRUE /\ heard = <<>> /\ arrived = <<>> /\ released = {} /\ lost = {}
    /\ deliveries = 0 /\ tgFaults = 0 /\ replies = 0

-----------------------------------------------------------------------------
(* doInject for each message of ms. *)
DoInject(ms, third) ==
    \/ /\ tgUp /\ UNCHANGED lost
       /\ heard' = heard \o [i \in DOMAIN ms |-> <<ms[i], third>>]
    \/ ~tgUp /\ lost' = lost \cup Range(ms) /\ UNCHANGED heard

(* The session is there and earlier messages wait for its start. *)
BehindOthers == starting # "no"

(* The session could not be started: the messages go nowhere. *)
StartFails(ms, third) ==
    /\ tgWaiting' = <<>> /\ UNCHANGED <<starting, tgUp>>
    /\ DoInject(ms, third)

(* injectWithSessionWakeup; startSession is synchronous, and from then on  *)
(* the session exists.                                                     *)
InjectWithSessionWakeup(m, third) ==
    \/ /\ ~tgUp /\ starting # "no"
       /\ tgWaiting' = Append(tgWaiting, m)
       /\ UNCHANGED <<starting, tgUp, heard, lost>>
    \/ /\ ~tgUp /\ starting = "no"
       /\ \/ /\ starting' = IF third THEN "third" ELSE "own"
             /\ tgWaiting' = Append(tgWaiting, m) /\ tgUp' = TRUE
             /\ UNCHANGED <<heard, lost>>
          \/ StartFails(Append(tgWaiting, m), third)
    \/ /\ tgUp /\ BehindOthers
       /\ tgWaiting' = Append(tgWaiting, m)
       /\ UNCHANGED <<starting, tgUp, heard, lost>>
    \/ /\ tgUp /\ ~BehindOthers
       /\ DoInject(<<m>>, third) /\ UNCHANGED <<tgWaiting, starting, tgUp>>

(* The twelve seconds are over: everything that waits is injected with the *)
(* waker's flag.                                                           *)
WakeupEnds ==
    /\ starting # "no"
    /\ starting' = "no" /\ tgWaiting' = <<>>
    /\ DoInject(tgWaiting, starting = "third")
    /\ UNCHANGED <<recentIds, tgDo, tgUp, arrived, deliveries>>
    /\ UNCHANGED askVars /\ UNCHANGED tgBounds

-----------------------------------------------------------------------------
Quiet == UNCHANGED <<tgWaiting, starting, tgUp, heard, lost>>

(* processIncomingMessage up to its first slow await.  An approved sender  *)
(* over the rate limit is told so and not heard.                           *)
Process(m, do) ==
    \/ TierOf[SenderOf[m]] = "blocked" /\ tgDo' = do /\ Quiet
    \/ TierOf[SenderOf[m]] = "safe" /\ tgDo' = do /\ InjectWithSessionWakeup(m, FALSE)
    \/ TierOf[SenderOf[m]] = "approved" /\ tgDo' = do
          /\ (InjectWithSessionWakeup(m, TRUE) \/ (lost' = lost \cup {m}
                                                   /\ UNCHANGED <<tgWaiting, starting, tgUp, heard>>))
    \/ TierOf[SenderOf[m]] = "unknown" /\ tgDo' = do \cup {<<"ack", m>>} /\ Quiet

\* Mutant: the update is remembered when it was handled.
RememberedLater(m) == IF <<"download", m>> \in tgDo' THEN {} ELSE {m}

(* isDuplicateUpdate remembers before anything is done. *)
Remembered(m) == {m}

(* A delivery of the webhook.  Telegram repeats an update until it is      *)
(* answered, which it is at the end of the handler only.                   *)
HandleUpdate(m) ==
    /\ m \notin Shortcuts /\ deliveries < MaxDeliveries
    /\ deliveries' = deliveries + 1
    /\ m \notin recentIds
    /\ arrived' = IF Contains(arrived, m) THEN arrived ELSE Append(arrived, m)
    /\ \/ m \in Media /\ tgDo' = tgDo \cup {<<"download", m>>} /\ Quiet
       \/ m \notin Media /\ Process(m, tgDo)
    /\ recentIds' = recentIds \cup Remembered(m)
    /\ UNCHANGED askVars /\ UNCHANGED tgBounds

(* downloadTelegramFile returned; without a file the message is dropped. *)
DownloadEnds(m) ==
    /\ <<"download", m>> \in tgDo
    /\ \/ Process(m, tgDo \ {<<"download", m>>})
       \/ /\ tgDo' = tgDo \ {<<"download", m>>} /\ lost' = lost \cup {m}
          /\ UNCHANGED <<tgWaiting, starting, tgUp, heard>>
    /\ UNCHANGED <<recentIds, arrived, deliveries>> /\ UNCHANGED askVars /\ UNCHANGED tgBounds

(* The sender got the "I need to check" answer: the message is queued, the *)
(* one context is overwritten, and the notice to the primary is sent.      *)
AckSent(m) ==
    /\ <<"ack", m>> \in tgDo
    /\ tgDo' = tgDo \ {<<"ack", m>>}
    /\ queueOf' = [queueOf EXCEPT ![SenderOf[m]] = Append(@, m)]
    /\ context' = SenderOf[m]
    /\ Quiet
    /\ UNCHANGED <<recentIds, arrived, released, deliveries>> /\ UNCHANGED tgBounds

ApprovedQueue(s) == queueOf[s]

(* handleApprovalResponse for the context.  Approve: doInject as third     *)
(* party, without a wake-up; deny and block: the queue is forgotten, and   *)
(* nothing else is remembered.                                             *)
PrimaryReplies(verb) ==
    /\ replies < MaxReplies /\ replies' = replies + 1
    /\ context # Nobody
    /\ context' = Nobody
    /\ queueOf' = [queueOf EXCEPT ![context] = <<>>]
    /\ \/ /\ verb = "approve"
          /\ DoInject(ApprovedQueue(context), TRUE)
          /\ released' = released \cup {context}
       \/ verb = "deny" /\ UNCHANGED <<heard, lost, released>>
    /\ UNCHANGED <<recentIds, tgDo, tgWaiting, starting, tgUp, arrived, deliveries, tgFaults>>

(* handleShortcut: no look at _sessionStarting once the session exists, and *)
(* the wait also after a failed start.                                     *)
HandleShortcut(m) ==
    /\ m \in Shortcuts /\ ~Contains(arrived, m)
    /\ arrived' = Append(arrived, m)
    /\ \/ tgUp /\ DoInject(<<m>>, FALSE) /\ UNCHANGED <<tgWaiting, starting, tgUp>>
       \/ /\ ~tgUp
          /\ tgWaiting' = Append(tgWaiting, m)
          /\ \/ starting = "no" /\ starting' = "own" /\ tgUp' \in BOOLEAN
             \/ starting # "no" /\ UNCHANGED <<starting, tgUp>>
          /\ UNCHANGED <<heard, lost>>
    /\ UNCHANGED <<recentIds, tgDo, deliveries>> /\ UNCHANGED askVars /\ UNCHANGED tgBounds

-----------------------------------------------------------------------------
(* The session ends, or the daemon is restarted: everything kept in memory *)
(* is gone.                                                                *)
TgSessionEnds ==
    /\ tgFaults < MaxTgFaults /\ tgFaults' = tgFaults + 1
    /\ tgUp /\ tgUp' = FALSE
    /\ UNCHANGED <<recentIds, tgDo, tgWaiting, starting, heard, arrived, lost, deliveries, replies>>
    /\ UNCHANGED askVars

TgRestart ==
    /\ tgFaults < MaxTgFaults /\ tgFaults' = tgFaults + 1
    /\ recentIds' = {} /\ tgDo' = {} /\ tgWaiting' = <<>> /\ starting' = "no"
    /\ queueOf' = [s \in Senders |-> <<>>] /\ context' = Nobody
    /\ lost' = lost \cup Range(arrived)
    /\ UNCHANGED <<tgUp, heard, arrived, released, deliveries, replies>>

TgNext ==
    \/ \E m \in TgMsgs : HandleUpdate(m) \/ DownloadEnds(m) \/ AckSent(m) \/ HandleShortcut(m)
    \/ \E verb \in {"approve", "deny"} : PrimaryReplies(verb)
    \/ WakeupEnds \/ TgSessionEnds \/ TgRestart

-----------------------------------------------------------------------------
HeardMsgs == [i \in DOMAIN heard |-> heard[i][1]]

(* Nothing of an unknown sender reaches the agent unless the primary said  *)
(* approve while that sender was the one in question: another sender's     *)
(* approval, a restart or a denial never releases it.                      *)
UnknownIsReleased ==
    \A i \in DOMAIN heard : TierOf[SenderOf[heard[i][1]]] = "unknown" => SenderOf[heard[i][1]] \in released

(* An update is heard at most once by the session, however often Telegram  *)
(* delivers it during the handler's awaits, as long as the daemon lives.   *)
HeardOnce == IsInjective(HeardMsgs) \/ tgFaults > 0

(* Texts of safe senders are heard in the order they arrived in, also      *)
(* around the wake-up of the session.                                      *)
WakeupKeepsOrder ==
    LET plain(m) == TierOf[SenderOf[m]] = "safe" /\ m \notin Media \cup Shortcuts
    IN SelectSeq(HeardMsgs, plain) = SelectSeq(arrived, LAMBDA m : plain(m) /\ Contains(HeardMsgs, m))
       \/ ~IsInjective(HeardMsgs)

(* No message waits for ever for a session that starts. *)
WaitingEnds == \A m \in TgMsgs : Contains(tgWaiting, m) ~> ~Contains(tgWaiting, m)

(* What the session has heard, in every state. *)
HearingIsSound == UnknownIsReleased /\ HeardOnce /\ WakeupKeepsOrder

(* What the session hears: each update once, in order around a wake-up,    *)
(* nothing of a stranger who was not approved, and nothing waits for ever. *)
InboundIsOrderly == HearingIsSound /\ [][HearingIsSound']_tgVars /\ WaitingEnds
=============================================================================
