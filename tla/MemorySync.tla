----------------------------- MODULE MemorySync -----------------------------
(* How the agents of a fleet share what they learn.  A memory stored       *)
(* through the API is inserted and pushed, in the background and one peer  *)
(* after the other, to the configured peers; a peer that receives it skips *)
(* it, inserts it, or overwrites a similar memory of the same origin.      *)
(* A push is not retried and lives in the sender's process; on the way it  *)
(* may be lost, delivered twice, or overtaken by a later one.              *)
(*                                                                         *)
(* A memory's text is a Content; texts with at least 85 % of their words   *)
(* in common share a Topic.  All memories are of one shareable category:   *)
(* the candidates of a conflict are those of the same category.            *)
EXTENDS Integers, Sequences, FiniteSets, SequencesExt

CONSTANTS
    Fleet,       \* the agents, named by their canonical ids
    Names,       \* the spellings of an origin: the ids and ids with a role suffix
    GivenNames,  \* the spellings callers use
    Canon,       \* Canon[n]: the canonical id of a spelling
    PeerList,    \* PeerList[a]: the peers a is configured with, in order
    Contents,    \* the texts of memories
    Topic,       \* Topic[c]: equal for texts similar enough to conflict
    TriggerOf,   \* TriggerOf[c]: what made a caller store the text
    Callers,     \* the agents at which memories are stored through the API
    Unset,       \* the origin_agent of a row stored without one
    MaxStores,   \* bound: memories stored by callers
    MaxResends,  \* bound: messages delivered a second time
    MaxClock     \* bound: the clock, in the seconds of created_at

ASSUME FleetNames ==
    /\ Fleet \cup GivenNames \subseteq Names /\ Callers \subseteq Fleet /\ Unset \notin Names
    /\ Canon \in [Names -> Names]
    /\ \A a \in Fleet : Canon[a] = a /\ PeerList[a] \in Seq(Fleet \ {a})
    /\ \A a \in Callers : PeerList[a] # <<>>
    /\ TriggerOf \in [Contents -> {"correction", "retro", "transcript"}]
    /\ {MaxStores, MaxResends, MaxClock} \subseteq Nat

VARIABLES
    memories,  \* memories[a]: the rows of a's table in insertion order
    pushes,    \* the syncToPeers calls under way
    inFlight,  \* the messages the relay or the LAN still holds
    clock,     \* the time
    resends,   \* messages delivered a second time so far
    written,   \* history: the <<content, origin, agent>> triples callers stored
    unsent     \* history: the <<content, peer>> pairs whose push was given up

syncVars == <<memories, pushes, inFlight, clock, resends, written, unsent>>

\* The rank of a trigger when two agents disagree.
TriggerPriority ==
    [correction |-> 4, retro |-> 3, transcript |-> 2, sync |-> 1]

Row(c, o, t) ==
    [content |-> c, attributed |-> FALSE, origin |-> o, trigger |-> t, at |-> clock]

SyncInit ==
    /\ memories = [a \in Fleet |-> <<>>]
    /\ pushes = {} /\ inFlight = {} /\ clock = 0 /\ resends = 0
    /\ written = {} /\ unsent = {}

(***************************************************************************)
(* The sender                                                              *)
(***************************************************************************)

\* The origin a message carries: the row's, normalised, or the sender's name.
SentOrigin(a, row) == IF row.origin = Unset THEN a ELSE Canon[row.origin]

\* POST /api/memory/store: the row is inserted and, when it is shareable,
\* its push is started.  A caller's own flag wins over the category's default.
Store(a, c, o, shareable) ==
    /\ Cardinality(written) < MaxStores
    /\ <<c, o, a>> \notin written
    /\ memories' = [memories EXCEPT ![a] = Append(@, Row(c, o, TriggerOf[c]))]
    /\ pushes' = pushes \cup
         (IF shareable
          THEN {[from |-> a, row |-> Row(c, o, TriggerOf[c]), left |-> PeerList[a]]}
          ELSE {})
    /\ written' = written \cup {<<c, o, a>>}
    /\ UNCHANGED <<inFlight, clock, resends, unsent>>

\* The loop of syncToPeers has dealt with its first peer.
PeerDone(p) ==
    pushes' = (pushes \ {p}) \cup
              (IF Len(p.left) > 1 THEN {[p EXCEPT !.left = Tail(@)]} ELSE {})

\* A peer that is spelled exactly like the memory's origin is passed over.
SkipOrigin(p) ==
    /\ p.row.origin = Head(p.left)
    /\ PeerDone(p)
    /\ UNCHANGED <<memories, inFlight, clock, resends, written, unsent>>

\* The message is handed to the A2A router.
SendToPeer(p) ==
    /\ p.row.origin # Head(p.left)
    /\ PeerDone(p)
    /\ inFlight' = inFlight \cup
         {[to |-> Head(p.left), content |-> p.row.content, created |-> p.row.at,
           origin |-> SentOrigin(p.from, p.row), trigger |-> p.row.trigger]}
    /\ UNCHANGED <<memories, clock, resends, written, unsent>>

\* The router refuses it or does not answer in ten seconds: logged, next peer.
\* A message the network loses later on leaves no other trace than this.
SendFails(p) ==
    /\ p.row.origin # Head(p.left)
    /\ PeerDone(p)
    /\ unsent' = unsent \cup {<<p.row.content, Head(p.left)>>}
    /\ UNCHANGED <<memories, inFlight, clock, resends, written>>

\* The daemon of an agent restarts: what it had not pushed is never pushed.
SenderRestarts(a) ==
    LET dropped == {p \in pushes : p.from = a}
    IN /\ dropped # {}
       /\ pushes' = pushes \ dropped
       /\ unsent' = unsent \cup
            UNION {{<<p.row.content, q>> : q \in Range(p.left)} : p \in dropped}
       /\ UNCHANGED <<memories, inFlight, clock, resends, written>>

(***************************************************************************)
(* The receiver                                                            *)
(***************************************************************************)

\* The text is already there, word for word.
Known(a, m) ==
    \E i \in DOMAIN memories[a] :
        memories[a][i].content = m.content /\ ~memories[a][i].attributed

\* The first row similar to the incoming text, or 0.
Conflict(a, m) ==
    SelectInSeq(memories[a], LAMBDA r : Topic[r.content] = Topic[m.content])

\* Mutant: the origins are not compared.
SameOriginAny(row, m) == TRUE

\* A conflict with a memory of the incoming one's own origin.
SameOrigin(row, m) == row.origin = m.origin

\* The row a message adds to a's table when it conflicts with other.
Attributed(m, other) ==
    [Row(m.content, m.origin, "sync") EXCEPT
        !.attributed = TriggerPriority[m.trigger] < TriggerPriority[other.trigger]]

\* a's table after handleMemorySync(m).
Merged(a, m) ==
    LET i == Conflict(a, m)
        row == memories[a][i]
    IN  CASE Known(a, m) -> memories[a]
          [] ~Known(a, m) /\ i = 0 -> Append(memories[a], Row(m.content, m.origin, "sync"))
          [] ~Known(a, m) /\ i > 0 /\ SameOrigin(row, m) ->
               IF m.created > row.at
               THEN [memories[a] EXCEPT ![i].content = m.content, ![i].attributed = FALSE,
                                        ![i].trigger = "sync"]
               ELSE memories[a]
          [] OTHER -> Append(memories[a], Attributed(m, row))

HandleMemorySync(m) ==
    /\ memories' = [memories EXCEPT ![m.to] = Merged(m.to, m)]
    /\ inFlight' = inFlight \ {m}
    /\ UNCHANGED <<pushes, clock, resends, written, unsent>>

\* The same message again: a retry of the router whose first answer was lost.
Redelivered(m) ==
    /\ resends < MaxResends
    /\ resends' = resends + 1
    /\ memories' = [memories EXCEPT ![m.to] = Merged(m.to, m)]
    /\ UNCHANGED <<pushes, inFlight, clock, written, unsent>>

SyncTick ==
    /\ clock < MaxClock
    /\ clock' = clock + 1
    /\ UNCHANGED <<memories, pushes, inFlight, resends, written, unsent>>

PushStep(p) == SkipOrigin(p) \/ SendToPeer(p) \/ SendFails(p)

SyncNext ==
    \/ \E a \in Callers, c \in Contents, o \in GivenNames \cup {Unset}, shareable \in BOOLEAN :
         Store(a, c, o, shareable)
    \/ \E p \in pushes : PushStep(p)
    \/ \E a \in Fleet : SenderRestarts(a)
    \/ \E m \in inFlight : HandleMemorySync(m) \/ Redelivered(m)
    \/ SyncTick

SyncProgress == (\E p \in pushes : PushStep(p)) \/ (\E m \in inFlight : HandleMemorySync(m))

-----------------------------------------------------------------------------
(* Properties *)

\* A text is rewritten only by its own author: when a message replaces the
\* text of a row, some caller stored the new text under the row's origin.  A
\* peer's memory, and one stored without an origin, is never overwritten.
ReplacedByItsAuthor ==
    [][\A a \in Fleet : \A i \in DOMAIN memories[a] :
         memories'[a][i].content # memories[a][i].content =>
            \E w \in written : /\ w[1] = memories'[a][i].content
                               /\ (IF w[2] = Unset THEN w[3] ELSE Canon[w[2]])
                                    = memories[a][i].origin]_syncVars

\* However often, in whatever order and by whichever agents a text is pushed,
\* no agent keeps two unattributed synced copies of it.
SyncedOnce ==
    \A a \in Fleet, c \in Contents :
        Cardinality({i \in DOMAIN memories[a] :
            LET r == memories[a][i]
            IN r.content = c /\ r.trigger = "sync" /\ ~r.attributed}) <= 1

\* A shared memory reaches every configured peer but the one it came from,
\* whatever happens to the pushes to the other peers: the peer ends with this
\* text or a similar one, unless this very push failed or was lost.
SharedArrives ==
    \A c \in Contents, q \in Fleet :
        (\E p \in pushes : p.row.content = c /\ p.row.origin # q
                           /\ q \in Range(p.left))
        ~> \/ <<c, q>> \in unsent
           \/ \E i \in DOMAIN memories[q] : Topic[memories[q][i].content] = Topic[c]

\* Sharing adds what is new, once, rewrites only what its author changed, and
\* reaches every peer.
SharingIsFair == []SyncedOnce /\ ReplacedByItsAuthor /\ SharedArrives
=============================================================================
