--------------------------- MODULE MessageDelivery ---------------------------
(***************************************************************************)
(* Messages for the two persistent agents: sendMessage                     *)
(* (agents/message-router.ts) stores a row and triggers the task           *)
(* message-delivery (automation/tasks/message-delivery.ts), which injects  *)
(* the text of the undelivered rows into the agent's tmux session and      *)
(* marks them processed when the injection is confirmed.                   *)
(*                                                                         *)
(* A delivery cycle reads the sessions and the rows once and then works    *)
(* on that snapshot, yielding to the event loop whenever it awaits an      *)
(* injection.  The scheduler's tick does not start a cycle while one runs, *)
(* but triggerTask does not look: cycles overlap.  Injections into one     *)
(* session are queued (agents/tmux.ts).                                    *)
(*                                                                         *)
(* Left out: workers, which pull their messages; a request repeated within *)
(* DEDUP_WINDOW_MS, which stores nothing; read_at, which delivery does not *)
(* look at.                                                                *)
(***************************************************************************)
EXTENDS Naturals, Sequences, FiniteSetsExt

CONSTANTS
    MaxMsg,      \* bound on messages
    MaxCycles,   \* bound on cycles that run at the same time
    MAX_RETRIES  \* cycles without a session that drop a message

ASSUME BoundsAssumption ==
    MaxMsg \in Nat /\ MaxCycles \in Nat \ {0} /\ MAX_RETRIES \in Nat \ {0}

Id    == 1..MaxMsg       \* messages.id, in the order of created_at
Cycle == 1..MaxCycles
Agent == {"comms", "orchestrator"}

VARIABLES
    messages,      \* the rows
    session,       \* the tmux session of each agent; "waiting" for any of comms
    retryCounts,   \* _retryCounts, up to MAX_RETRIES
    cycle,         \* the cycles, each awaiting an injection or idle
    lane,          \* _sessionQueues: the cycles waiting for a session
    running,       \* task.running of the scheduler
    heard,         \* history: confirmed injections of each message, up to 2
    outage         \* history: messages that waited while there was no session

vars == <<messages, session, retryCounts, cycle, lane, running, heard, outage>>

-----------------------------------------------------------------------------
Row == [to : Agent, processed : BOOLEAN, dead_letter : BOOLEAN,
        busy_pinged : BOOLEAN, old : BOOLEAN]

NoRow == [to |-> "nobody", processed |-> TRUE]

Stored(m) == messages[m] # NoRow

IdleCycle == [pc |-> "idle"]

\* What a cycle remembers across an await: what it injects, the rows it has
\* not come to, which of both had busy_pinged_at, and how it found the
\* sessions of the agents to come.
Awaiting == [pc : {"ping", "batch"}, at : Agent, ids : SUBSET Id, list : SUBSET Id,
             pinged : SUBSET Id, live : SUBSET Agent, deferred : SUBSET Agent]

Init ==
    /\ messages = [m \in Id |-> NoRow]
    /\ session = [a \in Agent |-> "dead"]
    /\ retryCounts = [m \in Id |-> 0]
    /\ cycle = [c \in Cycle |-> IdleCycle]
    /\ lane = [a \in Agent |-> <<>>]
    /\ running = FALSE
    /\ heard = [m \in Id |-> 0]
    /\ outage = {}

-----------------------------------------------------------------------------
(* What a cycle does to the rows.  Each UPDATE writes the metadata of the  *)
(* snapshot, with one key more.                                            *)

\* expireMessage
Expire(rows, S, pinged) ==
    [m \in Id |-> IF m \notin S THEN rows[m]
                  ELSE [rows[m] EXCEPT !.processed = TRUE, !.dead_letter = TRUE,
                                       !.busy_pinged = m \in pinged]]

MarkDelivered(rows, S, pinged) ==
    [m \in Id |-> IF m \notin S THEN rows[m]
                  ELSE [rows[m] EXCEPT !.processed = TRUE, !.dead_letter = FALSE,
                                       !.busy_pinged = m \in pinged]]

MarkPinged(rows, S) ==
    [m \in Id |-> IF m \notin S THEN rows[m]
                  ELSE [rows[m] EXCEPT !.dead_letter = FALSE, !.busy_pinged = TRUE]]

\* Mutant: no age limit.
TtlExpiredNever(rows) == {}

TtlExpired(rows) == {m \in Id : ~rows[m].processed /\ rows[m].old}

Undelivered(rows) == {m \in Id : ~rows[m].processed}

\* Mutant: a busy orchestrator counts as absent.
DeferredIgnored == {}

\* getLiveSessions: an orchestrator at its prompt is live, a busy one is
\* deferred.  Of comms it asks only whether there is a session.
Live == {a \in Agent : session[a] = "waiting"}

Deferred == {a \in {"orchestrator"} : session[a] = "active"}

-----------------------------------------------------------------------------
(* A cycle, from the start or from an injection that returned, to its next *)
(* await or its end.                                                       *)

Of(S, rows, a) == {m \in S : rows[m].to = a}

\* A live agent gets its messages; a busy orchestrator a ping about those it
\* has not been pinged about.
Payload(k, rows, a) ==
    IF a \in k.live THEN Of(k.list, rows, a)
    ELSE IF a \in k.deferred THEN Of(k.list, rows, a) \ k.pinged ELSE {}

\* Mutant: what does not fit is skipped, and shorter ones after it are sent.
BatchesWithGaps(S) == SUBSET S \ {{}}

\* buildDeliverableBatch: as many as fit, in order, and at least one.  The
\* lengths of the texts decide how many.
Batches(S) == {{m \in S : m <= last} : last \in S}

\* No session: one more retry each, and the last one expires the message.
Retried(S) ==
    [m \in Id |-> IF m \in S /\ retryCounts[m] < MAX_RETRIES
                  THEN retryCounts[m] + 1 ELSE retryCounts[m]]

\* The agents come in the order of their first message.
First(k, rows, a) == Min(Of(k.list, rows, a))

\* The agents there is something to inject for.
Due(k, rows) == {a \in Agent : Payload(k, rows, a) # {}}

\* The messages of the agents that come before the next injection.
Passed(k, rows, due) ==
    {m \in k.list : \A a \in due : First(k, rows, rows[m].to) < First(k, rows, a)}

\* Messages without a session are dealt with at once, then the cycle ends.
Finish(c, k, rows, lanes) ==
    LET absent == {m \in k.list : rows[m].to \notin k.live \cup k.deferred}
    IN  /\ Due(k, rows) = {}
        /\ retryCounts' = Retried(absent)
        /\ messages' = Expire(rows, {m \in absent : retryCounts'[m] >= MAX_RETRIES}, k.pinged)
        /\ cycle' = [cycle EXCEPT ![c] = IdleCycle]
        /\ lane' = lanes
        /\ running' = FALSE

\* ... or it comes to an agent with something to inject, and awaits that.
Await(c, k, rows, lanes) ==
    \E a \in Due(k, rows) :
        LET passed == Passed(k, rows, Due(k, rows))
            absent == {m \in passed : rows[m].to \notin k.live \cup k.deferred}
            rest   == k.list \ (passed \cup Of(k.list, rows, a))
            later  == {rows[m].to : m \in rest}
        IN  /\ \A b \in Due(k, rows) : First(k, rows, a) <= First(k, rows, b)
            /\ retryCounts' = Retried(absent)
            /\ messages' = Expire(rows, {m \in absent : retryCounts'[m] >= MAX_RETRIES}, k.pinged)
            /\ \E S \in IF a \in k.live THEN Batches(Payload(k, rows, a))
                                        ELSE {Payload(k, rows, a)} :
                  cycle' = [cycle EXCEPT ![c] =
                      [pc |-> IF a \in k.live THEN "batch" ELSE "ping",
                       at |-> a, ids |-> S, list |-> rest,
                       pinged |-> k.pinged \cap (S \cup rest),
                       live |-> k.live \cap later, deferred |-> k.deferred \cap later]]
            /\ lane' = [lanes EXCEPT ![a] = Append(@, c)]
            /\ running' = TRUE

Run(c, k, rows, lanes) == Finish(c, k, rows, lanes) \/ Await(c, k, rows, lanes)

\* deliverMessages: read the sessions, expire what is too old, read the rows.
StartCycle(c, stored) ==
    /\ cycle[c] = IdleCycle
    /\ \E rows \in {Expire(stored, TtlExpired(stored),
                           {m \in Undelivered(stored) : stored[m].busy_pinged})} :
       \E k \in {[list |-> Undelivered(rows),
                  pinged |-> {m \in Undelivered(rows) : rows[m].busy_pinged},
                  live |-> Live, deferred |-> Deferred]} :
          Run(c, k, rows, lane)

-----------------------------------------------------------------------------
(* sendMessage stores the row and triggers a cycle, which runs at once.    *)
SendMessage(m, a, c) ==
    /\ ~Stored(m) /\ \A n \in 1..m-1 : Stored(n)
    /\ StartCycle(c, [messages EXCEPT ![m] =
           [to |-> a, processed |-> FALSE, dead_letter |-> FALSE, busy_pinged |-> FALSE,
            old |-> FALSE]])
    /\ outage' = IF session[a] = "dead" THEN outage \cup {m} ELSE outage
    /\ UNCHANGED <<session, heard>>

\* The scheduler's tick looks at task.running, triggerTask does not.
Tick(c) ==
    /\ ~running
    /\ StartCycle(c, messages)
    /\ UNCHANGED <<session, heard, outage>>

\* enqueueForSession: the next one starts, whether this one failed or not.
NextInLane(a, ok) == [lane EXCEPT ![a] = Tail(@)]

\* injectMessage returns; it confirms only what it finds in a live session.
Injected(c, ok) ==
    LET k == cycle[c]
    IN  /\ k # IdleCycle /\ Head(lane[k.at]) = c
        /\ ok => session[k.at] # "dead"
        /\ heard' = [m \in Id |-> IF ok /\ k.pc = "batch" /\ m \in k.ids /\ heard[m] < 2
                                  THEN heard[m] + 1 ELSE heard[m]]
        /\ \E rows \in {IF ~ok THEN messages
                        ELSE IF k.pc = "ping" THEN MarkPinged(messages, k.ids)
                        ELSE MarkDelivered(messages, k.ids, k.pinged)} :
              Run(c, k, rows, NextInLane(k.at, ok))
        /\ UNCHANGED <<session, outage>>

-----------------------------------------------------------------------------
(* Sessions, time and the daemon                                           *)

SessionBecomes(a, s) ==
    /\ session[a] # s
    /\ session' = [session EXCEPT ![a] = s]
    /\ outage' = IF s = "dead" THEN outage \cup Of(Undelivered(messages), messages, a)
                 ELSE outage
    /\ UNCHANGED <<messages, retryCounts, cycle, lane, running, heard>>

\* created_at is ttl_hours ago.
MessageAges(m) ==
    /\ ~messages[m].processed /\ ~messages[m].old
    /\ messages' = [messages EXCEPT ![m].old = TRUE]
    /\ UNCHANGED <<session, retryCounts, cycle, lane, running, heard, outage>>

\* The daemon restarts, maybe between an injection and the UPDATE.
Restart ==
    /\ cycle' = [c \in Cycle |-> IdleCycle]
    /\ lane' = [a \in Agent |-> <<>>]
    /\ retryCounts' = [m \in Id |-> 0]
    /\ running' = FALSE
    /\ UNCHANGED <<messages, session, heard, outage>>

-----------------------------------------------------------------------------
InjectionReturns(c) == \E ok \in BOOLEAN : Injected(c, ok)

Next ==
    \/ \E m \in Id, a \in Agent, c \in Cycle : SendMessage(m, a, c)
    \/ \E c \in Cycle : Tick(c) \/ InjectionReturns(c)
    \/ \E s \in {"dead", "waiting"} : SessionBecomes("comms", s)
    \/ \E s \in {"dead", "waiting", "active"} : SessionBecomes("orchestrator", s)
    \/ \E m \in Id : MessageAges(m)
    \/ Restart

Spec == Init /\ [][Next]_vars

\* The scheduler ticks, tmux calls return (each has a timeout), time passes.
Fairness ==
    /\ WF_vars(\E c \in Cycle : Tick(c))
    /\ \A c \in Cycle : WF_vars(InjectionReturns(c))
    /\ \A m \in Id : WF_vars(MessageAges(m))

FairSpec == Spec /\ Fairness

-----------------------------------------------------------------------------
(* Properties                                                              *)

\* Every variable has its type, and a cycle is in the queue of a session
\* exactly when it awaits an injection there.
TypeOK ==
    /\ messages \in [Id -> Row \cup {NoRow}]
    /\ session \in [Agent -> {"dead", "waiting", "active"}]
    /\ retryCounts \in [Id -> 0..MAX_RETRIES]
    /\ cycle \in [Cycle -> Awaiting \cup {IdleCycle}]
    /\ \A a \in Agent :
          /\ lane[a] \in Seq(Cycle)
          /\ \A c \in Cycle :
                Cardinality({i \in DOMAIN lane[a] : lane[a][i] = c})
                    = IF cycle[c] # IdleCycle /\ cycle[c].at = a THEN 1 ELSE 0
    /\ running \in BOOLEAN
    /\ heard \in [Id -> 0..2]
    /\ outage \in SUBSET Id

\* An agent hears its messages in the order they were sent: none overtakes an
\* earlier one that is still to be delivered, however cycles overlap, batches
\* are split and injections fail.
HeardInOrder ==
    \A m, n \in Id :
        m < n /\ Stored(n) /\ messages[m].to = messages[n].to /\ heard[n] > 0 =>
            heard[m] > 0 \/ messages[m].processed

\* Before its time is up a message is dropped only if its agent had no session
\* while it waited: a busy orchestrator costs no retries.
YoungDropNeedsOutage ==
    \A m \in Id : Stored(m) /\ messages[m].dead_letter /\ ~messages[m].old => m \in outage

\* No message stays undelivered for ever: it is delivered or expires.
EveryMessageSettles ==
    \A m \in Id : Stored(m) ~> messages[m].processed

=============================================================================
