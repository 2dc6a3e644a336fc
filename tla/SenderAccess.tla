---------------------------- MODULE SenderAccess ----------------------------
(***************************************************************************)
(* Sender lists and rate limits: the file with approved, denied, blocked   *)
(* and pending senders, the classifier over it, and the three limiters the *)
(* daemon uses (a sliding window of timestamps, a token bucket and a fixed *)
(* window that opens with the first request).                              *)
(***************************************************************************)
EXTENDS Naturals, FiniteSets

CONSTANTS
    Contacts,
    Window,        \* the length of a minute in clock steps
    PerWindow,     \* maxPerMinute
    MaxClock

ASSUME AccessAssumption == Window \in Nat \ {0} /\ PerWindow \in Nat \ {0} /\ MaxClock \in Nat

VARIABLES
    listed,      \* listed[s]: the lists of 3rd-party-senders.json that name s
    expiredOk,   \* approvals past their date
    lastOp,      \* the operation of the last step
    clock,
    stamps,      \* _incomingWindows, _requestLog: times of accepted requests
    tokens,      \* _outgoingBuckets in units of 1/Window token; a new one is full
    refilled,    \* lastRefill
    opened,      \* windows of RateLimiter: count and resetAt
    inTimes, outTimes, p2pTimes     \* ghosts: <<time, n>> of every accepted request

listVars == <<listed, expiredOk>>
rateVars == <<stamps, tokens, refilled, opened, inTimes, outTimes, p2pTimes>>
accessVars == <<listed, expiredOk, lastOp, clock, stamps, tokens, refilled, opened, inTimes, outTimes, p2pTimes>>

AccessInit ==
    /\ listed = [s \in Contacts |-> {}] /\ expiredOk = {} /\ lastOp = "none" /\ clock = 0
    /\ stamps = {} /\ tokens = PerWindow * Window /\ refilled = 0 /\ opened = [count |-> 0, resetAt |-> 0]
    /\ inTimes = {} /\ outTimes = {} /\ p2pTimes = {}

-----------------------------------------------------------------------------
(* classifyAgentSender *)
Tier(s) ==
    CASE "blocked" \in listed[s] -> "blocked"
      [] "blocked" \notin listed[s] /\ "approved" \in listed[s] -> IF s \in expiredOk THEN "unknown" ELSE "approved"
      [] listed[s] \cap {"blocked", "approved"} = {} /\ "denied" \in listed[s] -> "denied"
      [] listed[s] \cap {"blocked", "approved", "denied"} = {} -> "unknown"

Edit(s, lists, op) ==
    /\ listed' = [listed EXCEPT ![s] = lists]
    /\ lastOp' = op
    /\ UNCHANGED clock /\ UNCHANGED rateVars

(* addApproved leaves a block in place. *)
ApprovedLists(s) == (listed[s] \ {"denied", "pending"}) \cup {"approved"}

AddApproved(s) == Edit(s, ApprovedLists(s), "approve") /\ expiredOk' = expiredOk \ {s}
AddDenied(s) == Edit(s, (listed[s] \ {"pending"}) \cup {"denied"}, "deny") /\ UNCHANGED expiredOk
AddBlocked(s) == Edit(s, {"blocked"}, "block") /\ UNCHANGED expiredOk
AddPending(s) == Edit(s, listed[s] \cup {"pending"}, "pending") /\ UNCHANGED expiredOk
RemoveSender(s) == Edit(s, {}, "remove") /\ UNCHANGED expiredOk
UnblockSender(s) == Edit(s, listed[s] \ {"blocked"}, "unblock") /\ UNCHANGED expiredOk

ApprovalExpires(s) ==
    /\ "approved" \in listed[s] /\ s \notin expiredOk
    /\ expiredOk' = expiredOk \cup {s} /\ lastOp' = "expire"
    /\ UNCHANGED <<listed, clock>> /\ UNCHANGED rateVars

-----------------------------------------------------------------------------
Rated(op) == lastOp' = op /\ UNCHANGED clock /\ UNCHANGED listVars
Next1(times) == times \cup {<<clock, Cardinality({x \in times : x[1] = clock})>>}

\* Mutant: the entry at the edge of the window is dropped too soon.
KeptStampsShort == {x \in stamps : clock - x[1] < Window - 1}

(* timestamps.filter(t => now - t < 60_000) *)
KeptStamps == {x \in stamps : clock - x[1] < Window}

(* checkIncomingRate, and checkRateLimit of the core *)
CheckIncomingRate ==
    /\ stamps' = IF Cardinality(KeptStamps) < PerWindow THEN Next1(KeptStamps) ELSE KeptStamps
    /\ inTimes' = IF Cardinality(KeptStamps) < PerWindow THEN Next1(inTimes) ELSE inTimes
    /\ UNCHANGED <<tokens, refilled, opened, outTimes, p2pTimes>> /\ Rated("in")

(* tokens after the refill *)
Refilled ==
    LET full == PerWindow * Window
        grown == tokens + (clock - refilled) * PerWindow
    IN IF grown > full THEN full ELSE grown

(* checkOutgoingRate *)
CheckOutgoingRate ==
    /\ refilled' = clock
    /\ tokens' = IF Refilled >= Window THEN Refilled - Window ELSE Refilled
    /\ outTimes' = IF Refilled >= Window THEN Next1(outTimes) ELSE outTimes
    /\ UNCHANGED <<stamps, opened, inTimes, p2pTimes>> /\ Rated("out")

(* RateLimiter.check; the clean-up only drops what check would replace.    *)
CheckWindow ==
    LET fresh == opened.count = 0 \/ clock >= opened.resetAt
        ok == fresh \/ opened.count < PerWindow
    IN
    /\ opened' = IF fresh THEN [count |-> 1, resetAt |-> clock + Window]
                 ELSE [opened EXCEPT !.count = IF @ <= PerWindow THEN @ + 1 ELSE @]
    /\ p2pTimes' = IF ok THEN Next1(p2pTimes) ELSE p2pTimes
    /\ UNCHANGED <<stamps, tokens, refilled, inTimes, outTimes>> /\ Rated("p2p")

ClockTicks ==
    /\ clock < MaxClock
    /\ clock' = clock + 1 /\ lastOp' = "tick"
    /\ UNCHANGED listVars /\ UNCHANGED rateVars

ListStep(s) ==
    \/ AddApproved(s) \/ AddDenied(s) \/ AddBlocked(s) \/ AddPending(s)
    \/ RemoveSender(s) \/ UnblockSender(s) \/ ApprovalExpires(s)

(* The limiters have nothing in common but the clock. *)
RateStep(limiter) ==
    \/ limiter = "sliding" /\ CheckIncomingRate
    \/ limiter = "bucket" /\ CheckOutgoingRate
    \/ limiter = "fixed" /\ CheckWindow
    \/ ClockTicks

-----------------------------------------------------------------------------
(* A block outlives approvals, denials and expiries: only unblocking or    *)
(* removing the sender ends it.                                            *)
BlockStays ==
    [][\A s \in Contacts : Tier(s) = "blocked" => Tier(s)' = "blocked" \/ lastOp' \in {"unblock", "remove"}]_accessVars

Within(times, t) == Cardinality({x \in times : x[1] <= t /\ t < x[1] + Window})

(* No minute, wherever it starts, has more accepted requests than allowed. *)
SlidingWindowHolds == \A t \in 0 .. clock : Within(inTimes, t) <= PerWindow

(* The bucket and the fixed window let at most two limits through in one   *)
(* minute: a full bucket and its refill, the end of one window and the     *)
(* start of the next.                                                      *)
BurstIsBounded ==
    \A t \in 0 .. clock : Within(outTimes, t) <= 2 * PerWindow /\ Within(p2pTimes, t) <= 2 * PerWindow

(* Each limiter keeps its bound. *)
RatesHold == SlidingWindowHolds /\ BurstIsBounded

(* The limits hold in every minute and a block is not undone in passing. *)
LimitsHold == RatesHold /\ [][RatesHold']_accessVars /\ BlockStays
=============================================================================
