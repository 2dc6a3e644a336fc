------------------------------ MODULE TimerAlarm ------------------------------
(***************************************************************************)
(* The timer API: an alarm fires once, nags until acknowledged, snoozed,   *)
(* cancelled or expired, and is reloaded from its row after a restart.     *)
(* Firing and nagging await an injection, snoozing awaits the body of the  *)
(* request after the status was checked, and each nag cycle is an interval *)
(* of its own while the entry remembers one handle.                        *)
(***************************************************************************)
EXTENDS Naturals

CONSTANTS Timers, Cycles, MaxFailures, MaxSnoozes, MaxTimerRestarts

ASSUME TimerAssumption == Cycles \subseteq Nat \ {0} /\ MaxFailures \in Nat \ {0}

VARIABLES
    row,        \* timers.status
    entry,      \* status of the entry object
    inMap,      \* the entry is in the map
    armed,      \* its timeout is set
    firing,     \* fireTimer calls that await the injection
    interval,   \* nag intervals that tick
    nagHandle,  \* the one the entry remembers, 0 for undefined
    fails,      \* consecutiveFailures of each cycle
    inflight,   \* nags that await their injection
    snoozing,   \* a snooze request passed the check and awaits its body
    raced,      \* something was in flight when the timer was completed
    snoozes, timerRestarts

timerVars == <<row, entry, inMap, armed, firing, interval, nagHandle, fails, inflight,
               snoozing, raced, snoozes, timerRestarts>>
bounds == <<snoozes, timerRestarts>>

Waiting  == {"pending", "snoozed"}
Terminal == {"acknowledged", "expired", "cancelled"}
Statuses == Waiting \cup Terminal \cup {"none", "fired"}

TimerInit ==
    /\ row = [t \in Timers |-> "none"] /\ entry = [t \in Timers |-> "none"]
    /\ inMap = [t \in Timers |-> FALSE] /\ armed = [t \in Timers |-> FALSE]
    /\ firing = [t \in Timers |-> 0]
    /\ interval = [t \in Timers |-> {}] /\ nagHandle = [t \in Timers |-> 0]
    /\ fails = [t \in Timers |-> [c \in Cycles |-> 0]]
    /\ inflight = [t \in Timers |-> {}]
    /\ snoozing = [t \in Timers |-> FALSE] /\ raced = [t \in Timers |-> FALSE]
    /\ snoozes = 0 /\ timerRestarts = 0

(* clearHandles stops the timeout and the interval the entry knows of. *)
ClearHandles(t) ==
    /\ armed' = [armed EXCEPT ![t] = FALSE]
    /\ interval' = [interval EXCEPT ![t] = @ \ {nagHandle[t]}]
    /\ nagHandle' = [nagHandle EXCEPT ![t] = 0]

(* updateTimerDb *)
Becomes(t, s) ==
    /\ entry' = [entry EXCEPT ![t] = s]
    /\ row' = [row EXCEPT ![t] = s]

Complete(t, s) ==
    /\ ClearHandles(t)
    /\ Becomes(t, s)
    /\ raced' = [raced EXCEPT ![t] = snoozing[t] \/ inflight[t] # {}]

-----------------------------------------------------------------------------
CreateTimer(t) ==
    /\ row[t] = "none"
    /\ Becomes(t, "pending")
    /\ inMap' = [inMap EXCEPT ![t] = TRUE]
    /\ armed' = [armed EXCEPT ![t] = TRUE]
    /\ UNCHANGED <<firing, interval, nagHandle, fails, inflight, snoozing, raced>>
    /\ UNCHANGED bounds

FireTimer(t) ==
    /\ armed[t]
    /\ armed' = [armed EXCEPT ![t] = FALSE]
    /\ Becomes(t, "fired")
    /\ firing' = [firing EXCEPT ![t] = @ + 1]
    /\ UNCHANGED <<inMap, interval, nagHandle, fails, inflight, snoozing, raced>>
    /\ UNCHANGED bounds

\* Mutant: no nag cycle when the first injection failed.
StartNagCycleOnSuccess(t, c) ==
    /\ firing[t] > 0 /\ c \notin interval[t] \cup inflight[t]
    /\ firing' = [firing EXCEPT ![t] = @ - 1]
    /\ UNCHANGED <<row, entry, inMap, armed, interval, nagHandle, fails, inflight, snoozing, raced>>
    /\ UNCHANGED bounds

(* The first injection returned, with whatever result: startNagCycle, and  *)
(* the entry forgets the interval it may already have.                     *)
StartNagCycle(t, c) ==
    /\ firing[t] > 0 /\ c \notin interval[t] \cup inflight[t]
    /\ firing' = [firing EXCEPT ![t] = @ - 1]
    /\ interval' = [interval EXCEPT ![t] = @ \cup {c}]
    /\ nagHandle' = [nagHandle EXCEPT ![t] = c]
    /\ fails' = [fails EXCEPT ![t][c] = 0]
    /\ UNCHANGED <<row, entry, inMap, armed, inflight, snoozing, raced>>
    /\ UNCHANGED bounds

(* A tick of a nag cycle: a timer that is no longer fired stops the        *)
(* interval of the handle, which may be another cycle's.                   *)
NagTick(t, c) ==
    /\ c \in interval[t] /\ c \notin inflight[t]
    /\ \/ /\ entry[t] # "fired"
          /\ interval' = [interval EXCEPT ![t] = @ \ {nagHandle[t]}]
          /\ nagHandle' = [nagHandle EXCEPT ![t] = 0]
          /\ UNCHANGED inflight
       \/ /\ entry[t] = "fired"
          /\ inflight' = [inflight EXCEPT ![t] = @ \cup {c}]
          /\ UNCHANGED <<interval, nagHandle>>
    /\ UNCHANGED <<row, entry, inMap, armed, firing, fails, snoozing, raced>>
    /\ UNCHANGED bounds

(* The tick that finds ten minutes have gone by. *)
NagExpires(t, c) ==
    /\ c \in interval[t] /\ entry[t] = "fired"
    /\ Complete(t, "expired")
    /\ UNCHANGED <<inMap, firing, fails, inflight, snoozing>>
    /\ UNCHANGED bounds

(* The circuit breaker expires the timer as it is now, acknowledged or     *)
(* snoozed meanwhile or not.                                               *)
TripBreaker(t) == Complete(t, "expired")

(* A nag's injection returned; failures count up to the limit. *)
NagReturns(t, c) ==
    /\ c \in inflight[t]
    /\ inflight' = [inflight EXCEPT ![t] = @ \ {c}]
    /\ \/ /\ fails' = [fails EXCEPT ![t][c] = 0]
          /\ UNCHANGED <<row, entry, armed, interval, nagHandle, raced>>
       \/ /\ fails' = [fails EXCEPT ![t][c] = IF @ < MaxFailures THEN @ + 1 ELSE @]
          /\ \/ fails'[t][c] < MaxFailures /\ UNCHANGED <<row, entry, armed, interval, nagHandle, raced>>
             \/ fails'[t][c] >= MaxFailures /\ TripBreaker(t)
    /\ UNCHANGED <<inMap, firing, snoozing>>
    /\ UNCHANGED bounds

-----------------------------------------------------------------------------
Acknowledge(t) ==
    /\ inMap[t] /\ entry[t] = "fired"
    /\ Complete(t, "acknowledged")
    /\ UNCHANGED <<inMap, firing, fails, inflight, snoozing>>
    /\ UNCHANGED bounds

(* DELETE: an entry in the map is cancelled whatever its status; for one   *)
(* that is not, only the row is.                                           *)
CancelTimer(t) ==
    /\ \/ inMap[t] /\ Complete(t, "cancelled")
       \/ /\ ~inMap[t] /\ row[t] \in Waiting \cup {"fired"}
          /\ row' = [row EXCEPT ![t] = "cancelled"]
          /\ UNCHANGED <<entry, armed, interval, nagHandle, raced>>
    /\ inMap' = [inMap EXCEPT ![t] = FALSE]
    /\ UNCHANGED <<firing, fails, inflight, snoozing>>
    /\ UNCHANGED bounds

(* cancelSessionTimers, when the orchestrator shuts down. *)
CancelSessionTimers ==
    LET hit == {t \in Timers : inMap[t] /\ entry[t] \in Waiting \cup {"fired"}} IN
    /\ hit # {}
    /\ row' = [t \in Timers |-> IF t \in hit THEN "cancelled" ELSE row[t]]
    /\ entry' = [t \in Timers |-> IF t \in hit THEN "cancelled" ELSE entry[t]]
    /\ inMap' = [t \in Timers |-> inMap[t] /\ t \notin hit]
    /\ armed' = [t \in Timers |-> armed[t] /\ t \notin hit]
    /\ interval' = [t \in Timers |-> IF t \in hit THEN interval[t] \ {nagHandle[t]} ELSE interval[t]]
    /\ nagHandle' = [t \in Timers |-> IF t \in hit THEN 0 ELSE nagHandle[t]]
    /\ raced' = [t \in Timers |-> raced[t] \/ (t \in hit /\ (snoozing[t] \/ inflight[t] # {}))]
    /\ UNCHANGED <<firing, fails, inflight, snoozing>>
    /\ UNCHANGED bounds

SnoozeRequest(t) ==
    /\ snoozes < MaxSnoozes
    /\ inMap[t] /\ entry[t] = "fired" /\ ~snoozing[t]
    /\ snoozing' = [snoozing EXCEPT ![t] = TRUE]
    /\ snoozes' = snoozes + 1
    /\ UNCHANGED <<row, entry, inMap, armed, firing, interval, nagHandle, fails, inflight, raced, timerRestarts>>

(* The body arrived; the status is not looked at again. *)
SnoozeTimer(t) ==
    /\ snoozing[t]
    /\ snoozing' = [snoozing EXCEPT ![t] = FALSE]
    /\ Becomes(t, "snoozed")
    /\ armed' = [armed EXCEPT ![t] = TRUE]
    /\ interval' = [interval EXCEPT ![t] = @ \ {nagHandle[t]}]
    /\ nagHandle' = [nagHandle EXCEPT ![t] = 0]
    /\ UNCHANGED <<inMap, firing, fails, inflight, raced>>
    /\ UNCHANGED bounds

(* initTimers: a waiting row gets its timeout again, ... *)
Rearmed(s) == s \in Waiting

(* ... a fired one goes on nagging, or has expired while the daemon was    *)
(* down or with its session.                                               *)
InitTimers ==
    /\ timerRestarts < MaxTimerRestarts
    /\ timerRestarts' = timerRestarts + 1
    /\ \E gone \in SUBSET {t \in Timers : row[t] = "fired"}, c \in Cycles :
          LET nags(t) == row[t] = "fired" /\ t \notin gone IN
          /\ row' = [t \in Timers |-> IF t \in gone THEN "expired" ELSE row[t]]
          /\ entry' = [t \in Timers |-> IF row[t] \in Waiting \cup {"fired"} THEN row'[t] ELSE "none"]
          /\ interval' = [t \in Timers |-> IF nags(t) THEN {c} ELSE {}]
          /\ nagHandle' = [t \in Timers |-> IF nags(t) THEN c ELSE 0]
    /\ inMap' = [t \in Timers |-> row[t] \in Waiting \cup {"fired"}]
    /\ armed' = [t \in Timers |-> Rearmed(row[t])]
    /\ firing' = [t \in Timers |-> 0] /\ inflight' = [t \in Timers |-> {}]
    /\ fails' = [t \in Timers |-> [c \in Cycles |-> 0]]
    /\ snoozing' = [t \in Timers |-> FALSE] /\ raced' = [t \in Timers |-> FALSE]
    /\ UNCHANGED snoozes

TimerNext ==
    \/ CancelSessionTimers \/ InitTimers
    \/ \E t \in Timers :
          \/ CreateTimer(t) \/ FireTimer(t) \/ Acknowledge(t) \/ CancelTimer(t)
          \/ SnoozeRequest(t) \/ SnoozeTimer(t)
          \/ \E c \in Cycles : StartNagCycle(t, c) \/ NagTick(t, c) \/ NagExpires(t, c) \/ NagReturns(t, c)

(* Timeouts fire, injections return and a nag cycle ends after ten minutes.*)
InjectionReturns(t) == \E c \in Cycles : NagReturns(t, c)
CycleStarts(t) == \E c \in Cycles : StartNagCycle(t, c)
CycleEnds(t) == \E c \in Cycles : NagExpires(t, c)

-----------------------------------------------------------------------------
(* The types of the state; the only type invariant of this module. *)
TimerTypeOK ==
    /\ row \in [Timers -> Statuses] /\ entry \in [Timers -> Statuses]
    /\ inMap \in [Timers -> BOOLEAN] /\ armed \in [Timers -> BOOLEAN]
    /\ \A t \in Timers : /\ firing[t] \in Nat /\ nagHandle[t] \in Cycles \cup {0}
                         /\ fails[t] \in [Cycles -> 0 .. MaxFailures]
                         /\ interval[t] \subseteq Cycles /\ inflight[t] \subseteq Cycles
    /\ snoozing \in [Timers -> BOOLEAN] /\ raced \in [Timers -> BOOLEAN]
    /\ snoozes \in 0 .. MaxSnoozes /\ timerRestarts \in 0 .. MaxTimerRestarts

(* What GET /api/timers lists is what the entry will do: row and entry     *)
(* agree for every entry the API can reach, after races and restarts too.  *)
RowMatchesEntry == \A t \in Timers : inMap[t] => row[t] = entry[t]

(* A timer that waits has its timeout: no snooze, cancellation, breaker or *)
(* restart leaves a pending or snoozed alarm that nothing will fire.       *)
WaitingIsArmed == \A t \in Timers : entry[t] \in Waiting => armed[t]

(* An acknowledged or expired timer stays so until it is deleted, unless a *)
(* snooze or a nag was in flight when it was completed.                    *)
CompletedStays ==
    [][\A t \in Timers : entry[t] \in {"acknowledged", "expired"} /\ ~raced[t]
          => entry'[t] \in {entry[t], "cancelled", "none"}]_timerVars

(* No alarm nags for ever: a fired timer is completed or snoozed. *)
FiredEnds == \A t \in Timers : entry[t] = "fired" ~> entry[t] # "fired"

(* An alarm that waits will fire, and the row tells what it will do. *)
AlarmIsSet == TimerTypeOK /\ RowMatchesEntry /\ WaitingIsArmed

(* An alarm that is set fires, and one that fired comes to rest and stays   *)
(* there.                                                                   *)
AlarmIsKept == AlarmIsSet /\ [][AlarmIsSet']_timerVars /\ CompletedStays /\ FiredEnds
=============================================================================
