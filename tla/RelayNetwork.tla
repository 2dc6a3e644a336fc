----------------------------- MODULE RelayNetwork -----------------------------
(***************************************************************************)
(* From registration to failover: the cancellable registration loop of the *)
(* agent extension (network/retry.ts, network/registration.ts), the SDK    *)
(* client it starts (network/sdk-bridge.ts) and the relay a community uses *)
(* (CommunityRelayManager).  Only heartbeats go through callApi, and one   *)
(* heartbeat ends (10 s, three tries) before the next is due, so a         *)
(* community has one tracked call at a time.                               *)
(***************************************************************************)
EXTENDS Naturals

CONSTANTS
    Communities,    \* configured communities, all registered in one attempt
    MaxRegTries,    \* MAX_RETRIES of runRegistrationRetryLoop
    Threshold       \* failoverThreshold

ASSUME RelayAssumption == MaxRegTries \in Nat \ {0} /\ Threshold \in Nat \ {0}

Relays == {"primary", "failover"}

VARIABLES
    loop,         \* where registerWithRetry is
    regTries,     \* failed attempts
    regStatus,    \* registration_status, per community
    abortedAt,    \* "no", or where the loop was when onShutdown aborted it
    client,       \* _network is set and started
    hasFailover,  \* the community has a second relay
    active,       \* activeRelay
    fails,        \* consecutiveFailures
    startFails,   \* startupFailures
    graceOver,    \* firstSuccessSeen
    call,         \* the relay of the heartbeat in flight
    session,      \* current_relay_session_state
    dead,         \* relays that will not answer again
    missed        \* calls each relay has missed since it last answered

relayVars == <<loop, regTries, regStatus, abortedAt, client, hasFailover, active,
               fails, startFails, graceOver, call, session, dead, missed>>
regVars  == <<loop, regTries, regStatus>>
failVars == <<active, fails, startFails, graceOver, session, missed>>

RelayInit ==
    /\ loop = "off" /\ regTries = 0
    /\ regStatus = [c \in Communities |-> "none"]
    /\ abortedAt = "no" /\ client = FALSE
    /\ hasFailover \in BOOLEAN
    /\ active = "primary" /\ fails = 0 /\ startFails = 0 /\ graceOver = FALSE
    /\ call = "none" /\ session = "unknown"
    /\ dead = {} /\ missed = [r \in Relays |-> 0]

LoopStates == {"off", "registering", "sleeping", "starting", "ended", "gaveUp", "cancelled"}
Aborted == abortedAt # "no"

-----------------------------------------------------------------------------
BeginRegistration ==
    /\ loop = "off" /\ ~Aborted
    /\ loop' = "registering"
    /\ regStatus' = [c \in Communities |-> "pending"]
    /\ UNCHANGED <<regTries, abortedAt, client, hasFailover, call, dead>>
    /\ UNCHANGED failVars

(* registerMultiCommunity: one relay of one community is enough.  A        *)
(* community that failed while another succeeded is not tried again.       *)
RegisterReturns(ok) ==
    /\ loop = "registering"
    /\ \/ /\ ok # {}
          /\ loop' = "starting"
          /\ regStatus' = [c \in Communities |-> IF c \in ok THEN "success" ELSE "failed"]
          /\ UNCHANGED regTries
       \/ /\ ok = {}
          /\ regTries' = regTries + 1
          /\ \/ /\ regTries' >= MaxRegTries
                /\ loop' = "gaveUp"
                /\ regStatus' = [c \in Communities |-> "failed"]
             \/ /\ regTries' < MaxRegTries
                /\ loop' = "sleeping"
                /\ regStatus' = [c \in Communities |-> "retrying"]
    /\ UNCHANGED <<abortedAt, client, hasFailover, call, dead>>
    /\ UNCHANGED failVars

(* The sleep ends by itself or at once when the signal fires; the signal   *)
(* is looked at before the next attempt only.                              *)
SleepEnds ==
    /\ loop = "sleeping"
    /\ loop' = IF Aborted THEN "cancelled" ELSE "registering"
    /\ regStatus' = IF Aborted THEN regStatus ELSE [c \in Communities |-> "pending"]
    /\ UNCHANGED <<regTries, abortedAt, client, hasFailover, call, dead>>
    /\ UNCHANGED failVars

(* _doInitNetworkSDK: no key, no package or a failing start degrade to     *)
(* LAN-only; otherwise start() sends the first heartbeat.                  *)
InitNetworkSDK ==
    /\ loop = "starting"
    /\ loop' = "ended"
    /\ \/ client' = TRUE /\ call' = "primary"
       \/ client' = FALSE /\ UNCHANGED call
    /\ UNCHANGED <<regTries, regStatus, abortedAt, hasFailover, dead>>
    /\ UNCHANGED failVars

Heartbeat ==
    /\ client /\ call = "none"
    /\ call' = active
    /\ UNCHANGED <<abortedAt, client, hasFailover, dead>>
    /\ UNCHANGED regVars
    /\ UNCHANGED failVars

-----------------------------------------------------------------------------
(* trackFailure counts towards failover, or towards the end of the startup *)
(* grace, which then counts as a full threshold.                           *)
FailuresNow == IF graceOver THEN fails + 1
               ELSE IF startFails + 1 >= Threshold THEN Threshold ELSE 0

\* Mutant: the counter survives the switch.
CheckFailoverKeepsCount ==
    \/ /\ FailuresNow < Threshold
       /\ fails' = FailuresNow
       /\ UNCHANGED <<active, session>>
    \/ /\ FailuresNow >= Threshold /\ active = "primary" /\ hasFailover
       /\ active' = "failover" /\ fails' = Threshold /\ session' = "connected"
    \/ /\ FailuresNow >= Threshold /\ ~(active = "primary" /\ hasFailover)
       /\ fails' = Threshold /\ session' = "disconnected"
       /\ UNCHANGED active

(* checkFailover: the failover relay once, then "offline" with each        *)
(* further failure; there is no way back and no event for a recovery.      *)
CheckFailover ==
    \/ /\ FailuresNow < Threshold
       /\ fails' = FailuresNow
       /\ UNCHANGED <<active, session>>
    \/ /\ FailuresNow >= Threshold /\ active = "primary" /\ hasFailover
       /\ active' = "failover" /\ fails' = 0 /\ session' = "connected"
    \/ /\ FailuresNow >= Threshold /\ ~(active = "primary" /\ hasFailover)
       /\ fails' = Threshold /\ session' = "disconnected"
       /\ UNCHANGED active

(* The counter only matters up to the threshold: it is not counted past it.*)
TrackFailure ==
    /\ CheckFailover
    /\ startFails' = IF graceOver THEN startFails ELSE startFails + 1
    /\ graceOver' = (graceOver \/ startFails + 1 >= Threshold)
    /\ missed' = [missed EXCEPT ![call] = IF @ < Threshold THEN @ + 1 ELSE @]

HeartbeatOk ==
    /\ call # "none" /\ call \notin dead
    /\ call' = "none"
    /\ fails' = 0 /\ graceOver' = TRUE
    /\ missed' = [missed EXCEPT ![call] = 0]
    /\ UNCHANGED <<active, startFails, session, abortedAt, client, hasFailover, dead>>
    /\ UNCHANGED regVars

(* A 4xx says nothing about the relay's health. *)
HeartbeatRejected ==
    /\ call # "none" /\ call \notin dead
    /\ call' = "none"
    /\ UNCHANGED <<abortedAt, client, hasFailover, dead>>
    /\ UNCHANGED regVars
    /\ UNCHANGED failVars

HeartbeatFails ==
    /\ call # "none"
    /\ call' = "none"
    /\ TrackFailure
    /\ UNCHANGED <<abortedAt, client, hasFailover, dead>>
    /\ UNCHANGED regVars

RelayDies(r) ==
    /\ r \notin dead
    /\ dead' = dead \cup {r}
    /\ UNCHANGED <<abortedAt, client, hasFailover, call>>
    /\ UNCHANGED regVars
    /\ UNCHANGED failVars

(* onShutdown: abort the loop, then stopNetworkSDK when there is a client. *)
ShutdownNetwork ==
    /\ ~Aborted
    /\ abortedAt' = loop
    /\ client' = FALSE
    /\ UNCHANGED <<hasFailover, call, dead>>
    /\ UNCHANGED regVars
    /\ UNCHANGED failVars

-----------------------------------------------------------------------------
RelayNext ==
    \/ BeginRegistration
    \/ \E ok \in SUBSET Communities : RegisterReturns(ok)
    \/ SleepEnds \/ InitNetworkSDK \/ Heartbeat
    \/ HeartbeatOk \/ HeartbeatRejected \/ HeartbeatFails
    \/ \E r \in Relays : RelayDies(r)
    \/ ShutdownNetwork

(* The heartbeat timer runs and every call ends. *)
RelayProgress == Heartbeat \/ HeartbeatOk \/ HeartbeatRejected \/ HeartbeatFails

-----------------------------------------------------------------------------
(* The types of the state; the only type invariant of this module. *)
RelayTypeOK ==
    /\ loop \in LoopStates
    /\ regTries \in 0 .. MaxRegTries
    /\ regStatus \in [Communities -> {"none", "pending", "success", "failed", "retrying"}]
    /\ abortedAt \in LoopStates \cup {"no"} /\ client \in BOOLEAN /\ hasFailover \in BOOLEAN
    /\ active \in Relays /\ fails \in 0 .. Threshold /\ startFails \in 0 .. Threshold
    /\ graceOver \in BOOLEAN /\ call \in Relays \cup {"none"}
    /\ session \in {"unknown", "connected", "disconnected"}
    /\ dead \subseteq Relays /\ missed \in [Relays -> 0 .. Threshold]

(* A community leaves its primary relay only after the primary itself has  *)
(* missed failoverThreshold calls in a row, during the startup grace too.  *)
FailoverIsEarned == [][active' # active => missed'["primary"] >= Threshold]_relayVars

(* "disconnected" is reported only when the relay in use has missed        *)
(* failoverThreshold calls in a row: failures of the primary are not held  *)
(* against the failover relay.                                             *)
OfflineIsEarned ==
    [][session' = "disconnected" /\ session # "disconnected"
        => missed'[active] >= Threshold]_relayVars

(* A client that has a second relay does not stay with a dead primary.     *)
DeadPrimaryIsLeft ==
    (client /\ hasFailover /\ active = "primary" /\ "primary" \in dead)
        ~> (active = "failover" \/ ~client)

(* A client that comes up after onShutdown belongs to an attempt that was  *)
(* already under way: an abort during the sleep of the loop ends it.       *)
LateClientHadStarted == Aborted /\ client => abortedAt \in {"registering", "starting"}

(* Every change of relay or session state is earned by the relay it is     *)
(* about, and after an abort only an attempt already under way starts.     *)
SwitchIsEarned ==
    []RelayTypeOK /\ []LateClientHadStarted /\ FailoverIsEarned /\ OfflineIsEarned

(* The client leaves a relay when, and only when, that relay fails it. *)
RelayIsServed == SwitchIsEarned /\ DeadPrimaryIsLeft
=============================================================================
