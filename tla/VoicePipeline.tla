--------------------------- MODULE VoicePipeline ---------------------------
(***************************************************************************)
(* The voice extension of the daemon.  A recording posted to               *)
(* /voice/transcribe becomes text for the comms session, and its request   *)
(* waits for a spoken reply when the reply channel is 'voice'.  A voice    *)
(* notification rings at the first registered client and, once confirmed,  *)
(* synthesises the text and pushes the audio.                              *)
(***************************************************************************)
EXTENDS Naturals, Sequences, SequencesExt

CONSTANTS
    Recordings,    \* requests to /voice/transcribe
    Notices,       \* calls of sendVoiceNotification
    VoiceClients,
    MaxSwitches,   \* bound on changes of the channel and messages sent meanwhile
    MaxClientOps   \* bound on registrations, removals and missed heartbeats

NoOne == "no one"
AgentChannels == {"terminal", "telegram", "telegram-verbose", "silent", "voice", "teams"}
TextChannels == {"telegram", "telegram-verbose", "terminal", "teams"}

VARIABLES
    enabled,       \* _enabled
    phase,         \* of a recording: "idle", "body", "stt", "waiting", "done"
    via,           \* the reply channel its text was injected for, or NoOne
    pendingVoice,  \* whose callback _voicePendingCallback is
    channel, lastActive,
    clients,       \* the Map of the registry: its keys in order of insertion
    callback,      \* the clients that gave a callback URL
    stale,         \* the clients without a heartbeat for STALE_TIMEOUT_MS
    voiceNotice,   \* of a notice: "idle", "chime", "synth", "push", "voice", "fallback"
    chimed, played,  \* the clients its chime and its audio went to
    departed,      \* the clients that left the registry since its chime
    switches, clientOps

requestVars == <<enabled, phase, via, pendingVoice, channel, lastActive, switches>>
noticeVars == <<clients, callback, stale, voiceNotice, chimed, played, departed, clientOps>>
voiceVars == <<requestVars, noticeVars>>

VoiceInit ==
    /\ enabled \in BOOLEAN
    /\ phase = [r \in Recordings |-> "idle"] /\ via = [r \in Recordings |-> NoOne]
    /\ pendingVoice = NoOne
    /\ channel \in AgentChannels /\ lastActive \in {"none", "teams"}
    /\ clients = <<>> /\ callback = {} /\ stale = {}
    /\ voiceNotice = [n \in Notices |-> "idle"]
    /\ chimed = [n \in Notices |-> NoOne] /\ played = chimed
    /\ departed = [n \in Notices |-> {}]
    /\ switches = 0 /\ clientOps = 0

-----------------------------------------------------------------------------
(* The channel of the agent.                                               *)

Switch == switches < MaxSwitches /\ switches' = switches + 1

\* updateLastActiveChannel, whose write to the database may fail
UpdateLastActive(c) == lastActive' \in {lastActive} \cup ({c} \cap TextChannels)

\* setChannel, or the agent's own write of the channel file, which records nothing
SetChannel(c) ==
    /\ Switch /\ c # channel
    /\ channel' = c
    /\ UpdateLastActive(c)
    /\ UNCHANGED <<enabled, phase, via, pendingVoice, noticeVars>>

\* A message comes in on Teams, the one adapter that records its channel.
InboundTeams ==
    /\ Switch
    /\ UpdateLastActive("teams")
    /\ UNCHANGED <<enabled, phase, via, pendingVoice, channel, noticeVars>>

\* routeOutgoingMessage: the callback is dropped, never called.
RouteOutgoing ==
    /\ Switch
    /\ pendingVoice' = NoOne
    /\ UNCHANGED <<enabled, phase, via, channel, lastActive, noticeVars>>

GetLastActive == IF lastActive = "none" THEN "telegram" ELSE lastActive

ResolveReplyChannel == IF channel \in {"terminal", "silent"} THEN GetLastActive ELSE channel

-----------------------------------------------------------------------------
(* handleTranscribe, up to each of its awaits.                             *)

Goto(r, p) == phase' = [phase EXCEPT ![r] = p]

\* 503 while disabled and 429 while another recording waits for its reply.
Transcribe(r) ==
    /\ phase[r] = "idle"
    /\ Goto(r, IF enabled /\ pendingVoice = NoOne THEN "body" ELSE "done")
    /\ UNCHANGED <<enabled, via, pendingVoice, channel, lastActive, switches, noticeVars>>

\* 413, 400, or a recording that is transcribed.
BodyRead(r) ==
    /\ phase[r] = "body"
    /\ Goto(r, "stt") \/ Goto(r, "done")
    /\ UNCHANGED <<enabled, via, pendingVoice, channel, lastActive, switches, noticeVars>>

\* The catch clears the slot, whoever holds it.
SttFails(r) ==
    /\ phase[r] = "stt"
    /\ Goto(r, "done")
    /\ pendingVoice' = NoOne
    /\ UNCHANGED <<enabled, via, channel, lastActive, switches, noticeVars>>

\* Silence and hallucinations are answered at once.
SttDiscarded(r) ==
    /\ phase[r] = "stt"
    /\ Goto(r, "done")
    /\ UNCHANGED <<enabled, via, pendingVoice, channel, lastActive, switches, noticeVars>>

\* The text is injected for the reply channel of this moment; only 'voice'
\* takes the slot, which a failed injection gives back.
SttHeard(r) ==
    /\ phase[r] = "stt"
    /\ \E injected \in BOOLEAN :
        LET waits == ResolveReplyChannel = "voice" IN
        /\ Goto(r, IF waits /\ injected THEN "waiting" ELSE "done")
        /\ via' = IF injected THEN [via EXCEPT ![r] = ResolveReplyChannel] ELSE via
        /\ pendingVoice' = IF ~waits THEN pendingVoice ELSE IF injected THEN r ELSE NoOne
    /\ UNCHANGED <<enabled, channel, lastActive, switches, noticeVars>>

\* Mutant: the timer only rejects.
ResponseTimeoutKeeps(r) ==
    /\ phase[r] = "waiting"
    /\ Goto(r, "done")
    /\ UNCHANGED <<enabled, via, pendingVoice, channel, lastActive, switches, noticeVars>>

\* 30 seconds without a reply: the slot is cleared, again whoever holds it.
ResponseTimeout(r) ==
    /\ phase[r] = "waiting"
    /\ Goto(r, "done")
    /\ pendingVoice' = NoOne
    /\ UNCHANGED <<enabled, via, channel, lastActive, switches, noticeVars>>

RequestStep(r) == BodyRead(r) \/ SttFails(r) \/ SttDiscarded(r) \/ SttHeard(r) \/ ResponseTimeout(r)

RequestNext ==
    \/ \E r \in Recordings : Transcribe(r) \/ RequestStep(r)
    \/ \E c \in AgentChannels : SetChannel(c)
    \/ InboundTeams \/ RouteOutgoing

-----------------------------------------------------------------------------
(* The registry.                                                           *)

ClientOp == clientOps < MaxClientOps /\ clientOps' = clientOps + 1

Known == Range(clients)
Primary == Head(clients)
CanBeCalled == clients # <<>> /\ Primary \in callback

\* A client that is known keeps its place, with the URL it gives now.
RegisterClient(c, url) ==
    /\ ClientOp
    /\ clients' = IF c \in Known THEN clients ELSE Append(clients, c)
    /\ callback' = IF url THEN callback \cup {c} ELSE callback \ {c}
    /\ stale' = stale \ {c}
    /\ UNCHANGED <<requestVars, voiceNotice, chimed, played, departed>>

Removed(gone) ==
    /\ clients' = SelectSeq(clients, LAMBDA c : c \notin gone)
    /\ stale' = stale \ gone
    /\ departed' = [n \in Notices |-> departed[n] \cup gone]
    /\ UNCHANGED <<requestVars, callback, voiceNotice, chimed, played>>

UnregisterClient(c) == c \in Known /\ ClientOp /\ Removed({c})

PruneStaleClients == stale # {} /\ Removed(stale) /\ UNCHANGED clientOps

\* No heartbeat of c for STALE_TIMEOUT_MS.
FallsSilent(c) ==
    /\ c \in Known \ stale /\ ClientOp
    /\ stale' = stale \cup {c}
    /\ UNCHANGED <<requestVars, clients, callback, voiceNotice, chimed, played, departed>>

-----------------------------------------------------------------------------
(* sendVoiceNotification, up to each of its awaits.                        *)

Becomes(n, s) == voiceNotice' = [voiceNotice EXCEPT ![n] = s]

\* sendChime asks the first client, if it gave a URL.
SendNotification(n) ==
    /\ voiceNotice[n] = "idle"
    /\ \/ ~CanBeCalled /\ Becomes(n, "fallback") /\ UNCHANGED <<chimed, departed>>
       \/ /\ CanBeCalled /\ Becomes(n, "chime")
          /\ chimed' = [chimed EXCEPT ![n] = Primary]
          /\ departed' = [departed EXCEPT ![n] = {}]
    /\ UNCHANGED <<requestVars, clients, callback, stale, played, clientOps>>

\* confirmed; or rejected, timeout, error.
ChimeAnswered(n) ==
    /\ voiceNotice[n] = "chime"
    /\ Becomes(n, "synth") \/ Becomes(n, "fallback")
    /\ UNCHANGED <<requestVars, clients, callback, stale, chimed, played, departed, clientOps>>

\* sendAudioToClient asks for the first client again.
SynthAnswered(n) ==
    /\ voiceNotice[n] = "synth"
    /\ \/ Becomes(n, "fallback") /\ UNCHANGED played
       \/ /\ CanBeCalled
          /\ Becomes(n, "push")
          /\ played' = [played EXCEPT ![n] = Primary]
    /\ UNCHANGED <<requestVars, clients, callback, stale, chimed, departed, clientOps>>

PushAnswered(n) ==
    /\ voiceNotice[n] = "push"
    /\ Becomes(n, "voice") \/ Becomes(n, "fallback")
    /\ UNCHANGED <<requestVars, clients, callback, stale, chimed, played, departed, clientOps>>

NoticeStep(n) == SendNotification(n) \/ ChimeAnswered(n) \/ SynthAnswered(n) \/ PushAnswered(n)

NoticeNext ==
    \/ \E n \in Notices : NoticeStep(n)
    \/ \E c \in VoiceClients : RegisterClient(c, TRUE) \/ RegisterClient(c, FALSE)
    \/ \E c \in VoiceClients : UnregisterClient(c) \/ FallsSilent(c)
    \/ PruneStaleClients

-----------------------------------------------------------------------------
(* The slot belongs to a recording that still waits for its reply, though   *)
(* recordings that were let in together overwrite and clear it for another. *)
SlotIsHeld == pendingVoice # NoOne => phase[pendingVoice] = "waiting"

(* No text is injected for the channel 'silent', which carries no reply:    *)
(* whatever channels were set and recorded, another one is found.           *)
TextIsAnswerable == \A r \in Recordings : via[r] # "silent"

(* A recording is not refused for ever: each one ends, and frees the slot.  *)
RecordingsEnd ==
    /\ \A r \in Recordings : phase[r] = "body" ~> phase[r] = "done"
    /\ \A r \in Recordings : pendingVoice = r ~> pendingVoice # r

(* Audio plays at the client that confirmed the chime, unless that client   *)
(* has left the registry between the two.                                   *)
PlaysWhereConfirmed ==
    \A n \in Notices : played[n] # NoOne => played[n] = chimed[n] \/ chimed[n] \in departed[n]

(* A client that went silent is not offered voice for ever. *)
SilentClientLeaves == \A c \in VoiceClients : c \in stale ~> c \notin stale

(* What the voice extension promises to its callers. *)
VoiceIsAnswered ==
    /\ SlotIsHeld /\ TextIsAnswerable /\ PlaysWhereConfirmed
    /\ [][SlotIsHeld' /\ TextIsAnswerable' /\ PlaysWhereConfirmed']_voiceVars
    /\ RecordingsEnd /\ SilentClientLeaves
=============================================================================
