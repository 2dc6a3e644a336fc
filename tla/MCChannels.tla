----------------------------- MODULE MCChannels -----------------------------
(* The outbound approval gate, Telegram in both directions, the sender     *)
(* lists, the rate limiters and voice: they share no state.  A behaviour   *)
(* of this module is a behaviour of the one that part names.               *)
EXTENDS OutboundGate, TelegramInbound, TelegramSend, SenderAccess, VoicePipeline, TLC

CONSTANTS a, b, c, d, e, f, q1, q2, r1, own, friend, u1, u2

(* Two sends of one request to one recipient under different policies, and *)
(* one that needs no approval.                                             *)
RequestOfSend == a :> q1 @@ b :> q1 @@ c :> q2
PolicyOfSend == a :> "unrecognized" @@ b :> "first_time_recipient" @@ c :> "never"
RecipientsOfSend == a :> {r1} @@ b :> {r1} @@ c :> {}

(* Three messages of the primary, one by shortcut, a photo of an approved  *)
(* sender, and two strangers.                                              *)
SenderOfMsg == a :> own @@ b :> own @@ c :> friend @@ d :> u1 @@ e :> u2 @@ f :> own
TierOfSender == own :> "safe" @@ friend :> "approved" @@ u1 :> "unknown" @@ u2 :> "unknown"

(* Every text of up to six characters that starts with two letters, and    *)
(* the texts of three chunks.                                              *)
Char == {"x", "sp", "nl"}
ShortTexts == {t \in UNION {[1 .. n -> Char] : n \in 2 .. 6} : t[1] = "x" /\ t[2] = "x"}
LongTexts == {t \in [1 .. 10 -> {"x", "nl"}] : \A i \in {1, 2, 3, 6, 7} : t[i] = "x"}
Texts == ShortTexts \cup LongTexts

VARIABLE part
others == <<gateVars, tgVars, sendVars, accessVars, part>>
vars == <<others, voiceVars>>

Init ==
    /\ part \in {"gate", "in", "out", "lists", "sliding", "bucket", "fixed", "record", "announce"}
    /\ GateInit /\ TgInit /\ AccessInit /\ SendInit /\ VoiceInit
    /\ part = "out" \/ outKind = "document"
    /\ part = "record" \/ (enabled /\ channel = "voice" /\ lastActive = "none")

OnlyGate == part = "gate" /\ UNCHANGED <<tgVars, sendVars, accessVars, voiceVars, part>>
OnlyIn == part = "in" /\ UNCHANGED <<gateVars, sendVars, accessVars, voiceVars, part>>
OnlyOut == part = "out" /\ UNCHANGED <<gateVars, tgVars, accessVars, voiceVars, part>>
OnlyAccess ==
    /\ part \in {"lists", "sliding", "bucket", "fixed"}
    /\ UNCHANGED <<gateVars, tgVars, sendVars, voiceVars, part>>
OnlyRecord == part = "record" /\ UNCHANGED others
OnlyAnnounce == part = "announce" /\ UNCHANGED others

Next ==
    \/ OnlyGate /\ GateNext
    \/ OnlyIn /\ TgNext
    \/ OnlyOut /\ SendNext
    \/ OnlyAccess /\ (part = "lists" /\ \E s \in Contacts : ListStep(s))
    \/ OnlyAccess /\ (part # "lists" /\ RateStep(part))
    \/ OnlyRecord /\ RequestNext
    \/ OnlyAnnounce /\ NoticeNext

Fairness ==
    /\ WF_vars(OnlyGate /\ DaemonStarts)
    /\ \A s \in Sends : WF_vars(OnlyGate /\ GateProgress(s))
    /\ \A q \in Requests : WF_vars(OnlyGate /\ RequestEnds(q))
    /\ WF_vars(OnlyIn /\ WakeupEnds)
    /\ WF_vars(OnlyOut /\ SendProgress)
    /\ \A r \in Recordings : WF_vars(OnlyRecord /\ RequestStep(r))
    /\ WF_vars(OnlyAnnounce /\ PruneStaleClients)

Spec == Init /\ [][Next]_vars /\ Fairness
=============================================================================
