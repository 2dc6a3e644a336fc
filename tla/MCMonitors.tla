----------------------------- MODULE MCMonitors -----------------------------
(* The background work of the daemon: the usage tiers, the comms heartbeat *)
(* and the self-watchdog, which are scheduled tasks, the retrospective     *)
(* loop and the watch over the speech process.  Their states are separate: *)
(* a behaviour of this module is a behaviour of the one that part names.   *)
EXTENDS ContextTiers, CommsHeartbeat, SelfWatchdog, RetroLoop, TtsWorker

VARIABLE part
others == <<tierVars, hbVars, wdVars, retroVars, part>>
vars == <<others, ttsVars>>

\* l2 and l3 begin with the same 50 characters; bad has no known category.
MCPrefix == [l1 |-> 1, l2 |-> 2, l3 |-> 2, bad |-> 3]
MCResults == {<<>>, <<"bad", "l1", "l2">>, <<"l2", "l3", "l1">>}
MCGenerateRetro == [t1 |-> "unset"]

Init == /\ part \in {"tiers", "heartbeat", "watchdog", "retro", "tts"}
        /\ TiersInit /\ HbInit /\ WdInit /\ RetroInit /\ TtsInit
        /\ part = "tts" \/ pythonGone

OnlyTiers == part = "tiers" /\ UNCHANGED <<hbVars, wdVars, retroVars, ttsVars, part>>
OnlyHb == part = "heartbeat" /\ UNCHANGED <<tierVars, wdVars, retroVars, ttsVars, part>>
OnlyWd == part = "watchdog" /\ UNCHANGED <<tierVars, hbVars, retroVars, ttsVars, part>>
OnlyRetro == part = "retro" /\ UNCHANGED <<tierVars, hbVars, wdVars, ttsVars, part>>
OnlyTts == part = "tts" /\ UNCHANGED others

Next ==
    \/ OnlyTiers /\ TiersNext
    \/ OnlyHb /\ HbNext
    \/ OnlyWd /\ WdNext
    \/ OnlyRetro /\ RetroNext
    \/ OnlyTts /\ TtsNext

Fairness ==
    /\ WF_vars(OnlyTiers /\ CommsTickSucceeds)
    /\ WF_vars(OnlyTiers /\ OrchScanStarts) /\ WF_vars(OnlyTiers /\ OrchScanEnds)
    /\ SF_vars(OnlyTiers /\ OrchTier(TRUE))
    /\ WF_vars(OnlyHb /\ HeartbeatTick) /\ SF_vars(OnlyHb /\ InjectionEnds(TRUE))
    /\ \A r \in WdRuns : WF_vars(OnlyWd /\ WdProgress(r))
    /\ WF_vars(OnlyTts /\ \E p \in DOMAIN procs : TtsProcess(p))
    /\ WF_vars(OnlyTts /\ (HealthTick \/ HealthAnswer))
    /\ WF_vars(OnlyTts /\ SynthEnds)

Spec == Init /\ [][Next]_vars /\ Fairness
=============================================================================
