---------------------------- MODULE MCAutomation ----------------------------
(* The scheduler, the timers and the wedge detector.  They share no state: *)
(* a behaviour of this module is a behaviour of the one that part names.   *)
EXTENDS TaskScheduler, TimerAlarm, WedgeDetector

CONSTANT Parts

VARIABLE part
vars == <<schedVars, timerVars, wedgeVars, part>>

Init ==
    /\ part \in Parts
    /\ SchedInit /\ (part # "scheduler" => \A n \in Core : config[n] = "on")
    /\ TimerInit /\ WedgeInit

OnlySched == part = "scheduler" /\ UNCHANGED <<timerVars, wedgeVars, part>>
OnlyTimer == part = "timers" /\ UNCHANGED <<schedVars, wedgeVars, part>>
OnlyWedge == part = "wedge" /\ UNCHANGED <<schedVars, timerVars, part>>

Next ==
    \/ OnlySched /\ SchedNext
    \/ OnlyTimer /\ TimerNext
    \/ OnlyWedge /\ WedgeNext

Fairness ==
    /\ \A n \in Names : WF_vars(OnlySched /\ SchedProgress(n))
    /\ \A t \in Timers : /\ WF_vars(OnlyTimer /\ FireTimer(t)) /\ WF_vars(OnlyTimer /\ InjectionReturns(t))
                         /\ WF_vars(OnlyTimer /\ CycleStarts(t)) /\ WF_vars(OnlyTimer /\ CycleEnds(t))
    /\ WF_vars(OnlyWedge /\ WedgeProgress)

Spec == Init /\ [][Next]_vars /\ Fairness
=============================================================================
