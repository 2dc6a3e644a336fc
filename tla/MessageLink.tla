------------------------------ MODULE MessageLink ------------------------------
(***************************************************************************)
(* What an agent may assume of the agent-to-agent network, whatever routes *)
(* and retries are behind it: a message that was handed over is open until *)
(* it gets one verdict, the verdict is final, "delivered" is only given to *)
(* a message that reached the peer, and every open message gets a verdict. *)
(* A message may still reach the peer after it was given up.               *)
(***************************************************************************)
CONSTANT Msg
VARIABLES verdict, arrived

linkVars == <<verdict, arrived>>

LinkInit ==
    /\ verdict = [m \in Msg |-> "new"]
    /\ arrived = [m \in Msg |-> FALSE]

Open(m) ==
    /\ verdict[m] = "new"
    /\ verdict' = [verdict EXCEPT ![m] = "open"]
    /\ UNCHANGED arrived

(* A request that is not acceptable never opens. *)
Refuse(m) ==
    /\ verdict[m] = "new"
    /\ verdict' = [verdict EXCEPT ![m] = "failed"]
    /\ UNCHANGED arrived

Reach(m) ==
    /\ verdict[m] # "new"
    /\ arrived' = [arrived EXCEPT ![m] = TRUE]
    /\ UNCHANGED verdict

Confirm(m) ==
    /\ verdict[m] = "open"
    /\ arrived[m]
    /\ verdict' = [verdict EXCEPT ![m] = "delivered"]
    /\ UNCHANGED arrived

(* A crash of the sender gives several messages up at once. *)
GiveUp(S) ==
    /\ \A m \in S : verdict[m] = "open"
    /\ verdict' = [m \in Msg |-> IF m \in S THEN "failed" ELSE verdict[m]]
    /\ UNCHANGED arrived

LinkNext ==
    \/ \E m \in Msg : Open(m) \/ Refuse(m) \/ Reach(m) \/ Confirm(m)
    \/ \E S \in SUBSET Msg : GiveUp(S)

LinkSafety == LinkInit /\ [][LinkNext]_linkVars

LinkLiveness == \A m \in Msg : verdict[m] = "open" ~> verdict[m] # "open"

LinkSpec == LinkSafety /\ LinkLiveness
=============================================================================
