------------------------------ MODULE MCNetwork ------------------------------
(* The parts share no state: a behaviour of this module is a behaviour of  *)
(* one of them, and of the delivery part for one message.                  *)
EXTENDS A2ADelivery, RelayNetwork, ContactCache, PeerHeartbeat, MemorySync

VARIABLE part
vars == <<a2aVars, relayVars, contactVars, hbVars, syncVars, part>>

\* a pushes to b and c, b to a; "a comms" is a's name with a role suffix.
MCPeerList == [a |-> <<"b", "c">>, b |-> <<"a">>, c |-> <<>>]
MCCanon == [n \in {"a", "b", "c", "a comms"} |-> IF n = "a comms" THEN "a" ELSE n]
\* Two versions of one memory.
MCTopic == [c1 |-> 1, c2 |-> 1]
MCTriggerOf == [c1 |-> "retro", c2 |-> "correction"]

Init ==
    /\ A2AInit /\ RelayInit /\ ContactInit /\ HbInit /\ SyncInit
    /\ part \in A2AMessages \cup {"relay", "contacts", "heartbeat", "sync"}
    /\ part # "relay" => hasFailover
    /\ part # "contacts" => relaySet = {}

Part(p) == part = p /\ UNCHANGED part
OnlyA2A == UNCHANGED <<relayVars, contactVars, hbVars, syncVars>>
OnlyRelay == UNCHANGED <<a2aVars, contactVars, hbVars, syncVars>>
OnlySync == UNCHANGED <<a2aVars, relayVars, contactVars, hbVars>>

Next ==
    \/ \E m \in A2AMessages :
          Part(m) /\ A2ANext /\ OnlyA2A /\ \A o \in A2AMessages \ {m} : pc'[o] = "idle"
    \/ Part("relay") /\ RelayNext /\ OnlyRelay
    \/ Part("contacts") /\ ContactNext /\ UNCHANGED <<a2aVars, relayVars, hbVars, syncVars>>
    \/ Part("heartbeat") /\ HbNext /\ UNCHANGED <<a2aVars, relayVars, contactVars, syncVars>>
    \/ Part("sync") /\ SyncNext /\ OnlySync

Fairness ==
    /\ \A m \in A2AMessages :
          /\ WF_vars(Part(m) /\ SenderProgress(m) /\ OnlyA2A)
          /\ WF_vars(Part(m) /\ RetryStart(m) /\ OnlyA2A)
          /\ WF_vars(Part(m) /\ Expire(m) /\ OnlyA2A)
    /\ WF_vars(Part("relay") /\ RelayProgress /\ OnlyRelay)
    /\ WF_vars(Part("sync") /\ SyncProgress /\ OnlySync)

Spec == Init /\ [][Next]_vars /\ Fairness
=============================================================================
