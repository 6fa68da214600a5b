------------------------------- MODULE MCLinks ------------------------------
(* Two RSTP bridges joined by two parallel links. *)
EXTENDS MCBase

MCBridges == {1, 2}
MCPorts == 1..4
MCBridgeOf == <<1, 1, 2, 2>>
MCPeer == <<3, 4, 1, 2>>
MCPathCost == [p \in MCPorts |-> 1]
MCDuplex == [p \in MCPorts |-> TRUE]
MCBootBridge == [b \in MCBridges |-> DefaultBridge]
MCBootPriority == [u \in MCBridges \X {0} |-> 8]
MCBootPort == [p \in MCPorts |-> DefaultPort]
MCBootBudget == MCBudget(1, 1, 0)

\* After the start-up there is one disturbance: a link or a bridge flaps, a BPDU
\* is lost, or a run is given up.
Disturbances == (ExtraFlaps - budget.flaps) + (1 - budget.losses)
                + (1 - budget.stalls)
LinksNext == MCNext /\ Disturbances' <= 1
LinksSpec == Init /\ [][LinksNext]_vars /\ WF_vars(LinksNext)
=============================================================================
