----------------------------- MODULE MCRegionStp ----------------------------
(* A region of two MSTP bridges, 1 and 2, of which bridge 1 is the root of  *)
(* both trees, and an STP bridge 3 behind bridge 2.                         *)
EXTENDS MCBase

MCBridges == 1..3
MCPorts == 1..4
MCBridgeOf == <<1, 2, 2, 3>>
MCPeer == <<2, 1, 4, 3>>
MCPathCost == [p \in MCPorts |-> 1]
MCDuplex == [p \in MCPorts |-> TRUE]
MCBootBridge == [b \in MCBridges |->
    [DefaultBridge EXCEPT
        !.ForceProtocolVersion = IF b = 3 THEN protoSTP ELSE protoMSTP]]
MCBootPriority == [u \in MCBridges \X {0, 1} |-> 8]
MCBootPort == [p \in MCPorts |-> DefaultPort]
MCBootBudget == MCBudget(0, 0, 0)
=============================================================================
