-------------------------------- MODULE MCStp -------------------------------
(* An MSTP bridge 1, the root of all trees, and an STP bridge 2, joined by  *)
(* two parallel links.                                                      *)
EXTENDS MCBase

MCBridges == {1, 2}
MCPorts == 1..4
MCBridgeOf == <<1, 1, 2, 2>>
MCPeer == <<3, 4, 1, 2>>
MCPathCost == [p \in MCPorts |-> 1]
MCDuplex == [p \in MCPorts |-> TRUE]
MCBootBridge == [b \in MCBridges |->
    [DefaultBridge EXCEPT
        !.ForceProtocolVersion = IF b = 1 THEN protoMSTP ELSE protoSTP,
        !.MstConfigId = b]]
MCBootPriority == [u \in MCBridges \X {0, 1} |-> 8]
MCBootPort == [p \in MCPorts |-> DefaultPort]
MCBootBudget == MCBudget(0, 0, 0)
=============================================================================
