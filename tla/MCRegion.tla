------------------------------ MODULE MCRegion ------------------------------
(* A region of two MSTP bridges joined by two parallel links; bridge 1 is   *)
(* the root of the CIST and bridge 2 the root of the MSTI.                  *)
EXTENDS MCBase

MCBridges == {1, 2}
MCPorts == 1..4
MCBridgeOf == <<1, 1, 2, 2>>
MCPeer == <<3, 4, 1, 2>>
MCPathCost == [p \in MCPorts |-> 1]
MCDuplex == [p \in MCPorts |-> TRUE]
MCBootBridge == [b \in MCBridges |->
    [DefaultBridge EXCEPT !.ForceProtocolVersion = protoMSTP]]
MCBootPriority == [u \in MCBridges \X {0, 1} |-> IF u = <<2, 1>> THEN 4 ELSE 8]
MCBootPort == [p \in MCPorts |-> DefaultPort]
MCBootBudget == MCBudget(0, 0, 0)
=============================================================================
