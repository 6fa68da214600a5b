----------------------------- MODULE MCBoundary -----------------------------
(* An MSTP bridge 1 with an MSTI and the RSTP bridge 2, the CIST root,      *)
(* joined by two parallel links: both ports of bridge 1 are at the boundary *)
(* of its region, until a command moves the boundary or the root.           *)
EXTENDS MCBase

MCBridges == {1, 2}
MCPorts == 1..4
MCBridgeOf == <<1, 1, 2, 2>>
MCPeer == <<3, 4, 1, 2>>
MCPathCost == [p \in MCPorts |-> 1]
MCDuplex == [p \in MCPorts |-> TRUE]
MCBootBridge == [b \in MCBridges |->
    IF b = 1 THEN [DefaultBridge EXCEPT !.ForceProtocolVersion = protoMSTP]
    ELSE DefaultBridge]
MCBootPriority == [u \in MCBridges \X {0, 1} |-> IF u = <<2, 0>> THEN 4 ELSE 8]
MCBootPort == [p \in MCPorts |-> DefaultPort]
MCBootBudget == MCBudget(0, 0, 1)

MCCommands == {<<"version", 2, protoMSTP>>, <<"version", 2, protoSTP>>,
               <<"treeprio", <<1, 0>>, 2>>}
=============================================================================
