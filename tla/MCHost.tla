------------------------------- MODULE MCHost -------------------------------
(* One RSTP bridge: port 1 leads to an end station that sends no BPDU, and  *)
(* ports 2 and 3, which are network ports, are joined by a cable.  Port 1   *)
(* is half duplex.                                                          *)
EXTENDS MCBase

MCBridges == {1}
MCPorts == 1..3
MCBridgeOf == <<1, 1, 1>>
MCPeer == <<NoPort, 3, 2>>
MCPathCost == [p \in MCPorts |-> 1]
MCDuplex == [p \in MCPorts |-> p # 1]
MCBootBridge == [b \in MCBridges |-> DefaultBridge]
MCBootPriority == [u \in MCBridges \X {0} |-> 8]
MCBootPort == [p \in MCPorts |->
                  [DefaultPort EXCEPT !.AutoEdge = p # 3, !.NetworkPort = p # 1]]
MCBootBudget == MCBudget(0, 0, 1)

MCCommands == {<<"mcheck", p, TRUE>> : p \in MCPorts}
    \cup {<<"AutoEdge", 2, FALSE>>, <<"adminedge", 1, TRUE>>,
          <<"p2p", 1, "ForceTrue">>, <<"restrictedRole", 3, TRUE>>,
          <<"ageing", 1, 5>>,
          <<"BpduGuardPort", 3, TRUE>>, <<"bpduFilterPort", 3, TRUE>>,
          <<"dontTxmtBpdu", 2, TRUE>>, <<"NetworkPort", 3, FALSE>>}
=============================================================================
