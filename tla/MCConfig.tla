------------------------------- MODULE MCConfig -----------------------------
(* Two RSTP bridges joined by two parallel links; the administrator gives   *)
(* one command at any time.                                                 *)
EXTENDS MCBase

MCBridges == {1, 2}
MCPorts == 1..4
MCBridgeOf == <<1, 1, 2, 2>>
MCPeer == <<3, 4, 1, 2>>
MCPathCost == [p \in MCPorts |-> 1]
MCDuplex == [p \in MCPorts |-> TRUE]
MCBootBridge == [b \in MCBridges |-> DefaultBridge]
MCBootPriority == [u \in MCBridges \X {0} |-> 8]
MCBootPort == [p \in MCPorts |-> DefaultPort]
MCBootBudget == MCBudget(0, 0, 1)

MCCommands ==
    { <<"address", 2, 0>>, <<"times", 1, <<4, 3>> >>, <<"maxhops", 1, 2>>,
      <<"txholdcount", 1, 1>>,
      <<"treeprio", <<2, 0>>, 4>>, <<"pathcost", 3, 2>>,
      <<"p2p", 4, "ForceFalse">>, <<"adminedge", 1, TRUE>>,
      <<"AutoEdge", 2, TRUE>>, <<"restrictedTcn", 3, TRUE>>,
      <<"treeportprio", <<2, 0>>, 4>>, <<"treeportcost", <<3, 0>>, 2>>,
      <<"mcheck", 3, TRUE>>,
      <<"version", 1, protoMSTP>>, <<"version", 2, protoSTP>> }
=============================================================================
