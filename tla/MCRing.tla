------------------------------- MODULE MCRing -------------------------------
(* Three RSTP bridges in a row, 1 - 2 - 3, with bridge 1 the root.  The     *)
(* link from 3 to 1 closes the ring later, at the end of a second, when all *)
(* links forward and no topology change is under way.  It is the better     *)
(* path for both 2 and 3: the old root port of 3 becomes a designated port  *)
(* and the link between 1 and 2 must be cut before the new link is used.    *)
EXTENDS MCBase

MCBridges == 1..3
MCPorts == 1..6
MCBridgeOf == <<1, 2, 2, 3, 1, 3>>
MCPeer == <<2, 1, 4, 3, 6, 5>>
MCPathCost == [p \in MCPorts |-> IF p = 2 THEN 3 ELSE 1]
MCDuplex == [p \in MCPorts |-> TRUE]
MCBootBridge == [b \in MCBridges |-> DefaultBridge]
MCBootPriority == [u \in MCBridges \X {0} |-> 8]
MCBootPort == [p \in MCPorts |-> DefaultPort]

\* The start-up leaves ports 5 and 6 down.
MCBootBudget == [MCBudget(0, 0, 0) EXCEPT !.flaps = 9]

Calm == /\ due = MCBridges /\ \A p \in MCPorts : chan[p] = <<>>
        /\ \A p \in 1..4 : /\ pst[Cist(p)].state = "FORWARDING"
                            /\ tc[Cist(p)].tcWhile = 0
Closes == ~Booting /\ budget'.flaps # budget.flaps
RingNext == /\ MCNext
            /\ Closes => Calm /\ \E p \in {5, 6} : /\ ~prt[p].portEnabled
                                                   /\ prt'[p].portEnabled
RingSpec == Init /\ [][RingNext]_vars /\ WF_vars(RingNext)
=============================================================================
