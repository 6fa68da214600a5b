--------------------------- MODULE PriorityVector ---------------------------
(***************************************************************************)
(* Spanning tree priority vectors and times (mstp.h), and the comparisons  *)
(* mstp.c makes between them.  Identifiers are naturals whose order is the *)
(* byte order of the identifiers on the wire: a bridge identifier is       *)
(* priority * MacSpace + MAC address, a port identifier is                 *)
(* priority * PortSpace + port number.                                     *)
(***************************************************************************)
EXTENDS Naturals

CONSTANTS
    MacSpace,       \* more than every MAC address in the model
    PortSpace       \* more than every port number in the model

ASSUME SpaceAssumption == MacSpace \in Nat \ {0} /\ PortSpace \in Nat \ {0}

PriorityVectors ==
    [ RootID: Nat, ExtRootPathCost: Nat, RRootID: Nat, IntRootPathCost: Nat,
      DesignatedBridgeID: Nat, DesignatedPortID: Nat ]

Times ==
    [ Forward_Delay: Nat, Max_Age: Nat, Message_Age: Nat, Hello_Time: Nat,
      remainingHops: Nat ]

\* Identifiers are built from, and split into, a priority and a rest.
BridgeIdentifier(priority, mac) == priority * MacSpace + mac
PortIdentifier(priority, number) == priority * PortSpace + number
MacAddress(id) == id % MacSpace
BridgePrio(id) == id \div MacSpace
PortNumber(id) == id % PortSpace
PortPrio(id) == id \div PortSpace

-----------------------------------------------------------------------------
\* Both vectors and both times agree on every component the tree uses.  An
\* MSTI uses neither the CIST root components nor the CIST timers.
samePriorityAndTimers(vec1, vec2, time1, time2, cist) ==
    /\ cist => /\ time1.Forward_Delay = time2.Forward_Delay
               /\ time1.Max_Age = time2.Max_Age
               /\ time1.Message_Age = time2.Message_Age
               /\ time1.Hello_Time = time2.Hello_Time
               /\ vec1.RootID = vec2.RootID
               /\ vec1.ExtRootPathCost = vec2.ExtRootPathCost
    /\ time1.remainingHops = time2.remainingHops
    /\ vec1.RRootID = vec2.RRootID
    /\ vec1.IntRootPathCost = vec2.IntRootPathCost
    /\ vec1.DesignatedBridgeID = vec2.DesignatedBridgeID
    /\ vec1.DesignatedPortID = vec2.DesignatedPortID

\* One level of a lexicographic comparison: smaller decides, equal defers.
Precedes(a, b, tie) == a < b \/ (a = b /\ tie)

\* vec1 is better than vec2 or, up to the port identifiers, the same.
betterorsamePriority(vec1, vec2, pId1, pId2, cist) ==
    LET regional ==
            Precedes(vec1.RRootID, vec2.RRootID,
            Precedes(vec1.IntRootPathCost, vec2.IntRootPathCost,
            Precedes(vec1.DesignatedBridgeID, vec2.DesignatedBridgeID,
            Precedes(vec1.DesignatedPortID, vec2.DesignatedPortID,
                     pId1 <= pId2))))
    IN  IF cist
        THEN Precedes(vec1.RootID, vec2.RootID,
             Precedes(vec1.ExtRootPathCost, vec2.ExtRootPathCost, regional))
        ELSE regional
=============================================================================
