--------------------------- MODULE VlanAssignment ---------------------------
(***************************************************************************)
(* What the MST configuration of a bridge promises its users: a set of     *)
(* spanning tree instances that always has the CIST, every VLAN assigned   *)
(* to an instance that exists, and the assignment its BPDUs advertise      *)
(* being the one in force.  How FIDs, lists and digests bring this about   *)
(* is left to MstConfig.                                                   *)
(***************************************************************************)
CONSTANTS Vlans, Instances, Cist

VARIABLES instances, instanceOf, advertised

vaVars == <<instances, instanceOf, advertised>>

AllOn(i) == [v \in Vlans |-> i]

VaInit == /\ instances = {Cist}
          /\ instanceOf = AllOn(Cist)
          /\ advertised = AllOn(Cist)

CreateInstance == /\ \E i \in Instances : instances' = instances \cup {i}
                  /\ UNCHANGED <<instanceOf, advertised>>

\* Only an instance without VLANs goes, and never the CIST.
DeleteInstance == /\ \E i \in Instances \ {Cist} :
                        /\ \A v \in Vlans : instanceOf[v] # i
                        /\ instances' = instances \ {i}
                  /\ UNCHANGED <<instanceOf, advertised>>

Reassign == \E f \in [Vlans -> instances] :
                /\ instanceOf' = f
                /\ advertised' = f
                /\ UNCHANGED instances

Reset == /\ instances' = {Cist}
         /\ instanceOf' = AllOn(Cist)
         /\ advertised' = AllOn(Cist)

VaNext == CreateInstance \/ DeleteInstance \/ Reassign \/ Reset

VaSpec == VaInit /\ [][VaNext]_vaVars
=============================================================================
