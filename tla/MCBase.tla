------------------------------- MODULE MCBase -------------------------------
(***************************************************************************)
(* What the model-checking modules share: default configurations with      *)
(* scaled-down timers, and a start-up in a fixed order.                    *)
(*                                                                         *)
(* MCSpec first enables the bridges and then the ports, one after the      *)
(* other, before time passes or a BPDU is delivered; from there on it is   *)
(* Next.  Every behaviour of MCSpec is a behaviour of Spec.                *)
(***************************************************************************)
EXTENDS MstpProperties

CONSTANT ExtraFlaps     \* flaps that may happen after the start-up

DefaultBridge ==
    [ bridgeEnabled |-> FALSE, ForceProtocolVersion |-> protoRSTP,
      MaxHops |-> 3, Forward_Delay |-> 2, Max_Age |-> 2,
      Transmit_Hold_Count |-> 2, Ageing_Time |-> 9, MstConfigId |-> 1 ]

DefaultPort ==
    [ AdminExternalPortPathCost |-> 0, AdminP2P |-> "Auto",
      AdminEdgePort |-> FALSE, AutoEdge |-> FALSE, restrictedRole |-> FALSE,
      restrictedTcn |-> FALSE, BpduGuardPort |-> FALSE, NetworkPort |-> FALSE,
      dontTxmtBpdu |-> FALSE, bpduFilterPort |-> FALSE ]

MCBudget(losses, stalls, configs) ==
    [ flaps |-> Cardinality(Bridges) + Cardinality(Ports) + ExtraFlaps,
      losses |-> losses, stalls |-> stalls, configs |-> configs ]

Booting == Idle /\ budget.flaps > ExtraFlaps

DownBridges == {b \in Bridges : ~brg[b].bridgeEnabled}
DownPorts == {p \in Ports : ~prt[p].portEnabled}
Least(S) == CHOOSE n \in S : \A m \in S : n <= m

BootStep == IF DownBridges # {}
            THEN \E b \in {Least(DownBridges)} : FlapBridge(b)
            ELSE \E p \in {Least(DownPorts)} : FlapPort(p)

MCNext == IF Booting THEN BootStep ELSE Next

MCSpec == Init /\ [][MCNext]_vars

\* mstpd goes on: runs are finished, time passes, BPDUs are delivered.
MCFairSpec == MCSpec /\ WF_vars(MCNext)
=============================================================================
