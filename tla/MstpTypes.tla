----------------------------- MODULE MstpTypes ------------------------------
(***************************************************************************)
(* TypeOK is an invariant of the network of bridges: first the structures  *)
(* and the transitions of every state machine, then the schedule of a run, *)
(* br_state_machines_begin and the external events.  At the end, the order *)
(* of priority vectors.                                                    *)
(***************************************************************************)
EXTENDS Mstp, WellFoundedInduction, TLAPS

-----------------------------------------------------------------------------
(* Assigning a member of a structure a value of the member's type gives a  *)
(* structure of the same type.  The proofs about the state machines cite   *)
(* these lemmas instead of expanding the structures.                       *)

\* Assignments to members keep the type of the structure:
\* times_t.
LEMMA TimesFields ==
    ASSUME NEW r \in Times
    PROVE  /\ \A v \in Nat :
                  /\ [r EXCEPT !.Forward_Delay = v] \in Times
                  /\ [r EXCEPT !.Max_Age = v] \in Times
                  /\ [r EXCEPT !.Message_Age = v] \in Times
                  /\ [r EXCEPT !.Hello_Time = v] \in Times
                  /\ [r EXCEPT !.remainingHops = v] \in Times
           /\ r.Forward_Delay \in Nat /\ r.Max_Age \in Nat
           /\ r.Message_Age \in Nat /\ r.Hello_Time \in Nat
           /\ r.remainingHops \in Nat
BY DEF Times

\* Assignments to members keep the type of the structure:
\* port_priority_vector_t.
LEMMA PriorityFields ==
    ASSUME NEW r \in PriorityVectors
    PROVE  /\ \A v \in Nat :
                  /\ [r EXCEPT !.RootID = v] \in PriorityVectors
                  /\ [r EXCEPT !.ExtRootPathCost = v] \in PriorityVectors
                  /\ [r EXCEPT !.RRootID = v] \in PriorityVectors
                  /\ [r EXCEPT !.IntRootPathCost = v] \in PriorityVectors
                  /\ [r EXCEPT !.DesignatedBridgeID = v] \in PriorityVectors
                  /\ [r EXCEPT !.DesignatedPortID = v] \in PriorityVectors
           /\ r.RootID \in Nat /\ r.ExtRootPathCost \in Nat
           /\ r.RRootID \in Nat /\ r.IntRootPathCost \in Nat
           /\ r.DesignatedBridgeID \in Nat /\ r.DesignatedPortID \in Nat
BY DEF PriorityVectors

\* Assignments to members keep the type of the structure:
\* an MSTI message of a BPDU.
LEMMA MstiMessageFields ==
    ASSUME NEW r \in MstiMessages
    PROVE  /\ \A v \in EncodedRoles : [r EXCEPT !.role = v] \in MstiMessages
           /\ \A v \in BOOLEAN :
                  /\ [r EXCEPT !.tc = v] \in MstiMessages
                  /\ [r EXCEPT !.proposal = v] \in MstiMessages
                  /\ [r EXCEPT !.learning = v] \in MstiMessages
                  /\ [r EXCEPT !.agreement = v] \in MstiMessages
                  /\ [r EXCEPT !.master = v] \in MstiMessages
           /\ \A v \in Nat :
                  /\ [r EXCEPT !.RRootID = v] \in MstiMessages
                  /\ [r EXCEPT !.IntRootPathCost = v] \in MstiMessages
                  /\ [r EXCEPT !.bridgePriority = v] \in MstiMessages
                  /\ [r EXCEPT !.portPriority = v] \in MstiMessages
                  /\ [r EXCEPT !.remainingHops = v] \in MstiMessages
           /\ r.role \in EncodedRoles
           /\ r.tc \in BOOLEAN /\ r.proposal \in BOOLEAN
           /\ r.learning \in BOOLEAN /\ r.agreement \in BOOLEAN
           /\ r.master \in BOOLEAN
           /\ r.RRootID \in Nat /\ r.IntRootPathCost \in Nat
           /\ r.bridgePriority \in Nat /\ r.portPriority \in Nat
           /\ r.remainingHops \in Nat
BY DEF MstiMessages

\* Assignments to members keep the type of the structure:
\* a BPDU.
LEMMA BpduFields ==
    ASSUME NEW r \in Bpdus
    PROVE  /\ \A v \in Versions : [r EXCEPT !.version = v] \in Bpdus
           /\ \A v \in {"TCN", "Config", "RST"} :
                 [r EXCEPT !.type = v] \in Bpdus
           /\ \A v \in EncodedRoles : [r EXCEPT !.role = v] \in Bpdus
           /\ \A v \in BOOLEAN :
                  /\ [r EXCEPT !.tc = v] \in Bpdus
                  /\ [r EXCEPT !.tcAck = v] \in Bpdus
                  /\ [r EXCEPT !.proposal = v] \in Bpdus
                  /\ [r EXCEPT !.learning = v] \in Bpdus
                  /\ [r EXCEPT !.agreement = v] \in Bpdus
           /\ \A v \in Nat :
                  /\ [r EXCEPT !.RootID = v] \in Bpdus
                  /\ [r EXCEPT !.ExtRootPathCost = v] \in Bpdus
                  /\ [r EXCEPT !.RRootID = v] \in Bpdus
                  /\ [r EXCEPT !.PortID = v] \in Bpdus
                  /\ [r EXCEPT !.MessageAge = v] \in Bpdus
                  /\ [r EXCEPT !.MaxAge = v] \in Bpdus
                  /\ [r EXCEPT !.HelloTime = v] \in Bpdus
                  /\ [r EXCEPT !.ForwardDelay = v] \in Bpdus
                  /\ [r EXCEPT !.MstConfigId = v] \in Bpdus
                  /\ [r EXCEPT !.IntRootPathCost = v] \in Bpdus
                  /\ [r EXCEPT !.BridgeID = v] \in Bpdus
                  /\ [r EXCEPT !.RemainingHops = v] \in Bpdus
           /\ \A v \in [Mstis -> MstiMessages] :
                 [r EXCEPT !.msti = v] \in Bpdus
           /\ r.version \in Versions
           /\ r.type \in {"TCN", "Config", "RST"}
           /\ r.role \in EncodedRoles
           /\ r.tc \in BOOLEAN /\ r.tcAck \in BOOLEAN
           /\ r.proposal \in BOOLEAN /\ r.learning \in BOOLEAN
           /\ r.agreement \in BOOLEAN
           /\ r.RootID \in Nat /\ r.ExtRootPathCost \in Nat
           /\ r.RRootID \in Nat /\ r.PortID \in Nat /\ r.MessageAge \in Nat
           /\ r.MaxAge \in Nat /\ r.HelloTime \in Nat
           /\ r.ForwardDelay \in Nat /\ r.MstConfigId \in Nat
           /\ r.IntRootPathCost \in Nat /\ r.BridgeID \in Nat
           /\ r.RemainingHops \in Nat
           /\ r.msti \in [Mstis -> MstiMessages]
BY SMTT(60) DEF Bpdus

\* Assignments to members keep the type of the structure:
\* bridge_t.
LEMMA BridgeFields ==
    ASSUME NEW r \in BridgeRecs
    PROVE  /\ \A v \in BOOLEAN : [r EXCEPT !.bridgeEnabled = v] \in BridgeRecs
           /\ \A v \in Versions :
                 [r EXCEPT !.ForceProtocolVersion = v] \in BridgeRecs
           /\ \A v \in Nat :
                  /\ [r EXCEPT !.MaxHops = v] \in BridgeRecs
                  /\ [r EXCEPT !.Forward_Delay = v] \in BridgeRecs
                  /\ [r EXCEPT !.Max_Age = v] \in BridgeRecs
                  /\ [r EXCEPT !.Transmit_Hold_Count = v] \in BridgeRecs
                  /\ [r EXCEPT !.Ageing_Time = v] \in BridgeRecs
                  /\ [r EXCEPT !.MstConfigId = v] \in BridgeRecs
           /\ r.bridgeEnabled \in BOOLEAN
           /\ r.ForceProtocolVersion \in Versions
           /\ r.MaxHops \in Nat /\ r.Forward_Delay \in Nat
           /\ r.Max_Age \in Nat /\ r.Transmit_Hold_Count \in Nat
           /\ r.Ageing_Time \in Nat /\ r.MstConfigId \in Nat
BY DEF BridgeRecs

\* Assignments to members keep the type of the structure:
\* tree_t.
LEMMA TreeFields ==
    ASSUME NEW r \in TreeRecs
    PROVE  /\ \A v \in PRSSM_states : [r EXCEPT !.PRSSM = v] \in TreeRecs
           /\ \A v \in Nat :
                  /\ [r EXCEPT !.BridgeIdentifier = v] \in TreeRecs
                  /\ [r EXCEPT !.rootPortId = v] \in TreeRecs
           /\ \A v \in Times :
                  /\ [r EXCEPT !.BridgeTimes = v] \in TreeRecs
                  /\ [r EXCEPT !.rootTimes = v] \in TreeRecs
           /\ \A v \in PriorityVectors :
                 [r EXCEPT !.rootPriority = v] \in TreeRecs
           /\ \A v \in BOOLEAN : [r EXCEPT !.topology_change = v] \in TreeRecs
           /\ r.PRSSM \in PRSSM_states
           /\ r.BridgeIdentifier \in Nat /\ r.rootPortId \in Nat
           /\ r.BridgeTimes \in Times /\ r.rootTimes \in Times
           /\ r.rootPriority \in PriorityVectors
           /\ r.topology_change \in BOOLEAN
BY DEF TreeRecs

\* Assignments to members keep the type of the structure:
\* the configuration in port_t.
LEMMA AdmFields ==
    ASSUME NEW r \in AdmRecs
    PROVE  /\ \A v \in Nat :
                 [r EXCEPT !.AdminExternalPortPathCost = v] \in AdmRecs
           /\ \A v \in P2Ps : [r EXCEPT !.AdminP2P = v] \in AdmRecs
           /\ \A v \in BOOLEAN :
                  /\ [r EXCEPT !.AdminEdgePort = v] \in AdmRecs
                  /\ [r EXCEPT !.AutoEdge = v] \in AdmRecs
                  /\ [r EXCEPT !.restrictedRole = v] \in AdmRecs
                  /\ [r EXCEPT !.restrictedTcn = v] \in AdmRecs
                  /\ [r EXCEPT !.BpduGuardPort = v] \in AdmRecs
                  /\ [r EXCEPT !.NetworkPort = v] \in AdmRecs
                  /\ [r EXCEPT !.dontTxmtBpdu = v] \in AdmRecs
                  /\ [r EXCEPT !.bpduFilterPort = v] \in AdmRecs
           /\ r.AdminExternalPortPathCost \in Nat
           /\ r.AdminP2P \in P2Ps
           /\ r.AdminEdgePort \in BOOLEAN /\ r.AutoEdge \in BOOLEAN
           /\ r.restrictedRole \in BOOLEAN /\ r.restrictedTcn \in BOOLEAN
           /\ r.BpduGuardPort \in BOOLEAN /\ r.NetworkPort \in BOOLEAN
           /\ r.dontTxmtBpdu \in BOOLEAN /\ r.bpduFilterPort \in BOOLEAN
BY DEF AdmRecs

\* Assignments to members keep the type of the structure:
\* the link state in port_t.
LEMMA PrtFields ==
    ASSUME NEW r \in PrtRecs
    PROVE  /\ \A v \in BOOLEAN :
                  /\ [r EXCEPT !.portEnabled = v] \in PrtRecs
                  /\ [r EXCEPT !.operPointToPointMAC = v] \in PrtRecs
                  /\ [r EXCEPT !.BpduGuardError = v] \in PrtRecs
                  /\ [r EXCEPT !.BaInconsistent = v] \in PrtRecs
           /\ \A v \in Nat :
                  /\ [r EXCEPT !.ExternalPortPathCost = v] \in PrtRecs
                  /\ [r EXCEPT !.brAssuRcvdInfoWhile = v] \in PrtRecs
                  /\ [r EXCEPT !.rapidAgeingWhile = v] \in PrtRecs
           /\ r.portEnabled \in BOOLEAN /\ r.operPointToPointMAC \in BOOLEAN
           /\ r.BpduGuardError \in BOOLEAN /\ r.BaInconsistent \in BOOLEAN
           /\ r.ExternalPortPathCost \in Nat /\ r.brAssuRcvdInfoWhile \in Nat
           /\ r.rapidAgeingWhile \in Nat
BY DEF PrtRecs

\* Assignments to members keep the type of the structure:
\* the Port Receive variables of port_t.
LEMMA RcvFields ==
    ASSUME NEW r \in RcvRecs
    PROVE  /\ \A v \in PRSM_states : [r EXCEPT !.PRSM = v] \in RcvRecs
           /\ \A v \in BOOLEAN :
                  /\ [r EXCEPT !.rcvdBpdu = v] \in RcvRecs
                  /\ [r EXCEPT !.rcvdInternal = v] \in RcvRecs
                  /\ [r EXCEPT !.infoInternal = v] \in RcvRecs
                  /\ [r EXCEPT !.rcvdTcn = v] \in RcvRecs
                  /\ [r EXCEPT !.rcvdTcAck = v] \in RcvRecs
           /\ \A v \in Nat : [r EXCEPT !.edgeDelayWhile = v] \in RcvRecs
           /\ \A v \in Bpdus : [r EXCEPT !.bpdu = v] \in RcvRecs
           /\ r.PRSM \in PRSM_states
           /\ r.rcvdBpdu \in BOOLEAN /\ r.rcvdInternal \in BOOLEAN
           /\ r.infoInternal \in BOOLEAN /\ r.rcvdTcn \in BOOLEAN
           /\ r.rcvdTcAck \in BOOLEAN
           /\ r.edgeDelayWhile \in Nat
           /\ r.bpdu \in Bpdus
BY DEF RcvRecs

\* Assignments to members keep the type of the structure:
\* the Port Protocol Migration variables of port_t.
LEMMA MigFields ==
    ASSUME NEW r \in MigRecs
    PROVE  /\ \A v \in PPMSM_states : [r EXCEPT !.PPMSM = v] \in MigRecs
           /\ \A v \in BOOLEAN :
                  /\ [r EXCEPT !.rcvdRSTP = v] \in MigRecs
                  /\ [r EXCEPT !.rcvdSTP = v] \in MigRecs
                  /\ [r EXCEPT !.sendRSTP = v] \in MigRecs
                  /\ [r EXCEPT !.mcheck = v] \in MigRecs
           /\ \A v \in Nat : [r EXCEPT !.mdelayWhile = v] \in MigRecs
           /\ r.PPMSM \in PPMSM_states
           /\ r.rcvdRSTP \in BOOLEAN /\ r.rcvdSTP \in BOOLEAN
           /\ r.sendRSTP \in BOOLEAN /\ r.mcheck \in BOOLEAN
           /\ r.mdelayWhile \in Nat
BY DEF MigRecs

\* Assignments to members keep the type of the structure:
\* the Bridge Detection variables of port_t.
LEMMA EdgeFields ==
    ASSUME NEW r \in EdgeRecs
    PROVE  /\ \A v \in BDSM_states : [r EXCEPT !.BDSM = v] \in EdgeRecs
           /\ \A v \in BOOLEAN : [r EXCEPT !.operEdge = v] \in EdgeRecs
           /\ r.BDSM \in BDSM_states
           /\ r.operEdge \in BOOLEAN
BY DEF EdgeRecs

\* Assignments to members keep the type of the structure:
\* the Port Transmit variables of port_t.
LEMMA XmtFields ==
    ASSUME NEW r \in XmtRecs
    PROVE  /\ \A v \in PTSM_states : [r EXCEPT !.PTSM = v] \in XmtRecs
           /\ \A v \in BOOLEAN :
                  /\ [r EXCEPT !.newInfo = v] \in XmtRecs
                  /\ [r EXCEPT !.newInfoMsti = v] \in XmtRecs
                  /\ [r EXCEPT !.tcAck = v] \in XmtRecs
           /\ \A v \in Nat :
                  /\ [r EXCEPT !.txCount = v] \in XmtRecs
                  /\ [r EXCEPT !.helloWhen = v] \in XmtRecs
           /\ r.PTSM \in PTSM_states
           /\ r.newInfo \in BOOLEAN /\ r.newInfoMsti \in BOOLEAN
           /\ r.tcAck \in BOOLEAN
           /\ r.txCount \in Nat /\ r.helloWhen \in Nat
BY DEF XmtRecs

\* Assignments to members keep the type of the structure:
\* the Port Information variables of per_tree_port_t.
LEMMA InfoFields ==
    ASSUME NEW r \in InfoRecs
    PROVE  /\ \A v \in PISM_states : [r EXCEPT !.PISM = v] \in InfoRecs
           /\ \A v \in Origins : [r EXCEPT !.infoIs = v] \in InfoRecs
           /\ \A v \in Infos : [r EXCEPT !.rcvdInfo = v] \in InfoRecs
           /\ \A v \in BOOLEAN :
                  /\ [r EXCEPT !.rcvdMsg = v] \in InfoRecs
                  /\ [r EXCEPT !.proposed = v] \in InfoRecs
                  /\ [r EXCEPT !.proposing = v] \in InfoRecs
                  /\ [r EXCEPT !.agree = v] \in InfoRecs
                  /\ [r EXCEPT !.agreed = v] \in InfoRecs
                  /\ [r EXCEPT !.disputed = v] \in InfoRecs
                  /\ [r EXCEPT !.mastered = v] \in InfoRecs
                  /\ [r EXCEPT !.updtInfo = v] \in InfoRecs
                  /\ [r EXCEPT !.reselect = v] \in InfoRecs
                  /\ [r EXCEPT !.selected = v] \in InfoRecs
           /\ \A v \in Nat : [r EXCEPT !.rcvdInfoWhile = v] \in InfoRecs
           /\ r.PISM \in PISM_states
           /\ r.infoIs \in Origins
           /\ r.rcvdInfo \in Infos
           /\ r.rcvdMsg \in BOOLEAN /\ r.proposed \in BOOLEAN
           /\ r.proposing \in BOOLEAN /\ r.agree \in BOOLEAN
           /\ r.agreed \in BOOLEAN /\ r.disputed \in BOOLEAN
           /\ r.mastered \in BOOLEAN /\ r.updtInfo \in BOOLEAN
           /\ r.reselect \in BOOLEAN /\ r.selected \in BOOLEAN
           /\ r.rcvdInfoWhile \in Nat
BY DEF InfoRecs

\* Assignments to members keep the type of the structure:
\* the vectors and times of per_tree_port_t.
LEMMA VecFields ==
    ASSUME NEW r \in VecRecs
    PROVE  /\ \A v \in Nat :
                  /\ [r EXCEPT !.portId = v] \in VecRecs
                  /\ [r EXCEPT !.InternalPortPathCost = v] \in VecRecs
                  /\ [r EXCEPT !.AdminInternalPortPathCost = v] \in VecRecs
           /\ \A v \in PriorityVectors :
                  /\ [r EXCEPT !.portPriority = v] \in VecRecs
                  /\ [r EXCEPT !.designatedPriority = v] \in VecRecs
           /\ \A v \in Times :
                  /\ [r EXCEPT !.portTimes = v] \in VecRecs
                  /\ [r EXCEPT !.designatedTimes = v] \in VecRecs
           /\ r.portId \in Nat /\ r.InternalPortPathCost \in Nat
           /\ r.AdminInternalPortPathCost \in Nat
           /\ r.portPriority \in PriorityVectors
           /\ r.designatedPriority \in PriorityVectors
           /\ r.portTimes \in Times /\ r.designatedTimes \in Times
BY DEF VecRecs

\* Assignments to members keep the type of the structure:
\* the Port Role Transitions variables of per_tree_port_t.
LEMMA RoleFields ==
    ASSUME NEW r \in RoleRecs
    PROVE  /\ \A v \in PRTSM_states : [r EXCEPT !.PRTSM = v] \in RoleRecs
           /\ \A v \in Roles :
                  /\ [r EXCEPT !.role = v] \in RoleRecs
                  /\ [r EXCEPT !.selectedRole = v] \in RoleRecs
           /\ \A v \in BOOLEAN :
                  /\ [r EXCEPT !.learn = v] \in RoleRecs
                  /\ [r EXCEPT !.forward = v] \in RoleRecs
                  /\ [r EXCEPT !.sync = v] \in RoleRecs
                  /\ [r EXCEPT !.synced = v] \in RoleRecs
                  /\ [r EXCEPT !.reRoot = v] \in RoleRecs
           /\ \A v \in Nat :
                  /\ [r EXCEPT !.fdWhile = v] \in RoleRecs
                  /\ [r EXCEPT !.rrWhile = v] \in RoleRecs
                  /\ [r EXCEPT !.rbWhile = v] \in RoleRecs
           /\ r.PRTSM \in PRTSM_states
           /\ r.role \in Roles /\ r.selectedRole \in Roles
           /\ r.learn \in BOOLEAN /\ r.forward \in BOOLEAN
           /\ r.sync \in BOOLEAN /\ r.synced \in BOOLEAN
           /\ r.reRoot \in BOOLEAN
           /\ r.fdWhile \in Nat /\ r.rrWhile \in Nat /\ r.rbWhile \in Nat
BY DEF RoleRecs

\* Assignments to members keep the type of the structure:
\* the Port State Transition variables of per_tree_port_t.
LEMMA PstFields ==
    ASSUME NEW r \in PstRecs
    PROVE  /\ \A v \in PSTSM_states : [r EXCEPT !.PSTSM = v] \in PstRecs
           /\ \A v \in BOOLEAN :
                  /\ [r EXCEPT !.learning = v] \in PstRecs
                  /\ [r EXCEPT !.forwarding = v] \in PstRecs
           /\ \A v \in KernelStates : [r EXCEPT !.state = v] \in PstRecs
           /\ r.PSTSM \in PSTSM_states
           /\ r.learning \in BOOLEAN /\ r.forwarding \in BOOLEAN
           /\ r.state \in KernelStates
BY DEF PstRecs

\* Assignments to members keep the type of the structure:
\* the Topology Change variables of per_tree_port_t.
LEMMA TcFields ==
    ASSUME NEW r \in TcRecs
    PROVE  /\ \A v \in TCSM_states : [r EXCEPT !.TCSM = v] \in TcRecs
           /\ \A v \in BOOLEAN :
                  /\ [r EXCEPT !.rcvdTc = v] \in TcRecs
                  /\ [r EXCEPT !.tcProp = v] \in TcRecs
           /\ \A v \in Nat : [r EXCEPT !.tcWhile = v] \in TcRecs
           /\ r.TCSM \in TCSM_states
           /\ r.rcvdTc \in BOOLEAN /\ r.tcProp \in BOOLEAN
           /\ r.tcWhile \in Nat
BY DEF TcRecs

\* Assignments to members keep the type of the structure:
\* the event budget.
LEMMA BudgetFields ==
    ASSUME NEW r \in Budgets
    PROVE  /\ \A v \in Nat :
                  /\ [r EXCEPT !.flaps = v] \in Budgets
                  /\ [r EXCEPT !.losses = v] \in Budgets
                  /\ [r EXCEPT !.stalls = v] \in Budgets
                  /\ [r EXCEPT !.configs = v] \in Budgets
           /\ r.flaps \in Nat /\ r.losses \in Nat /\ r.stalls \in Nat
           /\ r.configs \in Nat
BY DEF Budgets

-----------------------------------------------------------------------------
(* Identifiers, times and conditions. *)

\* Navigation from a per-tree port stays in the network.
LEMMA PtpTypes ==
    ASSUME NEW x \in Ptps
    PROVE  /\ PortOf(x) \in Ports /\ Mstid(x) \in Trees /\ BrOf(x) \in Bridges
           /\ CistOf(x) \in Ptps /\ TreeOf(x) \in BridgeTrees
<1>1. PortOf(x) \in Ports BY DEF Ptps, PortOf
<1>2. Mstid(x) \in Trees BY DEF Ptps, Mstid
<1>3. BrOf(x) \in Bridges BY <1>1, TopologyAssumption DEF BrOf
<1>4. CistOf(x) \in Ptps BY <1>1 DEF CistOf, Cist, Ptps, Trees
<1>5. TreeOf(x) \in BridgeTrees BY <1>2, <1>3 DEF TreeOf, BridgeTrees
<1> QED BY <1>1, <1>2, <1>3, <1>4, <1>5

\* Every port has a per-tree port for the CIST.
LEMMA CistType ==
    ASSUME NEW p \in Ports
    PROVE  Cist(p) \in Ptps
BY DEF Cist, Ptps, Trees

\* The times a port derives its timers from are naturals.
LEMMA TimeTypes ==
    ASSUME MachineTypeOK, NEW p \in Ports
    PROVE  /\ PortHelloTime(p) \in Nat /\ FwdDelay(p) \in Nat
           /\ MaxAge(p) \in Nat /\ forwardDelay(p) \in Nat
<1>1. vec[Cist(p)] \in VecRecs BY CistType DEF MachineTypeOK
<1>2. QED
   BY <1>1, VecFields, TimesFields
   DEF PortHelloTime, FwdDelay, MaxAge, forwardDelay

\* Setting newInfo or newInfoMsti keeps the transmit variables well typed.
LEMMA NewInfoType ==
    ASSUME MachineTypeOK, NEW x \in Ptps
    PROVE  XmtWithNewInfo(x) \in [Ports -> XmtRecs]
BY PtpTypes, XmtFields DEF XmtWithNewInfo, MachineTypeOK

\* The largest bridge or port identifier arithmetic stays in Nat.
LEMMA IdentifierTypes ==
    /\ \A a, n \in Nat : /\ BridgeIdentifier(a, n) \in Nat
                         /\ PortIdentifier(a, n) \in Nat
    /\ \A n \in Nat : /\ MacAddress(n) \in Nat /\ BridgePrio(n) \in Nat
                      /\ PortNumber(n) \in Nat /\ PortPrio(n) \in Nat
BY SpaceAssumption
DEF BridgeIdentifier, PortIdentifier, MacAddress, BridgePrio, PortNumber, PortPrio

\* Decrementing a timer that may be stopped gives a natural.
LEMMA DecrementedType == \A n \in Nat : Decremented(n) \in Nat
BY DEF Decremented

-----------------------------------------------------------------------------
(* The per-port machines. *)

\* Bridge assurance and the Port Receive machine.
LEMMA PRSM_Types ==
    ASSUME TypeOK, NEW p \in Ports, BA_to_INCONSISTENT(p) \/ PRSM_step(p)
    PROVE  MachineTypeOK'
<1> USE DEF TypeOK, MachineTypeOK, ptpVars
<1>1. CASE BA_to_INCONSISTENT(p)
   BY <1>1, PrtFields DEF BA_to_INCONSISTENT
<1>2. CASE PRSM_to_DISCARD(p)
   BY <1>2, RcvFields, MigFields, InfoFields, BootAssumption
   DEF PRSM_to_DISCARD, PRSM_states
<1>3. CASE PRSM_to_RECEIVE(p)
  <2>1. fromSameRegion(p) \in BOOLEAN BY DEF fromSameRegion
  <2>2. QED
     BY <1>3, <2>1, RcvFields, MigFields, InfoFields, EdgeFields, BootAssumption
     DEF PRSM_to_RECEIVE, PRSM_states
<1> QED BY <1>1, <1>2, <1>3 DEF PRSM_step

\* The state the Port Protocol Migration machine begins in.
LEMMA CheckingRstpType ==
    ASSUME NEW m \in MigRecs, NEW b
    PROVE  CheckingRstp(m, rstpVersion(b)) \in MigRecs
<1>1. rstpVersion(b) \in BOOLEAN BY DEF rstpVersion
<1>2. QED BY <1>1, MigFields, BootAssumption DEF CheckingRstp, PPMSM_states

\* The Port Protocol Migration machine.
LEMMA PPMSM_Types ==
    ASSUME TypeOK, NEW p \in Ports, PPMSM_step(p)
    PROVE  MachineTypeOK'
<1> USE MigFields, BootAssumption
    DEF TypeOK, MachineTypeOK, ptpVars, PPMSM_only, PPMSM_states
<1>1. CASE PPMSM_to_CHECKING_RSTP(p)
   BY <1>1, CheckingRstpType DEF PPMSM_to_CHECKING_RSTP
<1>2. CASE PPMSM_to_SELECTING_STP(p) BY <1>2 DEF PPMSM_to_SELECTING_STP
<1>3. CASE PPMSM_to_SENSING(p) BY <1>3 DEF PPMSM_to_SENSING
<1> QED BY <1>1, <1>2, <1>3 DEF PPMSM_step

\* The Bridge Detection machine.
LEMMA BDSM_Types ==
    ASSUME TypeOK, NEW p \in Ports, BDSM_step(p)
    PROVE  MachineTypeOK'
<1>1. \A isEdge \in BOOLEAN : EdgeRec(isEdge) \in EdgeRecs
   BY DEF EdgeRec, EdgeRecs, BDSM_states
<1>2. QED
   BY <1>1 DEF BDSM_step, BDSM_to_EDGE, BDSM_to_NOT_EDGE, TypeOK,
               MachineTypeOK, ptpVars

\* The message for an MSTI in an MST BPDU.
LEMMA MstiMessageType ==
    ASSUME TypeOK, NEW x \in Ptps
    PROVE  MstiMessage(x) \in MstiMessages
<1>1. vec[x] \in VecRecs /\ info[x] \in InfoRecs /\ pst[x] \in PstRecs
   BY DEF TypeOK, MachineTypeOK
<1>2. EncodedRole(role[x].role) \in EncodedRoles
   BY DEF EncodedRole, EncodedRoles
<1>3. /\ vec[x].designatedPriority \in PriorityVectors
      /\ vec[x].designatedTimes \in Times
   BY <1>1, VecFields
<1>4. QED
   BY <1>1, <1>2, <1>3, InfoFields, PstFields, PriorityFields, TimesFields,
      IdentifierTypes
   DEF MstiMessage, MstiMessages

\* The BPDU all others are made from.
LEMMA BlankBpduType == BlankBpdu \in Bpdus
<1>1. NoMstiMessage \in MstiMessages
   BY DEF NoMstiMessage, MstiMessages, EncodedRoles
<1>2. QED BY <1>1 DEF BlankBpdu, Bpdus, Versions, protoSTP, EncodedRoles

\* What txTcn, txConfig and txMstp put on the wire is a BPDU.
LEMMA BpduTypes ==
    ASSUME TypeOK, NEW p \in Ports
    PROVE  /\ txTcn(p) \in Bpdus /\ txConfig(p) \in Bpdus
           /\ txMstp(p) \in Bpdus
<1> DEFINE c == Cist(p)
<1>1. c \in Ptps BY CistType
<1>2. /\ vec[c] \in VecRecs /\ info[c] \in InfoRecs /\ pst[c] \in PstRecs
      /\ xmt[p] \in XmtRecs
   BY <1>1 DEF TypeOK, MachineTypeOK
<1>3. /\ vec[c].designatedPriority \in PriorityVectors
      /\ vec[c].designatedTimes \in Times
   BY <1>2, VecFields
<1>4. BlankBpdu \in Bpdus BY BlankBpduType
<1>5. CistFields(BlankBpdu, p) \in Bpdus
  <2> DEFINE d == vec[c].designatedPriority
             t == vec[c].designatedTimes
             hello == PortHelloTime(p)
             tcFlag == (tc[c].tcWhile # 0)
  <2>1. /\ d.RootID \in Nat /\ d.ExtRootPathCost \in Nat
        /\ d.DesignatedPortID \in Nat
     BY <1>3, PriorityFields
  <2>2. t.Message_Age \in Nat /\ t.Max_Age \in Nat /\ t.Forward_Delay \in Nat
     BY <1>3, TimesFields
  <2>3. hello \in Nat /\ tcFlag \in BOOLEAN BY TimeTypes DEF TypeOK
  <2> HIDE DEF d, t, hello, tcFlag
  <2> DEFINE b == [ BlankBpdu EXCEPT
                      !.tc = tcFlag, !.RootID = d.RootID,
                      !.ExtRootPathCost = d.ExtRootPathCost,
                      !.PortID = d.DesignatedPortID ]
  <2>4. b \in Bpdus BY <1>4, <2>1, <2>3, BpduFields
  <2> HIDE DEF b
  <2>5. [ b EXCEPT !.MessageAge = t.Message_Age, !.MaxAge = t.Max_Age,
                   !.HelloTime = hello, !.ForwardDelay = t.Forward_Delay ]
            \in Bpdus
     BY <2>2, <2>3, <2>4, BpduFields
  <2>6. QED BY <2>5 DEF CistFields, b, d, t, hello, tcFlag
<1>6. txTcn(p) \in Bpdus BY <1>4 DEF txTcn
<1>7. txConfig(p) \in Bpdus
   BY <1>2, <1>3, <1>5, BpduFields, PriorityFields, XmtFields DEF txConfig
<1>8. txMstp(p) \in Bpdus
  <2> DEFINE d == vec[c].designatedPriority
             rst == [ CistFields(BlankBpdu, p) EXCEPT
                        !.type = "RST", !.version = protoRSTP,
                        !.role = EncodedRole(role[c].role),
                        !.proposal = info[c].proposing,
                        !.learning = pst[c].learning,
                        !.agreement = info[c].agree,
                        !.RRootID = d.RRootID ]
             msti == [t \in Mstis |-> MstiMessage(<<p, t>>)]
  <2>1. EncodedRole(role[c].role) \in EncodedRoles
     BY DEF EncodedRole, EncodedRoles
  <2>2. rst \in Bpdus
     BY <1>2, <1>3, <1>5, <2>1, BpduFields, InfoFields, PstFields, PriorityFields
     DEF Versions
  <2>3. msti \in [Mstis -> MstiMessages]
     BY MstiMessageType DEF Ptps, Trees
  <2>4. brg[BridgeOf[p]].MstConfigId \in Nat
     BY TopologyAssumption, BridgeFields DEF TypeOK
  <2> HIDE DEF rst, msti
  <2>5. [ rst EXCEPT !.version = protoMSTP,
                     !.MstConfigId = brg[BridgeOf[p]].MstConfigId,
                     !.IntRootPathCost = d.IntRootPathCost,
                     !.BridgeID = d.DesignatedBridgeID,
                     !.RemainingHops = vec[c].designatedTimes.remainingHops,
                     !.msti = msti ] \in Bpdus
     BY <1>3, <2>2, <2>3, <2>4, BpduFields, PriorityFields, TimesFields
     DEF Versions
  <2>6. QED BY <2>2, <2>5 DEF txMstp, rst, msti
<1>9. QED BY <1>4, <1>6, <1>7, <1>8

\* Sending a BPDU, and counting it, keeps the transmit variables well typed.
LEMMA TransmittedType ==
    ASSUME NEW r \in XmtRecs, NEW state \in PTSM_states
    PROVE  Transmitted(r, state) \in XmtRecs
<1> DEFINE rst == (state # "TRANSMIT_RSTP")
           tcn == (state = "TRANSMIT_TCN")
           s == [r EXCEPT !.PTSM = state, !.newInfo = FALSE,
                          !.newInfoMsti = @ /\ rst, !.tcAck = @ /\ tcn]
<1>1. s \in XmtRecs BY XmtFields
<1>2. s.txCount + 1 \in Nat BY <1>1 DEF XmtRecs
<1> HIDE DEF s
<1>3. [s EXCEPT !.txCount = s.txCount + 1] \in XmtRecs
   BY <1>1, <1>2, XmtFields
<1>4. QED BY <1>3 DEF Transmitted, s

\* The Port Transmit machine.
LEMMA PTSM_Types ==
    ASSUME TypeOK, NEW p \in Ports, PTSM_step(p)
    PROVE  MachineTypeOK'
<1> USE DEF TypeOK, MachineTypeOK, ptpVars, PTSM_only, PTSM_states
<1>1. \A bpdu \in Bpdus : ChanAfterTx(p, bpdu) \in [Ports -> Seq(Bpdus)]
  <2> SUFFICES ASSUME NEW bpdu \in Bpdus
               PROVE  ChanAfterTx(p, bpdu) \in [Ports -> Seq(Bpdus)]
     OBVIOUS
  <2>1. CASE Peer[p] \in Ports
    <3>1. chan[Peer[p]] \in Seq(Bpdus) BY <2>1
    <3>2. Append(chan[Peer[p]], bpdu) \in Seq(Bpdus) BY <3>1
    <3>3. QED BY <2>1, <3>2 DEF ChanAfterTx
  <2>2. CASE Peer[p] = NoPort BY <2>2 DEF ChanAfterTx
  <2>3. QED BY <2>1, <2>2, TopologyAssumption
<1>2. xmt[p] \in XmtRecs OBVIOUS
<1>3. CASE PTSM_to_TRANSMIT_INIT(p)
   BY <1>3, <1>2, XmtFields DEF PTSM_to_TRANSMIT_INIT, TransmitInit
<1>4. CASE PTSM_to_TRANSMIT_CONFIG(p)
  <2>1. chan' \in [Ports -> Seq(Bpdus)]
     BY <1>1, <1>4, BpduTypes DEF PTSM_to_TRANSMIT_CONFIG
  <2>2. xmt' \in [Ports -> XmtRecs]
     BY <1>2, <1>4, TransmittedType DEF PTSM_to_TRANSMIT_CONFIG
  <2>3. QED BY <1>4, <2>1, <2>2 DEF PTSM_to_TRANSMIT_CONFIG
<1>5. CASE PTSM_to_TRANSMIT_TCN(p)
  <2>1. chan' \in [Ports -> Seq(Bpdus)]
     BY <1>1, <1>5, BpduTypes DEF PTSM_to_TRANSMIT_TCN
  <2>2. xmt' \in [Ports -> XmtRecs]
     BY <1>2, <1>5, TransmittedType DEF PTSM_to_TRANSMIT_TCN
  <2>3. QED BY <1>5, <2>1, <2>2 DEF PTSM_to_TRANSMIT_TCN
<1>6. CASE PTSM_to_TRANSMIT_RSTP(p)
  <2>1. chan' \in [Ports -> Seq(Bpdus)]
     BY <1>1, <1>6, BpduTypes DEF PTSM_to_TRANSMIT_RSTP
  <2>2. xmt' \in [Ports -> XmtRecs]
     BY <1>2, <1>6, TransmittedType DEF PTSM_to_TRANSMIT_RSTP
  <2>3. QED BY <1>6, <2>1, <2>2 DEF PTSM_to_TRANSMIT_RSTP
<1>7. CASE PTSM_to_TRANSMIT_PERIODIC(p)
   BY <1>2, <1>7, XmtFields DEF PTSM_to_TRANSMIT_PERIODIC
<1>8. CASE PTSM_to_IDLE(p)
   BY <1>2, <1>8, XmtFields, TimeTypes DEF PTSM_to_IDLE
<1> QED BY <1>3, <1>4, <1>5, <1>6, <1>7, <1>8 DEF PTSM_step

-----------------------------------------------------------------------------
(* The per-tree machines. *)

\* The BPDU held by a port and the message in it are well typed.
LEMMA MessageTypes ==
    ASSUME TypeOK, NEW x \in Ptps
    PROVE  /\ rcv[PortOf(x)] \in RcvRecs /\ Bpdu(x) \in Bpdus
           /\ ~IsCist(x) => Message(x) \in MstiMessages
           /\ IsCist(x) => Message(x) = Bpdu(x)
           /\ Message(x).tc \in BOOLEAN /\ Message(x).proposal \in BOOLEAN
           /\ Message(x).learning \in BOOLEAN
<1>1. rcv[PortOf(x)] \in RcvRecs BY PtpTypes DEF TypeOK, MachineTypeOK
<1>2. Bpdu(x) \in Bpdus BY <1>1, RcvFields DEF Bpdu
<1>3. ASSUME ~IsCist(x) PROVE Message(x) \in MstiMessages
  <2>1. Bpdu(x).msti \in [Mstis -> MstiMessages] BY <1>2, BpduFields
  <2>2. Mstid(x) \in Mstis BY <1>3, PtpTypes DEF IsCist, Trees
  <2>3. QED BY <1>3, <2>1, <2>2 DEF Message
<1>4. ASSUME IsCist(x) PROVE Message(x) = Bpdu(x) BY <1>4 DEF Message
<1>5. QED BY <1>1, <1>2, <1>3, <1>4, BpduFields, MstiMessageFields

\* rcvInfo derives a well typed vector and well typed times from a message.
LEMMA MsgTypes ==
    ASSUME TypeOK, NEW x \in Ptps
    PROVE  MsgPriority(x) \in PriorityVectors /\ MsgTimes(x) \in Times
<1>1. MsgPriority(x) \in PriorityVectors
  <2>1. CASE IsCist(x)
     BY <2>1, MessageTypes, BpduFields DEF MsgPriority, PriorityVectors
  <2>2. CASE ~IsCist(x)
    <3>1. /\ Message(x).RRootID \in Nat /\ Message(x).IntRootPathCost \in Nat
          /\ Message(x).bridgePriority \in Nat /\ Message(x).portPriority \in Nat
       BY <2>2, MessageTypes, MstiMessageFields
    <3>2. Bpdu(x).BridgeID \in Nat /\ Bpdu(x).PortID \in Nat
       BY MessageTypes, BpduFields
    <3>3. QED
       BY <2>2, <3>1, <3>2, IdentifierTypes DEF MsgPriority, PriorityVectors
  <2>3. QED BY <2>1, <2>2
<1>2. MsgTimes(x) \in Times
  <2>1. CASE IsCist(x)
    <3>1. brg[BrOf(x)].MaxHops \in Nat BY PtpTypes, BridgeFields DEF TypeOK
    <3>2. QED BY <2>1, <3>1, MessageTypes, BpduFields DEF MsgTimes, Times
  <2>2. CASE ~IsCist(x)
     BY <2>2, MessageTypes, MstiMessageFields DEF MsgTimes, Times
  <2>3. QED BY <2>1, <2>2
<1>3. QED BY <1>1, <1>2

\* The lifetime given to received information is a natural.
LEMMA LifeType ==
    ASSUME TypeOK, NEW x \in Ptps, NEW times
    PROVE  RcvdInfoLife(x, times) \in Nat
<1>1. PortHelloTime(PortOf(x)) \in Nat BY PtpTypes, TimeTypes DEF TypeOK
<1>2. 3 * PortHelloTime(PortOf(x)) \in Nat BY <1>1
<1>3. QED BY <1>2 DEF RcvdInfoLife

\* Recording topology change flags keeps the structures well typed.
LEMMA TcFlagTypes ==
    ASSUME TypeOK, NEW x \in Ptps
    PROVE  /\ RcvWithTcFlags(x) \in [Ports -> RcvRecs]
           /\ TcWithTcFlags(x) \in [Ptps -> TcRecs]
BY PtpTypes, RcvFields, TcFields
DEF RcvWithTcFlags, TcWithTcFlags, TypeOK, MachineTypeOK

\* The Port Information machine.
LEMMA PISM_Types ==
    ASSUME TypeOK, NEW x \in Ptps, PISM_step(x)
    PROVE  MachineTypeOK'
<1> DEFINE p == PortOf(x)
<1>p. p \in Ports /\ rcv[p] \in RcvRecs BY MessageTypes, PtpTypes
<1>t. /\ info \in [Ptps -> InfoRecs] /\ vec \in [Ptps -> VecRecs]
      /\ role \in [Ptps -> RoleRecs] /\ tc \in [Ptps -> TcRecs]
      /\ rcv \in [Ports -> RcvRecs]
   BY DEF TypeOK, MachineTypeOK
<1>1. CASE PISM_to_DISABLED(x)
  <2>1. DisabledInfo(info[x]) \in InfoRecs
     BY <1>t, InfoFields DEF DisabledInfo, PISM_states, Origins
  <2>2. QED
     BY <1>1, <2>1 DEF PISM_to_DISABLED, TypeOK, MachineTypeOK, portVars
<1>2. CASE PISM_to_AGED(x)
   BY <1>2, InfoFields
   DEF PISM_to_AGED, TypeOK, MachineTypeOK, portVars, PISM_states, Origins
<1>3. CASE PISM_to_UPDATE(x)
  <2> DEFINE agreed == info[x].agreed /\ betterorsameMine(x)
  <2>1. agreed \in BOOLEAN OBVIOUS
  <2> HIDE DEF agreed
  <2>2. info' \in [Ptps -> InfoRecs]
     BY <1>3, <1>t, <2>1, InfoFields
     DEF PISM_to_UPDATE, PISM_states, Origins, agreed
  <2>3. role' \in [Ptps -> RoleRecs]
     BY <1>3, <1>t, <2>1, RoleFields DEF PISM_to_UPDATE, agreed
  <2>4. vec' \in [Ptps -> VecRecs]
     BY <1>3, <1>t, VecFields DEF PISM_to_UPDATE
  <2>5. QED
     BY <1>3, <2>2, <2>3, <2>4, NewInfoType
     DEF PISM_to_UPDATE, TypeOK, MachineTypeOK
<1>4. CASE PISM_to_RECEIVE(x)
  <2>1. rcvInfo(x) \in Infos BY DEF rcvInfo, DesignatedInfo, Infos
  <2>2. info' \in [Ptps -> InfoRecs]
    <3>1. (IF IsCist(x) THEN info[x].mastered
           ELSE prt[p].operPointToPointMAC /\ Message(x).master) \in BOOLEAN
       BY <1>t, InfoFields
    <3>2. QED
       BY <1>4, <1>t, <2>1, <3>1, InfoFields DEF PISM_to_RECEIVE, PISM_states
  <2>3. rcv' \in [Ports -> RcvRecs]
     BY <1>4, <1>p, <1>t, RcvFields DEF PISM_to_RECEIVE
  <2>4. tc' \in [Ptps -> TcRecs] BY <1>4, <1>t, TcFields DEF PISM_to_RECEIVE
  <2>5. QED
     BY <1>4, <2>2, <2>3, <2>4 DEF PISM_to_RECEIVE, TypeOK, MachineTypeOK
<1>5. CASE PISM_to_DESIGNATED(x)
  <2> DEFINE state == PISM_run(x)
             superior == (state = "SUPERIOR_DESIGNATED")
             proposed == info[x].proposed \/ Message(x).proposal
             agreed == AgreementIn(x)
             proposing == info[x].proposing /\ ~superior /\ ~agreed
             followed == proposed \/ Message(x).tc
             better == betterorsameReceived(x)
             times == IF superior THEN RecordedTimes(x) ELSE vec[x].portTimes
             life == RcvdInfoLife(x, times)
  <2>1. /\ superior \in BOOLEAN /\ proposed \in BOOLEAN
        /\ agreed \in BOOLEAN /\ proposing \in BOOLEAN
        /\ followed \in BOOLEAN /\ better \in BOOLEAN
     BY DEF AgreementIn, betterorsameReceived
  <2>2. life \in Nat BY LifeType
  <2>3. superior => times \in Times
    <3>1. vec[x].portTimes.Hello_Time \in Nat BY <1>t, VecFields, TimesFields
    <3>2. QED BY <3>1, MsgTypes, TimesFields DEF RecordedTimes
  <2>4. state \in PISM_states BY <1>5 DEF PISM_to_DESIGNATED, PISM_states
  <2> DEFINE i == [info[x] EXCEPT
                     !.PISM = state, !.rcvdMsg = FALSE,
                     !.proposed = proposed, !.agreed = agreed,
                     !.proposing = proposing]
             new == [i EXCEPT
                       !.agree = info[x].agree /\ (superior => better),
                       !.rcvdInfoWhile = life,
                       !.infoIs = IF superior THEN "Received"
                                  ELSE info[x].infoIs,
                       !.reselect = info[x].reselect \/ superior,
                       !.selected = info[x].selected /\ ~superior]
             others(y) == IF y \in Followers(x)
                          THEN [info[y] EXCEPT
                                  !.proposed = followed, !.agreed = agreed,
                                  !.proposing = proposing]
                          ELSE info[y]
  <2>5. info' = [y \in Ptps |-> IF y = x THEN new ELSE others(y)]
     BY <1>5 DEF PISM_to_DESIGNATED
  <2>6. role' \in [Ptps -> RoleRecs]
     BY <1>5, <1>t, <2>1, RoleFields DEF PISM_to_DESIGNATED
  <2>7. vec' \in [Ptps -> VecRecs]
     BY <1>5, <1>t, <2>3, MsgTypes, VecFields DEF PISM_to_DESIGNATED
  <2>8. rcv' \in [Ports -> RcvRecs]
    <3>1. /\ RcvWithTcFlags(x)[p] \in RcvRecs
          /\ rcv[p].rcvdInternal \in BOOLEAN
       BY <1>p, TcFlagTypes, RcvFields
    <3>2. [RcvWithTcFlags(x)[p] EXCEPT !.infoInternal = rcv[p].rcvdInternal]
              \in RcvRecs
       BY <3>1, RcvFields
    <3>3. rcv' = [RcvWithTcFlags(x) EXCEPT ![p] =
                    [@ EXCEPT !.infoInternal = rcv[p].rcvdInternal]]
       BY <1>5 DEF PISM_to_DESIGNATED
    <3>4. QED BY <1>p, <3>2, <3>3, TcFlagTypes
  <2> HIDE DEF state, superior, proposed, agreed, proposing, followed, better,
               life
  <2>9. info' \in [Ptps -> InfoRecs]
    <3>1. i \in InfoRecs BY <1>t, <2>1, <2>4, InfoFields
    <3> HIDE DEF i
    <3>2. /\ (info[x].agree /\ (superior => better)) \in BOOLEAN
          /\ (IF superior THEN "Received" ELSE info[x].infoIs) \in Origins
          /\ (info[x].reselect \/ superior) \in BOOLEAN
          /\ (info[x].selected /\ ~superior) \in BOOLEAN
       BY <1>t, InfoFields DEF Origins
    <3>a. new \in InfoRecs BY <2>2, <3>1, <3>2, InfoFields
    <3>3. \A y \in Ptps : others(y) \in InfoRecs BY <1>t, <2>1, InfoFields
    <3> HIDE DEF new, others
    <3>4. QED BY <2>5, <3>a, <3>3
  <2>10. QED
     BY <1>5, <2>6, <2>7, <2>8, <2>9, TcFlagTypes
     DEF PISM_to_DESIGNATED, TypeOK, MachineTypeOK
<1>6. CASE PISM_to_INFERIOR_DESIGNATED(x)
   BY <1>6, <1>t, InfoFields, MessageTypes
   DEF PISM_to_INFERIOR_DESIGNATED, TypeOK, MachineTypeOK, portVars, PISM_states
<1>7. CASE PISM_to_NOT_DESIGNATED(x)
  <2> DEFINE agreed == AgreementIn(x)
             proposing == info[x].proposing /\ ~agreed
  <2>1. agreed \in BOOLEAN /\ proposing \in BOOLEAN BY DEF AgreementIn
  <2>2. info' = [y \in Ptps |->
          IF y = x
          THEN [info[y] EXCEPT !.PISM = "NOT_DESIGNATED", !.rcvdMsg = FALSE,
                               !.agreed = agreed, !.proposing = proposing]
          ELSE IF y \in Followers(x)
          THEN [info[y] EXCEPT !.agreed = agreed, !.proposing = proposing,
                               !.proposed = @ \/ Message(x).tc]
          ELSE info[y]]
     BY <1>7 DEF PISM_to_NOT_DESIGNATED
  <2> HIDE DEF agreed, proposing
  <2>3. info' \in [Ptps -> InfoRecs]
     BY <1>t, <2>1, <2>2, InfoFields DEF PISM_states
  <2>4. QED
     BY <1>7, <2>3, TcFlagTypes
     DEF PISM_to_NOT_DESIGNATED, TypeOK, MachineTypeOK
<1>8. CASE PISM_to_OTHER(x)
   BY <1>8, <1>t, InfoFields
   DEF PISM_to_OTHER, TypeOK, MachineTypeOK, portVars, PISM_states
<1>9. CASE PISM_to_CURRENT(x)
   BY <1>9, <1>t, InfoFields
   DEF PISM_to_CURRENT, TypeOK, MachineTypeOK, portVars, PISM_states
<1> QED
   BY <1>1, <1>2, <1>3, <1>4, <1>5, <1>6, <1>7, <1>8, <1>9 DEF PISM_step

\* AddCost saturates: the sum of two costs is a cost.
LEMMA AddCostType == \A a, c \in Nat : AddCost(a, c) \in Nat
BY BootAssumption DEF AddCost

\* The vectors and times role selection computes are well typed.
LEMMA SelectionTypes ==
    ASSUME TypeOK, NEW b \in Bridges, NEW t \in Trees
    PROVE  /\ RootPtp(b, t) \in Ptps \cup {NoPtp}
           /\ BridgePriority(b, t) \in PriorityVectors
           /\ RootTimes(RootPtp(b, t), b, t) \in Times
           /\ \A y \in Ptps :
                 /\ RootPathPriority(y) \in PriorityVectors
                 /\ \A v \in PriorityVectors :
                       DesignatedPriority(y, v) \in PriorityVectors
                 /\ \A v \in Times : DesignatedTimes(y, v) \in Times
<1>1. \A u \in BridgeTrees : tree[u] \in TreeRecs BY DEF TypeOK, MachineTypeOK
<1>2. \A c \in Bridges, d \in Trees : BridgeId(c, d) \in Nat
   BY <1>1, TreeFields DEF BridgeId, BridgeTrees
<1>3. RootPtp(b, t) \in Ptps \cup {NoPtp} BY DEF RootPtp, PtpsOfTree
<1>4. BridgePriority(b, t) \in PriorityVectors
   BY <1>2 DEF BridgePriority, PriorityVectors
<1>5. ASSUME NEW y \in Ptps
      PROVE  /\ vec[y] \in VecRecs
             /\ vec[y].portPriority \in PriorityVectors
             /\ vec[y].portTimes \in Times
             /\ vec[y].InternalPortPathCost \in Nat /\ vec[y].portId \in Nat
             /\ prt[PortOf(y)].ExternalPortPathCost \in Nat
             /\ BridgeId(BrOf(y), 0) \in Nat
             /\ BridgeId(BrOf(y), Mstid(y)) \in Nat
  <2>1. vec[y] \in VecRecs /\ prt[PortOf(y)] \in PrtRecs
     BY PtpTypes DEF TypeOK, MachineTypeOK
  <2>2. BridgeId(BrOf(y), 0) \in Nat /\ BridgeId(BrOf(y), Mstid(y)) \in Nat
     BY <1>2, PtpTypes DEF Trees
  <2>3. QED BY <2>1, <2>2, VecFields, PrtFields
<1>6. RootTimes(RootPtp(b, t), b, t) \in Times
  <2> DEFINE r == RootPtp(b, t)
  <2>1. CASE r = NoPtp
    <3>1. tree[<<b, t>>] \in TreeRecs BY <1>1 DEF BridgeTrees
    <3>2. QED BY <2>1, <3>1, TreeFields DEF RootTimes
  <2>2. CASE r # NoPtp
    <3>1. vec[r].portTimes \in Times BY <1>3, <1>5, <2>2
    <3> DEFINE v == vec[r].portTimes
    <3> HIDE DEF v, r
    <3>2. v.remainingHops \in Nat /\ v.Message_Age \in Nat
       BY <3>1, TimesFields DEF v
    <3>3. Decremented(v.remainingHops) \in Nat BY <3>2, DecrementedType
    <3>4. (v.Message_Age + 1) % AgeModulus \in Nat BY <3>2, BootAssumption
    <3>5. [v EXCEPT !.remainingHops = Decremented(@)] \in Times
       BY <3>1, <3>3, TimesFields DEF v
    <3>6. [v EXCEPT !.Message_Age = (@ + 1) % AgeModulus] \in Times
       BY <3>1, <3>4, TimesFields DEF v
    <3>7. QED BY <2>2, <3>5, <3>6 DEF RootTimes, v, r
  <2>3. QED BY <2>1, <2>2
<1>7. ASSUME NEW y \in Ptps
      PROVE  /\ RootPathPriority(y) \in PriorityVectors
             /\ \A v \in PriorityVectors :
                   DesignatedPriority(y, v) \in PriorityVectors
             /\ \A v \in Times : DesignatedTimes(y, v) \in Times
  <2>1. RootPathPriority(y) \in PriorityVectors
     BY <1>5, AddCostType, PriorityFields DEF RootPathPriority
  <2>2. \A v \in PriorityVectors : DesignatedPriority(y, v) \in PriorityVectors
     BY <1>5, PriorityFields DEF DesignatedPriority
  <2>3. \A v \in Times : DesignatedTimes(y, v) \in Times
     BY <1>5, TimesFields DEF DesignatedTimes
  <2>4. QED BY <2>1, <2>2, <2>3
<1>8. QED BY <1>3, <1>4, <1>6, <1>7

\* Role selection keeps the structures well typed.
LEMMA PRSSM_Types ==
    ASSUME TypeOK, NEW b \in Bridges, NEW t \in Trees,
           PRSSM_to_ROLE_SELECTION(b, t)
    PROVE  MachineTypeOK'
<1> DEFINE r == RootPtp(b, t)
           rp == IF r = NoPtp THEN BridgePriority(b, t)
                 ELSE RootPathPriority(r)
           rt == RootTimes(r, b, t)
           members == PtpsOfTree(b, t)
           dp == [y \in members |-> DesignatedPriority(y, rp)]
           dt == [y \in members |-> DesignatedTimes(y, rt)]
<1>t. /\ tree \in [BridgeTrees -> TreeRecs] /\ vec \in [Ptps -> VecRecs]
      /\ info \in [Ptps -> InfoRecs] /\ role \in [Ptps -> RoleRecs]
   BY DEF TypeOK, MachineTypeOK
<1>1. /\ r \in Ptps \cup {NoPtp} /\ rp \in PriorityVectors /\ rt \in Times
      /\ \A y \in members : /\ y \in Ptps /\ dp[y] \in PriorityVectors
                             /\ dt[y] \in Times
   BY SelectionTypes DEF PtpsOfTree
<1>2. (IF r = NoPtp THEN 0 ELSE vec[r].portId) \in Nat
   BY <1>1, <1>t, VecFields
<1>3. tree' \in [BridgeTrees -> TreeRecs]
  <2> HIDE DEF r, rp, rt
  <2> <<b, t>> \in BridgeTrees BY DEF BridgeTrees
  <2>1. tree' = [tree EXCEPT ![<<b, t>>] =
                  [@ EXCEPT !.PRSSM = "ROLE_SELECTION",
                            !.rootPortId =
                                IF r = NoPtp THEN 0 ELSE vec[r].portId,
                            !.rootPriority = rp, !.rootTimes = rt]]
     BY DEF PRSSM_to_ROLE_SELECTION, r, rp, rt
  <2>2. QED BY <1>1, <1>2, <1>t, <2>1, TreeFields DEF PRSSM_states
<1>4. vec' \in [Ptps -> VecRecs]
  <2> HIDE DEF dp, dt, members
  <2>1. vec' = [y \in Ptps |->
                 IF y \in members
                 THEN [vec[y] EXCEPT !.designatedPriority = dp[y],
                                     !.designatedTimes = dt[y]]
                 ELSE vec[y]]
     BY DEF PRSSM_to_ROLE_SELECTION, dp, dt, members
  <2>2. QED BY <1>1, <1>t, <2>1, VecFields
<1>5. info' \in [Ptps -> InfoRecs]
  <2>1. ASSUME NEW y \in Ptps, NEW v, NEW w
        PROVE  NewUpdtInfo(y, r, v, w) \in BOOLEAN
     BY <1>t, InfoFields DEF NewUpdtInfo
  <2> DEFINE newRole == [y \in members |-> NewSelectedRole(y, r, dp[y])]
             synced(y) ==
                /\ /\ t = 0
                   /\ rp.RRootID # tree[<<b, t>>].rootPriority.RRootID
                   /\ \/ rp.ExtRootPathCost # 0
                      \/ tree[<<b, t>>].rootPriority.ExtRootPathCost # 0
                /\ BrOf(y) = b /\ ~IsCist(y) /\ rcv[PortOf(y)].infoInternal
             reselected(y) ==
                /\ t = 0 /\ BrOf(y) = b /\ ~IsCist(y)
                /\ info[CistOf(y)].infoIs = "Received"
                /\ newRole[CistOf(y)] # role[CistOf(y)].role
  <2>2. info' = [y \in Ptps |->
                  IF y \in members
                  THEN [info[y] EXCEPT
                          !.reselect = FALSE, !.selected = TRUE,
                          !.updtInfo = NewUpdtInfo(y, r, dp[y], dt[y])]
                  ELSE [info[y] EXCEPT
                          !.agree = info[y].agree /\ ~synced(y),
                          !.agreed = info[y].agreed /\ ~synced(y),
                          !.reselect = info[y].reselect \/ reselected(y)]]
     BY DEF PRSSM_to_ROLE_SELECTION
  <2>3. \A y \in Ptps : /\ (info[y].agree /\ ~synced(y)) \in BOOLEAN
                        /\ (info[y].agreed /\ ~synced(y)) \in BOOLEAN
                        /\ (info[y].reselect \/ reselected(y)) \in BOOLEAN
     OBVIOUS
  <2> HIDE DEF synced, reselected, members, dp, dt, r
  <2>4. ASSUME NEW y \in Ptps
        PROVE  [info[y] EXCEPT
                  !.reselect = FALSE, !.selected = TRUE,
                  !.updtInfo = NewUpdtInfo(y, r, dp[y], dt[y])] \in InfoRecs
     BY <1>t, <2>1, InfoFields
  <2>5. ASSUME NEW y \in Ptps
        PROVE  [info[y] EXCEPT
                  !.agree = info[y].agree /\ ~synced(y),
                  !.agreed = info[y].agreed /\ ~synced(y),
                  !.reselect = info[y].reselect \/ reselected(y)] \in InfoRecs
    <3> DEFINE a == info[y].agree /\ ~synced(y)
               d == info[y].agreed /\ ~synced(y)
               e == info[y].reselect \/ reselected(y)
    <3>1. a \in BOOLEAN /\ d \in BOOLEAN /\ e \in BOOLEAN BY <2>3
    <3> HIDE DEF a, d, e
    <3>2. [info[y] EXCEPT !.agree = a, !.agreed = d, !.reselect = e]
              \in InfoRecs
       BY <1>t, <3>1, InfoFields
    <3>3. QED BY <3>2 DEF a, d, e
  <2>6. QED BY <2>2, <2>4, <2>5
<1>6. role' \in [Ptps -> RoleRecs]
  <2>1. ASSUME NEW y \in Ptps, NEW v
        PROVE  NewSelectedRole(y, r, v) \in Roles
    <3>1. \A z \in Ptps : role[CistOf(z)].selectedRole \in Roles
       BY <1>t, PtpTypes, RoleFields
    <3>2. QED BY <3>1 DEF NewSelectedRole, Roles
  <2>2. QED BY <1>1, <1>t, <2>1, RoleFields DEF PRSSM_to_ROLE_SELECTION
<1>7. QED
   BY <1>3, <1>4, <1>5, <1>6
   DEF PRSSM_to_ROLE_SELECTION, TypeOK, MachineTypeOK, portVars

-----------------------------------------------------------------------------
(* Port roles and port states. *)

\* Every transition of the Port Role Transitions machine keeps the
\* structures well typed.
LEMMA PRTSM_Types ==
    ASSUME MachineTypeOK, NEW x \in Ptps, PRTSM_step(x)
    PROVE  MachineTypeOK'
<1> USE RoleFields
<1>p. PortOf(x) \in Ports BY PtpTypes
<1>a. /\ PortHelloTime(PortOf(x)) \in Nat /\ FwdDelay(PortOf(x)) \in Nat
      /\ MaxAge(PortOf(x)) \in Nat /\ forwardDelay(PortOf(x)) \in Nat
   BY <1>p, TimeTypes
<1>1. CASE PRTSM_to_DISABLE_PORT(x)
   BY <1>1
   DEF PRTSM_to_DISABLE_PORT, MachineTypeOK, PRTSM_role_only, portVars,
       PRTSM_states, DisabledStates, Roles
<1>2. CASE PRTSM_to_DISABLED_PORT(x)
   BY <1>2, <1>a
   DEF PRTSM_to_DISABLED_PORT, MachineTypeOK, PRTSM_role_only, portVars,
       PRTSM_states, DisabledStates
<1>3. CASE PRTSM_to_MASTER_or_DESIGNATED_PORT(x)
   BY <1>3
   DEF PRTSM_to_MASTER_or_DESIGNATED_PORT, MachineTypeOK, PRTSM_role_only,
       portVars, PRTSM_states, MasterStates, DesignatedStates, Roles
<1>4. CASE PRTSM_to_ROOT_PORT(x)
   BY <1>4, <1>a
   DEF PRTSM_to_ROOT_PORT, MachineTypeOK, PRTSM_role_only, portVars,
       PRTSM_states, RootStates, Roles
<1>5. CASE PRTSM_to_PROPOSED(x)
   BY <1>5, InfoFields
   DEF PRTSM_to_PROPOSED, MachineTypeOK, PRTSM_role_info, portVars,
       PRTSM_states, MasterStates, RootStates, AlternateStates
<1>6. CASE PRTSM_to_AGREED(x)
   BY <1>6, InfoFields, NewInfoType
   DEF PRTSM_to_AGREED, MachineTypeOK, PRTSM_states, MasterStates,
       RootStates, DesignatedStates, AlternateStates
<1>7. CASE PRTSM_to_SYNCED(x)
   BY <1>7
   DEF PRTSM_to_SYNCED, MachineTypeOK, PRTSM_role_only, portVars,
       PRTSM_states, MasterStates, RootStates, DesignatedStates
<1>8. CASE PRTSM_to_RETIRED(x)
   BY <1>8
   DEF PRTSM_to_RETIRED, MachineTypeOK, PRTSM_role_only, portVars,
       PRTSM_states, MasterStates, RootStates, DesignatedStates
<1>9. CASE PRTSM_to_REROOT(x)
   BY <1>9
   DEF PRTSM_to_REROOT, MachineTypeOK, PRTSM_role_only, portVars,
       PRTSM_states, RootStates
<1>10. CASE PRTSM_to_LEARN(x)
   BY <1>10, <1>a
   DEF PRTSM_to_LEARN, MachineTypeOK, PRTSM_role_only, portVars,
       PRTSM_states, MasterStates, RootStates, DesignatedStates
<1>11. CASE PRTSM_to_FORWARD(x)
  <2>1. mig[PortOf(x)].sendRSTP \in BOOLEAN
     BY <1>p, MigFields DEF MachineTypeOK
  <2>2. QED
     BY <1>11, <2>1, InfoFields
     DEF PRTSM_to_FORWARD, MachineTypeOK, PRTSM_role_info, portVars,
         PRTSM_states, MasterStates, RootStates, DesignatedStates
<1>12. CASE PRTSM_to_DISCARD(x)
   BY <1>12, <1>a, InfoFields
   DEF PRTSM_to_DISCARD, MachineTypeOK, PRTSM_role_info, portVars,
       PRTSM_states, MasterStates, DesignatedStates
<1>13. CASE PRTSM_to_DESIGNATED_PROPOSE(x)
  <2>1. EdgeDelay(x) \in Nat
     BY BootAssumption, VecFields, TimesFields DEF EdgeDelay, MachineTypeOK
  <2>2. rcv' \in [Ports -> RcvRecs]
     BY <1>p, <1>13, <2>1, RcvFields
     DEF PRTSM_to_DESIGNATED_PROPOSE, MachineTypeOK
  <2>3. QED
     BY <1>13, <2>2, InfoFields, NewInfoType
     DEF PRTSM_to_DESIGNATED_PROPOSE, MachineTypeOK, PRTSM_states,
         DesignatedStates
<1>14. CASE PRTSM_to_BLOCK_PORT(x)
   BY <1>14
   DEF PRTSM_to_BLOCK_PORT, MachineTypeOK, PRTSM_role_only, portVars,
       PRTSM_states, AlternateStates
<1>15. CASE PRTSM_to_BACKUP_PORT(x)
  <2>1. 2 * PortHelloTime(PortOf(x)) \in Nat BY <1>a
  <2>2. QED
     BY <1>15, <2>1
     DEF PRTSM_to_BACKUP_PORT, MachineTypeOK, PRTSM_role_only, portVars,
         PRTSM_states, AlternateStates
<1>16. CASE PRTSM_to_ALTERNATE_PORT(x)
   BY <1>16, <1>a
   DEF PRTSM_to_ALTERNATE_PORT, MachineTypeOK, PRTSM_role_only, portVars,
       PRTSM_states, AlternateStates
<1>17. QED
   BY <1>1, <1>2, <1>3, <1>4, <1>5, <1>6, <1>7, <1>8, <1>9, <1>10, <1>11,
      <1>12, <1>13, <1>14, <1>15, <1>16
   DEF PRTSM_step

\* Every transition of the Port State Transition machine keeps the
\* structures well typed.
LEMMA PSTSM_Types ==
    ASSUME MachineTypeOK, NEW x \in Ptps, PSTSM_step(x)
    PROVE  MachineTypeOK'
<1>1. Discarding \in PstRecs
   BY DEF Discarding, PstRecs, PSTSM_states, KernelStates
<1>2. CASE PSTSM_to_DISCARDING(x)
   BY <1>1, <1>2
   DEF PSTSM_to_DISCARDING, MachineTypeOK, PSTSM_only, portVars
<1>3. CASE PSTSM_to_LEARNING(x)
   BY <1>3, PstFields
   DEF PSTSM_to_LEARNING, MachineTypeOK, PSTSM_only, portVars, PSTSM_states,
       KernelStates
<1>4. CASE PSTSM_to_FORWARDING(x)
   BY <1>4, PstFields
   DEF PSTSM_to_FORWARDING, MachineTypeOK, PSTSM_only, portVars, PSTSM_states,
       KernelStates
<1>5. QED BY <1>2, <1>3, <1>4 DEF PSTSM_step

\* What a topology change sets has the type of the structures it is in.
LEMMA TopologyChangeTypes ==
    ASSUME MachineTypeOK, NEW x \in Ptps
    PROVE  /\ TcWhile(x) \in Nat
           /\ TreeWithNewTc(x) \in [BridgeTrees -> TreeRecs]
           /\ XmtWithNewTc(x) \in [Ports -> XmtRecs]
           /\ PrtAfterFlush(PortOf(x)) \in [Ports -> PrtRecs]
           /\ AgeingAfterFlush(PortOf(x)) \in [Bridges -> Nat]
<1>1. /\ PortOf(x) \in Ports /\ BridgeOf[PortOf(x)] \in Bridges
      /\ TreeOf(x) \in BridgeTrees
   BY PtpTypes DEF BrOf
<1>2. /\ tc[x].tcWhile \in Nat /\ tree[TreeOf(x)] \in TreeRecs
      /\ tree[TreeOf(x)].rootTimes.Max_Age \in Nat
      /\ tree[TreeOf(x)].rootTimes.Forward_Delay \in Nat
   BY <1>1, TcFields, TreeFields, TimesFields DEF MachineTypeOK
<1>3. PortHelloTime(PortOf(x)) \in Nat /\ FwdDelay(PortOf(x)) \in Nat
   BY <1>1, TimeTypes
<1>4. TcWhile(x) \in Nat BY <1>2, <1>3 DEF TcWhile
<1>5. TreeWithNewTc(x) \in [BridgeTrees -> TreeRecs]
   BY <1>1, <1>2, TreeFields DEF TreeWithNewTc, MachineTypeOK
<1>6. XmtWithNewTc(x) \in [Ports -> XmtRecs]
   BY NewInfoType DEF XmtWithNewTc, MachineTypeOK
<1>7. PrtAfterFlush(PortOf(x)) \in [Ports -> PrtRecs]
   BY <1>1, <1>3, PrtFields DEF PrtAfterFlush, MachineTypeOK
<1>8. AgeingAfterFlush(PortOf(x)) \in [Bridges -> Nat]
   BY <1>1, <1>3 DEF AgeingAfterFlush, MachineTypeOK
<1>9. QED BY <1>4, <1>5, <1>6, <1>7, <1>8

\* Every transition of the Topology Change machine keeps the structures well
\* typed.
LEMMA TCSM_Types ==
    ASSUME MachineTypeOK, NEW x \in Ptps, TCSM_step(x)
    PROVE  MachineTypeOK'
<1> DEFINE p == PortOf(x)
<1>t. /\ p \in Ports /\ TreeOf(x) \in BridgeTrees
      /\ tc \in [Ptps -> TcRecs] /\ tree \in [BridgeTrees -> TreeRecs]
      /\ xmt \in [Ports -> XmtRecs] /\ rcv \in [Ports -> RcvRecs]
   BY PtpTypes DEF MachineTypeOK
<1>f. /\ rcv[p].rcvdTcn \in BOOLEAN /\ rcv[p].rcvdTcAck \in BOOLEAN
      /\ xmt[p].tcAck \in BOOLEAN
   BY <1>t, RcvFields, XmtFields
<1>w. TcWhile(x) \in Nat BY TopologyChangeTypes
<1> HIDE DEF p
<1>1. CASE TCSM_to_INACTIVE(x)
  <2>1. tc' \in [Ptps -> TcRecs]
     BY <1>1, <1>t, TcFields DEF TCSM_to_INACTIVE, TCSM_states
  <2>2. \A n : TopologyChangeAfter(BrOf(x), Mstid(x), n) \in BOOLEAN
     BY DEF TopologyChangeAfter
  <2>3. tree' \in [BridgeTrees -> TreeRecs]
     BY <1>1, <1>t, <2>2, TreeFields DEF TCSM_to_INACTIVE
  <2>4. xmt' \in [Ports -> XmtRecs]
     BY <1>1, <1>t, <1>f, XmtFields DEF TCSM_to_INACTIVE, p
  <2>5. QED
     BY <1>1, <2>1, <2>3, <2>4, TopologyChangeTypes
     DEF TCSM_to_INACTIVE, MachineTypeOK
<1>2. CASE TCSM_to_LEARNING(x)
  <2>1. tc' \in [Ptps -> TcRecs]
     BY <1>2, <1>t, TcFields DEF TCSM_to_LEARNING, TCSM_states
  <2>2. rcv' \in [Ports -> RcvRecs]
     BY <1>2, <1>t, <1>f, RcvFields DEF TCSM_to_LEARNING, p
  <2>3. QED BY <1>2, <2>1, <2>2 DEF TCSM_to_LEARNING, MachineTypeOK
<1>3. CASE TCSM_to_DETECTED(x)
  <2>1. tc' \in [Ptps -> TcRecs]
     BY <1>3, <1>t, <1>w, TcFields DEF TCSM_to_DETECTED, TCSM_states
  <2>2. QED
     BY <1>3, <2>1, NewInfoType, TopologyChangeTypes
     DEF TCSM_to_DETECTED, MachineTypeOK
<1>4. CASE TCSM_to_NOTIFIED_TCN(x)
  <2>1. tc' \in [Ptps -> TcRecs]
     BY <1>4, <1>t, <1>w, TcFields DEF TCSM_to_NOTIFIED_TCN, TCSM_states
  <2>2. QED
     BY <1>4, <2>1, TopologyChangeTypes
     DEF TCSM_to_NOTIFIED_TCN, MachineTypeOK
<1>5. CASE TCSM_to_NOTIFIED_TC(x)
  <2>1. tc' \in [Ptps -> TcRecs]
     BY <1>5, <1>t, TcFields DEF TCSM_to_NOTIFIED_TC, TCSM_states
  <2>2. rcv' \in [Ports -> RcvRecs]
     BY <1>5, <1>t, <1>f, RcvFields DEF TCSM_to_NOTIFIED_TC, p
  <2>3. xmt' \in [Ports -> XmtRecs]
     BY <1>5, <1>t, <1>f, XmtFields DEF TCSM_to_NOTIFIED_TC, p
  <2>4. QED
     BY <1>5, <2>1, <2>2, <2>3 DEF TCSM_to_NOTIFIED_TC, MachineTypeOK
<1>6. CASE TCSM_to_PROPAGATING(x)
  <2>1. tc' \in [Ptps -> TcRecs]
     BY <1>6, <1>t, <1>w, TcFields DEF TCSM_to_PROPAGATING, TCSM_states
  <2>2. QED
     BY <1>6, <2>1, TopologyChangeTypes
     DEF TCSM_to_PROPAGATING, MachineTypeOK
<1>7. CASE TCSM_to_ACKNOWLEDGED(x)
  <2>1. tc' \in [Ptps -> TcRecs]
     BY <1>7, <1>t, TcFields DEF TCSM_to_ACKNOWLEDGED, TCSM_states
  <2>2. \A n : TopologyChangeAfter(BrOf(x), Mstid(x), n) \in BOOLEAN
     BY DEF TopologyChangeAfter
  <2>3. tree' \in [BridgeTrees -> TreeRecs]
     BY <1>7, <1>t, <2>2, TreeFields DEF TCSM_to_ACKNOWLEDGED
  <2>4. rcv' \in [Ports -> RcvRecs]
     BY <1>7, <1>t, RcvFields DEF TCSM_to_ACKNOWLEDGED, p
  <2>5. QED
     BY <1>7, <2>1, <2>3, <2>4 DEF TCSM_to_ACKNOWLEDGED, MachineTypeOK
<1>8. CASE TCSM_to_ACTIVE(x)
   BY <1>8, TcFields
   DEF TCSM_to_ACTIVE, MachineTypeOK, portVars, TCSM_states
<1>9. QED
   BY <1>1, <1>2, <1>3, <1>4, <1>5, <1>6, <1>7, <1>8 DEF TCSM_step

-----------------------------------------------------------------------------
\* Every transition of every machine keeps the structures well typed.
LEMMA MachineStepTypes ==
    ASSUME TypeOK, NEW b \in Bridges, NEW s \in Slots(b), Machine_step(b, s)
    PROVE  MachineTypeOK'
<1> USE DEF BA, PRSM, PPMSM, BDSM, PTSM, PISM, PRSSM, PRTSM, PSTSM, TCSM
<1>m. MachineTypeOK BY DEF TypeOK
<1>1. /\ s[1] \in {BA, PRSM, PPMSM, BDSM, PTSM} => s[2] \in Ports
      /\ s[1] \in {PISM, PRTSM, PSTSM, TCSM} => <<s[2], s[3]>> \in Ptps
      /\ s[1] = PRSSM => s[3] \in Trees
   BY DEF Slots, PortsOf, Ptps
<1>2. CASE s[1] = BA /\ BA_to_INCONSISTENT(s[2]) BY <1>1, <1>2, PRSM_Types
<1>3. CASE s[1] = PRSM /\ PRSM_step(s[2]) BY <1>1, <1>3, PRSM_Types
<1>4. CASE s[1] = PPMSM /\ PPMSM_step(s[2]) BY <1>1, <1>4, PPMSM_Types
<1>5. CASE s[1] = BDSM /\ BDSM_step(s[2]) BY <1>1, <1>5, BDSM_Types
<1>6. CASE s[1] = PTSM /\ PTSM_step(s[2]) BY <1>1, <1>6, PTSM_Types
<1>7. CASE s[1] = PISM /\ PISM_step(<<s[2], s[3]>>)
   BY <1>1, <1>7, PISM_Types
<1>8. CASE s[1] = PRSSM /\ PRSSM_to_ROLE_SELECTION(b, s[3])
   BY <1>1, <1>8, PRSSM_Types
<1>9. CASE s[1] = PRTSM /\ PRTSM_step(<<s[2], s[3]>>)
   BY <1>1, <1>9, <1>m, PRTSM_Types
<1>10. CASE s[1] = PSTSM /\ PSTSM_step(<<s[2], s[3]>>)
   BY <1>1, <1>10, <1>m, PSTSM_Types
<1>11. CASE s[1] = TCSM /\ TCSM_step(<<s[2], s[3]>>)
   BY <1>1, <1>11, <1>m, TCSM_Types
<1>12. QED
   BY <1>2, <1>3, <1>4, <1>5, <1>6, <1>7, <1>8, <1>9, <1>10, <1>11
   DEF Machine_step


-----------------------------------------------------------------------------
(* The schedule of a run. *)

\* A set of naturals that is not empty has a least element.
LEMMA LeastNatural ==
    ASSUME NEW T, T \subseteq Nat, T # {}
    PROVE  \E n \in T : \A m \in T : n <= m
<1>1. PICK n \in T : \A m \in T : ~(<<m, n>> \in OpToRel(<, Nat))
   BY NatLessThanWellFounded, WFMin, Zenon
<1>2. \A m \in T : ~(m < n) BY <1>1 DEF OpToRel
<1>3. QED BY <1>2

\* A bounded set of naturals that is not empty has a greatest element.
LEMMA GreatestNatural ==
    ASSUME NEW k \in Nat, NEW T, T \subseteq 0..k, T # {}
    PROVE  \E n \in T : \A m \in T : m <= n
<1> DEFINE U == {k - n : n \in T}
<1>1. U \subseteq Nat /\ U # {}
  <2>1. \A n \in 0..k : k - n \in Nat OBVIOUS
  <2>2. U \subseteq Nat BY <2>1
  <2>3. PICK n : n \in T OBVIOUS
  <2>4. k - n \in U BY <2>3
  <2>5. QED BY <2>2, <2>4
<1>2. PICK u \in U : \A v \in U : u <= v BY <1>1, LeastNatural
<1>3. PICK n \in T : u = k - n OBVIOUS
<1>4. ASSUME NEW m \in T PROVE m <= n
  <2>1. k - n <= k - m BY <1>2, <1>3
  <2>2. n \in Nat /\ m \in Nat OBVIOUS
  <2>3. QED BY <2>1, <2>2
<1>5. QED BY <1>4

\* The rank of a machine is a natural.
LEMMA RankType ==
    ASSUME NEW b \in Bridges, NEW s \in Slots(b)
    PROVE  Rank(s) \in Nat
<1>1. s[1] \in Nat /\ s[2] \in Nat /\ s[3] \in Nat
  <2>1. Ports \subseteq Nat /\ Trees \subseteq Nat
     BY TopologyAssumption, SpaceAssumption DEF Trees
  <2>2. /\ s[1] \in {BA, PRSM, PPMSM, BDSM, PTSM, PISM, PRTSM, PSTSM, TCSM,
                   PRSSM}
        /\ s[2] \in Ports \cup {NoPort}
        /\ s[3] \in Trees
     BY DEF Slots, PortsOf, Trees
  <2>3. s[1] \in Nat
     BY <2>2 DEF BA, PRSM, PPMSM, BDSM, PTSM, PISM, PRSSM, PRTSM, PSTSM, TCSM
  <2>4. s[2] \in Nat
    <3>1. s[2] \in Ports \/ s[2] = 0 BY <2>2 DEF NoPort
    <3>2. s[2] \in Ports => s[2] \in Nat BY <2>1, Zenon
    <3>3. s[2] = 0 => s[2] \in Nat OBVIOUS
    <3>4. QED BY <3>1, <3>2, <3>3
  <2>5. s[3] \in Nat BY <2>1, <2>2
  <2>6. QED BY <2>3, <2>4, <2>5
<1> DEFINE a == s[1]
           p == s[2]
           t == s[3]
<1> HIDE DEF a, p, t
<1>2. PortSpace \in Nat /\ TreeSpace \in Nat
   BY SpaceAssumption, TreeSpaceAssumption
<1>3. a * PortSpace + p \in Nat BY <1>1, <1>2 DEF a, p
<1>4. (a * PortSpace + p) * TreeSpace \in Nat BY <1>2, <1>3
<1>5. (a * PortSpace + p) * TreeSpace + t \in Nat BY <1>1, <1>4 DEF t
<1>6. QED BY <1>5 DEF Rank, a, p, t

\* A pass finds the first machine of those that can move.
LEMMA FirstType ==
    ASSUME NEW b \in Bridges, NEW S, S \subseteq Slots(b), S # {}
    PROVE  First(S) \in S
<1> DEFINE T == {Rank(s) : s \in S}
<1>1. T \subseteq Nat /\ T # {} BY RankType
<1>2. PICK n \in T : \A m \in T : n <= m BY <1>1, LeastNatural
<1>3. PICK s \in S : n = Rank(s) OBVIOUS
<1>4. \A u \in S : Rank(s) <= Rank(u) BY <1>2, <1>3
<1>5. QED BY <1>4 DEF First

\* The machine a run moves next is one of those that can move.
LEMMA UpcomingType ==
    ASSUME NEW b \in Bridges, Ready(b) # {}
    PROVE  /\ Upcoming(Ready(b)) \in Ready(b)
           /\ Upcoming(Ready(b)) \in Slots(b)
<1> DEFINE S == IF Ahead(Ready(b)) = {} THEN Ready(b) ELSE Ahead(Ready(b))
<1>1. S \subseteq Ready(b) /\ S # {} BY DEF Ahead
<1>2. Ready(b) \subseteq Slots(b) BY DEF Ready
<1> HIDE DEF S
<1>3. First(S) \in S BY <1>1, <1>2, FirstType
<1>4. Upcoming(Ready(b)) = First(S) BY DEF Upcoming, S
<1>5. QED BY <1>1, <1>2, <1>3, <1>4

\* A step of a run, its regular end and its end for lack of time.
LEMMA RunTypes ==
    ASSUME TypeOK, NEW b \in Bridges,
           RunMachine(b) \/ RunDone(b) \/ RunTimeout(b)
    PROVE  TypeOK'
<1>1. CASE RunMachine(b)
  <2> DEFINE s == Upcoming(Ready(b))
  <2>1. Ready(b) # {} /\ Machine_step(b, s)
     BY <1>1 DEF RunMachine
  <2>2. s \in Slots(b) BY <2>1, UpcomingType
  <2>3. MachineTypeOK' BY <2>1, <2>2, MachineStepTypes
  <2>4. Rank(s) \in Nat BY <2>2, RankType
  <2>5. pos' \in Nat
    <3>1. pos' = Rank(s) + IF RunsOnce(b, s) THEN 1 ELSE 0
       BY <1>1 DEF RunMachine
    <3>2. QED BY <2>4, <3>1
  <2>6. QED
     BY <1>1, <2>3, <2>5 DEF RunMachine, TypeOK, envVars
<1>2. CASE RunDone(b)
   BY <1>2
   DEF RunDone, TypeOK, MachineTypeOK, NoBridge, portVars, ptpVars, envVars
<1>3. CASE RunTimeout(b)
  <2>1. budget' \in Budgets
    <3>1. budget.stalls - 1 \in Nat
       BY <1>3, BudgetFields DEF RunTimeout, TypeOK
    <3>2. QED BY <1>3, <3>1, BudgetFields DEF RunTimeout, TypeOK
  <2>2. QED
     BY <1>3, <2>1
     DEF RunTimeout, TypeOK, MachineTypeOK, NoBridge, portVars, ptpVars
<1>4. QED BY <1>1, <1>2, <1>3

-----------------------------------------------------------------------------
(* br_state_machines_begin. *)

\* What an external event writes, the schedule and the environment aside.
StateTypeOK ==
    /\ active \in Bridges \cup {NoBridge} /\ pos \in Nat
    /\ brg \in [Bridges -> BridgeRecs]
    /\ adm \in [Ports -> AdmRecs]
    /\ MachineTypeOK

\* Starting a run, or not, keeps the schedule well typed.
LEMMA StartRunTypes ==
    ASSUME NEW b \in Bridges, StartRun(b)
    PROVE  active' \in Bridges \cup {NoBridge} /\ pos' \in Nat
BY DEF StartRun

\* The begin states of the port role machine.
LEMMA InitPortType ==
    ASSUME MachineTypeOK, NEW x \in Ptps
    PROVE  [InitPort(role[x], PortOf(x)) EXCEPT !.selectedRole = "Disabled"]
               \in RoleRecs
<1>1. FwdDelay(PortOf(x)) \in Nat /\ MaxAge(PortOf(x)) \in Nat
   BY PtpTypes, TimeTypes
<1> DEFINE r == [role[x] EXCEPT
                   !.PRTSM = "INIT_PORT", !.role = "Disabled",
                   !.learn = FALSE, !.forward = FALSE, !.synced = FALSE]
           s == [r EXCEPT
                   !.sync = TRUE, !.reRoot = TRUE,
                   !.rrWhile = FwdDelay(PortOf(x)),
                   !.fdWhile = MaxAge(PortOf(x)), !.rbWhile = 0]
<1>2. r \in RoleRecs
   BY RoleFields DEF MachineTypeOK, PRTSM_states, DisabledStates, Roles
<1>3. InitPort(role[x], PortOf(x)) = s BY DEF InitPort
<1> HIDE DEF r
<1>4. s \in RoleRecs BY <1>1, <1>2, RoleFields
<1> HIDE DEF s
<1>5. QED BY <1>3, <1>4, RoleFields DEF Roles

\* The begin state of the port information machine.
LEMMA DisabledInfoType ==
    ASSUME NEW i \in InfoRecs
    PROVE  DisabledInfo(i) \in InfoRecs
<1> DEFINE j == [i EXCEPT !.PISM = "DISABLED", !.rcvdMsg = FALSE,
                          !.proposing = FALSE, !.proposed = FALSE,
                          !.agree = FALSE]
           k == [j EXCEPT !.agreed = FALSE, !.rcvdInfoWhile = 0,
                          !.infoIs = "Disabled", !.reselect = TRUE,
                          !.selected = FALSE]
<1>1. j \in InfoRecs BY InfoFields DEF PISM_states
<1>2. DisabledInfo(i) = k BY DEF DisabledInfo
<1> HIDE DEF j
<1>3. k \in InfoRecs BY <1>1, InfoFields DEF Origins
<1>4. QED BY <1>2, <1>3

\* br_state_machines_begin on top of well-typed changes.
LEMMA BeginTypes ==
    ASSUME TypeOK, brg' \in [Bridges -> BridgeRecs], adm' = adm,
           NEW b \in Bridges, NEW c, Begin(b, c),
           c.tree \in [BridgeTrees -> TreeRecs],
           c.prt \in [Ports -> PrtRecs], c.rcv \in [Ports -> RcvRecs],
           c.info \in [Ptps -> InfoRecs], c.pst \in [Ptps -> PstRecs],
           c.tc \in [Ptps -> TcRecs], c.ageing \in [Bridges -> Nat]
    PROVE  StateTypeOK'
<1>m. MachineTypeOK BY DEF TypeOK
<1>a. adm' \in [Ports -> AdmRecs] BY DEF TypeOK
<1>s. active' \in Bridges \cup {NoBridge} /\ pos' \in Nat
   BY StartRunTypes DEF Begin
<1>1. CASE ~brg'[b].bridgeEnabled
   BY <1>1, <1>m, <1>a, <1>s DEF Begin, StateTypeOK, MachineTypeOK
<1>2. CASE brg'[b].bridgeEnabled
  <2> DEFINE aged == BeginsRapidAgeing(b)
             last == CHOOSE p \in aged : \A q \in aged : q <= p
  <2>b. StateMachinesBegin(b, c) BY <1>2 DEF Begin
  <2>0. aged \subseteq PortsOf(b) /\ PortsOf(b) \subseteq Ports
     BY DEF BeginsRapidAgeing, PortsOf
  <2>1. tree' \in [BridgeTrees -> TreeRecs]
    <3>1. \A u \in BridgeTrees :
             (c.tree[u].topology_change /\ PortsOf(b) = {}) \in BOOLEAN
       OBVIOUS
    <3>2. QED
       BY <2>b, <3>1, TreeFields DEF StateMachinesBegin, PRSSM_states
  <2>2. prt' \in [Ports -> PrtRecs]
    <3>1. \A p \in Ports : FwdDelay(p) \in Nat BY <1>m, TimeTypes
    <3>2. QED BY <2>b, <3>1, PrtFields DEF StateMachinesBegin
  <2>3. rcv' \in [Ports -> RcvRecs]
     BY <2>b, RcvFields, BootAssumption DEF StateMachinesBegin, PRSM_states
  <2>4. mig' \in [Ports -> MigRecs]
    <3>1. rstpVersion(b)' \in BOOLEAN BY DEF rstpVersion
    <3>2. ASSUME NEW p \in Ports
          PROVE  CheckingRstp([mig[p] EXCEPT !.rcvdRSTP = FALSE,
                                             !.rcvdSTP = FALSE],
                              rstpVersion(b)') \in MigRecs
       BY <1>m, <3>1, MigFields, BootAssumption
       DEF MachineTypeOK, CheckingRstp, PPMSM_states
    <3>3. QED BY <1>m, <2>b, <3>2 DEF StateMachinesBegin, MachineTypeOK
  <2>5. edge' \in [Ports -> EdgeRecs]
    <3>1. \A p \in Ports : EdgeRec(adm[p].AdminEdgePort) \in EdgeRecs
       BY AdmFields DEF TypeOK, EdgeRec, EdgeRecs, BDSM_states
    <3>2. QED BY <1>m, <2>b, <3>1 DEF StateMachinesBegin, MachineTypeOK
  <2>6. xmt' \in [Ports -> XmtRecs]
    <3>1. \A p \in Ports :
             [TransmitInit(xmt[p]) EXCEPT !.tcAck = FALSE] \in XmtRecs
       BY <1>m, XmtFields DEF MachineTypeOK, TransmitInit, PTSM_states
    <3>2. QED BY <1>m, <2>b, <3>1 DEF StateMachinesBegin, MachineTypeOK
  <2>7. info' \in [Ptps -> InfoRecs]
     BY <2>b, DisabledInfoType DEF StateMachinesBegin
  <2>8. role' \in [Ptps -> RoleRecs]
    <3>1. role \in [Ptps -> RoleRecs] BY <1>m DEF MachineTypeOK
    <3>2. \A x \in Ptps : [InitPort(role[x], PortOf(x)) EXCEPT
                             !.selectedRole = "Disabled"] \in RoleRecs
       BY <1>m, InitPortType
    <3>3. QED BY <2>b, <3>1, <3>2 DEF StateMachinesBegin
  <2>9. pst' \in [Ptps -> PstRecs]
    <3>1. Discarding \in PstRecs
       BY DEF Discarding, PstRecs, PSTSM_states, KernelStates
    <3>2. QED BY <2>b, <3>1 DEF StateMachinesBegin
  <2>10. tc' \in [Ptps -> TcRecs]
     BY <2>b, TcFields DEF StateMachinesBegin, TCSM_states
  <2>11. ageing' \in [Bridges -> Nat]
    <3>1. CASE aged = {} BY <2>b, <3>1 DEF StateMachinesBegin
    <3>2. CASE aged # {}
      <4>0. PortSpace - 1 \in Nat BY SpaceAssumption
      <4>1. aged \subseteq 0..(PortSpace - 1)
        <5>1. aged \subseteq 1..(PortSpace - 1)
           BY <2>0, TopologyAssumption, Zenon
        <5> HIDE DEF aged
        <5>2. QED BY <4>0, <5>1
      <4>2. \E p \in aged : \A q \in aged : q <= p
         BY <3>2, <4>0, <4>1, GreatestNatural
      <4>3. last \in Ports BY <2>0, <4>2
      <4>4. FwdDelay(last) \in Nat BY <1>m, <4>3, TimeTypes
      <4>5. ageing' = [c.ageing EXCEPT ![b] = FwdDelay(last)]
         BY <2>b, <3>2 DEF StateMachinesBegin
      <4>6. QED BY <4>4, <4>5
    <3>3. QED BY <3>1, <3>2
  <2>12. vec' = vec /\ chan' = chan BY DEF Begin
  <2>13. QED
     BY <1>m, <1>a, <1>s, <2>1, <2>2, <2>3, <2>4, <2>5, <2>6, <2>7, <2>8,
        <2>9, <2>10, <2>11, <2>12
     DEF StateTypeOK, MachineTypeOK
<1>3. QED BY <1>1, <1>2

-----------------------------------------------------------------------------
(* External events. *)

\* Enabling or disabling a bridge keeps the structures well typed.
LEMMA BridgeEnableTypes ==
    ASSUME TypeOK, NEW b \in Bridges, NEW up \in BOOLEAN,
           MSTP_IN_set_bridge_enable(b, up)
    PROVE  StateTypeOK'
<1> DEFINE mine(x) == BrOf(x) = b
           rapid == \E p \in PortsOf(b) : prt[p].rapidAgeingWhile # 0
           newTree == [u \in BridgeTrees |->
              IF u[1] = b THEN [tree[u] EXCEPT !.topology_change = FALSE]
              ELSE tree[u]]
           newPrt == [p \in Ports |->
              IF BridgeOf[p] = b
              THEN [prt[p] EXCEPT !.rapidAgeingWhile = 0,
                      !.brAssuRcvdInfoWhile = 0, !.BaInconsistent = FALSE]
              ELSE prt[p]]
           newRcv == [p \in Ports |->
              IF BridgeOf[p] = b
              THEN [rcv[p] EXCEPT !.infoInternal = FALSE,
                      !.rcvdInternal = FALSE, !.rcvdTcAck = FALSE,
                      !.rcvdTcn = FALSE]
              ELSE rcv[p]]
           newInfo == [x \in Ptps |->
              IF mine(x)
              THEN [info[x] EXCEPT !.updtInfo = FALSE, !.disputed = FALSE,
                      !.rcvdInfo = "Other", !.mastered = FALSE]
              ELSE info[x]]
           newPst == [x \in Ptps |->
              IF mine(x) THEN [pst[x] EXCEPT !.state = "DISABLED"]
              ELSE pst[x]]
           newTc == [x \in Ptps |->
              IF mine(x) THEN [tc[x] EXCEPT !.rcvdTc = FALSE,
                                            !.tcProp = FALSE]
              ELSE tc[x]]
           newAgeing == IF rapid
                        THEN [ageing EXCEPT ![b] = brg[b].Ageing_Time]
                        ELSE ageing
           c == [ tree |-> newTree, prt |-> newPrt, rcv |-> newRcv,
                  info |-> newInfo, pst |-> newPst, tc |-> newTc,
                  ageing |-> newAgeing ]
<1>1. brg' \in [Bridges -> BridgeRecs]
   BY BridgeFields DEF MSTP_IN_set_bridge_enable, TypeOK
<1>2. adm' = adm BY DEF MSTP_IN_set_bridge_enable
<1>3. Begin(b, c) BY DEF MSTP_IN_set_bridge_enable
<1>4. newTree \in [BridgeTrees -> TreeRecs]
   BY TreeFields DEF TypeOK, MachineTypeOK
<1>5. newPrt \in [Ports -> PrtRecs] BY PrtFields DEF TypeOK, MachineTypeOK
<1>6. newRcv \in [Ports -> RcvRecs] BY RcvFields DEF TypeOK, MachineTypeOK
<1>7. newInfo \in [Ptps -> InfoRecs]
   BY InfoFields DEF TypeOK, MachineTypeOK, Infos
<1>8. newPst \in [Ptps -> PstRecs]
   BY PstFields DEF TypeOK, MachineTypeOK, KernelStates
<1>9. newTc \in [Ptps -> TcRecs] BY TcFields DEF TypeOK, MachineTypeOK
<1>10. newAgeing \in [Bridges -> Nat]
   BY BridgeFields DEF TypeOK, MachineTypeOK
<1> HIDE DEF newTree, newPrt, newRcv, newInfo, newPst, newTc, newAgeing
<1>11. /\ c.tree = newTree /\ c.prt = newPrt /\ c.rcv = newRcv
       /\ c.info = newInfo /\ c.pst = newPst /\ c.tc = newTc
       /\ c.ageing = newAgeing
   OBVIOUS
<1> HIDE DEF c
<1>12. QED
   BY <1>1, <1>2, <1>3, <1>4, <1>5, <1>6, <1>7, <1>8, <1>9, <1>10, <1>11,
      BeginTypes

\* A link that goes up or down keeps the structures well typed.
LEMMA PortEnableTypes ==
    ASSUME TypeOK, NEW p \in Ports, PortUp(p) \/ PortDown(p)
    PROVE  StateTypeOK'
<1>b. BridgeOf[p] \in Bridges BY TopologyAssumption
<1>1. CASE PortUp(p)
  <2> DEFINE cost == EffectiveCost(adm[p].AdminExternalPortPathCost, p)
             p2p == EffectiveP2P(adm[p].AdminP2P, p)
             wait == 3 * PortHelloTime(p)
  <2>1. cost \in Nat
     BY AdmFields, BootAssumption DEF EffectiveCost, TypeOK
  <2>2. p2p \in BOOLEAN BY BootAssumption DEF EffectiveP2P
  <2>3. wait \in Nat
    <3>1. PortHelloTime(p) \in Nat BY TimeTypes DEF TypeOK
    <3>2. QED BY <3>1
  <2> HIDE DEF cost, p2p, wait
  <2>4. prt' \in [Ports -> PrtRecs]
    <3>1. prt' = [prt EXCEPT ![p] =
                   [@ EXCEPT !.portEnabled = TRUE,
                             !.ExternalPortPathCost = cost,
                             !.operPointToPointMAC = p2p,
                             !.BpduGuardError = FALSE,
                             !.BaInconsistent = FALSE,
                             !.brAssuRcvdInfoWhile = wait]]
       BY <1>1 DEF PortUp, cost, p2p, wait
    <3>2. QED
       BY <2>1, <2>2, <2>3, <3>1, PrtFields DEF TypeOK, MachineTypeOK
  <2>5. vec' \in [Ptps -> VecRecs]
    <3>1. \A x \in Ptps :
             EffectiveCost(vec[x].AdminInternalPortPathCost, p) \in Nat
       BY VecFields, BootAssumption DEF EffectiveCost, TypeOK, MachineTypeOK
    <3>2. QED
       BY <1>1, <3>1, VecFields DEF PortUp, TypeOK, MachineTypeOK
  <2>6. active' \in Bridges \cup {NoBridge} /\ pos' \in Nat
     BY <1>1, <1>b, StartRunTypes DEF PortUp
  <2>7. QED
     BY <1>1, <2>4, <2>5, <2>6
     DEF PortUp, TypeOK, StateTypeOK, MachineTypeOK, machineVars
<1>2. CASE PortDown(p)
  <2>1. prt' \in [Ports -> PrtRecs]
     BY <1>2, PrtFields DEF PortDown, TypeOK, MachineTypeOK
  <2>2. chan' \in [Ports -> Seq(Bpdus)]
     BY <1>2 DEF PortDown, TypeOK, MachineTypeOK
  <2>3. active' \in Bridges \cup {NoBridge} /\ pos' \in Nat
     BY <1>2, <1>b, StartRunTypes DEF PortDown
  <2>4. QED
     BY <1>2, <2>1, <2>2, <2>3
     DEF PortDown, TypeOK, StateTypeOK, MachineTypeOK, machineVars
<1>3. QED BY <1>1, <1>2

\* The timers of a bridge stay naturals when a second has passed.
LEMMA TickTypes ==
    ASSUME TypeOK, NEW b \in Bridges, Tick(b)
    PROVE  StateTypeOK'
<1>t. /\ prt \in [Ports -> PrtRecs] /\ rcv \in [Ports -> RcvRecs]
      /\ mig \in [Ports -> MigRecs] /\ xmt \in [Ports -> XmtRecs]
      /\ info \in [Ptps -> InfoRecs] /\ role \in [Ptps -> RoleRecs]
      /\ tc \in [Ptps -> TcRecs] /\ tree \in [BridgeTrees -> TreeRecs]
      /\ ageing \in [Bridges -> Nat] /\ brg \in [Bridges -> BridgeRecs]
   BY DEF TypeOK, MachineTypeOK
<1>1. prt' \in [Ports -> PrtRecs]
   BY <1>t, DecrementedType, PrtFields DEF Tick
<1>2. rcv' \in [Ports -> RcvRecs]
   BY <1>t, DecrementedType, RcvFields DEF Tick
<1>3. mig' \in [Ports -> MigRecs]
   BY <1>t, DecrementedType, MigFields DEF Tick
<1>4. xmt' \in [Ports -> XmtRecs]
   BY <1>t, DecrementedType, XmtFields DEF Tick
<1>5. info' \in [Ptps -> InfoRecs]
   BY <1>t, DecrementedType, InfoFields DEF Tick
<1>6. role' \in [Ptps -> RoleRecs]
   BY <1>t, DecrementedType, RoleFields DEF Tick
<1>7. tc' \in [Ptps -> TcRecs]
   BY <1>t, DecrementedType, TcFields DEF Tick
<1>8. tree' \in [BridgeTrees -> TreeRecs]
  <2>1. \A t, n : TopologyChangeAfter(b, t, n) \in BOOLEAN
     BY DEF TopologyChangeAfter
  <2>2. QED BY <1>t, <2>1, TreeFields DEF Tick
<1>9. ageing' \in [Bridges -> Nat] BY <1>t, BridgeFields DEF Tick
<1>10. active' \in Bridges \cup {NoBridge} /\ pos' \in Nat
   BY StartRunTypes DEF Tick
<1>11. QED
   BY <1>1, <1>2, <1>3, <1>4, <1>5, <1>6, <1>7, <1>8, <1>9, <1>10
   DEF Tick, TypeOK, StateTypeOK, MachineTypeOK

\* Taking a BPDU off a channel leaves a sequence of BPDUs.
LEMMA DeliveryTypes ==
    ASSUME TypeOK, NEW p \in Ports, chan[p] # <<>>
    PROVE  /\ Head(chan[p]) \in Bpdus
           /\ [chan EXCEPT ![p] = Tail(@)] \in [Ports -> Seq(Bpdus)]
<1>1. chan \in [Ports -> Seq(Bpdus)] BY DEF TypeOK, MachineTypeOK
<1>2. chan[p] \in Seq(Bpdus) BY <1>1
<1>3. Head(chan[p]) \in Bpdus /\ Tail(chan[p]) \in Seq(Bpdus) BY <1>2
<1>4. QED BY <1>1, <1>3

\* Reception of a BPDU keeps the structures well typed.
LEMMA RxTypes ==
    ASSUME TypeOK, NEW p \in Ports, MSTP_IN_rx_bpdu(p)
    PROVE  StateTypeOK'
<1>1. prt' \in [Ports -> PrtRecs] /\ rcv' \in [Ports -> RcvRecs]
  <2>1. CASE RxGuarded(p)
     BY <2>1, PrtFields DEF RxGuarded, TypeOK, MachineTypeOK
  <2>2. CASE RxDropped(p) BY <2>2 DEF RxDropped, TypeOK, MachineTypeOK
  <2>3. CASE RxKept(p)
    <3>1. Head(chan[p]) \in Bpdus BY DeliveryTypes DEF MSTP_IN_rx_bpdu
    <3>2. 3 * PortHelloTime(p) \in Nat
      <4>1. PortHelloTime(p) \in Nat BY TimeTypes DEF TypeOK
      <4>2. QED BY <4>1
    <3>3. rcv' \in [Ports -> RcvRecs]
       BY <2>3, <3>1, RcvFields DEF RxKept, TypeOK, MachineTypeOK
    <3>4. prt' \in [Ports -> PrtRecs]
       BY <2>3, <3>2, PrtFields DEF RxKept, TypeOK, MachineTypeOK
    <3>5. QED BY <3>3, <3>4
  <2>4. QED BY <2>1, <2>2, <2>3 DEF MSTP_IN_rx_bpdu
<1>2. active' \in Bridges \cup {NoBridge} /\ pos' \in Nat
   BY TopologyAssumption
   DEF MSTP_IN_rx_bpdu, RxGuarded, RxDropped, RxKept, schedVars, TypeOK
<1>3. chan' \in [Ports -> Seq(Bpdus)]
   BY DeliveryTypes DEF MSTP_IN_rx_bpdu
<1>4. QED
   BY <1>1, <1>2, <1>3
   DEF MSTP_IN_rx_bpdu, TypeOK, StateTypeOK, MachineTypeOK, machineVars

-----------------------------------------------------------------------------
(* Commands. *)

\* Asking for a new selection of roles.
LEMMA ReselectedType ==
    ASSUME TypeOK, NEW S
    PROVE  Reselected(S) \in [Ptps -> InfoRecs]
BY InfoFields DEF Reselected, TypeOK, MachineTypeOK

\* A run that is started only if a command changed something.
LEMMA RunIfTypes ==
    ASSUME TypeOK, NEW p \in Ports, NEW changed, RunIf(changed, p)
    PROVE  active' \in Bridges \cup {NoBridge} /\ pos' \in Nat
BY StartRunTypes, TopologyAssumption DEF RunIf, TypeOK, schedVars

\* br_state_machines_begin without a change before it but that of tree.
LEMMA BeginCurrentTypes ==
    ASSUME TypeOK, brg' \in [Bridges -> BridgeRecs], adm' = adm,
           NEW b \in Bridges, NEW new \in [BridgeTrees -> TreeRecs],
           Begin(b, [Current EXCEPT !.tree = new])
    PROVE  StateTypeOK'
<1> DEFINE c == [Current EXCEPT !.tree = new]
<1>1. /\ c.tree = new /\ c.prt = prt /\ c.rcv = rcv /\ c.info = info
      /\ c.pst = pst /\ c.tc = tc /\ c.ageing = ageing
   BY DEF Current
<1>2. /\ prt \in [Ports -> PrtRecs] /\ rcv \in [Ports -> RcvRecs]
      /\ info \in [Ptps -> InfoRecs] /\ pst \in [Ptps -> PstRecs]
      /\ tc \in [Ptps -> TcRecs] /\ ageing \in [Bridges -> Nat]
   BY DEF TypeOK, MachineTypeOK
<1> HIDE DEF c
<1>3. Begin(b, c) BY DEF c
<1>4. QED BY <1>1, <1>2, <1>3, BeginTypes

\* The parameters that end up in BridgeTimes.
LEMMA ChangeBridgeTimesTypes ==
    ASSUME TypeOK, NEW b \in Bridges, NEW new \in BridgeRecs,
           ChangeBridgeTimes(b, new)
    PROVE  StateTypeOK'
<1>1. brg' \in [Bridges -> BridgeRecs] BY DEF ChangeBridgeTimes, TypeOK
<1>2. tree' \in [BridgeTrees -> TreeRecs]
  <2>1. ASSUME NEW u \in BridgeTrees
        PROVE  [tree[u] EXCEPT
                  !.BridgeTimes.remainingHops = new.MaxHops,
                  !.BridgeTimes.Forward_Delay = new.Forward_Delay,
                  !.BridgeTimes.Max_Age = new.Max_Age,
                  !.BridgeTimes.Hello_Time = HelloTime] \in TreeRecs
    <3> DEFINE t == [tree[u].BridgeTimes EXCEPT
                       !.remainingHops = new.MaxHops,
                       !.Forward_Delay = new.Forward_Delay,
                       !.Max_Age = new.Max_Age, !.Hello_Time = HelloTime]
    <3>1. tree[u] \in TreeRecs BY DEF TypeOK, MachineTypeOK
    <3>2. tree[u].BridgeTimes \in Times BY <3>1, TreeFields
    <3>3. /\ new.MaxHops \in Nat /\ new.Forward_Delay \in Nat
          /\ new.Max_Age \in Nat /\ HelloTime \in Nat
       BY BridgeFields, BootAssumption
    <3>4. t \in Times BY <3>2, <3>3, TimesFields
    <3>5. [tree[u] EXCEPT !.BridgeTimes = t] \in TreeRecs
       BY <3>1, <3>4, TreeFields
    <3>6. QED BY <3>1, <3>5 DEF TreeRecs
  <2>2. QED BY <2>1 DEF ChangeBridgeTimes, TypeOK, MachineTypeOK
<1>3. vec' \in [Ptps -> VecRecs]
  <2>1. ASSUME NEW x \in Ptps
        PROVE  [vec[x] EXCEPT !.portTimes.Hello_Time = HelloTime] \in VecRecs
    <3> DEFINE t == [vec[x].portTimes EXCEPT !.Hello_Time = HelloTime]
    <3>1. vec[x] \in VecRecs BY DEF TypeOK, MachineTypeOK
    <3>2. vec[x].portTimes \in Times BY <3>1, VecFields
    <3>3. t \in Times BY <3>2, TimesFields, BootAssumption
    <3>4. [vec[x] EXCEPT !.portTimes = t] \in VecRecs
       BY <3>1, <3>3, VecFields
    <3>5. QED BY <3>1, <3>4 DEF VecRecs
  <2>2. QED BY <2>1 DEF ChangeBridgeTimes, TypeOK, MachineTypeOK
<1>4. info' \in [Ptps -> InfoRecs] BY ReselectedType DEF ChangeBridgeTimes
<1>5. active' \in Bridges \cup {NoBridge} /\ pos' \in Nat
   BY StartRunTypes DEF ChangeBridgeTimes
<1>6. QED
   BY <1>1, <1>2, <1>3, <1>4, <1>5
   DEF ChangeBridgeTimes, TypeOK, StateTypeOK, MachineTypeOK, machineVars

\* Commands for a bridge or one of its trees.
LEMMA BridgeCommandTypes ==
    ASSUME TypeOK, NEW b \in Bridges, NEW t \in Trees, NEW n \in Nat,
           NEW m \in Nat, NEW version \in Versions,
           \/ MSTP_IN_set_bridge_address(b, n)
           \/ SetMaxAgeAndForwardDelay(b, n, m) \/ SetMaxHops(b, n)
           \/ SetProtocolVersion(b, version) \/ SetTxHoldCount(b, n)
           \/ SetAgeingTime(b, n) \/ MSTP_IN_set_msti_bridge_config(b, t, n)
    PROVE  StateTypeOK'
<1>t. /\ brg \in [Bridges -> BridgeRecs]
      /\ tree \in [BridgeTrees -> TreeRecs]
   BY DEF TypeOK, MachineTypeOK
<1>1. CASE MSTP_IN_set_bridge_address(b, n)
  <2> DEFINE moved == [u \in BridgeTrees |->
                IF u[1] = b
                THEN [tree[u] EXCEPT !.BridgeIdentifier =
                          BridgeIdentifier(BridgePrio(@), n)]
                ELSE tree[u]]
  <2>1. moved \in [BridgeTrees -> TreeRecs]
    <3>1. \A u \in BridgeTrees :
             BridgeIdentifier(BridgePrio(tree[u].BridgeIdentifier), n) \in Nat
       BY <1>t, TreeFields, IdentifierTypes
    <3>2. QED BY <1>t, <3>1, TreeFields
  <2>2. /\ Begin(b, [Current EXCEPT !.tree = moved])
        /\ brg' = brg /\ adm' = adm
     BY <1>1 DEF MSTP_IN_set_bridge_address
  <2> HIDE DEF moved
  <2>3. QED BY <1>t, <2>1, <2>2, BeginCurrentTypes
<1>2. CASE SetMaxAgeAndForwardDelay(b, n, m)
  <2>1. [brg[b] EXCEPT !.Max_Age = n, !.Forward_Delay = m] \in BridgeRecs
     BY <1>t, BridgeFields
  <2>2. QED
     BY <1>2, <2>1, ChangeBridgeTimesTypes DEF SetMaxAgeAndForwardDelay
<1>3. CASE SetMaxHops(b, n)
  <2>1. [brg[b] EXCEPT !.MaxHops = n] \in BridgeRecs BY <1>t, BridgeFields
  <2>2. QED BY <1>3, <2>1, ChangeBridgeTimesTypes DEF SetMaxHops
<1>4. CASE SetProtocolVersion(b, version)
  <2>1. brg' \in [Bridges -> BridgeRecs] /\ adm' = adm
     BY <1>4, <1>t, BridgeFields DEF SetProtocolVersion
  <2>2. Current = [Current EXCEPT !.tree = tree] BY DEF Current
  <2>3. Begin(b, [Current EXCEPT !.tree = tree])
     BY <1>4, <2>2 DEF SetProtocolVersion
  <2>4. QED BY <1>t, <2>1, <2>3, BeginCurrentTypes
<1>5. CASE SetTxHoldCount(b, n)
  <2>1. brg' \in [Bridges -> BridgeRecs]
     BY <1>5, <1>t, BridgeFields DEF SetTxHoldCount
  <2>2. xmt' \in [Ports -> XmtRecs]
     BY <1>5, XmtFields DEF SetTxHoldCount, TypeOK, MachineTypeOK
  <2>3. active' \in Bridges \cup {NoBridge} /\ pos' \in Nat
     BY <1>5, StartRunTypes DEF SetTxHoldCount
  <2>4. QED
     BY <1>5, <2>1, <2>2, <2>3
     DEF SetTxHoldCount, TypeOK, StateTypeOK, MachineTypeOK, machineVars
<1>6. CASE SetAgeingTime(b, n)
  <2>1. brg' \in [Bridges -> BridgeRecs]
     BY <1>6, <1>t, BridgeFields DEF SetAgeingTime
  <2>2. QED
     BY <1>6, <2>1
     DEF SetAgeingTime, TypeOK, StateTypeOK, MachineTypeOK, schedVars,
         portVars, ptpVars
<1>7. CASE MSTP_IN_set_msti_bridge_config(b, t, n)
  <2>1. <<b, t>> \in BridgeTrees BY DEF BridgeTrees
  <2>2. BridgeIdentifier(n, MacAddress(BridgeId(b, t))) \in Nat
    <3>1. BridgeId(b, t) \in Nat BY <1>t, <2>1, TreeFields DEF BridgeId
    <3>2. MacAddress(BridgeId(b, t)) \in Nat BY <3>1, IdentifierTypes
    <3>3. QED BY <3>2, IdentifierTypes
  <2>3. tree' \in [BridgeTrees -> TreeRecs]
     BY <1>7, <1>t, <2>1, <2>2, TreeFields DEF MSTP_IN_set_msti_bridge_config
  <2>4. info' \in [Ptps -> InfoRecs]
     BY <1>7, ReselectedType DEF MSTP_IN_set_msti_bridge_config
  <2>5. QED
     BY <1>7, <2>3, <2>4
     DEF MSTP_IN_set_msti_bridge_config, TypeOK, StateTypeOK, MachineTypeOK,
         schedVars, machineVars
<1>8. QED BY <1>1, <1>2, <1>3, <1>4, <1>5, <1>6, <1>7

\* The flags of a port have Boolean values.
LEMMA FlagTypes ==
    ASSUME NEW r \in AdmRecs, NEW flag \in RunFlags \cup QuietFlags,
           NEW value \in BOOLEAN
    PROVE  [r EXCEPT ![flag] = value] \in AdmRecs
BY DEF RunFlags, QuietFlags, AdmRecs

\* Commands for a port.
LEMMA PortCommandTypes ==
    ASSUME TypeOK, NEW p \in Ports, NEW n \in Nat, NEW p2p \in P2Ps,
           NEW flag, NEW value \in BOOLEAN,
           \/ SetExternalPathCost(p, n) \/ SetAdminP2P(p, p2p)
           \/ SetAdminEdgePort(p, value) \/ SetRunFlag(p, flag, value)
           \/ SetQuietFlag(p, flag, value) \/ MSTP_IN_port_mcheck(p)
    PROVE  StateTypeOK'
<1>t. adm \in [Ports -> AdmRecs] /\ prt \in [Ports -> PrtRecs]
   BY DEF TypeOK, MachineTypeOK
<1>1. CASE SetExternalPathCost(p, n)
  <2>1. EffectiveCost(n, p) \in Nat BY BootAssumption DEF EffectiveCost
  <2>2. adm' \in [Ports -> AdmRecs]
     BY <1>1, <1>t, AdmFields DEF SetExternalPathCost
  <2>3. prt' \in [Ports -> PrtRecs]
     BY <1>1, <1>t, <2>1, PrtFields DEF SetExternalPathCost
  <2>4. info' \in [Ptps -> InfoRecs]
     BY <1>1, ReselectedType DEF SetExternalPathCost, TypeOK, MachineTypeOK
  <2>5. active' \in Bridges \cup {NoBridge} /\ pos' \in Nat
     BY <1>1, RunIfTypes DEF SetExternalPathCost
  <2>6. QED
     BY <1>1, <2>2, <2>3, <2>4, <2>5
     DEF SetExternalPathCost, TypeOK, StateTypeOK, MachineTypeOK, machineVars
<1>2. CASE SetAdminP2P(p, p2p)
  <2>1. EffectiveP2P(p2p, p) \in BOOLEAN BY BootAssumption DEF EffectiveP2P
  <2>2. adm' \in [Ports -> AdmRecs]
     BY <1>2, <1>t, AdmFields DEF SetAdminP2P
  <2>3. prt' \in [Ports -> PrtRecs]
     BY <1>2, <1>t, <2>1, PrtFields DEF SetAdminP2P
  <2>4. active' \in Bridges \cup {NoBridge} /\ pos' \in Nat
     BY <1>2, RunIfTypes DEF SetAdminP2P
  <2>5. QED
     BY <1>2, <2>2, <2>3, <2>4
     DEF SetAdminP2P, TypeOK, StateTypeOK, MachineTypeOK, machineVars
<1>3. CASE SetAdminEdgePort(p, value)
  <2>1. adm' \in [Ports -> AdmRecs]
     BY <1>3, <1>t, AdmFields DEF SetAdminEdgePort
  <2>2. edge' \in [Ports -> EdgeRecs]
    <3>1. EdgeRec(value) \in EdgeRecs BY DEF EdgeRec, EdgeRecs, BDSM_states
    <3>2. QED BY <1>3, <3>1 DEF SetAdminEdgePort, TypeOK, MachineTypeOK
  <2>3. active' \in Bridges \cup {NoBridge} /\ pos' \in Nat
     BY <1>3, RunIfTypes DEF SetAdminEdgePort
  <2>4. QED
     BY <1>3, <2>1, <2>2, <2>3
     DEF SetAdminEdgePort, TypeOK, StateTypeOK, MachineTypeOK
<1>4. CASE SetRunFlag(p, flag, value)
  <2>1. adm' \in [Ports -> AdmRecs]
     BY <1>4, <1>t, FlagTypes DEF SetRunFlag
  <2>2. prt' \in [Ports -> PrtRecs]
     BY <1>4, <1>t, PrtFields DEF SetRunFlag
  <2>3. active' \in Bridges \cup {NoBridge} /\ pos' \in Nat
     BY <1>4, RunIfTypes DEF SetRunFlag
  <2>4. QED
     BY <1>4, <2>1, <2>2, <2>3
     DEF SetRunFlag, TypeOK, StateTypeOK, MachineTypeOK, machineVars
<1>5. CASE SetQuietFlag(p, flag, value)
  <2>1. adm' \in [Ports -> AdmRecs]
     BY <1>5, <1>t, FlagTypes DEF SetQuietFlag
  <2>2. QED
     BY <1>5, <2>1
     DEF SetQuietFlag, TypeOK, StateTypeOK, MachineTypeOK, schedVars,
         portVars, ptpVars
<1>6. CASE MSTP_IN_port_mcheck(p)
  <2>1. mig' \in [Ports -> MigRecs]
     BY <1>6, MigFields DEF MSTP_IN_port_mcheck, TypeOK, MachineTypeOK
  <2>2. info' \in [Ptps -> InfoRecs]
     BY <1>6, CistType, InfoFields
     DEF MSTP_IN_port_mcheck, TypeOK, MachineTypeOK
  <2>3. active' \in Bridges \cup {NoBridge} /\ pos' \in Nat
     BY <1>6, StartRunTypes, TopologyAssumption DEF MSTP_IN_port_mcheck
  <2>4. QED
     BY <1>6, <2>1, <2>2, <2>3
     DEF MSTP_IN_port_mcheck, TypeOK, StateTypeOK, MachineTypeOK
<1>7. QED BY <1>1, <1>2, <1>3, <1>4, <1>5, <1>6

\* Commands for a per-tree port.
LEMMA TreePortCommandTypes ==
    ASSUME TypeOK, NEW x \in Ptps, NEW n \in Nat,
           SetTreePortPriority(x, n) \/ SetInternalPathCost(x, n)
    PROVE  StateTypeOK'
<1>t. vec \in [Ptps -> VecRecs] BY DEF TypeOK, MachineTypeOK
<1>1. ASSUME NEW new \in VecRecs, ChangeTreePort(x, new) PROVE StateTypeOK'
  <2>1. vec' \in [Ptps -> VecRecs] BY <1>1, <1>t DEF ChangeTreePort
  <2>2. info' \in [Ptps -> InfoRecs]
     BY <1>1, ReselectedType DEF ChangeTreePort, TypeOK, MachineTypeOK
  <2>3. active' \in Bridges \cup {NoBridge} /\ pos' \in Nat
     BY <1>1, RunIfTypes, PtpTypes DEF ChangeTreePort
  <2>4. QED
     BY <1>1, <2>1, <2>2, <2>3
     DEF ChangeTreePort, TypeOK, StateTypeOK, MachineTypeOK, machineVars
<1>2. CASE SetTreePortPriority(x, n)
  <2>1. PortIdentifier(n, PortNumber(vec[x].portId)) \in Nat
     BY <1>t, VecFields, IdentifierTypes
  <2>2. [vec[x] EXCEPT !.portId = PortIdentifier(n, PortNumber(@))]
            \in VecRecs
     BY <1>t, <2>1, VecFields
  <2>3. QED BY <1>1, <1>2, <2>2 DEF SetTreePortPriority
<1>3. CASE SetInternalPathCost(x, n)
  <2>1. EffectiveCost(n, PortOf(x)) \in Nat
     BY PtpTypes, BootAssumption DEF EffectiveCost
  <2>2. [vec[x] EXCEPT
           !.AdminInternalPortPathCost = n,
           !.InternalPortPathCost = EffectiveCost(n, PortOf(x))] \in VecRecs
     BY <1>t, <2>1, VecFields
  <2>3. QED BY <1>1, <1>3, <2>2 DEF SetInternalPathCost
<1>4. QED BY <1>2, <1>3

\* Every command mstpctl can give keeps the structures well typed.
LEMMA CommandTypes ==
    ASSUME TypeOK, NEW name, NEW on, NEW value, IsCommand(name, on, value),
           Execute(name, on, value)
    PROVE  StateTypeOK'
<1>n. 0 \in Nat /\ 0 \in Trees /\ protoSTP \in Versions /\ "Auto" \in P2Ps
   BY DEF Trees, Versions, P2Ps
<1>m. \A i \in 0..(MacSpace - 1) : i \in Nat BY SpaceAssumption
<1>1. CASE name = "address" /\ MSTP_IN_set_bridge_address(on, value)
  <2>1. on \in Bridges /\ value \in Nat
     BY <1>1, <1>m DEF IsCommand, RunFlags, QuietFlags
  <2>2. QED BY <1>1, <1>n, <2>1, BridgeCommandTypes
<1>2. CASE name = "times" /\ SetMaxAgeAndForwardDelay(on, value[1], value[2])
  <2>1. on \in Bridges /\ value[1] \in Nat /\ value[2] \in Nat
     BY <1>2 DEF IsCommand, RunFlags, QuietFlags
  <2>2. QED BY <1>2, <1>n, <2>1, BridgeCommandTypes
<1>3. CASE name = "maxhops" /\ SetMaxHops(on, value)
  <2>1. on \in Bridges /\ value \in Nat
     BY <1>3 DEF IsCommand, RunFlags, QuietFlags
  <2>2. QED BY <1>3, <1>n, <2>1, BridgeCommandTypes
<1>4. CASE name = "version" /\ SetProtocolVersion(on, value)
  <2>1. on \in Bridges /\ value \in Versions
     BY <1>4 DEF IsCommand, RunFlags, QuietFlags
  <2>2. QED BY <1>4, <1>n, <2>1, BridgeCommandTypes
<1>5. CASE name = "txholdcount" /\ SetTxHoldCount(on, value)
  <2>1. on \in Bridges /\ value \in Nat
     BY <1>5 DEF IsCommand, RunFlags, QuietFlags
  <2>2. QED BY <1>5, <1>n, <2>1, BridgeCommandTypes
<1>6. CASE name = "ageing" /\ SetAgeingTime(on, value)
  <2>1. on \in Bridges /\ value \in Nat
     BY <1>6 DEF IsCommand, RunFlags, QuietFlags
  <2>2. QED BY <1>6, <1>n, <2>1, BridgeCommandTypes
<1>7. CASE /\ name = "treeprio"
           /\ MSTP_IN_set_msti_bridge_config(on[1], on[2], value)
  <2>1. on[1] \in Bridges /\ on[2] \in Trees /\ value \in Nat
     BY <1>7 DEF IsCommand, RunFlags, QuietFlags, BridgeTrees
  <2>2. QED BY <1>7, <1>n, <2>1, BridgeCommandTypes
<1>8. CASE name = "pathcost" /\ SetExternalPathCost(on, value)
  <2>1. on \in Ports /\ value \in Nat
     BY <1>8 DEF IsCommand, RunFlags, QuietFlags
  <2>2. QED BY <1>8, <1>n, <2>1, PortCommandTypes
<1>9. CASE name = "p2p" /\ SetAdminP2P(on, value)
  <2>1. on \in Ports /\ value \in P2Ps
     BY <1>9 DEF IsCommand, RunFlags, QuietFlags
  <2>2. QED BY <1>9, <1>n, <2>1, PortCommandTypes
<1>10. CASE name = "adminedge" /\ SetAdminEdgePort(on, value)
  <2>1. on \in Ports /\ value \in BOOLEAN
     BY <1>10 DEF IsCommand, RunFlags, QuietFlags
  <2>2. QED BY <1>10, <1>n, <2>1, PortCommandTypes
<1>11. CASE SetRunFlag(on, name, value)
  <2>1. on \in Ports /\ value \in BOOLEAN
     BY <1>11 DEF IsCommand, RunFlags, QuietFlags, SetRunFlag
  <2>2. QED BY <1>11, <1>n, <2>1, PortCommandTypes
<1>12. CASE SetQuietFlag(on, name, value)
  <2>1. on \in Ports /\ value \in BOOLEAN
     BY <1>12 DEF IsCommand, RunFlags, QuietFlags, SetQuietFlag
  <2>2. QED BY <1>12, <1>n, <2>1, PortCommandTypes
<1>13. CASE name = "treeportprio" /\ SetTreePortPriority(on, value)
  <2>1. on \in Ptps /\ value \in Nat
     BY <1>13 DEF IsCommand, RunFlags, QuietFlags
  <2>2. QED BY <1>13, <2>1, TreePortCommandTypes
<1>14. CASE name = "treeportcost" /\ SetInternalPathCost(on, value)
  <2>1. on \in Ptps /\ value \in Nat
     BY <1>14 DEF IsCommand, RunFlags, QuietFlags
  <2>2. QED BY <1>14, <2>1, TreePortCommandTypes
<1>15. CASE name = "mcheck" /\ MSTP_IN_port_mcheck(on)
  <2>1. on \in Ports /\ value \in BOOLEAN
     BY <1>15 DEF IsCommand, RunFlags, QuietFlags
  <2>2. QED BY <1>15, <1>n, <2>1, PortCommandTypes
<1>16. QED
   BY <1>1, <1>2, <1>3, <1>4, <1>5, <1>6, <1>7, <1>8, <1>9, <1>10, <1>11,
      <1>12, <1>13, <1>14, <1>15
   DEF Execute

-----------------------------------------------------------------------------
(* The network. *)

\* Creation of bridges and ports makes well-typed structures.
LEMMA InitTypes == Init => TypeOK
<1> SUFFICES ASSUME Init PROVE TypeOK OBVIOUS
<1>1. NoTimes \in Times BY DEF NoTimes, Times
<1>2. NoPriority \in PriorityVectors BY DEF NoPriority, PriorityVectors
<1>3. ASSUME NEW b \in Bridges PROVE BridgeTimes(BootBridge[b]) \in Times
  <2>1. BootBridge[b] \in BridgeRecs BY BootAssumption
  <2>2. QED BY <2>1, BridgeFields, BootAssumption DEF BridgeTimes, Times
<1>4. ASSUME NEW u \in BridgeTrees PROVE BootId(u) \in Nat
  <2>1. u[1] \in Nat BY TopologyAssumption DEF BridgeTrees
  <2>2. BootPriority[u] \in Nat BY BootAssumption
  <2>3. QED BY <2>1, <2>2, IdentifierTypes DEF BootId
<1>5. tree \in [BridgeTrees -> TreeRecs]
  <2>1. ASSUME NEW u \in BridgeTrees PROVE create_tree(u) \in TreeRecs
    <3>1. u[1] \in Bridges BY DEF BridgeTrees
    <3>2. BridgeTimes(BootBridge[u[1]]) \in Times BY <1>3, <3>1
    <3>3. QED
       BY <1>1, <1>2, <1>4, <3>2 DEF create_tree, TreeRecs, PRSSM_states
  <2>2. QED BY <2>1 DEF Init
<1>6. vec \in [Ptps -> VecRecs]
  <2>1. ASSUME NEW x \in Ptps PROVE create_vec(x) \in VecRecs
    <3>1. BrOf(x) \in Bridges /\ PortOf(x) \in Ports
          /\ TreeOf(x) \in BridgeTrees
       BY PtpTypes
    <3> DEFINE id == BootId(TreeOf(x))
               v == [NoPriority EXCEPT !.RootID = id, !.RRootID = id,
                                       !.DesignatedBridgeID = id]
    <3>2. id \in Nat BY <1>4, <3>1
    <3> HIDE DEF id
    <3>3. v \in PriorityVectors BY <1>2, <3>2, PriorityFields
    <3>4. PortIdentifier(8, PortOf(x)) \in Nat
      <4>1. Ports \subseteq Nat BY TopologyAssumption, SpaceAssumption
      <4>2. PortOf(x) \in Nat BY <3>1, <4>1
      <4>3. QED BY <4>2, IdentifierTypes
    <3>5. BridgeTimes(BootBridge[BrOf(x)]) \in Times BY <1>3, <3>1
    <3>6. PathCost[PortOf(x)] \in Nat BY <3>1, BootAssumption
    <3> HIDE DEF v
    <3>7. create_vec(x) = [ portId |-> PortIdentifier(8, PortOf(x)),
             InternalPortPathCost |-> PathCost[PortOf(x)],
             AdminInternalPortPathCost |-> 0, portPriority |-> v,
             portTimes |-> BridgeTimes(BootBridge[BrOf(x)]),
             designatedPriority |-> NoPriority, designatedTimes |-> NoTimes ]
       BY DEF create_vec, v, id
    <3>8. QED BY <1>1, <1>2, <3>3, <3>4, <3>5, <3>6, <3>7 DEF VecRecs
  <2>2. QED BY <2>1 DEF Init
<1>7. prt \in [Ports -> PrtRecs] BY BootAssumption DEF Init, PrtRecs
<1>8. rcv \in [Ports -> RcvRecs]
   BY BlankBpduType DEF Init, RcvRecs, PRSM_states
<1>9. mig \in [Ports -> MigRecs] BY DEF Init, MigRecs, PPMSM_states
<1>10. edge \in [Ports -> EdgeRecs] BY DEF Init, EdgeRecs, BDSM_states
<1>11. xmt \in [Ports -> XmtRecs] BY DEF Init, XmtRecs, PTSM_states
<1>12. info \in [Ptps -> InfoRecs]
   BY DEF Init, InfoRecs, PISM_states, Origins, Infos
<1>13. role \in [Ptps -> RoleRecs]
   BY DEF Init, RoleRecs, PRTSM_states, DisabledStates, Roles
<1>14. pst \in [Ptps -> PstRecs]
   BY DEF Init, Discarding, PstRecs, PSTSM_states, KernelStates
<1>15. tc \in [Ptps -> TcRecs] BY DEF Init, TcRecs, TCSM_states
<1>16. ageing \in [Bridges -> Nat]
   BY BootAssumption, BridgeFields DEF Init
<1>17. chan \in [Ports -> Seq(Bpdus)] BY DEF Init
<1>18. /\ brg \in [Bridges -> BridgeRecs] /\ adm \in [Ports -> AdmRecs]
       /\ active \in Bridges \cup {NoBridge} /\ pos \in Nat
       /\ due \in SUBSET Bridges /\ budget \in Budgets
   BY BootAssumption, EventAssumption DEF Init
<1>19. QED
   BY <1>5, <1>6, <1>7, <1>8, <1>9, <1>10, <1>11, <1>12, <1>13, <1>14, <1>15,
      <1>16, <1>17, <1>18
   DEF TypeOK, MachineTypeOK

\* Every external event keeps the structures well typed.
LEMMA EventTypes ==
    ASSUME TypeOK, Event
    PROVE  TypeOK'
<1>s. ASSUME StateTypeOK', due' = due, budget' \in Budgets PROVE TypeOK'
   BY <1>s DEF StateTypeOK, TypeOK
<1>b. /\ budget.losses > 0 =>
             [budget EXCEPT !.losses = @ - 1] \in Budgets
      /\ budget.configs > 0 =>
             [budget EXCEPT !.configs = @ - 1] \in Budgets
      /\ budget.flaps > 0 =>
             [budget EXCEPT !.flaps = @ - 1] \in Budgets
  <2>1. /\ budget \in Budgets /\ budget.losses \in Nat
        /\ budget.configs \in Nat /\ budget.flaps \in Nat
     BY BudgetFields DEF TypeOK
  <2>2. /\ budget.losses > 0 => budget.losses - 1 \in Nat
        /\ budget.configs > 0 => budget.configs - 1 \in Nat
        /\ budget.flaps > 0 => budget.flaps - 1 \in Nat
     BY <2>1
  <2>3. QED BY <2>1, <2>2, BudgetFields
<1>1. ASSUME NEW b \in Bridges, MSTP_IN_one_second(b) PROVE TypeOK'
  <2>1. due' \in SUBSET Bridges /\ budget' = budget
     BY <1>1 DEF MSTP_IN_one_second, TypeOK
  <2>2. StateTypeOK'
    <3>1. CASE Tick(b) BY <3>1, TickTypes
    <3>2. CASE DisabledTick(b)
       BY <3>2 DEF DisabledTick, StateTypeOK, TypeOK, MachineTypeOK, schedVars,
                   portVars, ptpVars
    <3>3. QED BY <1>1, <3>1, <3>2 DEF MSTP_IN_one_second
  <2>3. QED BY <2>1, <2>2 DEF StateTypeOK, TypeOK
<1>2. ASSUME NEW b \in Bridges, FlapBridge(b) PROVE TypeOK'
  <2>1. (~brg[b].bridgeEnabled) \in BOOLEAN OBVIOUS
  <2>2. StateTypeOK' BY <1>2, <2>1, BridgeEnableTypes DEF FlapBridge
  <2>3. QED BY <1>2, <1>s, <1>b, <2>2 DEF FlapBridge
<1>3. ASSUME NEW p \in Ports, MSTP_IN_rx_bpdu(p) PROVE TypeOK'
  <2>1. StateTypeOK' BY <1>3, RxTypes
  <2>2. QED BY <1>3, <1>s, <2>1 DEF MSTP_IN_rx_bpdu, envVars, TypeOK
<1>4. ASSUME NEW p \in Ports, Lose(p) PROVE TypeOK'
  <2>1. chan' \in [Ports -> Seq(Bpdus)] BY <1>4, DeliveryTypes DEF Lose
  <2>2. budget' \in Budgets BY <1>4, <1>b DEF Lose
  <2>3. QED
     BY <1>4, <2>1, <2>2
     DEF Lose, TypeOK, MachineTypeOK, schedVars, portVars, ptpVars
<1>5. ASSUME NEW p \in Ports, FlapPort(p) PROVE TypeOK'
  <2>1. StateTypeOK' BY <1>5, PortEnableTypes DEF FlapPort
  <2>2. QED BY <1>5, <1>s, <1>b, <2>1 DEF FlapPort
<1>6. ASSUME NEW p \in Ports, ShutDown(p) PROVE TypeOK'
  <2>1. StateTypeOK' BY <1>6, PortEnableTypes DEF ShutDown
  <2>2. QED BY <1>6, <1>s, <2>1 DEF ShutDown, envVars, TypeOK
<1>7. ASSUME NEW c \in Commands, Tell(c) PROVE TypeOK'
  <2>1. StateTypeOK' BY <1>7, EventAssumption, CommandTypes DEF Tell
  <2>2. QED BY <1>7, <1>s, <1>b, <2>1 DEF Tell
<1>8. QED BY <1>1, <1>2, <1>3, <1>4, <1>5, <1>6, <1>7 DEF Event

\* In every network, with any number of bridges, ports and trees, whatever
\* the timers, costs and commands are, every member of every structure of
\* mstp.h keeps its type: the machines only take states mstp.h names and no
\* timer, hop count or budget is decremented below zero.
THEOREM TypeCorrect == Spec => []TypeOK
<1>1. Init => TypeOK BY InitTypes
<1>2. TypeOK /\ [Next]_vars => TypeOK'
  <2> SUFFICES ASSUME TypeOK, [Next]_vars PROVE TypeOK' OBVIOUS
  <2>1. CASE Run BY <2>1, RunTypes DEF Run
  <2>2. CASE Event BY <2>2, EventTypes
  <2>3. CASE UNCHANGED vars
     BY <2>3 DEF vars, schedVars, portVars, ptpVars, envVars, TypeOK,
                 MachineTypeOK
  <2>4. QED BY <2>1, <2>2, <2>3 DEF Next
<1>3. QED BY <1>1, <1>2, PTL DEF Spec

-----------------------------------------------------------------------------
(* The comparison of priority vectors is a total order on the components   *)
(* a tree uses, so "the best vector" that role selection looks for is well *)
(* defined whatever the order in which the ports are visited.              *)

\* Of two vectors one is better than, or the same as, the other:
\* betterorsamePriority never rejects both ways.
THEOREM PriorityTotal ==
    ASSUME NEW v \in PriorityVectors, NEW w \in PriorityVectors,
           NEW i \in Nat, NEW j \in Nat, NEW cist \in BOOLEAN
    PROVE  \/ betterorsamePriority(v, w, i, j, cist)
           \/ betterorsamePriority(w, v, j, i, cist)
BY DEF betterorsamePriority, Precedes, PriorityVectors

\* Better-or-same is transitive: the running best of updtRolesTree is better
\* than or the same as every vector it has ever been compared with.
THEOREM PriorityTransitive ==
    ASSUME NEW u \in PriorityVectors, NEW v \in PriorityVectors,
           NEW w \in PriorityVectors,
           NEW i \in Nat, NEW j \in Nat, NEW k \in Nat, NEW cist \in BOOLEAN,
           betterorsamePriority(u, v, i, j, cist),
           betterorsamePriority(v, w, j, k, cist)
    PROVE  betterorsamePriority(u, w, i, k, cist)
BY DEF betterorsamePriority, Precedes, PriorityVectors

\* Two vectors that are each better than or the same as the other have the
\* same port identifier and agree on every component the tree compares.
THEOREM PriorityAntisymmetric ==
    ASSUME NEW v \in PriorityVectors, NEW w \in PriorityVectors,
           NEW i \in Nat, NEW j \in Nat, NEW cist \in BOOLEAN,
           betterorsamePriority(v, w, i, j, cist),
           betterorsamePriority(w, v, j, i, cist)
    PROVE  /\ i = j
           /\ cist => /\ v.RootID = w.RootID
                      /\ v.ExtRootPathCost = w.ExtRootPathCost
           /\ v.RRootID = w.RRootID
           /\ v.IntRootPathCost = w.IntRootPathCost
           /\ v.DesignatedBridgeID = w.DesignatedBridgeID
           /\ v.DesignatedPortID = w.DesignatedPortID
BY DEF betterorsamePriority, Precedes, PriorityVectors
=============================================================================
