----------------------------- MODULE MstpState ------------------------------
(***************************************************************************)
(* The state of a network of mstpd bridges: the structures bridge_t,       *)
(* tree_t, port_t and per_tree_port_t of mstp.h.  The members are grouped  *)
(* by the state machine that owns them, one variable per machine.          *)
(*                                                                         *)
(* A port is a positive natural, unique in the network; a bridge lists its *)
(* ports in increasing order, and the port is its own port number.  A tree *)
(* is its MSTID, 0 being the CIST.  A per-tree port ("ptp") is a pair      *)
(* <<port, MSTID>>.                                                        *)
(***************************************************************************)
EXTENDS PriorityVector, Sequences, FiniteSets

CONSTANTS
    Bridges, Ports,     \* positive naturals
    Mstis,              \* the MSTIDs of the MSTIs, the same on every bridge
    BridgeOf,           \* the bridge a port belongs to
    Peer,               \* the port at the other end of the link, or NoPort
    HelloTime,          \* br->Hello_Time, the same on every bridge
    MigrateTime,        \* br->Migrate_Time
    MaxCost,            \* stands for UINT32_MAX, where path costs saturate
    AgeModulus,         \* stands for 256: times_t.Message_Age is a __u8
    PathCost,           \* compute_pcost() of the speed of the port
    Duplex,             \* the duplex mode ethtool reports for the port
    BootBridge,         \* configuration a bridge starts with
    BootPriority,       \* bridge priority of <<bridge, MSTID>>
    BootPort            \* configuration a port starts with

NoBridge == 0
NoPort == 0

Trees == {0} \cup Mstis
Ptps == Ports \X Trees
BridgeTrees == Bridges \X Trees

ASSUME TopologyAssumption ==
    /\ Bridges \subseteq Nat \ {0}
    /\ Ports \subseteq 1..(PortSpace - 1)
    /\ Mstis \subseteq Nat \ {0}
    /\ BridgeOf \in [Ports -> Bridges]
    /\ Peer \in [Ports -> Ports \cup {NoPort}]

\* A link has two ends.
ASSUME LinkAssumption == \A p \in Ports : Peer[p] # NoPort => Peer[Peer[p]] = p

VARIABLES
    active,     \* the bridge whose br_state_machines_run is in progress
    pos,        \* rank of the machine the pass of that run has reached
    brg,        \* bridge_t
    tree,       \* tree_t
    adm,        \* port_t: configuration
    prt,        \* port_t: link state, bridge assurance, rapid ageing
    rcv,        \* port_t: Port Receive machine and the BPDU it holds
    mig,        \* port_t: Port Protocol Migration machine
    edge,       \* port_t: Bridge Detection machine
    xmt,        \* port_t: Port Transmit machine
    info,       \* per_tree_port_t: Port Information machine
    vec,        \* per_tree_port_t: vectors, times, identifier, cost
    role,       \* per_tree_port_t: Port Role Transitions machine
    pst,        \* per_tree_port_t: Port State Transition machine
    tc,         \* per_tree_port_t: Topology Change machine
    ageing,     \* ageing time of the kernel bridge
    chan,       \* BPDUs on their way to a port
    due,        \* bridges whose timer has not yet ticked in this second
    budget      \* how many more of the bounded events may happen

schedVars == <<active, pos>>
portVars == <<prt, rcv, mig, edge, xmt>>
ptpVars == <<info, vec, role, pst, tc>>
envVars == <<due, budget>>
vars == <<schedVars, brg, tree, adm, portVars, ptpVars, ageing, chan, envVars>>

-----------------------------------------------------------------------------
\* Navigation in the structures.
PortOf(x) == x[1]
Mstid(x) == x[2]
IsCist(x) == Mstid(x) = 0
BrOf(x) == BridgeOf[PortOf(x)]
Cist(p) == <<p, 0>>
CistOf(x) == Cist(PortOf(x))
TreeOf(x) == <<BrOf(x), Mstid(x)>>

PortsOf(b) == {p \in Ports : BridgeOf[p] = b}
PtpsOfPort(p) == {x \in Ptps : PortOf(x) = p}
MstiPtps(p) == {x \in Ptps : PortOf(x) = p /\ Mstid(x) # 0}
PtpsOfTree(b, t) == {x \in Ptps : BrOf(x) = b /\ Mstid(x) = t}

-----------------------------------------------------------------------------
\* Enumerations of mstp.h.
protoSTP == 0
protoRSTP == 2
protoMSTP == 3
Versions == {protoSTP, protoRSTP, protoMSTP}

Roles == {"Disabled", "Root", "Designated", "Alternate", "Backup", "Master"}
EncodedRoles == {"Master", "AlternateBackup", "Root", "Designated"}
Origins == {"Disabled", "Aged", "Mine", "Received"}
Infos == {"SuperiorDesignated", "RepeatedDesignated", "InferiorDesignated",
          "InferiorRootAlternate", "Other"}
P2Ps == {"Auto", "ForceTrue", "ForceFalse"}
KernelStates == {"DISABLED", "BLOCKING", "LEARNING", "FORWARDING"}

PRSM_states == {"DISCARD", "RECEIVE"}
PPMSM_states == {"CHECKING_RSTP", "SELECTING_STP", "SENSING"}
BDSM_states == {"EDGE", "NOT_EDGE"}
PTSM_states == {"TRANSMIT_INIT", "TRANSMIT_CONFIG", "TRANSMIT_TCN",
                "TRANSMIT_RSTP", "TRANSMIT_PERIODIC", "IDLE"}
PISM_states == {"DISABLED", "AGED", "UPDATE", "SUPERIOR_DESIGNATED",
                "REPEATED_DESIGNATED", "INFERIOR_DESIGNATED",
                "NOT_DESIGNATED", "OTHER", "CURRENT", "RECEIVE"}
PRSSM_states == {"INIT_TREE", "ROLE_SELECTION"}
PSTSM_states == {"DISCARDING", "LEARNING", "FORWARDING"}
TCSM_states == {"INACTIVE", "LEARNING", "DETECTED", "NOTIFIED_TCN",
                "NOTIFIED_TC", "PROPAGATING", "ACKNOWLEDGED", "ACTIVE"}

\* The Port Role Transitions states, grouped by the role they belong to.
DisabledStates == {"INIT_PORT", "DISABLE_PORT", "DISABLED_PORT"}
MasterStates == {"MASTER_PROPOSED", "MASTER_AGREED", "MASTER_SYNCED",
                 "MASTER_RETIRED", "MASTER_FORWARD", "MASTER_LEARN",
                 "MASTER_DISCARD", "MASTER_PORT"}
RootStates == {"ROOT_PROPOSED", "ROOT_AGREED", "ROOT_SYNCED", "REROOT",
               "ROOT_FORWARD", "ROOT_LEARN", "REROOTED", "ROOT_PORT"}
DesignatedStates == {"DESIGNATED_PROPOSE", "DESIGNATED_AGREED",
                     "DESIGNATED_SYNCED", "DESIGNATED_RETIRED",
                     "DESIGNATED_FORWARD", "DESIGNATED_LEARN",
                     "DESIGNATED_DISCARD", "DESIGNATED_PORT"}
AlternateStates == {"BLOCK_PORT", "BACKUP_PORT", "ALTERNATE_PROPOSED",
                    "ALTERNATE_AGREED", "ALTERNATE_PORT"}
PRTSM_states == DisabledStates \cup MasterStates \cup RootStates
                \cup DesignatedStates \cup AlternateStates

-----------------------------------------------------------------------------
\* A BPDU: the fields the receiver looks at.  A TCN carries only its type.
MstiMessages ==
    [ role: EncodedRoles, tc: BOOLEAN, proposal: BOOLEAN, learning: BOOLEAN,
      agreement: BOOLEAN, master: BOOLEAN, RRootID: Nat, IntRootPathCost: Nat,
      bridgePriority: Nat, portPriority: Nat, remainingHops: Nat ]

Bpdus ==
    [ version: Versions, type: {"TCN", "Config", "RST"}, role: EncodedRoles,
      tc: BOOLEAN, tcAck: BOOLEAN, proposal: BOOLEAN, learning: BOOLEAN,
      agreement: BOOLEAN, RootID: Nat, ExtRootPathCost: Nat, RRootID: Nat,
      PortID: Nat, MessageAge: Nat, MaxAge: Nat, HelloTime: Nat,
      ForwardDelay: Nat, MstConfigId: Nat, IntRootPathCost: Nat,
      BridgeID: Nat, RemainingHops: Nat, msti: [Mstis -> MstiMessages] ]

-----------------------------------------------------------------------------
\* The types of the structures.
BridgeRecs ==
    [ bridgeEnabled: BOOLEAN, ForceProtocolVersion: Versions, MaxHops: Nat,
      Forward_Delay: Nat, Max_Age: Nat, Transmit_Hold_Count: Nat,
      Ageing_Time: Nat, MstConfigId: Nat ]

TreeRecs ==
    [ PRSSM: PRSSM_states, BridgeIdentifier: Nat, BridgeTimes: Times,
      rootPortId: Nat, rootPriority: PriorityVectors, rootTimes: Times,
      topology_change: BOOLEAN ]

AdmRecs ==
    [ AdminExternalPortPathCost: Nat, AdminP2P: P2Ps, AdminEdgePort: BOOLEAN,
      AutoEdge: BOOLEAN, restrictedRole: BOOLEAN, restrictedTcn: BOOLEAN,
      BpduGuardPort: BOOLEAN, NetworkPort: BOOLEAN, dontTxmtBpdu: BOOLEAN,
      bpduFilterPort: BOOLEAN ]

PrtRecs ==
    [ portEnabled: BOOLEAN, operPointToPointMAC: BOOLEAN,
      ExternalPortPathCost: Nat, BpduGuardError: BOOLEAN,
      BaInconsistent: BOOLEAN, brAssuRcvdInfoWhile: Nat,
      rapidAgeingWhile: Nat ]

RcvRecs ==
    [ PRSM: PRSM_states, rcvdBpdu: BOOLEAN, rcvdInternal: BOOLEAN,
      infoInternal: BOOLEAN, rcvdTcn: BOOLEAN, rcvdTcAck: BOOLEAN,
      edgeDelayWhile: Nat, bpdu: Bpdus ]

MigRecs ==
    [ PPMSM: PPMSM_states, rcvdRSTP: BOOLEAN, rcvdSTP: BOOLEAN,
      sendRSTP: BOOLEAN, mcheck: BOOLEAN, mdelayWhile: Nat ]

EdgeRecs == [ BDSM: BDSM_states, operEdge: BOOLEAN ]

XmtRecs ==
    [ PTSM: PTSM_states, newInfo: BOOLEAN, newInfoMsti: BOOLEAN,
      tcAck: BOOLEAN, txCount: Nat, helloWhen: Nat ]

InfoRecs ==
    [ PISM: PISM_states, infoIs: Origins, rcvdInfo: Infos, rcvdMsg: BOOLEAN,
      proposed: BOOLEAN, proposing: BOOLEAN, agree: BOOLEAN, agreed: BOOLEAN,
      disputed: BOOLEAN, mastered: BOOLEAN, updtInfo: BOOLEAN,
      reselect: BOOLEAN, selected: BOOLEAN, rcvdInfoWhile: Nat ]

VecRecs ==
    [ portId: Nat, InternalPortPathCost: Nat, AdminInternalPortPathCost: Nat,
      portPriority: PriorityVectors, portTimes: Times,
      designatedPriority: PriorityVectors, designatedTimes: Times ]

RoleRecs ==
    [ PRTSM: PRTSM_states, role: Roles, selectedRole: Roles, learn: BOOLEAN,
      forward: BOOLEAN, sync: BOOLEAN, synced: BOOLEAN, reRoot: BOOLEAN,
      fdWhile: Nat, rrWhile: Nat, rbWhile: Nat ]

PstRecs ==
    [ PSTSM: PSTSM_states, learning: BOOLEAN, forwarding: BOOLEAN,
      state: KernelStates ]

TcRecs ==
    [ TCSM: TCSM_states, rcvdTc: BOOLEAN, tcProp: BOOLEAN, tcWhile: Nat ]

Budgets == [ flaps: Nat, losses: Nat, stalls: Nat, configs: Nat ]

ASSUME BootAssumption ==
    /\ HelloTime \in Nat /\ MigrateTime \in Nat \ {0}
    /\ MaxCost \in Nat /\ AgeModulus \in Nat \ {0}
    /\ PathCost \in [Ports -> Nat] /\ Duplex \in [Ports -> BOOLEAN]
    /\ BootBridge \in [Bridges -> BridgeRecs]
    /\ \A b \in Bridges : ~BootBridge[b].bridgeEnabled
    /\ BootPriority \in [BridgeTrees -> Nat]
    /\ BootPort \in [Ports -> AdmRecs]

\* What the state machines write.
MachineTypeOK ==
    /\ tree \in [BridgeTrees -> TreeRecs]
    /\ prt \in [Ports -> PrtRecs]
    /\ rcv \in [Ports -> RcvRecs]
    /\ mig \in [Ports -> MigRecs]
    /\ edge \in [Ports -> EdgeRecs]
    /\ xmt \in [Ports -> XmtRecs]
    /\ info \in [Ptps -> InfoRecs]
    /\ vec \in [Ptps -> VecRecs]
    /\ role \in [Ptps -> RoleRecs]
    /\ pst \in [Ptps -> PstRecs]
    /\ tc \in [Ptps -> TcRecs]
    /\ ageing \in [Bridges -> Nat]
    /\ chan \in [Ports -> Seq(Bpdus)]

TypeOK ==
    /\ active \in Bridges \cup {NoBridge} /\ pos \in Nat
    /\ brg \in [Bridges -> BridgeRecs]
    /\ adm \in [Ports -> AdmRecs]
    /\ MachineTypeOK
    /\ due \in SUBSET Bridges
    /\ budget \in Budgets

-----------------------------------------------------------------------------
\* Conditions several machines share.
rstpVersion(b) == brg[b].ForceProtocolVersion >= protoRSTP

assurancePort(p) == /\ adm[p].NetworkPort
                    /\ prt[p].operPointToPointMAC
                    /\ mig[p].sendRSTP

\* The role of x is chosen and its information is up to date.
Settled(x) == info[x].selected /\ ~info[x].updtInfo

\* newInfoXst = TRUE: newInfo for the CIST, newInfoMsti for an MSTI.
XmtWithNewInfo(x) ==
    IF IsCist(x) THEN [xmt EXCEPT ![PortOf(x)] = [@ EXCEPT !.newInfo = TRUE]]
                 ELSE [xmt EXCEPT ![PortOf(x)] =
                        [@ EXCEPT !.newInfoMsti = TRUE]]

\* Timer values derived from the times of the CIST (13.25 of 802.1Q).
PortHelloTime(p) == vec[Cist(p)].portTimes.Hello_Time
FwdDelay(p) == vec[Cist(p)].designatedTimes.Forward_Delay
MaxAge(p) == vec[Cist(p)].designatedTimes.Max_Age
forwardDelay(p) == IF mig[p].sendRSTP THEN PortHelloTime(p) ELSE FwdDelay(p)

\* Mutant: a timer that is not running is decremented too.
Decremented_unguarded(n) == n - 1

Decremented(n) == IF n = 0 THEN 0 ELSE n - 1
=============================================================================
