---------------------------- MODULE PortMachines ----------------------------
(***************************************************************************)
(* The per-port state machines of mstp.c: bridge assurance check, Port     *)
(* Receive (PRSM), Port Protocol Migration (PPMSM), Bridge Detection       *)
(* (BDSM) and Port Transmit (PTSM).                                        *)
(*                                                                         *)
(* For every machine M, M_run(p) is the state the machine would enter now, *)
(* or None: the answer of M_run(prt, dry_run = true).  M_to_S(p) is the    *)
(* transition into state S.                                                *)
(***************************************************************************)
EXTENDS MstpState

None == "None"

-----------------------------------------------------------------------------
\* Mutant: the test of BaInconsistent is inverted.
BA_run_inverted(p) ==
    IF /\ prt[p].portEnabled /\ assurancePort(p)
       /\ prt[p].brAssuRcvdInfoWhile = 0 /\ prt[p].BaInconsistent
    THEN "INCONSISTENT" ELSE None

\* Bridge assurance: a network port that has heard no BPDU for three hello
\* times becomes inconsistent.
BA_run(p) ==
    IF /\ prt[p].portEnabled /\ assurancePort(p)
       /\ prt[p].brAssuRcvdInfoWhile = 0 /\ ~prt[p].BaInconsistent
    THEN "INCONSISTENT" ELSE None

BA_to_INCONSISTENT(p) ==
    /\ BA_run(p) = "INCONSISTENT"
    /\ prt' = [prt EXCEPT ![p] = [@ EXCEPT !.BaInconsistent = TRUE]]
    /\ UNCHANGED <<rcv, mig, edge, xmt, ptpVars, tree, ageing, chan>>

-----------------------------------------------------------------------------
\* 13.28 Port Receive state machine.
rcvdAnyMsg(p) == \E x \in PtpsOfPort(p) : info[x].rcvdMsg

\* Mutant: RECEIVE is not entered again from RECEIVE.
PRSM_run_once(p) ==
    IF (rcv[p].rcvdBpdu \/ rcv[p].edgeDelayWhile # MigrateTime)
       /\ ~prt[p].portEnabled
    THEN "DISCARD"
    ELSE IF rcv[p].rcvdBpdu /\ prt[p].portEnabled /\ rcv[p].PRSM = "DISCARD"
         THEN "RECEIVE" ELSE None

PRSM_run(p) ==
    IF (rcv[p].rcvdBpdu \/ rcv[p].edgeDelayWhile # MigrateTime)
       /\ ~prt[p].portEnabled
    THEN "DISCARD"
    ELSE IF /\ rcv[p].rcvdBpdu /\ prt[p].portEnabled
            /\ rcv[p].PRSM = "RECEIVE" => ~rcvdAnyMsg(p)
         THEN "RECEIVE" ELSE None

PRSM_to_DISCARD(p) ==
    /\ PRSM_run(p) = "DISCARD"
    /\ rcv' = [rcv EXCEPT ![p] =
                [@ EXCEPT !.PRSM = "DISCARD", !.rcvdBpdu = FALSE,
                          !.edgeDelayWhile = MigrateTime]]
    /\ mig' = [mig EXCEPT ![p] =
                [@ EXCEPT !.rcvdRSTP = FALSE, !.rcvdSTP = FALSE]]
    /\ info' = [x \in Ptps |-> IF PortOf(x) = p
                               THEN [info[x] EXCEPT !.rcvdMsg = FALSE]
                               ELSE info[x]]
    /\ UNCHANGED <<prt, edge, xmt, vec, role, pst, tc, tree, ageing, chan>>

\* 13.26.4: an MST BPDU of this bridge's own region.
fromSameRegion(p) ==
    /\ rcv[p].bpdu.version >= protoMSTP
    /\ rcv[p].bpdu.MstConfigId = brg[BridgeOf[p]].MstConfigId

\* updtBPDUVersion and setRcvdMsgs included: the CIST always gets the
\* message, an MSTI only when it comes from the region.
PRSM_to_RECEIVE(p) ==
    /\ PRSM_run(p) = "RECEIVE"
    /\ rcv' = [rcv EXCEPT ![p] =
                [@ EXCEPT !.PRSM = "RECEIVE", !.rcvdBpdu = FALSE,
                          !.rcvdInternal = fromSameRegion(p),
                          !.edgeDelayWhile = MigrateTime]]
    /\ mig' = IF rcv[p].bpdu.version >= protoRSTP
              THEN [mig EXCEPT ![p] = [@ EXCEPT !.rcvdRSTP = TRUE]]
              ELSE [mig EXCEPT ![p] = [@ EXCEPT !.rcvdSTP = TRUE]]
    /\ info' = [x \in Ptps |-> IF PortOf(x) = p
                                  /\ (IsCist(x) \/ fromSameRegion(p))
                               THEN [info[x] EXCEPT !.rcvdMsg = TRUE]
                               ELSE info[x]]
    /\ edge' = [edge EXCEPT ![p] = [@ EXCEPT !.operEdge = FALSE]]
    /\ UNCHANGED <<prt, xmt, vec, role, pst, tc, tree, ageing, chan>>

-----------------------------------------------------------------------------
\* 13.29 Port Protocol Migration state machine.
PPMSM_run(p) ==
    LET m == mig[p]
        up == prt[p].portEnabled
    IN  CASE m.PPMSM = "CHECKING_RSTP" ->
                IF m.mdelayWhile # MigrateTime /\ ~up THEN "CHECKING_RSTP"
                ELSE IF m.mdelayWhile = 0 THEN "SENSING" ELSE None
          [] m.PPMSM = "SELECTING_STP" ->
                IF m.mdelayWhile = 0 \/ ~up \/ m.mcheck
                THEN "SENSING" ELSE None
          [] m.PPMSM = "SENSING" ->
                IF \/ ~up \/ m.mcheck
                   \/ rstpVersion(BridgeOf[p]) /\ ~m.sendRSTP /\ m.rcvdRSTP
                THEN "CHECKING_RSTP"
                ELSE IF m.sendRSTP /\ m.rcvdSTP THEN "SELECTING_STP" ELSE None

PPMSM_only == UNCHANGED <<prt, rcv, edge, xmt, ptpVars, tree, ageing, chan>>

\* The record PPMSM_to_CHECKING_RSTP leaves behind; also its begin state.
CheckingRstp(m, rstp) == [m EXCEPT !.PPMSM = "CHECKING_RSTP", !.mcheck = FALSE,
                                !.sendRSTP = rstp,
                                !.mdelayWhile = MigrateTime]

PPMSM_to_CHECKING_RSTP(p) ==
    /\ PPMSM_run(p) = "CHECKING_RSTP"
    /\ mig' = [mig EXCEPT ![p] = CheckingRstp(@, rstpVersion(BridgeOf[p]))]
    /\ PPMSM_only

PPMSM_to_SELECTING_STP(p) ==
    /\ PPMSM_run(p) = "SELECTING_STP"
    /\ mig' = [mig EXCEPT ![p] =
                [@ EXCEPT !.PPMSM = "SELECTING_STP", !.sendRSTP = FALSE,
                          !.mdelayWhile = MigrateTime]]
    /\ PPMSM_only

PPMSM_to_SENSING(p) ==
    /\ PPMSM_run(p) = "SENSING"
    /\ mig' = [mig EXCEPT ![p] =
                [@ EXCEPT !.PPMSM = "SENSING", !.rcvdRSTP = FALSE,
                          !.rcvdSTP = FALSE]]
    /\ PPMSM_only

-----------------------------------------------------------------------------
\* 13.30 Bridge Detection state machine.
BDSM_run(p) ==
    LET up == prt[p].portEnabled
    IN  CASE edge[p].BDSM = "EDGE" ->
                IF \/ (~up \/ ~adm[p].AutoEdge) /\ ~adm[p].AdminEdgePort
                   \/ ~edge[p].operEdge
                THEN "NOT_EDGE" ELSE None
          [] edge[p].BDSM = "NOT_EDGE" ->
                IF \/ ~up /\ adm[p].AdminEdgePort
                   \/ /\ rcv[p].edgeDelayWhile = 0 /\ adm[p].AutoEdge
                      /\ mig[p].sendRSTP /\ info[Cist(p)].proposing
                THEN "EDGE" ELSE None

\* Enters EDGE or NOT_EDGE; operEdge follows the state.
EdgeRec(isEdge) == [BDSM |-> IF isEdge THEN "EDGE" ELSE "NOT_EDGE",
                    operEdge |-> isEdge]

BDSM_to_EDGE(p) ==
    /\ BDSM_run(p) = "EDGE"
    /\ edge' = [edge EXCEPT ![p] = EdgeRec(TRUE)]
    /\ UNCHANGED <<prt, rcv, mig, xmt, ptpVars, tree, ageing, chan>>

BDSM_to_NOT_EDGE(p) ==
    /\ BDSM_run(p) = "NOT_EDGE"
    /\ edge' = [edge EXCEPT ![p] = EdgeRec(FALSE)]
    /\ UNCHANGED <<prt, rcv, mig, xmt, ptpVars, tree, ageing, chan>>

-----------------------------------------------------------------------------
\* 13.31 Port Transmit state machine: the BPDUs.
EncodedRole(r) == CASE r = "Root" -> "Root"
                    [] r = "Designated" -> "Designated"
                    [] r = "Master" -> "Master"
                    [] OTHER -> "AlternateBackup"

MstiMessage(x) ==
    LET d == vec[x].designatedPriority
    IN  [ role |-> EncodedRole(role[x].role), tc |-> tc[x].tcWhile # 0,
          proposal |-> info[x].proposing, learning |-> pst[x].learning,
          agreement |-> info[x].agree, master |-> FALSE,
          RRootID |-> d.RRootID, IntRootPathCost |-> d.IntRootPathCost,
          bridgePriority |-> BridgePrio(d.DesignatedBridgeID),
          portPriority |-> PortPrio(d.DesignatedPortID),
          remainingHops |-> vec[x].designatedTimes.remainingHops ]

NoMstiMessage ==
    [ role |-> "AlternateBackup", tc |-> FALSE, proposal |-> FALSE,
      learning |-> FALSE, agreement |-> FALSE, master |-> FALSE,
      RRootID |-> 0, IntRootPathCost |-> 0, bridgePriority |-> 0,
      portPriority |-> 0, remainingHops |-> 0 ]

BlankBpdu ==
    [ version |-> protoSTP, type |-> "TCN", role |-> "Designated",
      tc |-> FALSE, tcAck |-> FALSE, proposal |-> FALSE, learning |-> FALSE,
      agreement |-> FALSE, RootID |-> 0, ExtRootPathCost |-> 0, RRootID |-> 0,
      PortID |-> 0, MessageAge |-> 0, MaxAge |-> 0, HelloTime |-> 0,
      ForwardDelay |-> 0, MstConfigId |-> 0, IntRootPathCost |-> 0,
      BridgeID |-> 0, RemainingHops |-> 0,
      msti |-> [t \in Mstis |-> NoMstiMessage] ]

\* The fields a Configuration BPDU and an RST BPDU fill in alike.
CistFields(b, p) ==
    LET c == Cist(p)
        d == vec[c].designatedPriority
        times == vec[c].designatedTimes
    IN  [ b EXCEPT !.tc = (tc[c].tcWhile # 0), !.RootID = d.RootID,
                   !.ExtRootPathCost = d.ExtRootPathCost,
                   !.PortID = d.DesignatedPortID,
                   !.MessageAge = times.Message_Age, !.MaxAge = times.Max_Age,
                   !.HelloTime = PortHelloTime(p),
                   !.ForwardDelay = times.Forward_Delay ]

txTcn(p) == BlankBpdu

txConfig(p) ==
    [ CistFields(BlankBpdu, p) EXCEPT
        !.type = "Config", !.tcAck = xmt[p].tcAck,
        !.RRootID = vec[Cist(p)].designatedPriority.DesignatedBridgeID ]

\* An RST BPDU, with the MST fields unless the bridge is forced to RSTP.
txMstp(p) ==
    LET c == Cist(p)
        d == vec[c].designatedPriority
        rst == [ CistFields(BlankBpdu, p) EXCEPT
                   !.type = "RST", !.version = protoRSTP,
                   !.role = EncodedRole(role[c].role),
                   !.proposal = info[c].proposing,
                   !.learning = pst[c].learning, !.agreement = info[c].agree,
                   !.RRootID = d.RRootID ]
    IN  IF brg[BridgeOf[p]].ForceProtocolVersion < protoMSTP THEN rst
        ELSE [ rst EXCEPT
                 !.version = protoMSTP,
                 !.MstConfigId = brg[BridgeOf[p]].MstConfigId,
                 !.IntRootPathCost = d.IntRootPathCost,
                 !.BridgeID = d.DesignatedBridgeID,
                 !.RemainingHops = vec[c].designatedTimes.remainingHops,
                 !.msti = [t \in Mstis |-> MstiMessage(<<p, t>>)] ]

\* MSTP_OUT_tx_bpdu; nothing leaves a port that is Disabled or muted, and
\* nothing arrives at a port whose link is down.
ChanAfterTx(p, bpdu) ==
    LET q == Peer[p]
    IN  IF \/ role[Cist(p)].role = "Disabled" \/ adm[p].dontTxmtBpdu
           \/ q = NoPort
        THEN chan
        ELSE IF prt[q].portEnabled
             THEN [chan EXCEPT ![q] = Append(@, bpdu)] ELSE chan

-----------------------------------------------------------------------------
\* 13.31 Port Transmit state machine: the transitions.
allTransmitReady(p) == \A x \in PtpsOfPort(p) : Settled(x)
mstiMasterPort(p) == \E x \in MstiPtps(p) : role[x].role = "Master"

\* Mutant: one BPDU too many.
HoldCountReached_oneMore(p) ==
    xmt[p].txCount > brg[BridgeOf[p]].Transmit_Hold_Count

HoldCountReached(p) == xmt[p].txCount >= brg[BridgeOf[p]].Transmit_Hold_Count

PTSM_run(p) ==
    LET s == xmt[p]
        cistRole == role[Cist(p)].role
    IN  IF ~prt[p].portEnabled
        THEN IF \/ s.PTSM # "TRANSMIT_INIT" \/ ~s.newInfo \/ ~s.newInfoMsti
                \/ s.txCount # 0
             THEN "TRANSMIT_INIT" ELSE None
        ELSE IF s.PTSM # "IDLE" THEN "IDLE"
        ELSE IF ~allTransmitReady(p) THEN None
        ELSE IF s.helloWhen = 0 THEN "TRANSMIT_PERIODIC"
        ELSE IF HoldCountReached(p) \/ adm[p].bpduFilterPort THEN None
        ELSE IF mig[p].sendRSTP
             THEN IF \/ s.newInfo \/ (s.newInfoMsti /\ ~mstiMasterPort(p))
                     \/ assurancePort(p)
                  THEN "TRANSMIT_RSTP" ELSE None
        ELSE IF s.newInfo /\ cistRole = "Designated" THEN "TRANSMIT_CONFIG"
        ELSE IF s.newInfo /\ cistRole = "Root" THEN "TRANSMIT_TCN"
        ELSE None

PTSM_only == UNCHANGED <<prt, rcv, mig, edge, ptpVars, tree, ageing>>

\* The record PTSM_to_TRANSMIT_INIT leaves behind; also its begin state.
TransmitInit(s) == [s EXCEPT !.PTSM = "TRANSMIT_INIT", !.newInfo = TRUE,
                             !.newInfoMsti = TRUE, !.txCount = 0]

PTSM_to_TRANSMIT_INIT(p) ==
    /\ PTSM_run(p) = "TRANSMIT_INIT"
    /\ xmt' = [xmt EXCEPT ![p] = TransmitInit(@)]
    /\ UNCHANGED chan /\ PTSM_only

\* The record a transmitting state leaves behind: an RST BPDU also carries
\* what is new for the MSTIs, a TCN leaves a topology change unacknowledged.
Transmitted(s, state) ==
    [s EXCEPT !.PTSM = state, !.newInfo = FALSE,
              !.newInfoMsti = @ /\ state # "TRANSMIT_RSTP",
              !.tcAck = @ /\ state = "TRANSMIT_TCN", !.txCount = @ + 1]

PTSM_to_TRANSMIT_CONFIG(p) ==
    /\ PTSM_run(p) = "TRANSMIT_CONFIG"
    /\ xmt' = [xmt EXCEPT ![p] = Transmitted(@, "TRANSMIT_CONFIG")]
    /\ chan' = ChanAfterTx(p, txConfig(p)) /\ PTSM_only

PTSM_to_TRANSMIT_TCN(p) ==
    /\ PTSM_run(p) = "TRANSMIT_TCN"
    /\ xmt' = [xmt EXCEPT ![p] = Transmitted(@, "TRANSMIT_TCN")]
    /\ chan' = ChanAfterTx(p, txTcn(p)) /\ PTSM_only

PTSM_to_TRANSMIT_RSTP(p) ==
    /\ PTSM_run(p) = "TRANSMIT_RSTP"
    /\ xmt' = [xmt EXCEPT ![p] = Transmitted(@, "TRANSMIT_RSTP")]
    /\ chan' = ChanAfterTx(p, txMstp(p)) /\ PTSM_only

\* Mutant: a designated port reports topology changes only.
MustReport_tcOnly(x) == /\ role[x].role \in {"Designated", "Root"}
                        /\ tc[x].tcWhile # 0

\* A designated port, or a root port that propagates a topology change.
MustReport(x) == \/ role[x].role = "Designated"
                 \/ role[x].role = "Root" /\ tc[x].tcWhile # 0

PTSM_to_TRANSMIT_PERIODIC(p) ==
    /\ PTSM_run(p) = "TRANSMIT_PERIODIC"
    /\ xmt' = [xmt EXCEPT ![p] =
                [@ EXCEPT !.PTSM = "TRANSMIT_PERIODIC",
                          !.newInfo = xmt[p].newInfo \/ MustReport(Cist(p)),
                          !.newInfoMsti =
                              \/ xmt[p].newInfoMsti
                               \/ \E x \in MstiPtps(p) : MustReport(x)]]
    /\ UNCHANGED chan /\ PTSM_only

PTSM_to_IDLE(p) ==
    /\ PTSM_run(p) = "IDLE"
    /\ xmt' = [xmt EXCEPT ![p] =
                [@ EXCEPT !.PTSM = "IDLE", !.helloWhen = PortHelloTime(p)]]
    /\ UNCHANGED chan /\ PTSM_only
=============================================================================
