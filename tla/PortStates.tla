----------------------------- MODULE PortStates -----------------------------
(***************************************************************************)
(* 13.35 Port State Transition (PSTSM) and 13.36 Topology Change (TCSM)    *)
(* state machines of mstp.c.                                               *)
(*                                                                         *)
(* The flush of the filtering database completes inside set_fdbFlush       *)
(* (driver_flush_all_fids calls MSTP_IN_all_fids_flushed), so fdbFlush is  *)
(* false whenever a machine looks at it and is left out.                   *)
(***************************************************************************)
EXTENDS RoleTransitions

-----------------------------------------------------------------------------
\* Mutant: LEARNING is only left for DISCARDING.
PSTSM_run_learnOnly(x) ==
    LET r == role[x]
    IN  CASE pst[x].PSTSM = "DISCARDING" -> IF r.learn THEN "LEARNING" ELSE None
          [] pst[x].PSTSM = "LEARNING" -> IF ~r.learn THEN "DISCARDING"
                                          ELSE None
          [] pst[x].PSTSM = "FORWARDING" -> IF ~r.forward THEN "DISCARDING"
                                            ELSE None

\* 13.35 Port State Transition state machine.
PSTSM_run(x) ==
    LET r == role[x]
    IN  CASE pst[x].PSTSM = "DISCARDING" -> IF r.learn THEN "LEARNING" ELSE None
          [] pst[x].PSTSM = "LEARNING" -> IF ~r.learn THEN "DISCARDING"
                                          ELSE IF r.forward THEN "FORWARDING"
                                          ELSE None
          [] pst[x].PSTSM = "FORWARDING" -> IF ~r.forward THEN "DISCARDING"
                                            ELSE None

PSTSM_only == UNCHANGED <<portVars, info, vec, role, tc, tree, ageing, chan>>

\* The record PSTSM_to_DISCARDING leaves behind; also its begin state.
Discarding == [ PSTSM |-> "DISCARDING", learning |-> FALSE,
                forwarding |-> FALSE, state |-> "BLOCKING" ]

PSTSM_to_DISCARDING(x) ==
    /\ PSTSM_run(x) = "DISCARDING"
    /\ pst' = [pst EXCEPT ![x] = Discarding]
    /\ PSTSM_only

PSTSM_to_LEARNING(x) ==
    /\ PSTSM_run(x) = "LEARNING"
    /\ pst' = [pst EXCEPT ![x] =
                [@ EXCEPT !.PSTSM = "LEARNING", !.state = "LEARNING",
                          !.learning = TRUE]]
    /\ PSTSM_only

PSTSM_to_FORWARDING(x) ==
    /\ PSTSM_run(x) = "FORWARDING"
    /\ pst' = [pst EXCEPT ![x] =
                [@ EXCEPT !.PSTSM = "FORWARDING", !.state = "FORWARDING",
                          !.forwarding = TRUE]]
    /\ PSTSM_only

-----------------------------------------------------------------------------
\* 13.36 Topology Change state machine.

\* Mutant: the flag is kept whatever the timers say.
TopologyChangeAfter_kept(b, t, newTc) == tree[<<b, t>>].topology_change

\* set_TopologyChange with hint_SetToYes = false, newTc being the records of
\* the per-tree ports after some tcWhile of tree <<b, t>> became zero.
TopologyChangeAfter(b, t, newTc) ==
    /\ tree[<<b, t>>].topology_change
    /\ \E y \in PtpsOfTree(b, t) : newTc[y].tcWhile # 0

\* 13.26.5 newTcWhile: nothing if the timer already runs.
TcWhile(x) ==
    IF tc[x].tcWhile # 0 THEN tc[x].tcWhile
    ELSE IF mig[PortOf(x)].sendRSTP THEN PortHelloTime(PortOf(x)) + 1
    ELSE tree[TreeOf(x)].rootTimes.Max_Age
             + tree[TreeOf(x)].rootTimes.Forward_Delay

\* Mutant: set_TopologyChange is not called.
TreeWithNewTc_unset(x) == tree

TreeWithNewTc(x) ==
    [tree EXCEPT ![TreeOf(x)] =
      [@ EXCEPT !.topology_change =
            tree[TreeOf(x)].topology_change \/ tc[x].tcWhile = 0]]

XmtWithNewTc(x) ==
    IF tc[x].tcWhile = 0 /\ mig[PortOf(x)].sendRSTP THEN XmtWithNewInfo(x)
    ELSE xmt

\* 13.24.s) set_fdbFlush, for a bridge that cannot flush: rapid ageing.
RapidAgeing(p) == ~edge[p].operEdge /\ ~rstpVersion(BridgeOf[p])
AgeingAfterFlush(p) ==
    IF RapidAgeing(p) THEN [ageing EXCEPT ![BridgeOf[p]] = FwdDelay(p)]
    ELSE ageing
\* Mutant: rapidAgeingWhile is not started.
PrtAfterFlush_noTimer(p) == prt

PrtAfterFlush(p) ==
    IF RapidAgeing(p) THEN [prt EXCEPT ![p] =
                             [@ EXCEPT !.rapidAgeingWhile = FwdDelay(p)]]
    ELSE prt

\* 13.26.17 setTcPropTree: the other ports of the tree, unless restricted.
TcPropTo(x) == IF adm[PortOf(x)].restrictedTcn THEN {}
               ELSE PtpsOfTree(BrOf(x), Mstid(x)) \ {x}

ActiveRole(x) == role[x].role \in {"Root", "Designated", "Master"}

TCSM_run(x) ==
    LET p == PortOf(x)
        s == tc[x]
        r == role[x]
        tcn == IsCist(x) /\ rcv[p].rcvdTcn
        tcAck == IsCist(x) /\ rcv[p].rcvdTcAck
    IN  CASE s.TCSM = "INACTIVE" -> IF r.learn THEN "LEARNING" ELSE None
          [] s.TCSM = "LEARNING" ->
                IF ActiveRole(x) /\ r.forward /\ ~edge[p].operEdge
                THEN "DETECTED"
                ELSE IF s.rcvdTc \/ s.tcProp \/ tcn \/ tcAck THEN "LEARNING"
                ELSE IF ~ActiveRole(x) /\ ~r.learn /\ ~pst[x].learning
                THEN "INACTIVE" ELSE None
          [] s.TCSM = "NOTIFIED_TCN" -> "NOTIFIED_TC"
          [] s.TCSM = "ACTIVE" ->
                IF ~ActiveRole(x) \/ edge[p].operEdge THEN "LEARNING"
                ELSE IF tcn THEN "NOTIFIED_TCN"
                ELSE IF s.rcvdTc THEN "NOTIFIED_TC"
                ELSE IF s.tcProp THEN "PROPAGATING"
                ELSE IF tcAck THEN "ACKNOWLEDGED" ELSE None
          [] OTHER -> "ACTIVE"

TCSM_to_INACTIVE(x) ==
    LET p == PortOf(x)
        newTc == [tc EXCEPT ![x] =
                   [@ EXCEPT !.TCSM = "INACTIVE", !.tcWhile = 0]]
    IN  /\ TCSM_run(x) = "INACTIVE"
        /\ tc' = newTc
        /\ tree' = [tree EXCEPT ![TreeOf(x)] =
                     [@ EXCEPT !.topology_change =
                         TopologyChangeAfter(BrOf(x), Mstid(x), newTc)]]
        /\ xmt' = [xmt EXCEPT ![p] =
                     [@ EXCEPT !.tcAck = xmt[p].tcAck /\ ~IsCist(x)]]
        /\ prt' = PrtAfterFlush(p)
        /\ ageing' = AgeingAfterFlush(p)
        /\ UNCHANGED <<rcv, mig, edge, info, vec, role, pst, chan>>

TCSM_to_LEARNING(x) ==
    LET p == PortOf(x)
    IN  /\ TCSM_run(x) = "LEARNING"
        /\ tc' = [tc EXCEPT ![x] =
                   [@ EXCEPT !.TCSM = "LEARNING", !.rcvdTc = FALSE,
                             !.tcProp = FALSE]]
        /\ rcv' = [rcv EXCEPT ![p] =
                    [@ EXCEPT !.rcvdTcn = rcv[p].rcvdTcn /\ ~IsCist(x),
                              !.rcvdTcAck = rcv[p].rcvdTcAck /\ ~IsCist(x)]]
        /\ UNCHANGED <<prt, mig, edge, xmt, info, vec, role, pst, tree,
                       ageing, chan>>

TCSM_to_DETECTED(x) ==
    /\ TCSM_run(x) = "DETECTED"
    /\ tc' = [y \in Ptps |->
          IF y = x THEN [tc[y] EXCEPT !.TCSM = "DETECTED",
                                      !.tcWhile = TcWhile(x)]
          ELSE [tc[y] EXCEPT !.tcProp = @ \/ y \in TcPropTo(x)]]
    /\ tree' = TreeWithNewTc(x)
    /\ xmt' = XmtWithNewInfo(x)
    /\ UNCHANGED <<prt, rcv, mig, edge, info, vec, role, pst, ageing, chan>>

TCSM_to_NOTIFIED_TCN(x) ==
    /\ TCSM_run(x) = "NOTIFIED_TCN"
    /\ tc' = [tc EXCEPT ![x] =
               [@ EXCEPT !.TCSM = "NOTIFIED_TCN", !.tcWhile = TcWhile(x)]]
    /\ tree' = TreeWithNewTc(x)
    /\ xmt' = XmtWithNewTc(x)
    /\ UNCHANGED <<prt, rcv, mig, edge, info, vec, role, pst, ageing, chan>>

TCSM_to_NOTIFIED_TC(x) ==
    LET p == PortOf(x)
    IN  /\ TCSM_run(x) = "NOTIFIED_TC"
        /\ tc' = [y \in Ptps |->
              IF y = x THEN [tc[y] EXCEPT !.TCSM = "NOTIFIED_TC",
                                          !.rcvdTc = FALSE]
              ELSE [tc[y] EXCEPT !.tcProp = @ \/ y \in TcPropTo(x)]]
        /\ rcv' = [rcv EXCEPT ![p] =
                     [@ EXCEPT !.rcvdTcn = rcv[p].rcvdTcn /\ ~IsCist(x)]]
        /\ xmt' = [xmt EXCEPT ![p] =
                    [@ EXCEPT !.tcAck =
                    xmt[p].tcAck \/ (IsCist(x) /\ role[x].role = "Designated")]]
        /\ UNCHANGED <<prt, mig, edge, info, vec, role, pst, tree, ageing,
                       chan>>

TCSM_to_PROPAGATING(x) ==
    LET p == PortOf(x)
    IN  /\ TCSM_run(x) = "PROPAGATING"
        /\ tc' = [tc EXCEPT ![x] =
                   [@ EXCEPT !.TCSM = "PROPAGATING", !.tcWhile = TcWhile(x),
                             !.tcProp = FALSE]]
        /\ tree' = TreeWithNewTc(x)
        /\ xmt' = XmtWithNewTc(x)
        /\ prt' = PrtAfterFlush(p)
        /\ ageing' = AgeingAfterFlush(p)
        /\ UNCHANGED <<rcv, mig, edge, info, vec, role, pst, chan>>

TCSM_to_ACKNOWLEDGED(x) ==
    LET newTc == [tc EXCEPT ![x] =
                   [@ EXCEPT !.TCSM = "ACKNOWLEDGED", !.tcWhile = 0]]
    IN  /\ TCSM_run(x) = "ACKNOWLEDGED"
        /\ tc' = newTc
        /\ tree' = [tree EXCEPT ![TreeOf(x)] =
                     [@ EXCEPT !.topology_change =
                         TopologyChangeAfter(BrOf(x), Mstid(x), newTc)]]
        /\ rcv' = [rcv EXCEPT ![PortOf(x)] = [@ EXCEPT !.rcvdTcAck = FALSE]]
        /\ UNCHANGED <<prt, mig, edge, xmt, info, vec, role, pst, ageing, chan>>

TCSM_to_ACTIVE(x) ==
    /\ TCSM_run(x) = "ACTIVE"
    /\ tc' = [tc EXCEPT ![x] = [@ EXCEPT !.TCSM = "ACTIVE"]]
    /\ UNCHANGED <<portVars, info, vec, role, pst, tree, ageing, chan>>
=============================================================================
