-------------------------------- MODULE Mstp --------------------------------
(***************************************************************************)
(* The external events of mstp.c (the MSTP_IN_ functions) and the network  *)
(* of bridges they drive: one mstpd per bridge, links that deliver BPDUs   *)
(* in order and may lose them, a one-second timer per bridge, links and    *)
(* bridges that go up and down, and configuration commands.                *)
(*                                                                         *)
(* mstpd is single threaded: an event is handled to the end of its         *)
(* br_state_machines_run before that bridge looks at the next one.  Runs   *)
(* of different bridges share nothing but the channels, so the model lets  *)
(* one run at a time.                                                      *)
(***************************************************************************)
EXTENDS StateMachines

CONSTANTS
    Commands,       \* <<name, target, value>>: commands that may be given
    MaxBacklog,     \* BPDUs that may wait for a port when a second passes
    BootBudget      \* how many flaps, losses, stalls and configs may happen

Idle == active = NoBridge

\* What of the state no external event but br_state_machines_begin touches.
machineVars == <<mig, edge, role, pst>>

-----------------------------------------------------------------------------
\* Creation: MSTP_IN_bridge_create, MSTP_IN_port_create_and_add_tail.
NoTimes == [ Forward_Delay |-> 0, Max_Age |-> 0, Message_Age |-> 0,
             Hello_Time |-> 0, remainingHops |-> 0 ]
NoPriority == [ RootID |-> 0, ExtRootPathCost |-> 0, RRootID |-> 0,
                IntRootPathCost |-> 0, DesignatedBridgeID |-> 0,
                DesignatedPortID |-> 0 ]

BridgeTimes(r) ==
    [ Forward_Delay |-> r.Forward_Delay, Max_Age |-> r.Max_Age,
      Message_Age |-> 0, Hello_Time |-> HelloTime, remainingHops |-> r.MaxHops ]

\* The MAC address of a bridge is, until it changes, its number.
BootId(u) == BridgeIdentifier(BootPriority[u], u[1])

create_tree(u) ==
    [ PRSSM |-> "INIT_TREE", BridgeIdentifier |-> BootId(u),
      BridgeTimes |-> BridgeTimes(BootBridge[u[1]]), rootPortId |-> 0,
      rootPriority |-> NoPriority, rootTimes |-> NoTimes,
      topology_change |-> FALSE ]

create_vec(x) ==
    LET id == BootId(TreeOf(x))
    IN  [ portId |-> PortIdentifier(8, PortOf(x)),
          InternalPortPathCost |-> PathCost[PortOf(x)],
          AdminInternalPortPathCost |-> 0,
          portPriority |-> [NoPriority EXCEPT !.RootID = id, !.RRootID = id,
                                              !.DesignatedBridgeID = id],
          portTimes |-> BridgeTimes(BootBridge[BrOf(x)]),
          designatedPriority |-> NoPriority, designatedTimes |-> NoTimes ]

Init ==
    /\ active = NoBridge /\ pos = 0
    /\ brg = [b \in Bridges |-> BootBridge[b]]
    /\ tree = [u \in BridgeTrees |-> create_tree(u)]
    /\ adm = [p \in Ports |-> BootPort[p]]
    /\ prt = [p \in Ports |->
          [ portEnabled |-> FALSE, operPointToPointMAC |-> FALSE,
            ExternalPortPathCost |-> MaxCost, BpduGuardError |-> FALSE,
            BaInconsistent |-> FALSE, brAssuRcvdInfoWhile |-> 0,
            rapidAgeingWhile |-> 0 ]]
    /\ rcv = [p \in Ports |->
          [ PRSM |-> "DISCARD", rcvdBpdu |-> FALSE, rcvdInternal |-> FALSE,
            infoInternal |-> FALSE, rcvdTcn |-> FALSE, rcvdTcAck |-> FALSE,
            edgeDelayWhile |-> 0, bpdu |-> BlankBpdu ]]
    /\ mig = [p \in Ports |->
          [ PPMSM |-> "CHECKING_RSTP", rcvdRSTP |-> FALSE, rcvdSTP |-> FALSE,
            sendRSTP |-> FALSE, mcheck |-> FALSE, mdelayWhile |-> 0 ]]
    /\ edge = [p \in Ports |-> [BDSM |-> "EDGE", operEdge |-> FALSE]]
    /\ xmt = [p \in Ports |->
          [ PTSM |-> "TRANSMIT_INIT", newInfo |-> FALSE, newInfoMsti |-> FALSE,
            tcAck |-> FALSE, txCount |-> 0, helloWhen |-> 0 ]]
    /\ info = [x \in Ptps |->
          [ PISM |-> "DISABLED", infoIs |-> "Disabled",
            rcvdInfo |-> "Other", rcvdMsg |-> FALSE,
            proposed |-> FALSE, proposing |-> FALSE, agree |-> FALSE,
            agreed |-> FALSE, disputed |-> FALSE, mastered |-> FALSE,
            updtInfo |-> FALSE, reselect |-> FALSE, selected |-> FALSE,
            rcvdInfoWhile |-> 0 ]]
    /\ vec = [x \in Ptps |-> create_vec(x)]
    /\ role = [x \in Ptps |->
          [ PRTSM |-> "INIT_PORT", role |-> "Disabled",
            selectedRole |-> "Disabled", learn |-> FALSE, forward |-> FALSE,
            sync |-> FALSE, synced |-> FALSE, reRoot |-> FALSE,
            fdWhile |-> 0, rrWhile |-> 0, rbWhile |-> 0 ]]
    /\ pst = [x \in Ptps |-> [Discarding EXCEPT !.state = "DISABLED"]]
    /\ tc = [x \in Ptps |-> [ TCSM |-> "INACTIVE", rcvdTc |-> FALSE,
                              tcProp |-> FALSE, tcWhile |-> 0 ]]
    /\ ageing = [b \in Bridges |-> BootBridge[b].Ageing_Time]
    /\ chan = [p \in Ports |-> <<>>]
    /\ due = Bridges
    /\ budget = BootBudget

-----------------------------------------------------------------------------
\* MSTP_IN_set_bridge_enable: internal variables are reset, rapid ageing is
\* stopped, every port is put into the disabled state; then begin.
MSTP_IN_set_bridge_enable(b, up) ==
    LET mine(x) == BrOf(x) = b
        rapid == \E p \in PortsOf(b) : prt[p].rapidAgeingWhile # 0
    IN  /\ brg[b].bridgeEnabled # up
        /\ brg' = [brg EXCEPT ![b] = [@ EXCEPT !.bridgeEnabled = up]]
        /\ Begin(b,
             [ tree |-> [u \in BridgeTrees |->
                   IF u[1] = b THEN [tree[u] EXCEPT !.topology_change = FALSE]
                   ELSE tree[u]],
               prt |-> [p \in Ports |->
                   IF BridgeOf[p] = b
                   THEN [prt[p] EXCEPT !.rapidAgeingWhile = 0,
                           !.brAssuRcvdInfoWhile = 0, !.BaInconsistent = FALSE]
                   ELSE prt[p]],
               rcv |-> [p \in Ports |->
                   IF BridgeOf[p] = b
                   THEN [rcv[p] EXCEPT !.infoInternal = FALSE,
                           !.rcvdInternal = FALSE, !.rcvdTcAck = FALSE,
                           !.rcvdTcn = FALSE]
                   ELSE rcv[p]],
               info |-> [x \in Ptps |->
                   IF mine(x)
                   THEN [info[x] EXCEPT !.updtInfo = FALSE, !.disputed = FALSE,
                           !.rcvdInfo = "Other",
                           !.mastered = FALSE]
                   ELSE info[x]],
               pst |-> [x \in Ptps |->
                   IF mine(x) THEN [pst[x] EXCEPT !.state = "DISABLED"]
                   ELSE pst[x]],
               tc |-> [x \in Ptps |->
                   IF mine(x) THEN [tc[x] EXCEPT !.rcvdTc = FALSE,
                                                 !.tcProp = FALSE]
                   ELSE tc[x]],
               ageing |-> IF rapid
                          THEN [ageing EXCEPT ![b] = brg[b].Ageing_Time]
                          ELSE ageing ])
        /\ UNCHANGED adm

\* Effective costs and point-to-point mode of a port.
EffectiveCost(admin, p) == IF admin = 0 THEN PathCost[p] ELSE admin
EffectiveP2P(admin, p) == CASE admin = "ForceTrue" -> TRUE
                            [] admin = "ForceFalse" -> FALSE
                            [] OTHER -> Duplex[p]

\* MSTP_IN_set_port_enable(prt, true): the link has come up.  A new speed or
\* duplex of a port that stays up is not modelled.
PortUp(p) ==
    /\ ~prt[p].portEnabled
    /\ prt' = [prt EXCEPT ![p] =
                [@ EXCEPT !.portEnabled = TRUE,
                          !.ExternalPortPathCost =
                            EffectiveCost(adm[p].AdminExternalPortPathCost, p),
                          !.operPointToPointMAC =
                              EffectiveP2P(adm[p].AdminP2P, p),
                          !.BpduGuardError = FALSE, !.BaInconsistent = FALSE,
                          !.brAssuRcvdInfoWhile = 3 * PortHelloTime(p)]]
    /\ vec' = [x \in Ptps |->
          IF PortOf(x) = p
          THEN [vec[x] EXCEPT !.InternalPortPathCost =
                    EffectiveCost(vec[x].AdminInternalPortPathCost, p)]
          ELSE vec[x]]
    /\ UNCHANGED <<brg, adm, tree, rcv, xmt, info, tc, ageing, chan,
                   machineVars>>
    /\ StartRun(BridgeOf[p])

\* MSTP_IN_set_port_enable(prt, false): the link has gone down, with all
\* that was on its way to the port.
PortDown(p) ==
    /\ prt[p].portEnabled
    /\ prt' = [prt EXCEPT ![p] = [@ EXCEPT !.portEnabled = FALSE]]
    /\ chan' = [chan EXCEPT ![p] = <<>>]
    /\ UNCHANGED <<brg, adm, tree, rcv, xmt, info, vec, tc, ageing,
                   machineVars>>
    /\ StartRun(BridgeOf[p])

-----------------------------------------------------------------------------
\* MSTP_IN_one_second with PTSM_tick of every port.
Tick(b) ==
    LET here(p) == BridgeOf[p] = b
        mine(x) == BrOf(x) = b
        newTc == [x \in Ptps |-> IF mine(x)
                    THEN [tc[x] EXCEPT !.tcWhile = Decremented(@)] ELSE tc[x]]
        expired(t) == \E x \in PtpsOfTree(b, t) : tc[x].tcWhile = 1
    IN  /\ brg[b].bridgeEnabled
        /\ prt' = [p \in Ports |-> IF here(p)
              THEN [prt[p] EXCEPT !.brAssuRcvdInfoWhile = Decremented(@),
                                  !.rapidAgeingWhile = Decremented(@)]
              ELSE prt[p]]
        /\ rcv' = [p \in Ports |-> IF here(p)
              THEN [rcv[p] EXCEPT !.edgeDelayWhile = Decremented(@)]
              ELSE rcv[p]]
        /\ mig' = [p \in Ports |-> IF here(p)
              THEN [mig[p] EXCEPT !.mdelayWhile = Decremented(@)] ELSE mig[p]]
        /\ xmt' = [p \in Ports |-> IF here(p)
              THEN [xmt[p] EXCEPT !.helloWhen = Decremented(@),
                                  !.txCount = Decremented(@)]
              ELSE xmt[p]]
        /\ info' = [x \in Ptps |-> IF mine(x)
              THEN [info[x] EXCEPT !.rcvdInfoWhile = Decremented(@)]
              ELSE info[x]]
        /\ role' = [x \in Ptps |-> IF mine(x)
              THEN [role[x] EXCEPT !.fdWhile = Decremented(@),
                                   !.rrWhile = Decremented(@),
                                   !.rbWhile = Decremented(@)]
              ELSE role[x]]
        /\ tc' = newTc
        /\ tree' = [u \in BridgeTrees |-> IF u[1] = b /\ expired(u[2])
              THEN [tree[u] EXCEPT !.topology_change =
                        TopologyChangeAfter(b, u[2], newTc)]
              ELSE tree[u]]
        /\ ageing' = IF \E p \in PortsOf(b) : prt[p].rapidAgeingWhile = 1
                     THEN [ageing EXCEPT ![b] = brg[b].Ageing_Time]
                     ELSE ageing
        /\ UNCHANGED <<brg, adm, edge, vec, pst, chan>>
        /\ StartRun(b)

DisabledTick(b) ==
    /\ ~brg[b].bridgeEnabled
    /\ UNCHANGED <<schedVars, brg, adm, tree, portVars, ptpVars, ageing, chan>>

\* Every bridge ticks once in each second.
MSTP_IN_one_second(b) ==
    /\ b \in due
    /\ \A p \in Ports : Len(chan[p]) <= MaxBacklog
    /\ due' = IF due = {b} THEN Bridges ELSE due \ {b}
    /\ Tick(b) \/ DisabledTick(b)
    /\ UNCHANGED budget

-----------------------------------------------------------------------------
\* MSTP_IN_rx_bpdu: the port is guarded, the BPDU is dropped, or it is kept
\* and the machines run.
RxGuarded(p) ==
    /\ adm[p].BpduGuardPort
    /\ prt' = [prt EXCEPT ![p] = [@ EXCEPT !.BpduGuardError = TRUE]]
    /\ UNCHANGED <<schedVars, rcv>>

RxDropped(p) ==
    /\ ~adm[p].BpduGuardPort
    /\ \/ adm[p].bpduFilterPort
       \/ ~brg[BridgeOf[p]].bridgeEnabled
       \/ rcv[p].rcvdBpdu
    /\ UNCHANGED <<schedVars, prt, rcv>>

RxKept(p) ==
    /\ ~adm[p].BpduGuardPort /\ ~adm[p].bpduFilterPort
    /\ brg[BridgeOf[p]].bridgeEnabled
    /\ ~rcv[p].rcvdBpdu
    /\ rcv' = [rcv EXCEPT ![p] =
                [@ EXCEPT !.rcvdBpdu = TRUE, !.bpdu = Head(chan[p])]]
    /\ prt' = [prt EXCEPT ![p] =
                [@ EXCEPT !.BaInconsistent = FALSE,
                          !.brAssuRcvdInfoWhile = 3 * PortHelloTime(p)]]
    /\ active' = BridgeOf[p] /\ pos' = 0

MSTP_IN_rx_bpdu(p) ==
    /\ chan[p] # <<>>
    /\ RxGuarded(p) \/ RxDropped(p) \/ RxKept(p)
    /\ chan' = [chan EXCEPT ![p] = Tail(@)]
    /\ UNCHANGED <<brg, adm, tree, xmt, info, vec, tc, ageing, machineVars,
                   envVars>>

\* A BPDU is lost on its way to the port.
Lose(p) ==
    /\ budget.losses > 0
    /\ chan[p] # <<>>
    /\ chan' = [chan EXCEPT ![p] = Tail(@)]
    /\ budget' = [budget EXCEPT !.losses = @ - 1]
    /\ UNCHANGED <<schedVars, brg, adm, tree, portVars, ptpVars, ageing, due>>

-----------------------------------------------------------------------------
\* Mutant: nothing is selected again.
Reselected_nothing(S) == info

\* The records of per-tree ports whose roles must be selected again.
Reselected(S) == [x \in Ptps |->
    IF x \in S THEN [info[x] EXCEPT !.selected = FALSE, !.reselect = TRUE]
    ELSE info[x]]

\* The machines run if a command changed something on a port that is up.
RunIf(changed, p) ==
    \/ changed /\ prt[p].portEnabled /\ StartRun(BridgeOf[p])
    \/ ~(changed /\ prt[p].portEnabled) /\ UNCHANGED schedVars

MSTP_IN_set_bridge_address(b, mac) ==
    LET moved == [u \in BridgeTrees |->
            IF u[1] = b
            THEN [tree[u] EXCEPT !.BridgeIdentifier =
                      BridgeIdentifier(BridgePrio(@), mac)]
            ELSE tree[u]]
    IN  /\ \E t \in Trees : MacAddress(BridgeId(b, t)) # mac
        /\ UNCHANGED <<brg, adm>>
        /\ Begin(b, [Current EXCEPT !.tree = moved])

\* MSTP_IN_set_cist_bridge_config, the parameters that end up in BridgeTimes.
ChangeBridgeTimes(b, new) ==
    /\ new # brg[b]
    /\ brg' = [brg EXCEPT ![b] = new]
    /\ tree' = [u \in BridgeTrees |->
          IF u[1] = b
          THEN [tree[u] EXCEPT
                  !.BridgeTimes.remainingHops = new.MaxHops,
                  !.BridgeTimes.Forward_Delay = new.Forward_Delay,
                  !.BridgeTimes.Max_Age = new.Max_Age,
                  !.BridgeTimes.Hello_Time = HelloTime]
          ELSE tree[u]]
    /\ info' = Reselected({x \in Ptps : BrOf(x) = b})
    /\ vec' = [x \in Ptps |->
          IF BrOf(x) = b THEN [vec[x] EXCEPT !.portTimes.Hello_Time = HelloTime]
          ELSE vec[x]]
    /\ UNCHANGED <<adm, prt, rcv, xmt, tc, ageing, chan, machineVars>>
    /\ StartRun(b)

SetMaxAgeAndForwardDelay(b, max_age, forward_delay) ==
    /\ 2 * forward_delay >= max_age + 2
    /\ ChangeBridgeTimes(b, [brg[b] EXCEPT !.Max_Age = max_age,
                                           !.Forward_Delay = forward_delay])

SetMaxHops(b, max_hops) ==
    ChangeBridgeTimes(b, [brg[b] EXCEPT !.MaxHops = max_hops])

SetProtocolVersion(b, version) ==
    /\ version # brg[b].ForceProtocolVersion
    /\ brg' = [brg EXCEPT ![b] = [@ EXCEPT !.ForceProtocolVersion = version]]
    /\ Begin(b, Current)
    /\ UNCHANGED adm

SetTxHoldCount(b, count) ==
    /\ count # brg[b].Transmit_Hold_Count
    /\ brg' = [brg EXCEPT ![b] = [@ EXCEPT !.Transmit_Hold_Count = count]]
    /\ xmt' = [p \in Ports |-> IF BridgeOf[p] = b
                               THEN [xmt[p] EXCEPT !.txCount = 0] ELSE xmt[p]]
    /\ UNCHANGED <<adm, tree, prt, rcv, info, vec, tc, ageing, chan,
                   machineVars>>
    /\ StartRun(b)

\* mstpd takes note; the kernel is told when rapid ageing ends.
SetAgeingTime(b, time) ==
    /\ time # brg[b].Ageing_Time
    /\ brg' = [brg EXCEPT ![b] = [@ EXCEPT !.Ageing_Time = time]]
    /\ UNCHANGED <<schedVars, adm, tree, portVars, ptpVars, ageing, chan>>

\* The machines are not run: the roles change with the next event.
MSTP_IN_set_msti_bridge_config(b, t, priority) ==
    LET old == BridgeId(b, t)
    IN  /\ BridgePrio(old) # priority
        /\ tree' = [tree EXCEPT ![<<b, t>>] =
                     [@ EXCEPT !.BridgeIdentifier =
                          BridgeIdentifier(priority, MacAddress(old))]]
        /\ info' = Reselected(PtpsOfTree(b, t))
        /\ UNCHANGED <<schedVars, brg, adm, prt, rcv, xmt, vec, tc, ageing,
                       chan, machineVars>>

\* MSTP_IN_set_cist_port_config, one parameter at a time.
SetExternalPathCost(p, admin) ==
    LET cost == EffectiveCost(admin, p)
        changed == prt[p].ExternalPortPathCost # cost
    IN  /\ adm' = [adm EXCEPT ![p] =
                    [@ EXCEPT !.AdminExternalPortPathCost = admin]]
        /\ prt' = [prt EXCEPT ![p] = [@ EXCEPT !.ExternalPortPathCost = cost]]
        /\ info' = IF changed THEN Reselected({Cist(p)}) ELSE info
        /\ UNCHANGED <<brg, tree, rcv, xmt, vec, tc, ageing, chan, machineVars>>
        /\ RunIf(changed, p)

SetAdminP2P(p, admin) ==
    LET p2p == EffectiveP2P(admin, p)
        changed == prt[p].operPointToPointMAC # p2p
    IN  /\ adm' = [adm EXCEPT ![p] = [@ EXCEPT !.AdminP2P = admin]]
        /\ prt' = [prt EXCEPT ![p] = [@ EXCEPT !.operPointToPointMAC = p2p]]
        /\ UNCHANGED <<brg, tree, rcv, xmt, info, vec, tc, ageing, chan,
                       machineVars>>
        /\ RunIf(changed, p)

SetAdminEdgePort(p, admin) ==
    /\ adm[p].AdminEdgePort # admin
    /\ adm' = [adm EXCEPT ![p] = [@ EXCEPT !.AdminEdgePort = admin]]
    /\ edge' = [edge EXCEPT ![p] = EdgeRec(admin)]
    /\ UNCHANGED <<brg, tree, prt, rcv, xmt, info, vec, tc, ageing, chan,
                   mig, role, pst>>
    /\ RunIf(TRUE, p)

\* Flags whose change makes the machines run; taking NetworkPort away also
\* ends a bridge assurance inconsistency.
RunFlags == {"AutoEdge", "restrictedRole", "restrictedTcn", "NetworkPort"}

SetRunFlag(p, flag, value) ==
    /\ flag \in RunFlags /\ adm[p][flag] # value
    /\ adm' = [adm EXCEPT ![p][flag] = value]
    /\ prt' = [prt EXCEPT ![p] =
                [@ EXCEPT !.BaInconsistent =
                     prt[p].BaInconsistent
                     /\ ~(flag = "NetworkPort" /\ ~value)]]
    /\ UNCHANGED <<brg, tree, rcv, xmt, info, vec, tc, ageing, chan,
                   machineVars>>
    /\ RunIf(TRUE, p)

\* Flags that take effect with the next BPDU.
QuietFlags == {"BpduGuardPort", "dontTxmtBpdu", "bpduFilterPort"}

SetQuietFlag(p, flag, value) ==
    /\ flag \in QuietFlags /\ adm[p][flag] # value
    /\ adm' = [adm EXCEPT ![p][flag] = value]
    /\ UNCHANGED <<schedVars, brg, tree, portVars, ptpVars, ageing, chan>>

\* MSTP_IN_set_msti_port_config: port priority and internal path cost.  A
\* port that is down does not have its roles selected again.
ChangeTreePort(x, new) ==
    LET p == PortOf(x)
        changed == \/ new.portId # vec[x].portId
                   \/ new.InternalPortPathCost # vec[x].InternalPortPathCost
    IN  /\ vec' = [vec EXCEPT ![x] = new]
        /\ info' = IF changed /\ prt[p].portEnabled THEN Reselected({x})
                   ELSE info
        /\ UNCHANGED <<brg, adm, tree, prt, rcv, xmt, tc, ageing, chan,
                       machineVars>>
        /\ RunIf(changed, p)

SetTreePortPriority(x, priority) ==
    ChangeTreePort(x, [vec[x] EXCEPT !.portId =
                           PortIdentifier(priority, PortNumber(@))])

SetInternalPathCost(x, admin) ==
    ChangeTreePort(x, [vec[x] EXCEPT
                         !.AdminInternalPortPathCost = admin,
                         !.InternalPortPathCost =
                             EffectiveCost(admin, PortOf(x))])

MSTP_IN_port_mcheck(p) ==
    /\ rstpVersion(BridgeOf[p]) /\ prt[p].portEnabled
    /\ brg[BridgeOf[p]].bridgeEnabled
    /\ mig' = [mig EXCEPT ![p] = [@ EXCEPT !.mcheck = TRUE]]
    /\ info' = [info EXCEPT ![Cist(p)] = [@ EXCEPT !.proposing = TRUE]]
    /\ UNCHANGED <<brg, adm, tree, prt, rcv, edge, xmt, vec, role, pst, tc,
                   ageing, chan>>
    /\ StartRun(BridgeOf[p])

\* A command <<name, target, value>>.
Execute(name, on, value) ==
    \/ name = "address" /\ MSTP_IN_set_bridge_address(on, value)
    \/ name = "times" /\ SetMaxAgeAndForwardDelay(on, value[1], value[2])
    \/ name = "maxhops" /\ SetMaxHops(on, value)
    \/ name = "version" /\ SetProtocolVersion(on, value)
    \/ name = "txholdcount" /\ SetTxHoldCount(on, value)
    \/ name = "ageing" /\ SetAgeingTime(on, value)
    \/ name = "treeprio"
       /\ MSTP_IN_set_msti_bridge_config(on[1], on[2], value)
    \/ name = "pathcost" /\ SetExternalPathCost(on, value)
    \/ name = "p2p" /\ SetAdminP2P(on, value)
    \/ name = "adminedge" /\ SetAdminEdgePort(on, value)
    \/ SetRunFlag(on, name, value)
    \/ SetQuietFlag(on, name, value)
    \/ name = "treeportprio" /\ SetTreePortPriority(on, value)
    \/ name = "treeportcost" /\ SetInternalPathCost(on, value)
    \/ name = "mcheck" /\ MSTP_IN_port_mcheck(on)

\* The commands mstpctl can give.
IsCommand(name, on, value) ==
    \/ name = "address" /\ on \in Bridges /\ value \in 0..(MacSpace - 1)
    \/ name = "times" /\ on \in Bridges /\ value \in Nat \X Nat
    \/ name \in {"maxhops", "txholdcount", "ageing"}
       /\ on \in Bridges /\ value \in Nat
    \/ name = "version" /\ on \in Bridges /\ value \in Versions
    \/ name = "treeprio" /\ on \in BridgeTrees /\ value \in Nat
    \/ name = "pathcost" /\ on \in Ports /\ value \in Nat
    \/ name = "p2p" /\ on \in Ports /\ value \in P2Ps
    \/ name \in {"adminedge", "mcheck"} \cup RunFlags \cup QuietFlags
       /\ on \in Ports /\ value \in BOOLEAN
    \/ name \in {"treeportprio", "treeportcost"}
       /\ on \in Ptps /\ value \in Nat

ASSUME EventAssumption == /\ \A c \in Commands : IsCommand(c[1], c[2], c[3])
                          /\ MaxBacklog \in Nat
                          /\ BootBudget \in Budgets

\* MSTP_IN_bridge_create gives a bridge a maximum age of 20 seconds, and
\* MSTP_IN_set_cist_bridge_config refuses one below 6.
ASSUME MaxAgeAssumption ==
    /\ \A b \in Bridges : BootBridge[b].Max_Age # 0
    /\ \A c \in Commands : c[1] = "times" => c[3][1] # 0

-----------------------------------------------------------------------------
\* The events mstpd waits for.
Tell(c) ==
    /\ budget.configs > 0
    /\ Execute(c[1], c[2], c[3])
    /\ budget' = [budget EXCEPT !.configs = @ - 1]
    /\ UNCHANGED due

FlapBridge(b) ==
    /\ budget.flaps > 0
    /\ MSTP_IN_set_bridge_enable(b, ~brg[b].bridgeEnabled)
    /\ budget' = [budget EXCEPT !.flaps = @ - 1]
    /\ UNCHANGED due

FlapPort(p) ==
    /\ budget.flaps > 0
    /\ PortUp(p) \/ PortDown(p)
    /\ budget' = [budget EXCEPT !.flaps = @ - 1]
    /\ UNCHANGED due

\* MSTP_OUT_shutdown_port has its effect.
ShutDown(p) ==
    /\ prt[p].BpduGuardError
    /\ PortDown(p)
    /\ UNCHANGED envVars

Event ==
    /\ Idle
    /\ \/ \E b \in Bridges : MSTP_IN_one_second(b) \/ FlapBridge(b)
       \/ \E p \in Ports : \/ MSTP_IN_rx_bpdu(p) \/ Lose(p)
                           \/ FlapPort(p) \/ ShutDown(p)
       \/ \E c \in Commands : Tell(c)

Run == \E b \in Bridges : RunMachine(b) \/ RunDone(b) \/ RunTimeout(b)

Next == Run \/ Event

Spec == Init /\ [][Next]_vars

\* br_state_machines_run goes on until nothing is ready.
FairSpec == Spec /\ WF_vars(\E b \in Bridges : RunMachine(b) \/ RunDone(b))
=============================================================================
