--------------------------- MODULE MstpProperties ---------------------------
(***************************************************************************)
(* What a network of mstpd bridges promises.                               *)
(***************************************************************************)
EXTENDS Mstp

-----------------------------------------------------------------------------
(* Role, role-transition state and port state of one per-tree port.  Three *)
(* machines and br_state_machines_begin write these variables.             *)

\* Each group of PRTSM states belongs to a role.
RoleOfState(x) ==
    LET r == role[x]
    IN  /\ r.PRTSM \in DisabledStates => r.role = "Disabled"
        /\ r.PRTSM \in MasterStates => r.role = "Master"
        /\ r.PRTSM \in RootStates => r.role = "Root"
        /\ r.PRTSM \in DesignatedStates => r.role = "Designated"
        /\ r.PRTSM \in AlternateStates => r.role \in {"Alternate", "Backup"}

\* A port without an active role is told neither to learn nor to forward,
\* and no port is told to forward before it is told to learn.
BlockedRole(x) ==
    LET r == role[x]
    IN  /\ r.role \in {"Disabled", "Alternate", "Backup"}
               => ~r.learn /\ ~r.forward
        /\ r.forward => r.learn

\* learning and forwarding follow the state of PSTSM.
PortStateFlags(x) ==
    /\ pst[x].learning = (pst[x].PSTSM # "DISCARDING")
    /\ pst[x].forwarding = (pst[x].PSTSM = "FORWARDING")

\* BLOCK_PORT and DISABLE_PORT wait for the port to be blocked: past them it
\* is not learning any more.
ReallyBlocked(x) ==
    role[x].PRTSM \in (AlternateStates \cup {"DISABLED_PORT"}) \ {"BLOCK_PORT"}
        => pst[x].PSTSM = "DISCARDING"

\* The state MSTP_OUT_set_state was given last (it passes that of the CIST on
\* to the kernel) is the state of PSTSM, unless the bridge is disabled.
KernelStateOf(s) == CASE s = "DISCARDING" -> "BLOCKING"
                      [] s = "LEARNING" -> "LEARNING"
                      [] s = "FORWARDING" -> "FORWARDING"
KernelState(x) ==
    pst[x].state = IF brg[BrOf(x)].bridgeEnabled
                   THEN KernelStateOf(pst[x].PSTSM) ELSE "DISABLED"

\* Role, PRTSM state, learn/forward, PSTSM state and the state given to the
\* kernel agree at every step of every run: in particular a port that has
\* got past BLOCK_PORT or DISABLE_PORT is blocked in the kernel.
PortRolesAndStates ==
    \A x \in Ptps : /\ RoleOfState(x) /\ BlockedRole(x)
                    /\ PortStateFlags(x) /\ ReallyBlocked(x)
                    /\ KernelState(x)

-----------------------------------------------------------------------------
(* The state a run leaves behind. *)

\* No run is in progress on b and none would do anything.
Quiet(b) == active # b /\ Ready(b) = {}

\* When a run has ended by itself, every BPDU and every message in it has
\* been consumed.  A port left with a message would drop all further BPDUs
\* ("Port hasn't processed previous BPDU") and never hear of the tree again.
QuietDrained ==
    \A b \in Bridges : brg[b].bridgeEnabled /\ Quiet(b) =>
        \A p \in PortsOf(b) : /\ ~rcv[p].rcvdBpdu
                              /\ \A x \in PtpsOfPort(p) : ~info[x].rcvdMsg

\* When a run has ended by itself, every port has taken the role selected
\* for it: Disabled if it is down, another one if it is up.
QuietSettled ==
    \A b \in Bridges : brg[b].bridgeEnabled /\ Quiet(b) =>
        \A p \in PortsOf(b) : \A x \in PtpsOfPort(p) :
            /\ Settled(x)
            /\ role[x].role = role[x].selectedRole
            /\ (role[x].role = "Disabled") = ~prt[p].portEnabled

\* After a run the root port recorded for a tree is the one role selection
\* would find now: the events of Mstp that change its inputs also ask for
\* reselection.  Two do not, and are not events of the runs: a change of
\* restrictedRole, and of the speed or duplex of a port that stays up.
RootSelectionCurrent ==
    \A b \in Bridges : brg[b].bridgeEnabled /\ Quiet(b) =>
        \A t \in Trees :
            LET r == RootPtp(b, t)
            IN  /\ tree[<<b, t>>].rootPortId = IF r = NoPtp THEN 0
                                               ELSE vec[r].portId
                /\ \A x \in PtpsOfTree(b, t) :
                      (role[x].role = "Root") => (x = r)

\* After a run a port that holds its own information announces the current
\* root: no change of the root or of the times is left unannounced.
AnnouncesCurrentRoot ==
    \A b \in Bridges : brg[b].bridgeEnabled /\ Quiet(b) =>
        \A t \in Trees : \A x \in PtpsOfTree(b, t) :
            info[x].infoIs = "Mine" =>
                /\ samePriorityAndTimers(vec[x].portPriority,
                       DesignatedPriority(x, tree[<<b, t>>].rootPriority),
                       vec[x].portTimes,
                       DesignatedTimes(x, tree[<<b, t>>].rootTimes), t = 0)

\* After a transition that does not call M_run again, M_run would do nothing.
OnceIsEnough ==
    \A b \in Bridges : active = b /\ active' = b =>
        \A s \in {Upcoming(Ready(b))} :
            RunsOnce(b, s) => Machine_run(b, s)' = None

\* "No need to run, no one condition will be met": the comment the code gives
\* where a transition returns without calling M_run is right at every step.
NoNeedToRun == [][OnceIsEnough]_vars

-----------------------------------------------------------------------------
(* Safety of the tree. *)

\* The links of a tree over which frames pass in both directions.
ForwardingLinks(t) ==
    {{p, Peer[p]} : p \in {q \in Ports :
        /\ Peer[q] # NoPort
        /\ prt[q].portEnabled /\ prt[Peer[q]].portEnabled
        /\ pst[<<q, t>>].state = "FORWARDING"
        /\ pst[<<Peer[q], t>>].state = "FORWARDING"}}

\* Links among which every end has another end at the same bridge.
IsCyclic(S) == \A p \in UNION S : \E q \in UNION S :
                   q # p /\ BridgeOf[q] = BridgeOf[p]

LoopFree(t) == \A S \in SUBSET ForwardingLinks(t) : S # {} => ~IsCyclic(S)

\* Frames never go round in circles over the ports the kernel was told to
\* forward on: the kernel has one state per port, that of the CIST.
NoForwardingLoop == LoopFree(0)

\* Inside a region the MSTIs are loop free as well, each on its own.
NoMstiLoop == \A t \in Mstis : LoopFree(t)

\* A root port is made to forward only after the ports that were the root
\* port less than rrWhile ago have been blocked, edge ports excepted.
RetiredRootFirst ==
    [][\A x \in Ptps :
          /\ role[x].role = "Root"
          /\ pst[x].state # "FORWARDING" /\ pst[x].state' = "FORWARDING"
          => \A y \in PtpsOfTree(BrOf(x), Mstid(x)) \ {x} :
                role[y].rrWhile # 0 /\ pst[y].state = "FORWARDING"
                    => edge[PortOf(y)].operEdge]_vars

\* Bridge assurance: when a run has ended, a network port that has heard no
\* BPDU for three hello times does not forward, unless it is an edge port.
SilentNetworkPortBlocked ==
    \A p \in Ports :
        /\ brg[BridgeOf[p]].bridgeEnabled /\ Quiet(BridgeOf[p])
        /\ prt[p].portEnabled /\ assurancePort(p)
        /\ prt[p].brAssuRcvdInfoWhile = 0 /\ ~edge[p].operEdge
        => \A x \in PtpsOfPort(p) : pst[x].state = "BLOCKING"

-----------------------------------------------------------------------------
(* Topology changes and ageing. *)

\* A tree with a running tcWhile reports a topology change, as long as the
\* bridge is enabled.
TopologyChangeReported ==
    \A x \in Ptps : brg[BrOf(x)].bridgeEnabled /\ tc[x].tcWhile # 0 =>
                        tree[TreeOf(x)].topology_change

\* A tree reports a topology change only while some tcWhile runs, as the
\* comment of set_TopologyChange says.
TopologyChangeHasTimer ==
    \A u \in BridgeTrees : tree[u].topology_change =>
        \E x \in PtpsOfTree(u[1], u[2]) : tc[x].tcWhile # 0

\* The kernel ages addresses at the configured rate unless rapid ageing is
\* under way on some port of the bridge.
RapidAgeingEnds ==
    \A b \in Bridges : \/ ageing[b] = brg[b].Ageing_Time
                       \/ \E p \in PortsOf(b) : prt[p].rapidAgeingWhile # 0

\* The step sends a BPDU from port p: PTSM enters a transmitting state, or
\* there is one more on its way to the other end of the link.
Sends(p) ==
    \/ /\ xmt'[p].PTSM # xmt[p].PTSM
       /\ xmt'[p].PTSM \in {"TRANSMIT_CONFIG", "TRANSMIT_TCN", "TRANSMIT_RSTP"}
    \/ Peer[p] # NoPort /\ Len(chan'[Peer[p]]) > Len(chan[Peer[p]])

\* PTSM_to_TRANSMIT_INIT (begin, or the port is down) and a new hold count
\* make a port count again.
CountsAgain(p) ==
    /\ xmt'[p].txCount = 0
    /\ \/ xmt'[p].PTSM = "TRANSMIT_INIT"
       \/ brg'[BridgeOf[p]].Transmit_Hold_Count
             # brg[BridgeOf[p]].Transmit_Hold_Count

\* What a step may do to the count of port p.
Counted(p) ==
    IF Sends(p)
    THEN /\ xmt[p].txCount < brg[BridgeOf[p]].Transmit_Hold_Count
         /\ xmt'[p].txCount = xmt[p].txCount + 1
    ELSE \/ xmt'[p].txCount = xmt[p].txCount
         \/ /\ MSTP_IN_one_second(BridgeOf[p])
            /\ xmt'[p].txCount = xmt[p].txCount - 1
         \/ CountsAgain(p)

\* Every BPDU a port sends is sent below the transmit hold count and counted,
\* and the count goes down by no more than one a second unless the port
\* counts again: in n seconds without that, at most hold count + n BPDUs
\* leave a port.  A port that counts again may send as many as the new count
\* allows right after as many as the old one did.
TransmissionsCounted == [][\A p \in Ports : Counted(p)]_vars

-----------------------------------------------------------------------------
(* Progress. *)

\* Every run ends: the machines stabilise without the one second limit.
RunsEnd == []<>(active = NoBridge)

\* Links that are up at both ends, between enabled bridges.
UpLinks == {{p, Peer[p]} : p \in {q \in Ports :
    /\ Peer[q] # NoPort
    /\ prt[q].portEnabled /\ prt[Peer[q]].portEnabled
    /\ brg[BridgeOf[q]].bridgeEnabled /\ brg[BridgeOf[Peer[q]]].bridgeEnabled}}

\* The link leads from a bridge in S to one outside.
Crosses(link, S) == /\ \E p \in link : BridgeOf[p] \in S
                    /\ \E p \in link : BridgeOf[p] \notin S

\* Bridges that could reach each other over links that are up do reach each
\* other over forwarding links of every tree.
Connected ==
    \A t \in Trees : \A S \in SUBSET Bridges :
        (\E link \in UpLinks : Crosses(link, S))
            => \E link \in ForwardingLinks(t) : Crosses(link, S)

\* Once links and bridges stop going up and down, the network settles on
\* trees that connect all that can be connected.
Converges == <>[]Connected

\* A port that hears no BPDU, and is not required to hear any, serves its end
\* station in the end.
HostsServed ==
    <>[](\A p \in Ports :
            /\ Peer[p] = NoPort /\ prt[p].portEnabled /\ ~assurancePort(p)
            /\ brg[BridgeOf[p]].bridgeEnabled
            => pst[Cist(p)].state = "FORWARDING")
=============================================================================
