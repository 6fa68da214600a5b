--------------------------- MODULE RoleSelection ----------------------------
(***************************************************************************)
(* 13.33 Port Role Selection state machine (PRSSM) of mstp.c: picks the    *)
(* root port of a tree and the role of every port in it.                   *)
(***************************************************************************)
EXTENDS PortInformation

NoPtp == <<NoPort, 0>>

BridgeId(b, t) == tree[<<b, t>>].BridgeIdentifier

\* BridgePriority is wholly determined by the bridge identifier.
BridgePriority(b, t) ==
    [ RootID |-> BridgeId(b, t), ExtRootPathCost |-> 0,
      RRootID |-> BridgeId(b, t), IntRootPathCost |-> 0,
      DesignatedBridgeID |-> BridgeId(b, t), DesignatedPortID |-> 0 ]

\* Addition of path costs, saturating at the largest cost.
AddCost(a, c) == IF a > MaxCost - c THEN MaxCost ELSE a + c

\* a), b) Root path priority of a port, if its information is eligible.
Eligible(y) ==
    /\ info[y].infoIs = "Received"
    /\ ~adm[PortOf(y)].restrictedRole
    /\ vec[y].portPriority.DesignatedBridgeID # BridgeId(BrOf(y), Mstid(y))

RootPathPriority(y) ==
    LET v == vec[y].portPriority
        p == PortOf(y)
    IN  IF rcv[p].rcvdInternal
        THEN [v EXCEPT !.IntRootPathCost =
                           AddCost(@, vec[y].InternalPortPathCost)]
        ELSE IF IsCist(y)
        THEN [v EXCEPT !.ExtRootPathCost =
                           AddCost(@, prt[p].ExternalPortPathCost),
                       !.RRootID = BridgeId(BrOf(y), 0),
                       !.IntRootPathCost = 0]
        ELSE v

\* The port whose root path priority beats the bridge's own and everyone's.
IsRootPort(y, b, t) ==
    /\ Eligible(y)
    /\ betterorsamePriority(RootPathPriority(y), BridgePriority(b, t),
                            vec[y].portId, 0, t = 0)
    /\ \A z \in PtpsOfTree(b, t) : Eligible(z) =>
          betterorsamePriority(RootPathPriority(y), RootPathPriority(z),
                               vec[y].portId, vec[z].portId, t = 0)

RootPtp(b, t) ==
    IF \E y \in PtpsOfTree(b, t) : IsRootPort(y, b, t)
    THEN CHOOSE y \in PtpsOfTree(b, t) : IsRootPort(y, b, t)
    ELSE NoPtp

\* c) The times that go with the new root; Message_Age is a __u8.
RootTimes(r, b, t) ==
    IF r = NoPtp THEN tree[<<b, t>>].BridgeTimes
    ELSE IF rcv[PortOf(r)].rcvdInternal
    THEN [vec[r].portTimes EXCEPT !.remainingHops = Decremented(@)]
    ELSE [vec[r].portTimes EXCEPT !.Message_Age = (@ + 1) % AgeModulus]

\* d), e) What the port would announce as a designated port.
DesignatedPriority(y, rootPriority) ==
    [ rootPriority EXCEPT
        !.DesignatedBridgeID = BridgeId(BrOf(y), Mstid(y)),
        !.DesignatedPortID = vec[y].portId,
        !.RRootID = IF IsCist(y) /\ ~mig[PortOf(y)].sendRSTP
                    THEN BridgeId(BrOf(y), 0) ELSE @ ]

DesignatedTimes(y, rootTimes) ==
    [rootTimes EXCEPT !.Hello_Time = vec[y].portTimes.Hello_Time]

\* f) to m) The role of port y, dp and dt being its designatedPriority and
\* designatedTimes and r the root port.  An MSTI follows the CIST on a port
\* at the boundary of the region.
AtBoundary(y) == /\ ~IsCist(y)
                 /\ info[CistOf(y)].infoIs = "Received"
                 /\ ~rcv[PortOf(y)].infoInternal

NewSelectedRole(y, r, dp) ==
    LET cistRole == role[CistOf(y)].selectedRole
        own == vec[y].portPriority
    IN  IF info[y].infoIs = "Disabled" THEN "Disabled"
        ELSE IF AtBoundary(y)
        THEN IF cistRole = "Root" THEN "Master" ELSE cistRole
        ELSE IF info[y].infoIs \in {"Aged", "Mine"} THEN "Designated"
        ELSE IF y = r THEN "Root"
        ELSE IF betterorsamePriority(own, dp, 0, 0, IsCist(y))
        THEN IF own.DesignatedBridgeID # BridgeId(BrOf(y), Mstid(y))
             THEN "Alternate" ELSE "Backup"
        ELSE "Designated"

\* Mutant: a port that holds its own information keeps it.
NewUpdtInfo_mineKept(y, r, dp, dt) ==
    IF info[y].infoIs \in {"Disabled", "Mine"} \/ AtBoundary(y)
    THEN info[y].updtInfo
    ELSE IF info[y].infoIs = "Aged" THEN TRUE
    ELSE y # r /\ ~betterorsamePriority(vec[y].portPriority, dp, 0, 0, IsCist(y))

NewUpdtInfo(y, r, dp, dt) ==
    LET own == vec[y].portPriority
        stale(cist) == ~samePriorityAndTimers(own, dp, vec[y].portTimes, dt,
                                              cist)
    IN  IF info[y].infoIs = "Disabled" THEN info[y].updtInfo
        ELSE IF AtBoundary(y) THEN info[y].updtInfo \/ stale(FALSE)
        ELSE IF info[y].infoIs = "Aged" THEN TRUE
        ELSE IF info[y].infoIs = "Mine"
        THEN info[y].updtInfo \/ stale(IsCist(y))
        ELSE /\ y # r
             /\ ~betterorsamePriority(own, dp, 0, 0, IsCist(y))

-----------------------------------------------------------------------------
PRSSM_run(b, t) ==
    IF \/ tree[<<b, t>>].PRSSM = "INIT_TREE"
       \/ \E y \in PtpsOfTree(b, t) : info[y].reselect
    THEN "ROLE_SELECTION" ELSE None

\* clearReselectTree, updtRolesTree with syncMaster and reselectMSTIs, and
\* setSelectedTree.
PRSSM_to_ROLE_SELECTION(b, t) ==
    LET r == RootPtp(b, t)
        old == tree[<<b, t>>].rootPriority
        rootPriority == IF r = NoPtp THEN BridgePriority(b, t)
                        ELSE RootPathPriority(r)
        rootTimes == RootTimes(r, b, t)
        members == PtpsOfTree(b, t)
        dp == [y \in members |-> DesignatedPriority(y, rootPriority)]
        dt == [y \in members |-> DesignatedTimes(y, rootTimes)]
        newRole == [y \in members |-> NewSelectedRole(y, r, dp[y])]
        \* the MSTIs synchronise when the regional root changes
        syncMaster == /\ t = 0
                      /\ rootPriority.RRootID # old.RRootID
                      /\ \/ rootPriority.ExtRootPathCost # 0
                         \/ old.ExtRootPathCost # 0
        synced(y) == /\ syncMaster /\ BrOf(y) = b /\ ~IsCist(y)
                     /\ rcv[PortOf(y)].infoInternal
        \* the MSTIs of a port follow a change of its CIST role
        reselected(y) == /\ t = 0 /\ BrOf(y) = b /\ ~IsCist(y)
                         /\ info[CistOf(y)].infoIs = "Received"
                         /\ newRole[CistOf(y)] # role[CistOf(y)].role
    IN  /\ PRSSM_run(b, t) = "ROLE_SELECTION"
        /\ tree' = [tree EXCEPT ![<<b, t>>] =
                     [@ EXCEPT !.PRSSM = "ROLE_SELECTION",
                               !.rootPortId =
                                   IF r = NoPtp THEN 0 ELSE vec[r].portId,
                               !.rootPriority = rootPriority,
                               !.rootTimes = rootTimes]]
        /\ vec' = [y \in Ptps |->
              IF y \in members
              THEN [vec[y] EXCEPT !.designatedPriority = dp[y],
                                  !.designatedTimes = dt[y]]
              ELSE vec[y]]
        /\ info' = [y \in Ptps |->
              IF y \in members
              THEN [info[y] EXCEPT !.reselect = FALSE, !.selected = TRUE,
                                   !.updtInfo = NewUpdtInfo(y, r, dp[y], dt[y])]
              ELSE [info[y] EXCEPT !.agree = @ /\ ~synced(y),
                                   !.agreed = @ /\ ~synced(y),
                                   !.reselect = @ \/ reselected(y)]]
        /\ role' = [y \in Ptps |->
              IF y \in members
              THEN [role[y] EXCEPT !.selectedRole = newRole[y]]
              ELSE [role[y] EXCEPT !.synced = @ /\ ~synced(y),
                                   !.sync = @ \/ synced(y)]]
        /\ UNCHANGED <<portVars, pst, tc, ageing, chan>>
=============================================================================
