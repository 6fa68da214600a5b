-------------------------- MODULE RoleTransitions ---------------------------
(***************************************************************************)
(* 13.34 Port Role Transitions state machine (PRTSM) of mstp.c.  States of *)
(* different roles that do the same work share an action; an action moves  *)
(* to the state PRTSM_run names.                                           *)
(***************************************************************************)
EXTENDS RoleSelection

\* 13.25.1 allSynced, as seen from x.
allSynced(x) ==
    \A y \in PtpsOfTree(BrOf(x), Mstid(x)) :
        /\ Settled(y)
        /\ role[y].role = role[y].selectedRole
        /\ CASE role[x].role \in {"Root", "Alternate"} ->
                    role[y].role = "Root" \/ role[y].synced
             [] role[x].role \in {"Designated", "Master"} ->
                    y = x \/ role[y].synced
             [] OTHER -> FALSE

\* Mutant: recent root ports are forgotten.
reRooted_always(x) == TRUE

\* 17.20.10 of 802.1D: no other port of the tree was a root port recently.
reRooted(x) == \A y \in PtpsOfTree(BrOf(x), Mstid(x)) :
                   y # x => role[y].rrWhile = 0

-----------------------------------------------------------------------------
\* The state a settled port in its resting state X_PORT moves to.
\* Mutant: fdWhile is compared with the wrong time.
DisabledPort_run_wrongTime(x) ==
    LET r == role[x]
    IN  IF r.sync \/ r.reRoot \/ ~r.synced \/ r.fdWhile # FwdDelay(PortOf(x)) + 1
        THEN "DISABLED_PORT" ELSE None

DisabledPort_run(x) ==
    LET r == role[x]
    IN  IF r.sync \/ r.reRoot \/ ~r.synced \/ r.fdWhile # MaxAge(PortOf(x))
        THEN "DISABLED_PORT" ELSE None

MasterPort_run(x) ==
    LET r == role[x]
        i == info[x]
        s == pst[x]
        operEdge == edge[PortOf(x)].operEdge
    IN  IF r.reRoot /\ r.rrWhile = 0 THEN "MASTER_RETIRED"
        ELSE IF \/ ~s.learning /\ ~s.forwarding /\ ~r.synced
                \/ (i.agreed \/ operEdge) /\ ~r.synced
                \/ r.sync /\ r.synced THEN "MASTER_SYNCED"
        ELSE IF (allSynced(x) /\ ~i.agree) \/ (i.proposed /\ i.agree)
        THEN "MASTER_AGREED"
        ELSE IF i.proposed /\ ~i.agree THEN "MASTER_PROPOSED"
        ELSE IF (r.fdWhile = 0 \/ allSynced(x)) /\ r.learn /\ ~r.forward
        THEN "MASTER_FORWARD"
        ELSE IF (r.fdWhile = 0 \/ allSynced(x)) /\ ~r.learn
        THEN "MASTER_LEARN"
        ELSE IF /\ \/ r.sync /\ ~r.synced
                   \/ r.reRoot /\ r.rrWhile # 0
                   \/ i.disputed
                /\ ~operEdge /\ (r.learn \/ r.forward) THEN "MASTER_DISCARD"
        ELSE None

RootPort_run(x) ==
    LET r == role[x]
        i == info[x]
        mayForward == \/ r.fdWhile = 0
                      \/ reRooted(x) /\ r.rbWhile = 0 /\ rstpVersion(BrOf(x))
    IN  IF ~r.forward /\ ~r.reRoot THEN "REROOT"
        ELSE IF (i.agreed /\ ~r.synced) \/ (r.sync /\ r.synced)
        THEN "ROOT_SYNCED"
        ELSE IF (allSynced(x) /\ ~i.agree) \/ (i.proposed /\ i.agree)
        THEN "ROOT_AGREED"
        ELSE IF i.proposed /\ ~i.agree THEN "ROOT_PROPOSED"
        ELSE IF mayForward /\ ~r.learn THEN "ROOT_LEARN"
        ELSE IF mayForward /\ ~r.forward THEN "ROOT_FORWARD"
        ELSE IF r.reRoot /\ r.forward THEN "REROOTED"
        ELSE IF r.rrWhile # FwdDelay(PortOf(x)) THEN "ROOT_PORT"
        ELSE None

DesignatedPort_run(x) ==
    LET r == role[x]
        i == info[x]
        s == pst[x]
        operEdge == edge[PortOf(x)].operEdge
        BaInconsistent == prt[PortOf(x)].BaInconsistent
        mayForward == /\ r.fdWhile = 0 \/ i.agreed \/ operEdge
                      /\ r.rrWhile = 0 \/ ~r.reRoot
                      /\ ~r.sync /\ ~BaInconsistent
    IN  IF r.reRoot /\ r.rrWhile = 0 THEN "DESIGNATED_RETIRED"
        ELSE IF \/ ~s.learning /\ ~s.forwarding /\ ~r.synced
                \/ (i.agreed \/ operEdge) /\ ~r.synced
                \/ r.sync /\ r.synced THEN "DESIGNATED_SYNCED"
        ELSE IF allSynced(x) /\ (i.proposed \/ ~i.agree)
        THEN "DESIGNATED_AGREED"
        ELSE IF ~r.forward /\ ~i.agreed /\ ~i.proposing /\ ~operEdge
        THEN "DESIGNATED_PROPOSE"
        ELSE IF mayForward /\ ~r.learn THEN "DESIGNATED_LEARN"
        ELSE IF mayForward /\ ~r.forward THEN "DESIGNATED_FORWARD"
        ELSE IF /\ \/ r.sync /\ ~r.synced
                   \/ r.reRoot /\ r.rrWhile # 0
                   \/ i.disputed \/ BaInconsistent
                /\ ~operEdge /\ (r.learn \/ r.forward)
        THEN "DESIGNATED_DISCARD"
        ELSE None

AlternatePort_run(x) ==
    LET r == role[x]
        i == info[x]
        p == PortOf(x)
    IN  IF (allSynced(x) /\ ~i.agree) \/ (i.proposed /\ i.agree)
        THEN "ALTERNATE_AGREED"
        ELSE IF i.proposed /\ ~i.agree THEN "ALTERNATE_PROPOSED"
        ELSE IF r.rbWhile # 2 * PortHelloTime(p) /\ r.role = "Backup"
        THEN "BACKUP_PORT"
        ELSE IF r.fdWhile # forwardDelay(p) \/ r.sync \/ r.reRoot \/ ~r.synced
        THEN "ALTERNATE_PORT"
        ELSE None

\* The first state of a role.
EntryState(r) == CASE r = "Disabled" -> "DISABLE_PORT"
                   [] r = "Master" -> "MASTER_PORT"
                   [] r = "Root" -> "ROOT_PORT"
                   [] r = "Designated" -> "DESIGNATED_PORT"
                   [] OTHER -> "BLOCK_PORT"

PRTSM_run(x) ==
    LET r == role[x]
        settled == Settled(x)
        blocked == ~pst[x].learning /\ ~pst[x].forwarding
    IN  IF r.role # r.selectedRole /\ settled THEN EntryState(r.selectedRole)
        ELSE CASE r.PRTSM = "INIT_PORT" -> "DISABLE_PORT"
               [] r.PRTSM = "DISABLE_PORT" ->
                    IF settled /\ blocked THEN "DISABLED_PORT" ELSE None
               [] r.PRTSM = "DISABLED_PORT" ->
                    IF settled THEN DisabledPort_run(x) ELSE None
               [] r.PRTSM = "MASTER_PORT" ->
                    IF settled THEN MasterPort_run(x) ELSE None
               [] r.PRTSM = "ROOT_PORT" ->
                    IF settled THEN RootPort_run(x) ELSE None
               [] r.PRTSM = "DESIGNATED_PORT" ->
                    IF settled THEN DesignatedPort_run(x) ELSE None
               [] r.PRTSM = "BLOCK_PORT" ->
                    IF settled /\ blocked THEN "ALTERNATE_PORT" ELSE None
               [] r.PRTSM = "ALTERNATE_PORT" ->
                    IF settled THEN AlternatePort_run(x) ELSE None
               [] r.PRTSM \in MasterStates \ {"MASTER_PORT"} ->
                    "MASTER_PORT"
               [] r.PRTSM \in RootStates \ {"ROOT_PORT"} -> "ROOT_PORT"
               [] r.PRTSM \in DesignatedStates \ {"DESIGNATED_PORT"} ->
                    "DESIGNATED_PORT"
               [] OTHER -> "ALTERNATE_PORT"

-----------------------------------------------------------------------------
PRTSM_role_only ==
    UNCHANGED <<portVars, info, vec, pst, tc, tree, ageing, chan>>
PRTSM_role_info ==
    UNCHANGED <<portVars, vec, pst, tc, tree, ageing, chan>>

\* The record PRTSM_to_INIT_PORT leaves behind: the begin state.
InitPort(r, p) ==
    [r EXCEPT !.PRTSM = "INIT_PORT", !.role = "Disabled", !.learn = FALSE,
              !.forward = FALSE, !.synced = FALSE, !.sync = TRUE,
              !.reRoot = TRUE, !.rrWhile = FwdDelay(p), !.fdWhile = MaxAge(p),
              !.rbWhile = 0]

PRTSM_to_DISABLE_PORT(x) ==
    /\ PRTSM_run(x) = "DISABLE_PORT"
    /\ role' = [role EXCEPT ![x] =
                 [@ EXCEPT !.PRTSM = "DISABLE_PORT", !.role = "Disabled",
                           !.learn = FALSE, !.forward = FALSE]]
    /\ PRTSM_role_only

PRTSM_to_DISABLED_PORT(x) ==
    /\ PRTSM_run(x) = "DISABLED_PORT"
    /\ role' = [role EXCEPT ![x] =
                 [@ EXCEPT !.PRTSM = "DISABLED_PORT",
                           !.fdWhile = MaxAge(PortOf(x)), !.synced = TRUE,
                           !.rrWhile = 0, !.sync = FALSE, !.reRoot = FALSE]]
    /\ PRTSM_role_only

\* PRTSM_to_MASTER_PORT, PRTSM_to_DESIGNATED_PORT
PRTSM_to_MASTER_or_DESIGNATED_PORT(x) ==
    /\ PRTSM_run(x) \in {"MASTER_PORT", "DESIGNATED_PORT"}
    /\ role' = [role EXCEPT ![x] =
                 [@ EXCEPT !.PRTSM = PRTSM_run(x),
                           !.role = IF PRTSM_run(x) = "MASTER_PORT"
                                    THEN "Master" ELSE "Designated"]]
    /\ PRTSM_role_only

PRTSM_to_ROOT_PORT(x) ==
    /\ PRTSM_run(x) = "ROOT_PORT"
    /\ role' = [role EXCEPT ![x] =
                 [@ EXCEPT !.PRTSM = "ROOT_PORT", !.role = "Root",
                           !.rrWhile = FwdDelay(PortOf(x))]]
    /\ PRTSM_role_only

\* PRTSM_to_MASTER_PROPOSED, PRTSM_to_ROOT_PROPOSED, PRTSM_to_ALTERNATE_PROPOSED:
\* every port of the tree is told to synchronise (setSyncTree).
PRTSM_to_PROPOSED(x) ==
    /\ PRTSM_run(x) \in {"MASTER_PROPOSED", "ROOT_PROPOSED",
                         "ALTERNATE_PROPOSED"}
    /\ role' = [y \in Ptps |->
          IF TreeOf(y) = TreeOf(x)
          THEN [role[y] EXCEPT !.sync = TRUE,
                               !.PRTSM = IF y = x THEN PRTSM_run(x) ELSE @]
          ELSE role[y]]
    /\ info' = [info EXCEPT ![x] = [@ EXCEPT !.proposed = FALSE]]
    /\ PRTSM_role_info

\* PRTSM_to_{MASTER,ROOT,DESIGNATED,ALTERNATE}_AGREED: a master port does
\* not ask for a BPDU, an alternate port keeps its sync flag.
PRTSM_to_AGREED(x) ==
    LET s == PRTSM_run(x)
    IN  /\ s \in {"MASTER_AGREED", "ROOT_AGREED", "DESIGNATED_AGREED",
                  "ALTERNATE_AGREED"}
        /\ role' = [role EXCEPT ![x] =
                     [@ EXCEPT !.PRTSM = s,
                               !.sync = role[x].sync /\ s = "ALTERNATE_AGREED"]]
        /\ info' = [info EXCEPT ![x] =
                     [@ EXCEPT !.proposed = FALSE, !.agree = TRUE]]
        /\ xmt' = IF s = "MASTER_AGREED" THEN xmt ELSE XmtWithNewInfo(x)
        /\ UNCHANGED <<prt, rcv, mig, edge, vec, pst, tc, tree, ageing, chan>>

\* PRTSM_to_{MASTER,ROOT,DESIGNATED}_SYNCED: a root port keeps rrWhile.
PRTSM_to_SYNCED(x) ==
    LET s == PRTSM_run(x)
    IN  /\ s \in {"MASTER_SYNCED", "ROOT_SYNCED", "DESIGNATED_SYNCED"}
        /\ role' = [role EXCEPT ![x] =
                     [@ EXCEPT !.PRTSM = s, !.synced = TRUE, !.sync = FALSE,
                               !.rrWhile =
                         IF s = "ROOT_SYNCED" THEN role[x].rrWhile ELSE 0]]
        /\ PRTSM_role_only

\* PRTSM_to_MASTER_RETIRED, PRTSM_to_DESIGNATED_RETIRED, PRTSM_to_REROOTED
PRTSM_to_RETIRED(x) ==
    /\ PRTSM_run(x) \in {"MASTER_RETIRED", "DESIGNATED_RETIRED", "REROOTED"}
    /\ role' = [role EXCEPT ![x] =
                 [@ EXCEPT !.PRTSM = PRTSM_run(x), !.reRoot = FALSE]]
    /\ PRTSM_role_only

\* setReRootTree: every port of the tree is told of the new root port.
PRTSM_to_REROOT(x) ==
    /\ PRTSM_run(x) = "REROOT"
    /\ role' = [y \in Ptps |->
          IF TreeOf(y) = TreeOf(x)
          THEN [role[y] EXCEPT !.reRoot = TRUE,
                               !.PRTSM = IF y = x THEN "REROOT" ELSE @]
          ELSE role[y]]
    /\ PRTSM_role_only

\* PRTSM_to_{MASTER,ROOT,DESIGNATED}_LEARN
PRTSM_to_LEARN(x) ==
    /\ PRTSM_run(x) \in {"MASTER_LEARN", "ROOT_LEARN", "DESIGNATED_LEARN"}
    /\ role' = [role EXCEPT ![x] =
                 [@ EXCEPT !.PRTSM = PRTSM_run(x), !.learn = TRUE,
                           !.fdWhile = forwardDelay(PortOf(x))]]
    /\ PRTSM_role_only

\* PRTSM_to_{MASTER,ROOT,DESIGNATED}_FORWARD: a master or designated port
\* also counts the neighbour as agreeing unless it speaks STP to it.
PRTSM_to_FORWARD(x) ==
    /\ PRTSM_run(x) \in {"MASTER_FORWARD", "ROOT_FORWARD",
                         "DESIGNATED_FORWARD"}
    /\ role' = [role EXCEPT ![x] =
                 [@ EXCEPT !.PRTSM = PRTSM_run(x), !.forward = TRUE,
                           !.fdWhile = 0]]
    /\ info' = IF PRTSM_run(x) = "ROOT_FORWARD" THEN info
               ELSE [info EXCEPT ![x] =
                      [@ EXCEPT !.agreed = mig[PortOf(x)].sendRSTP]]
    /\ PRTSM_role_info

\* PRTSM_to_MASTER_DISCARD, PRTSM_to_DESIGNATED_DISCARD
PRTSM_to_DISCARD(x) ==
    /\ PRTSM_run(x) \in {"MASTER_DISCARD", "DESIGNATED_DISCARD"}
    /\ role' = [role EXCEPT ![x] =
                 [@ EXCEPT !.PRTSM = PRTSM_run(x), !.learn = FALSE,
                           !.forward = FALSE,
                           !.fdWhile = forwardDelay(PortOf(x))]]
    /\ info' = [info EXCEPT ![x] = [@ EXCEPT !.disputed = FALSE]]
    /\ PRTSM_role_info

\* The delay after which a silent neighbour is taken for an end station.
EdgeDelay(x) == IF prt[PortOf(x)].operPointToPointMAC THEN MigrateTime
                ELSE vec[x].designatedTimes.Max_Age

\* The CIST proposal restarts that delay.
PRTSM_to_DESIGNATED_PROPOSE(x) ==
    LET p == PortOf(x)
    IN  /\ PRTSM_run(x) = "DESIGNATED_PROPOSE"
        /\ role' = [role EXCEPT ![x] =
                     [@ EXCEPT !.PRTSM = "DESIGNATED_PROPOSE"]]
        /\ info' = [info EXCEPT ![x] = [@ EXCEPT !.proposing = TRUE]]
        /\ rcv' = IF IsCist(x)
                  THEN [rcv EXCEPT ![p] =
                          [@ EXCEPT !.edgeDelayWhile = EdgeDelay(x)]]
                  ELSE rcv
        /\ xmt' = XmtWithNewInfo(x)
        /\ UNCHANGED <<prt, mig, edge, vec, pst, tc, tree, ageing, chan>>

\* Mutant: learn and forward are not taken back.
PRTSM_to_BLOCK_PORT_noStop(x) ==
    /\ PRTSM_run(x) = "BLOCK_PORT"
    /\ role' = [role EXCEPT ![x] =
                 [@ EXCEPT !.PRTSM = "BLOCK_PORT",
                           !.role = role[x].selectedRole]]
    /\ PRTSM_role_only

PRTSM_to_BLOCK_PORT(x) ==
    /\ PRTSM_run(x) = "BLOCK_PORT"
    /\ role' = [role EXCEPT ![x] =
                 [@ EXCEPT !.PRTSM = "BLOCK_PORT",
                           !.role = role[x].selectedRole, !.learn = FALSE,
                           !.forward = FALSE]]
    /\ PRTSM_role_only

PRTSM_to_BACKUP_PORT(x) ==
    /\ PRTSM_run(x) = "BACKUP_PORT"
    /\ role' = [role EXCEPT ![x] =
                 [@ EXCEPT !.PRTSM = "BACKUP_PORT",
                           !.rbWhile = 2 * PortHelloTime(PortOf(x))]]
    /\ PRTSM_role_only

PRTSM_to_ALTERNATE_PORT(x) ==
    /\ PRTSM_run(x) = "ALTERNATE_PORT"
    /\ role' = [role EXCEPT ![x] =
                 [@ EXCEPT !.PRTSM = "ALTERNATE_PORT",
                           !.fdWhile = forwardDelay(PortOf(x)),
                           !.synced = TRUE, !.rrWhile = 0, !.sync = FALSE,
                           !.reRoot = FALSE]]
    /\ PRTSM_role_only
=============================================================================
