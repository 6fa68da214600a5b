----------------------------- MODULE MstpQuiet ------------------------------
(***************************************************************************)
(* What a run that has ended by itself leaves behind: every message has    *)
(* been consumed (QuietDrained) and every port has taken its role          *)
(* (QuietSettled).  And what one run leaves to the next: times that are    *)
(* never zero, on which the timer of a topology change depends             *)
(* (TopologyChangeHasTimer).                                               *)
(***************************************************************************)
EXTENDS MstpRuns

-----------------------------------------------------------------------------
(* The variables of one per-tree port that decide whether it can settle.   *)

\* A step leaves them alone; it may ask for the roles to be selected again.
InfoKept(x) ==
    /\ info'[x].PISM = info[x].PISM
    /\ info'[x].rcvdInfo = info[x].rcvdInfo
    /\ info'[x].infoIs = info[x].infoIs
    /\ info'[x].updtInfo = info[x].updtInfo
    /\ role'[x].selectedRole = role[x].selectedRole
    /\ tree'[TreeOf(x)].PRSSM = tree[TreeOf(x)].PRSSM
    /\ \/ info'[x].reselect = info[x].reselect
       \/ info'[x].reselect = TRUE
    /\ \/ info'[x].selected = info[x].selected
       \/ info'[x].selected = FALSE /\ info'[x].reselect = TRUE

\* The Port Information machine of x moves: to DISABLED, to AGED, to UPDATE,
\* or through the states that classify a message.
BecomesDisabled(x) ==
    /\ info'[x].PISM = "DISABLED" /\ info'[x].infoIs = "Disabled"
    /\ info'[x].selected = FALSE /\ info'[x].reselect = TRUE
    /\ info'[x].updtInfo = info[x].updtInfo
BecomesAged(x) ==
    /\ info'[x].PISM = "AGED" /\ info'[x].infoIs = "Aged"
    /\ info'[x].selected = FALSE /\ info'[x].reselect = TRUE
    /\ info'[x].updtInfo = info[x].updtInfo
BecomesMine(x) ==
    /\ info'[x].PISM = "UPDATE" /\ info'[x].infoIs = "Mine"
    /\ info'[x].selected = info[x].selected
    /\ info'[x].reselect = info[x].reselect
    /\ info'[x].updtInfo = FALSE
MovesOn(x) ==
    /\ info'[x].PISM \notin {"DISABLED", "AGED"}
    /\ info'[x].updtInfo = info[x].updtInfo
    /\ \/ /\ info'[x].infoIs = info[x].infoIs
          /\ info'[x].selected = info[x].selected
          /\ info'[x].reselect = info[x].reselect
       \/ /\ info'[x].infoIs = "Received"
          /\ info'[x].selected = FALSE /\ info'[x].reselect = TRUE

\* Where the moves of Port Information start.
LEMMA InfoSources ==
    ASSUME TypeOK, NEW x \in Ptps
    PROVE  /\ PISM_run(x) = "UPDATE" => info[x].PISM \in {"AGED", "CURRENT"}
           /\ PISM_run(x) \notin {"DISABLED", "AGED", "UPDATE", None}
                  => info[x].PISM \notin {"DISABLED", "AGED"}
<1>1. info[x].PISM \in PISM_states
   BY InfoFields DEF TypeOK, MachineTypeOK
<1>2. QED BY <1>1 DEF PISM_run, None, PISM_states

\* DISABLED, AGED and UPDATE.
LEMMA InfoMove ==
    ASSUME TypeOK, NEW x \in Ptps
    PROVE  /\ PISM_to_DISABLED(x) => BecomesDisabled(x)
           /\ PISM_to_AGED(x) => BecomesAged(x)
           /\ PISM_to_UPDATE(x) => BecomesMine(x)
<1>t. info \in [Ptps -> InfoRecs] BY DEF TypeOK, MachineTypeOK
<1>r. info[x] \in InfoRecs BY <1>t
<1>1. ASSUME PISM_to_DISABLED(x) PROVE BecomesDisabled(x)
  <2>1. info'[x] = DisabledInfo(info[x])
     BY <1>1, <1>t DEF PISM_to_DISABLED
  <2>2. QED BY <1>r, <2>1 DEF DisabledInfo, InfoRecs, BecomesDisabled
<1>2. ASSUME PISM_to_AGED(x) PROVE BecomesAged(x)
  <2>1. info'[x] = [info[x] EXCEPT !.PISM = "AGED", !.infoIs = "Aged",
                                   !.reselect = TRUE, !.selected = FALSE]
     BY <1>2, <1>t DEF PISM_to_AGED
  <2>2. QED BY <1>r, <2>1 DEF InfoRecs, BecomesAged
<1>3. ASSUME PISM_to_UPDATE(x) PROVE BecomesMine(x)
  <2>1. PICK v : info'[x] = [info[x] EXCEPT !.PISM = "UPDATE",
                     !.proposing = FALSE, !.proposed = FALSE, !.agreed = v,
                     !.updtInfo = FALSE, !.infoIs = "Mine"]
     BY <1>3, <1>t DEF PISM_to_UPDATE
  <2>2. QED BY <1>r, <2>1 DEF InfoRecs, BecomesMine
<1>4. QED BY <1>1, <1>2, <1>3

\* The states that classify a message.
LEMMA InfoReceive ==
    ASSUME TypeOK, NEW x \in Ptps,
           \/ PISM_to_RECEIVE(x) \/ PISM_to_DESIGNATED(x)
           \/ PISM_to_INFERIOR_DESIGNATED(x) \/ PISM_to_NOT_DESIGNATED(x)
           \/ PISM_to_OTHER(x) \/ PISM_to_CURRENT(x)
    PROVE  MovesOn(x)
<1>t. info \in [Ptps -> InfoRecs] BY DEF TypeOK, MachineTypeOK
<1>r. info[x] \in InfoRecs BY <1>t
<1>1. CASE PISM_to_RECEIVE(x)
  <2>1. PICK r, m : info'[x] = [info[x] EXCEPT !.PISM = "RECEIVE",
                                  !.rcvdInfo = r, !.mastered = m]
     BY <1>1 DEF PISM_to_RECEIVE
  <2>2. QED BY <1>r, <2>1 DEF InfoRecs, MovesOn
<1>2. CASE PISM_to_DESIGNATED(x) /\ PISM_run(x) = "SUPERIOR_DESIGNATED"
  <2>1. PICK p, a, q, g, w, s, i :
           /\ info'[x] = [info[x] EXCEPT
                         !.PISM = PISM_run(x), !.rcvdMsg = FALSE,
                         !.proposed = p, !.agreed = a, !.proposing = q,
                         !.agree = g, !.rcvdInfoWhile = w,
                         !.infoIs = "Received",
                         !.reselect = i, !.selected = s]
           /\ i = (info[x].reselect \/ PISM_run(x) = "SUPERIOR_DESIGNATED")
           /\ s = (info[x].selected /\ ~(PISM_run(x) = "SUPERIOR_DESIGNATED"))
     BY <1>2 DEF PISM_to_DESIGNATED
  <2>2. i = TRUE /\ s = FALSE BY <1>2, <2>1
  <2>3. QED BY <1>r, <1>2, <2>1, <2>2 DEF InfoRecs, MovesOn
<1>3. CASE PISM_to_DESIGNATED(x) /\ PISM_run(x) # "SUPERIOR_DESIGNATED"
  <2>0. PISM_run(x) = "REPEATED_DESIGNATED" BY <1>3 DEF PISM_to_DESIGNATED
  <2> DEFINE superior == PISM_run(x) = "SUPERIOR_DESIGNATED"
             p == info[x].proposed \/ Message(x).proposal
             a == AgreementIn(x)
             q == info[x].proposing /\ ~superior /\ ~AgreementIn(x)
             g == info[x].agree /\ (superior => betterorsameReceived(x))
             w == RcvdInfoLife(x, IF superior THEN RecordedTimes(x)
                                  ELSE vec[x].portTimes)
             o == IF superior THEN "Received" ELSE info[x].infoIs
             i == info[x].reselect \/ superior
             s == info[x].selected /\ ~superior
  <2>1. info'[x] = [info[x] EXCEPT
                      !.PISM = PISM_run(x), !.rcvdMsg = FALSE,
                      !.proposed = p, !.agreed = a, !.proposing = q,
                      !.agree = g, !.rcvdInfoWhile = w, !.infoIs = o,
                      !.reselect = i, !.selected = s]
     BY <1>3 DEF PISM_to_DESIGNATED
  <2>2. info[x].reselect \in BOOLEAN /\ info[x].selected \in BOOLEAN
     BY <1>r, InfoFields
  <2>3. i = info[x].reselect /\ s = info[x].selected /\ o = info[x].infoIs
     BY <1>3, <2>2
  <2> HIDE DEF p, a, q, g, w, o, i, s, superior
  <2>4. QED BY <1>r, <2>0, <2>1, <2>3 DEF InfoRecs, MovesOn
<1>4. CASE PISM_to_INFERIOR_DESIGNATED(x)
  <2>1. PICK d, a : info'[x] = [info[x] EXCEPT !.PISM = "INFERIOR_DESIGNATED",
                      !.rcvdMsg = FALSE, !.disputed = d, !.agreed = a]
     BY <1>4 DEF PISM_to_INFERIOR_DESIGNATED
  <2>2. QED BY <1>r, <2>1 DEF InfoRecs, MovesOn
<1>5. CASE PISM_to_NOT_DESIGNATED(x)
  <2>1. PICK a, q : info'[x] = [info[x] EXCEPT !.PISM = "NOT_DESIGNATED",
                      !.rcvdMsg = FALSE, !.agreed = a, !.proposing = q]
     BY <1>5 DEF PISM_to_NOT_DESIGNATED
  <2>2. QED BY <1>r, <2>1 DEF InfoRecs, MovesOn
<1>6. CASE PISM_to_OTHER(x)
  <2>1. info'[x] = [info[x] EXCEPT !.PISM = "OTHER", !.rcvdMsg = FALSE]
     BY <1>6, <1>t DEF PISM_to_OTHER
  <2>2. QED BY <1>r, <2>1 DEF InfoRecs, MovesOn
<1>7. CASE PISM_to_CURRENT(x)
  <2>1. info'[x] = [info[x] EXCEPT !.PISM = "CURRENT"]
     BY <1>7, <1>t DEF PISM_to_CURRENT
  <2>2. QED BY <1>r, <2>1 DEF InfoRecs, MovesOn
<1>8. QED BY <1>1, <1>2, <1>3, <1>4, <1>5, <1>6, <1>7

\* The six variables of the Port Information machine, all of them as before.
InfoSame(x) ==
    /\ info'[x].PISM = info[x].PISM
    /\ info'[x].rcvdInfo = info[x].rcvdInfo
    /\ info'[x].infoIs = info[x].infoIs
    /\ info'[x].updtInfo = info[x].updtInfo
    /\ info'[x].reselect = info[x].reselect
    /\ info'[x].selected = info[x].selected

\* The records of the tree and of the selected role, as before.
ChoiceSame(x) ==
    /\ role'[x].selectedRole = role[x].selectedRole
    /\ tree'[TreeOf(x)].PRSSM = tree[TreeOf(x)].PRSSM

\* Port Information of x changes the flags of other trees at most.
LEMMA InfoFollowers ==
    ASSUME TypeOK, NEW x \in Ptps, PISM_step(x), NEW y \in Ptps, y # x
    PROVE  InfoSame(y)
<1>t. info \in [Ptps -> InfoRecs] BY DEF TypeOK, MachineTypeOK
<1>r. info[y] \in InfoRecs BY <1>t
<1>0. info'[y] = info[y] => InfoSame(y) BY DEF InfoSame
<1>1. CASE \/ PISM_to_DISABLED(x) \/ PISM_to_AGED(x) \/ PISM_to_UPDATE(x)
           \/ PISM_to_OTHER(x) \/ PISM_to_CURRENT(x)
  <2>1. PICK v : info' = [info EXCEPT ![x] = v]
     BY <1>1 DEF PISM_to_DISABLED, PISM_to_AGED, PISM_to_UPDATE,
                 PISM_to_OTHER, PISM_to_CURRENT
  <2>2. QED BY <1>0, <1>t, <2>1
<1>2. CASE PISM_to_RECEIVE(x)
  <2>1. \/ info'[y] = info[y]
        \/ info'[y] = [info[y] EXCEPT !.mastered = FALSE]
     BY <1>2 DEF PISM_to_RECEIVE
  <2>2. QED BY <1>0, <1>r, <2>1 DEF InfoRecs, InfoSame
<1>3. CASE PISM_to_DESIGNATED(x)
  <2>1. \/ info'[y] = info[y]
        \/ \E p, a, q : info'[y] = [info[y] EXCEPT !.proposed = p,
                                       !.agreed = a, !.proposing = q]
     BY <1>3 DEF PISM_to_DESIGNATED
  <2>2. QED BY <1>0, <1>r, <2>1 DEF InfoRecs, InfoSame
<1>4. CASE PISM_to_INFERIOR_DESIGNATED(x)
  <2>1. \/ info'[y] = info[y]
        \/ \E d, a : info'[y] = [info[y] EXCEPT !.disputed = d, !.agreed = a]
     BY <1>4 DEF PISM_to_INFERIOR_DESIGNATED
  <2>2. QED BY <1>0, <1>r, <2>1 DEF InfoRecs, InfoSame
<1>5. CASE PISM_to_NOT_DESIGNATED(x)
  <2>1. \/ info'[y] = info[y]
        \/ \E p, a, q : info'[y] = [info[y] EXCEPT !.agreed = a,
                                       !.proposing = q, !.proposed = p]
     BY <1>5 DEF PISM_to_NOT_DESIGNATED
  <2>2. QED BY <1>0, <1>r, <2>1 DEF InfoRecs, InfoSame
<1>6. QED BY <1>1, <1>2, <1>3, <1>4, <1>5 DEF PISM_step

\* It leaves the tree and every selected role alone.
LEMMA InfoChoice ==
    ASSUME TypeOK, NEW x \in Ptps, PISM_step(x), NEW y \in Ptps
    PROVE  ChoiceSame(y)
<1>t. role \in [Ptps -> RoleRecs] BY DEF TypeOK, MachineTypeOK
<1>r. role[x] \in RoleRecs BY <1>t
<1>1. tree' = tree
   BY DEF PISM_step, PISM_to_DISABLED, PISM_to_AGED, PISM_to_UPDATE,
          PISM_to_RECEIVE, PISM_to_DESIGNATED, PISM_to_INFERIOR_DESIGNATED,
          PISM_to_NOT_DESIGNATED, PISM_to_OTHER, PISM_to_CURRENT
<1>2. CASE PISM_to_UPDATE(x) \/ PISM_to_DESIGNATED(x)
  <2>1. PICK v : role' = [role EXCEPT ![x] = [role[x] EXCEPT !.synced = v]]
     BY <1>2, <1>t DEF PISM_to_UPDATE, PISM_to_DESIGNATED
  <2>2. [role[x] EXCEPT !.synced = v].selectedRole = role[x].selectedRole
     BY <1>r DEF RoleRecs
  <2>3. QED BY <1>1, <1>t, <2>1, <2>2 DEF ChoiceSame
<1>3. CASE ~(PISM_to_UPDATE(x) \/ PISM_to_DESIGNATED(x))
  <2>1. role' = role
     BY <1>3
     DEF PISM_step, PISM_to_DISABLED, PISM_to_AGED, PISM_to_RECEIVE,
         PISM_to_INFERIOR_DESIGNATED, PISM_to_NOT_DESIGNATED, PISM_to_OTHER,
         PISM_to_CURRENT
  <2>2. QED BY <1>1, <2>1 DEF ChoiceSame
<1>4. QED BY <1>2, <1>3

\* The machines of the port, Port State Transition and Topology Change.
LEMMA InfoPortMachines ==
    ASSUME TypeOK, NEW b \in Bridges, NEW s, Machine_step(b, s),
           s[1] \in {BA, PRSM, PPMSM, BDSM, PTSM, PSTSM, TCSM},
           NEW y \in Ptps
    PROVE  InfoSame(y) /\ ChoiceSame(y)
<1> USE DEF BA, PRSM, PPMSM, BDSM, PTSM, PISM, PRSSM, PRTSM, PSTSM, TCSM
<1>t. info \in [Ptps -> InfoRecs] /\ tree \in [BridgeTrees -> TreeRecs]
   BY DEF TypeOK, MachineTypeOK
<1>r. info[y] \in InfoRecs /\ TreeOf(y) \in BridgeTrees
      /\ tree[TreeOf(y)] \in TreeRecs
   BY <1>t, TreeOfType
<1>1. CASE s[1] = PRSM
  <2>1. PRSM_step(s[2]) BY <1>1 DEF Machine_step
  <2>2. role' = role /\ tree' = tree
     BY <2>1 DEF PRSM_step, PRSM_to_DISCARD, PRSM_to_RECEIVE
  <2>3. \/ info'[y] = info[y]
        \/ info'[y] = [info[y] EXCEPT !.rcvdMsg = FALSE]
        \/ info'[y] = [info[y] EXCEPT !.rcvdMsg = TRUE]
     BY <2>1 DEF PRSM_step, PRSM_to_DISCARD, PRSM_to_RECEIVE
  <2>4. QED BY <1>r, <2>2, <2>3 DEF InfoRecs, InfoSame, ChoiceSame
<1>2. CASE s[1] = TCSM
  <2>1. TCSM_step(<<s[2], s[3]>>) BY <1>2 DEF Machine_step
  <2>2. info' = info /\ role' = role
     BY <2>1
     DEF TCSM_step, TCSM_to_INACTIVE, TCSM_to_LEARNING, TCSM_to_DETECTED,
         TCSM_to_NOTIFIED_TCN, TCSM_to_NOTIFIED_TC, TCSM_to_PROPAGATING,
         TCSM_to_ACKNOWLEDGED, TCSM_to_ACTIVE
  <2>3. \/ tree' = tree
        \/ \E u, v : tree' = [tree EXCEPT ![u] =
                                [tree[u] EXCEPT !.topology_change = v]]
     BY <2>1, <1>t
     DEF TCSM_step, TCSM_to_INACTIVE, TCSM_to_LEARNING, TCSM_to_DETECTED,
         TCSM_to_NOTIFIED_TCN, TCSM_to_NOTIFIED_TC, TCSM_to_PROPAGATING,
         TCSM_to_ACKNOWLEDGED, TCSM_to_ACTIVE, TreeWithNewTc
  <2>4. tree'[TreeOf(y)].PRSSM = tree[TreeOf(y)].PRSSM
    <3>1. \/ tree'[TreeOf(y)] = tree[TreeOf(y)]
          \/ \E v : tree'[TreeOf(y)] =
                      [tree[TreeOf(y)] EXCEPT !.topology_change = v]
       BY <1>t, <1>r, <2>3
    <3>2. QED BY <1>r, <3>1 DEF TreeRecs
  <2>5. QED BY <2>2, <2>4 DEF InfoSame, ChoiceSame
<1>3. CASE s[1] \in {BA, PPMSM, BDSM, PTSM, PSTSM}
  <2>1. \/ BA_to_INCONSISTENT(s[2]) \/ PPMSM_step(s[2]) \/ BDSM_step(s[2])
        \/ PTSM_step(s[2]) \/ PSTSM_step(<<s[2], s[3]>>)
     BY <1>3 DEF Machine_step
  <2>2. info' = info /\ role' = role /\ tree' = tree
     BY <2>1
     DEF BA_to_INCONSISTENT, PPMSM_step, PPMSM_to_CHECKING_RSTP,
         PPMSM_to_SELECTING_STP, PPMSM_to_SENSING, PPMSM_only, BDSM_step,
         BDSM_to_EDGE, BDSM_to_NOT_EDGE, PTSM_step, PTSM_to_TRANSMIT_INIT,
         PTSM_to_TRANSMIT_CONFIG, PTSM_to_TRANSMIT_TCN,
         PTSM_to_TRANSMIT_RSTP, PTSM_to_TRANSMIT_PERIODIC, PTSM_to_IDLE,
         PTSM_only, PSTSM_step, PSTSM_to_DISCARDING, PSTSM_to_LEARNING,
         PSTSM_to_FORWARDING, PSTSM_only, ptpVars
  <2>3. QED BY <2>2 DEF InfoSame, ChoiceSame
<1>4. QED BY <1>1, <1>2, <1>3

\* Port Role Transitions takes the role that was selected; it selects none.
LEMMA InfoTransitions ==
    ASSUME TypeOK, NEW x \in Ptps, PRTSM_step(x), NEW y \in Ptps
    PROVE  InfoSame(y) /\ ChoiceSame(y)
<1>t. info \in [Ptps -> InfoRecs] /\ role \in [Ptps -> RoleRecs]
   BY DEF TypeOK, MachineTypeOK
<1>r. info[x] \in InfoRecs /\ role[y] \in RoleRecs BY <1>t
<1>1. tree' = tree
   BY DEF PRTSM_step, PRTSM_to_DISABLE_PORT, PRTSM_to_DISABLED_PORT,
          PRTSM_to_MASTER_or_DESIGNATED_PORT, PRTSM_to_ROOT_PORT,
          PRTSM_to_PROPOSED, PRTSM_to_AGREED, PRTSM_to_SYNCED,
          PRTSM_to_RETIRED, PRTSM_to_REROOT, PRTSM_to_LEARN,
          PRTSM_to_FORWARD, PRTSM_to_DISCARD, PRTSM_to_DESIGNATED_PROPOSE,
          PRTSM_to_BLOCK_PORT, PRTSM_to_BACKUP_PORT,
          PRTSM_to_ALTERNATE_PORT, PRTSM_role_only, PRTSM_role_info
<1>2. InfoSame(y)
  <2>0. info' = info => InfoSame(y) BY DEF InfoSame
  <2>1. CASE \/ PRTSM_to_PROPOSED(x) \/ PRTSM_to_AGREED(x)
             \/ PRTSM_to_FORWARD(x) \/ PRTSM_to_DISCARD(x)
             \/ PRTSM_to_DESIGNATED_PROPOSE(x)
    <3>1. \/ info' = info
          \/ \E v : \/ info' = [info EXCEPT ![x] =
                                  [info[x] EXCEPT !.proposed = v]]
                    \/ info' = [info EXCEPT ![x] =
                            [info[x] EXCEPT !.proposed = FALSE, !.agree = v]]
                    \/ info' = [info EXCEPT ![x] =
                                  [info[x] EXCEPT !.agreed = v]]
                    \/ info' = [info EXCEPT ![x] =
                                  [info[x] EXCEPT !.disputed = v]]
                    \/ info' = [info EXCEPT ![x] =
                                  [info[x] EXCEPT !.proposing = v]]
       BY <2>1, <1>t
       DEF PRTSM_to_PROPOSED, PRTSM_to_AGREED, PRTSM_to_FORWARD,
           PRTSM_to_DISCARD, PRTSM_to_DESIGNATED_PROPOSE
    <3>2. PICK v : \/ info' = info
                   \/ /\ info' = [info EXCEPT ![x] = v]
                      /\ v.PISM = info[x].PISM /\ v.infoIs = info[x].infoIs
                      /\ v.rcvdInfo = info[x].rcvdInfo
                      /\ v.updtInfo = info[x].updtInfo
                      /\ v.reselect = info[x].reselect
                      /\ v.selected = info[x].selected
       BY <1>r, <3>1 DEF InfoRecs
    <3>3. QED BY <1>t, <3>2 DEF InfoSame
  <2>2. CASE ~(\/ PRTSM_to_PROPOSED(x) \/ PRTSM_to_AGREED(x)
               \/ PRTSM_to_FORWARD(x) \/ PRTSM_to_DISCARD(x)
               \/ PRTSM_to_DESIGNATED_PROPOSE(x))
    <3>1. info' = info
       BY <2>2
       DEF PRTSM_step, PRTSM_to_DISABLE_PORT, PRTSM_to_DISABLED_PORT,
          PRTSM_to_MASTER_or_DESIGNATED_PORT, PRTSM_to_ROOT_PORT,
          PRTSM_to_SYNCED, PRTSM_to_RETIRED, PRTSM_to_REROOT, PRTSM_to_LEARN,
          PRTSM_to_BLOCK_PORT, PRTSM_to_BACKUP_PORT,
          PRTSM_to_ALTERNATE_PORT, PRTSM_role_only
    <3>2. QED BY <2>0, <3>1
  <2>3. QED BY <2>1, <2>2
<1>3. role'[y].selectedRole = role[y].selectedRole
  <2>1. CASE PRTSM_to_PROPOSED(x) \/ PRTSM_to_REROOT(x)
    <3>1. \/ role'[y] = role[y]
          \/ \E v : \/ role'[y] = [role[y] EXCEPT !.sync = TRUE, !.PRTSM = v]
                    \/ role'[y] = [role[y] EXCEPT !.reRoot = TRUE, !.PRTSM = v]
       BY <2>1 DEF PRTSM_to_PROPOSED, PRTSM_to_REROOT
    <3>2. QED BY <1>r, <3>1 DEF RoleRecs
  <2>2. CASE ~(PRTSM_to_PROPOSED(x) \/ PRTSM_to_REROOT(x))
    <3>r. role[x] \in RoleRecs BY <1>t
    <3>1. CASE PRTSM_to_DISABLE_PORT(x)
       BY <1>t, <3>r, <3>1 DEF PRTSM_to_DISABLE_PORT, RoleRecs
    <3>2. CASE PRTSM_to_DISABLED_PORT(x)
       BY <1>t, <3>r, <3>2 DEF PRTSM_to_DISABLED_PORT, RoleRecs
    <3>3. CASE PRTSM_to_MASTER_or_DESIGNATED_PORT(x)
       BY <1>t, <3>r, <3>3 DEF PRTSM_to_MASTER_or_DESIGNATED_PORT, RoleRecs
    <3>4. CASE PRTSM_to_ROOT_PORT(x)
       BY <1>t, <3>r, <3>4 DEF PRTSM_to_ROOT_PORT, RoleRecs
    <3>5. CASE PRTSM_to_AGREED(x)
       BY <1>t, <3>r, <3>5 DEF PRTSM_to_AGREED, RoleRecs
    <3>6. CASE PRTSM_to_SYNCED(x)
       BY <1>t, <3>r, <3>6 DEF PRTSM_to_SYNCED, RoleRecs
    <3>7. CASE PRTSM_to_RETIRED(x)
       BY <1>t, <3>r, <3>7 DEF PRTSM_to_RETIRED, RoleRecs
    <3>8. CASE PRTSM_to_LEARN(x)
       BY <1>t, <3>r, <3>8 DEF PRTSM_to_LEARN, RoleRecs
    <3>9. CASE PRTSM_to_FORWARD(x)
       BY <1>t, <3>r, <3>9 DEF PRTSM_to_FORWARD, RoleRecs
    <3>10. CASE PRTSM_to_DISCARD(x)
       BY <1>t, <3>r, <3>10 DEF PRTSM_to_DISCARD, RoleRecs
    <3>11. CASE PRTSM_to_DESIGNATED_PROPOSE(x)
       BY <1>t, <3>r, <3>11 DEF PRTSM_to_DESIGNATED_PROPOSE, RoleRecs
    <3>12. CASE PRTSM_to_BLOCK_PORT(x)
       BY <1>t, <3>r, <3>12 DEF PRTSM_to_BLOCK_PORT, RoleRecs
    <3>13. CASE PRTSM_to_BACKUP_PORT(x)
       BY <1>t, <3>r, <3>13 DEF PRTSM_to_BACKUP_PORT, RoleRecs
    <3>14. CASE PRTSM_to_ALTERNATE_PORT(x)
       BY <1>t, <3>r, <3>14 DEF PRTSM_to_ALTERNATE_PORT, RoleRecs
    <3>15. QED
       BY <2>2, <3>1, <3>2, <3>3, <3>4, <3>5, <3>6, <3>7,
          <3>8, <3>9, <3>10, <3>11, <3>12, <3>13, <3>14
       DEF PRTSM_step
  <2>3. QED BY <2>1, <2>2
<1>4. QED BY <1>1, <1>2, <1>3 DEF ChoiceSame

\* What Port Role Selection does to a port of its tree.
SelectedNow(x) ==
    /\ info'[x].PISM = info[x].PISM
    /\ info'[x].rcvdInfo = info[x].rcvdInfo
    /\ info'[x].infoIs = info[x].infoIs
    /\ info'[x].reselect = FALSE /\ info'[x].selected = TRUE
    /\ tree'[TreeOf(x)].PRSSM = "ROLE_SELECTION"
    /\ info[x].infoIs = "Disabled" =>
           /\ info'[x].updtInfo = info[x].updtInfo
           /\ role'[x].selectedRole = "Disabled"
    /\ info[x].infoIs # "Disabled" /\ role'[x].selectedRole = "Disabled" =>
           AtBoundary(x) /\ role[CistOf(x)].selectedRole = "Disabled"
    /\ IsCist(x) /\ info[x].infoIs = "Aged" => info'[x].updtInfo = TRUE

LEMMA SelectionMembers ==
    ASSUME TypeOK, NEW b \in Bridges, NEW t \in Trees,
           PRSSM_to_ROLE_SELECTION(b, t), NEW x \in PtpsOfTree(b, t)
    PROVE  SelectedNow(x)
<1>t. /\ tree \in [BridgeTrees -> TreeRecs] /\ info \in [Ptps -> InfoRecs]
      /\ role \in [Ptps -> RoleRecs]
   BY DEF TypeOK, MachineTypeOK
<1>x. x \in Ptps /\ TreeOf(x) = <<b, t>> /\ <<b, t>> \in BridgeTrees
   BY TreeOfType DEF PtpsOfTree, TreeOf
<1>r. info[x] \in InfoRecs /\ role[x] \in RoleRecs BY <1>t, <1>x
<1>1. tree'[TreeOf(x)].PRSSM = "ROLE_SELECTION"
  <2>1. PICK i, v, w : tree' = [tree EXCEPT ![<<b, t>>] =
              [@ EXCEPT !.PRSSM = "ROLE_SELECTION", !.rootPortId = i,
                        !.rootPriority = v, !.rootTimes = w]]
     BY DEF PRSSM_to_ROLE_SELECTION
  <2>2. tree'[<<b, t>>] = [tree[<<b, t>>] EXCEPT !.PRSSM = "ROLE_SELECTION",
              !.rootPortId = i, !.rootPriority = v, !.rootTimes = w]
     BY <1>t, <1>x, <2>1
  <2>3. tree[<<b, t>>] \in TreeRecs BY <1>t, <1>x
  <2>4. QED BY <1>x, <2>2, <2>3 DEF TreeRecs
<1>2. PICK r, dp, dt :
         /\ info'[x] = [info[x] EXCEPT !.reselect = FALSE, !.selected = TRUE,
                          !.updtInfo = NewUpdtInfo(x, r, dp, dt)]
         /\ role'[x] = [role[x] EXCEPT
                          !.selectedRole = NewSelectedRole(x, r, dp)]
   BY <1>x DEF PRSSM_to_ROLE_SELECTION
<1> DEFINE u == NewUpdtInfo(x, r, dp, dt)
           n == NewSelectedRole(x, r, dp)
<1>3. info[x].infoIs = "Disabled" => u = info[x].updtInfo /\ n = "Disabled"
   BY DEF NewUpdtInfo, NewSelectedRole
<1>4. info[x].infoIs # "Disabled" /\ n = "Disabled" =>
          AtBoundary(x) /\ role[CistOf(x)].selectedRole = "Disabled"
   BY DEF NewSelectedRole
<1>5. IsCist(x) /\ info[x].infoIs = "Aged" => u = TRUE
  <2>1. IsCist(x) => ~AtBoundary(x) BY DEF AtBoundary
  <2>2. QED BY <2>1 DEF NewUpdtInfo
<1> HIDE DEF u, n
<1>6. /\ info'[x].PISM = info[x].PISM /\ info'[x].infoIs = info[x].infoIs
      /\ info'[x].rcvdInfo = info[x].rcvdInfo
      /\ info'[x].reselect = FALSE /\ info'[x].selected = TRUE
      /\ info'[x].updtInfo = u
   BY <1>r, <1>2 DEF InfoRecs, u
<1>7. role'[x].selectedRole = n BY <1>r, <1>2 DEF RoleRecs, n
<1>8. QED BY <1>1, <1>3, <1>4, <1>5, <1>6, <1>7 DEF SelectedNow

\* What it does to the others: an MSTI port may have to follow the CIST.
LEMMA SelectionOthers ==
    ASSUME TypeOK, NEW b \in Bridges, NEW t \in Trees,
           PRSSM_to_ROLE_SELECTION(b, t), NEW x \in Ptps \ PtpsOfTree(b, t)
    PROVE  /\ InfoKept(x) /\ ChoiceSame(x)
           /\ t # 0 => InfoSame(x)
<1>t. /\ tree \in [BridgeTrees -> TreeRecs] /\ info \in [Ptps -> InfoRecs]
      /\ role \in [Ptps -> RoleRecs]
   BY DEF TypeOK, MachineTypeOK
<1>r. info[x] \in InfoRecs /\ role[x] \in RoleRecs BY <1>t
<1>x. TreeOf(x) \in BridgeTrees /\ TreeOf(x) # <<b, t>>
   BY TreeOfType DEF PtpsOfTree, TreeOf
<1>1. tree'[TreeOf(x)] = tree[TreeOf(x)]
  <2>1. PICK v : tree' = [tree EXCEPT ![<<b, t>>] = v]
     BY DEF PRSSM_to_ROLE_SELECTION
  <2>2. QED BY <1>t, <1>x, <2>1
<1>2. PICK g, h, c :
         info'[x] = [info[x] EXCEPT !.agree = g, !.agreed = h,
                       !.reselect = (info[x].reselect \/ (t = 0 /\ c))]
   BY DEF PRSSM_to_ROLE_SELECTION
<1> DEFINE s == info[x].reselect \/ (t = 0 /\ c)
<1>3. /\ info[x].reselect \in BOOLEAN /\ s \in BOOLEAN
      /\ info'[x].PISM = info[x].PISM /\ info'[x].infoIs = info[x].infoIs
      /\ info'[x].rcvdInfo = info[x].rcvdInfo
      /\ info'[x].updtInfo = info[x].updtInfo
      /\ info'[x].selected = info[x].selected
      /\ info'[x].reselect = s
   BY <1>r, <1>2, InfoFields DEF InfoRecs
<1>4. /\ s = info[x].reselect \/ s = TRUE
      /\ t # 0 => s = info[x].reselect
   BY <1>3
<1>5. role'[x].selectedRole = role[x].selectedRole
  <2>1. PICK v, w : role'[x] = [role[x] EXCEPT !.synced = v, !.sync = w]
     BY DEF PRSSM_to_ROLE_SELECTION
  <2>2. QED BY <1>r, <2>1 DEF RoleRecs
<1> HIDE DEF s
<1>6. QED BY <1>1, <1>3, <1>4, <1>5 DEF InfoKept, ChoiceSame, InfoSame

-----------------------------------------------------------------------------
(* The inductive invariant. *)

Informer(x) == <<PISM, PortOf(x), Mstid(x)>>
Selector(t) == <<PRSSM, NoPort, t>>

On(x) == brg[BrOf(x)].bridgeEnabled
Up(x) == prt[PortOf(x)].portEnabled

\* No run has been given up so far.
NoStall == budget.stalls = BootBudget.stalls

\* A port without a selected role waits for one; the state of its Port
\* Information machine agrees with the origin of its information; a CIST port
\* whose information has aged out is to announce its own; and the role
\* selected for a port is Disabled exactly if the port has no information.
InfoAgrees(x) ==
    /\ \/ info[x].selected = TRUE \/ info[x].reselect = TRUE
       \/ tree[TreeOf(x)].PRSSM = "INIT_TREE"
    /\ info[x].PISM = "AGED" => info[x].infoIs = "Aged"
    /\ info[x].infoIs = "Disabled" => info[x].PISM = "DISABLED"
    /\ IsCist(x) /\ info[x].PISM = "AGED" /\ info[x].selected = TRUE
           => info[x].updtInfo = TRUE
    /\ info[x].selected = TRUE =>
           (role[x].selectedRole = "Disabled" <=> info[x].infoIs = "Disabled")

\* A pass that has left Port Information of a port that is down behind has
\* taken the information of the port away.
DownSeen(x) ==
    active = BrOf(x) /\ ~Up(x) /\ Rank(Informer(x)) < pos
        => info[x].infoIs = "Disabled"

\* Unless a run was given up, a port that is down and, outside a run, every
\* port has nothing left to announce.
NothingLeft(x) ==
    NoStall /\ (~Up(x) \/ active # BrOf(x)) => info[x].updtInfo = FALSE

\* While a pass selects the roles of the MSTIs, those of the CIST are chosen.
CistFirst(b) ==
    \A t \in Trees :
        active = b /\ Rank(Selector(0)) < pos /\ pos <= Rank(Selector(t))
            => PRSSM_run(b, 0) = None

QuietInv ==
    /\ budget.stalls <= BootBudget.stalls
    /\ \A x \in Ptps : On(x) => InfoAgrees(x) /\ DownSeen(x) /\ NothingLeft(x)
    /\ \A b \in Bridges : CistFirst(b)

-----------------------------------------------------------------------------
(* What the steps do to InfoAgrees. *)

LEMMA KeptAgrees ==
    ASSUME NEW x \in Ptps, InfoAgrees(x), InfoKept(x)
    PROVE  InfoAgrees(x)'
BY DEF InfoAgrees, InfoKept

LEMMA MoveAgrees ==
    ASSUME TypeOK, NEW x \in Ptps, InfoAgrees(x), PISM_step(x)
    PROVE  InfoAgrees(x)'
<1>1. ChoiceSame(x) BY InfoChoice
<1>2. CASE PISM_to_DISABLED(x) \/ PISM_to_AGED(x)
  <2>1. BecomesDisabled(x) \/ BecomesAged(x) BY <1>2, InfoMove
  <2>2. QED BY <2>1 DEF BecomesDisabled, BecomesAged, InfoAgrees
<1>3. CASE PISM_to_UPDATE(x)
  <2>1. BecomesMine(x) BY <1>3, InfoMove
  <2>2. info[x].infoIs # "Disabled"
     BY <1>3, InfoSources DEF PISM_to_UPDATE, InfoAgrees
  <2>3. QED BY <1>1, <2>1, <2>2 DEF BecomesMine, ChoiceSame, InfoAgrees
<1>4. CASE \/ PISM_to_RECEIVE(x) \/ PISM_to_DESIGNATED(x)
           \/ PISM_to_INFERIOR_DESIGNATED(x) \/ PISM_to_NOT_DESIGNATED(x)
           \/ PISM_to_OTHER(x) \/ PISM_to_CURRENT(x)
  <2>1. MovesOn(x) BY <1>4, InfoReceive
  <2>2. info[x].PISM \notin {"DISABLED", "AGED"}
    <3>1. PISM_run(x) \notin {"DISABLED", "AGED", "UPDATE", None}
       BY <1>4
       DEF PISM_to_RECEIVE, PISM_to_DESIGNATED, PISM_to_INFERIOR_DESIGNATED,
           PISM_to_NOT_DESIGNATED, PISM_to_OTHER, PISM_to_CURRENT, None
    <3>2. QED BY <3>1, InfoSources
  <2>3. QED BY <1>1, <2>1, <2>2 DEF MovesOn, ChoiceSame, InfoAgrees
<1>5. QED BY <1>2, <1>3, <1>4 DEF PISM_step

LEMMA SelectionAgrees ==
    ASSUME NEW x \in Ptps, InfoAgrees(x), SelectedNow(x),
           AtBoundary(x) => role[CistOf(x)].selectedRole # "Disabled"
    PROVE  InfoAgrees(x)'
BY DEF InfoAgrees, SelectedNow

\* Every step of a machine, seen from one per-tree port.
LEMMA InfoSteps ==
    ASSUME TypeOK, NEW b \in Bridges, NEW s \in Slots(b), Machine_step(b, s),
           NEW x \in Ptps
    PROVE  /\ \/ s = Informer(x) /\ BrOf(x) = b /\ PISM_step(x)
              \/ s = Selector(Mstid(x)) /\ BrOf(x) = b /\ SelectedNow(x)
              \/ s # Informer(x) /\ InfoKept(x)
           /\ s[1] = PRSSM /\ s # Selector(0) /\ IsCist(x) =>
                  InfoSame(x) /\ ChoiceSame(x)
<1> USE DEF BA, PRSM, PPMSM, BDSM, PTSM, PISM, PRSSM, PRTSM, PSTSM, TCSM
<1>0. InfoSame(x) /\ ChoiceSame(x) => InfoKept(x)
   BY DEF InfoSame, ChoiceSame, InfoKept
<1>x. x = <<PortOf(x), Mstid(x)>> BY DEF Ptps, PortOf, Mstid
<1>1. CASE s[1] \in {BA, PRSM, PPMSM, BDSM, PTSM, PSTSM, TCSM}
   BY <1>0, <1>1, InfoPortMachines DEF Informer
<1>2. CASE s[1] = PISM
  <2>1. /\ <<s[2], s[3]>> \in Ptps /\ s[2] \in PortsOf(b)
        /\ s = <<PISM, s[2], s[3]>>
     BY <1>2 DEF Slots, PortsOf, Ptps
  <2>2. PISM_step(<<s[2], s[3]>>) BY <1>2 DEF Machine_step
  <2>3. CASE x = <<s[2], s[3]>>
    <3>1. PortOf(x) = s[2] /\ Mstid(x) = s[3] BY <2>3 DEF PortOf, Mstid
    <3>2. BrOf(x) = b BY <2>1, <3>1 DEF BrOf, PortsOf
    <3>3. QED BY <1>2, <2>1, <2>2, <2>3, <3>1, <3>2 DEF Informer
  <2>4. CASE x # <<s[2], s[3]>>
    <3>1. InfoSame(x) /\ ChoiceSame(x)
       BY <2>1, <2>2, <2>4, InfoFollowers, InfoChoice
    <3>2. s # Informer(x) BY <1>x, <2>4 DEF Informer
    <3>3. QED BY <1>0, <1>2, <3>1, <3>2
  <2>5. QED BY <2>3, <2>4
<1>3. CASE s[1] = PRSSM
  <2>1. s[3] \in Trees /\ s = Selector(s[3])
     BY <1>3 DEF Slots, Selector
  <2>2. PRSSM_to_ROLE_SELECTION(b, s[3]) BY <1>3 DEF Machine_step
  <2>3. CASE x \in PtpsOfTree(b, s[3])
    <3>1. BrOf(x) = b /\ Mstid(x) = s[3] BY <2>3 DEF PtpsOfTree
    <3>2. SelectedNow(x) BY <2>1, <2>2, <2>3, SelectionMembers
    <3>3. IsCist(x) => s = Selector(0) BY <2>1, <3>1 DEF IsCist
    <3>4. QED BY <2>1, <3>1, <3>2, <3>3
  <2>4. CASE x \notin PtpsOfTree(b, s[3])
    <3>1. /\ InfoKept(x) /\ ChoiceSame(x)
          /\ s[3] # 0 => InfoSame(x)
       BY <2>1, <2>2, <2>4, SelectionOthers
    <3>2. s # Informer(x) BY <1>3 DEF Informer
    <3>3. QED BY <2>1, <3>1, <3>2
  <2>5. QED BY <2>3, <2>4
<1>4. CASE s[1] = PRTSM
  <2>1. <<s[2], s[3]>> \in Ptps BY <1>4 DEF Slots, PortsOf, Ptps
  <2>2. PRTSM_step(<<s[2], s[3]>>) BY <1>4 DEF Machine_step
  <2>3. InfoSame(x) /\ ChoiceSame(x) BY <2>1, <2>2, InfoTransitions
  <2>4. QED BY <1>0, <1>4, <2>3 DEF Informer
<1>5. QED BY <1>1, <1>2, <1>3, <1>4 DEF Machine_step

-----------------------------------------------------------------------------
(* The places of Port Information and Port Role Selection in a pass. *)

LEMMA SelectionSlots ==
    ASSUME NEW b \in Bridges, NEW t \in Trees
    PROVE  /\ Selector(t) \in Slots(b) /\ Rank(Selector(t)) \in Nat
           /\ Machine_run(b, Selector(t)) = PRSSM_run(b, t)
           /\ \A x \in Ptps : BrOf(x) = b =>
                  /\ Informer(x) \in Slots(b) /\ Rank(Informer(x)) \in Nat
                  /\ Machine_run(b, Informer(x)) = PISM_run(x)
                  /\ Rank(Informer(x)) < Rank(Selector(t))
<1>1. Selector(t) \in Slots(b) BY DEF Selector, Slots
<1>2. Rank(Selector(t)) \in Nat BY <1>1, RankType
<1>3. Machine_run(b, Selector(t)) = PRSSM_run(b, t)
   BY DEF Machine_run, Selector, BA, PRSM, PPMSM, BDSM, PTSM, PISM,
          PRSSM, PRTSM, PSTSM, TCSM
<1>4. ASSUME NEW x \in Ptps, BrOf(x) = b
      PROVE  /\ Informer(x) \in Slots(b) /\ Rank(Informer(x)) \in Nat
             /\ Machine_run(b, Informer(x)) = PISM_run(x)
             /\ Rank(Informer(x)) < Rank(Selector(t))
  <2>1. Informer(x) \in Slots(b)
     BY <1>4, PtpTypes DEF Informer, Slots, PortsOf, BrOf
  <2>2. Rank(Informer(x)) \in Nat BY <2>1, RankType
  <2>3. x = <<PortOf(x), Mstid(x)>> BY DEF Ptps, PortOf, Mstid
  <2>4. Machine_run(b, Informer(x)) = PISM_run(x)
     BY <2>3
     DEF Machine_run, Informer, BA, PRSM, PPMSM, BDSM, PTSM, PISM,
         PRSSM, PRTSM, PSTSM, TCSM
  <2>5. Informer(x)[1] < Selector(t)[1] BY DEF Informer, Selector, PISM, PRSSM
  <2>6. QED BY <1>1, <2>1, <2>2, <2>4, <2>5, RankOrder
<1>5. QED BY <1>1, <1>2, <1>3, <1>4

\* A machine between the selection of two trees selects roles too.
LEMMA SelectionsBetween ==
    ASSUME NEW b \in Bridges, NEW s \in Slots(b), NEW t \in Trees,
           Rank(Selector(0)) <= Rank(s), Rank(s) <= Rank(Selector(t))
    PROVE  s[1] = PRSSM /\ s[3] \in Trees /\ s = Selector(s[3])
<1>0. 0 \in Trees BY DEF Trees
<1>1. s[1] \in 0..9 /\ Rank(s) \in Nat BY SlotDigits, RankType
<1>2. /\ Selector(0) \in Slots(b) /\ Rank(Selector(0)) \in Nat
      /\ Selector(t) \in Slots(b) /\ Rank(Selector(t)) \in Nat
   BY <1>0, SelectionSlots
<1>3. Selector(0)[1] = PRSSM /\ Selector(t)[1] = PRSSM BY DEF Selector
<1>4. ~(s[1] < PRSSM) BY <1>1, <1>2, <1>3, RankOrder
<1>5. ~(PRSSM < s[1]) BY <1>1, <1>2, <1>3, RankOrder
<1>6. s[1] = PRSSM BY <1>1, <1>4, <1>5 DEF PRSSM
<1>7. QED
   BY <1>6
   DEF Slots, Selector, BA, PRSM, PPMSM, BDSM, PTSM, PISM, PRSSM, PRTSM,
       PSTSM, TCSM

\* When the roles of an MSTI are selected those of the CIST are chosen.
LEMMA CistChosen ==
    ASSUME TypeOK, NEW b \in Bridges, CistFirst(b), active = b,
           Ready(b) # {}, NEW t \in Trees \ {0},
           Upcoming(Ready(b)) = Selector(t)
    PROVE  PRSSM_run(b, 0) = None
<1> SUFFICES ASSUME PRSSM_run(b, 0) # None PROVE FALSE OBVIOUS
<1> DEFINE c == Selector(0)
           s == Selector(t)
<1>0. 0 \in Trees BY DEF Trees
<1>1. /\ c \in Slots(b) /\ Rank(c) \in Nat /\ s \in Slots(b)
      /\ Rank(s) \in Nat /\ Machine_run(b, c) = PRSSM_run(b, 0)
   BY <1>0, SelectionSlots
<1>2. c \in Ready(b) BY <1>1 DEF Ready
<1>3. pos \in Nat BY DEF TypeOK
<1>4. /\ Rank(s) <= Rank(c) \/ Rank(c) < pos
      /\ Rank(s) >= pos \/ (Rank(s) <= Rank(c) /\ Rank(c) < pos)
   BY <1>2, <1>3, UpcomingFirst
<1>5. Rank(c) < Rank(s)
  <2>1. t \in Nat \ {0} BY TopologyAssumption DEF Trees
  <2>2. /\ Rank(s) = (PRSSM * PortSpace + NoPort) * TreeSpace + t
        /\ Rank(c) = (PRSSM * PortSpace + NoPort) * TreeSpace + 0
     BY DEF Rank, Selector
  <2>3. (PRSSM * PortSpace + NoPort) * TreeSpace \in Nat
    <3>1. PortSpace \in Nat /\ TreeSpace \in Nat
       BY SpaceAssumption, TreeSpaceAssumption
    <3>2. PRSSM * PortSpace + NoPort \in Nat BY <3>1 DEF PRSSM, NoPort
    <3>3. QED BY <3>1, <3>2
  <2> HIDE DEF s, c
  <2>4. QED BY <2>1, <2>2, <2>3
<1>6. Rank(c) < pos /\ pos <= Rank(s) BY <1>1, <1>3, <1>4, <1>5
<1>7. QED BY <1>6 DEF CistFirst

\* What an unfinished Port Information machine of a port that is down means
\* for the pass.
LEMMA DownFirst ==
    ASSUME TypeOK, NEW b \in Bridges, active = b, Ready(b) # {},
           NEW x \in Ptps, BrOf(x) = b, DownSeen(x), ~Up(x),
           info[x].infoIs # "Disabled"
    PROVE  /\ Rank(Upcoming(Ready(b))) <= Rank(Informer(x))
           /\ PISM_run(x) = "DISABLED"
<1>0. 0 \in Trees BY DEF Trees
<1>1. PISM_run(x) = "DISABLED" BY DEF PISM_run, Up
<1>2. /\ Informer(x) \in Slots(b) /\ Rank(Informer(x)) \in Nat
      /\ Machine_run(b, Informer(x)) = PISM_run(x)
   BY <1>0, SelectionSlots
<1>3. Informer(x) \in Ready(b) BY <1>1, <1>2 DEF Ready, None
<1>4. pos \in Nat BY DEF TypeOK
<1>5. ~(Rank(Informer(x)) < pos) BY DEF DownSeen
<1>6. QED BY <1>1, <1>3, <1>4, <1>5, UpcomingFirst

\* A step of a machine keeps the invariant.
LEMMA MachineQuiet ==
    ASSUME TypeOK, QuietInv, NEW b \in Bridges, RunMachine(b)
    PROVE  QuietInv'
<1> DEFINE s == Upcoming(Ready(b))
<1>1. /\ Ready(b) # {} /\ Machine_step(b, s) /\ active = b
      /\ active' = active /\ brg' = brg /\ budget' = budget
      /\ pos' = Rank(s) + IF RunsOnce(b, s) THEN 1 ELSE 0
   BY DEF RunMachine, envVars
<1>2. s \in Ready(b) /\ s \in Slots(b) BY <1>1, UpcomingType
<1>3. pos \in Nat /\ Rank(s) \in Nat BY <1>2, RankType DEF TypeOK
<1>4. pos' \in {Rank(s), Rank(s) + 1} BY <1>1, <1>3
<1>c. CistFirst(b) BY DEF QuietInv
<1>d. ASSUME NEW t \in Trees \ {0}, s = Selector(t)
      PROVE  PRSSM_run(b, 0) = None
   BY <1>1, <1>c, <1>d, CistChosen
<1>f. ASSUME NEW x \in Ptps, BrOf(x) = b, DownSeen(x), ~Up(x),
             info[x].infoIs # "Disabled"
      PROVE  Rank(s) <= Rank(Informer(x)) /\ PISM_run(x) = "DISABLED"
   BY <1>1, <1>f, DownFirst
<1> HIDE DEF s
<1>5. ASSUME NEW x \in Ptps, On(x)'
      PROVE  InfoAgrees(x)' /\ DownSeen(x)' /\ NothingLeft(x)'
  <2>1. On(x) BY <1>1, <1>5 DEF On
  <2>2. InfoAgrees(x) /\ DownSeen(x) /\ NothingLeft(x)
     BY <2>1 DEF QuietInv
  <2>3. Up(x)' = Up(x) BY <1>1, <1>2, EdgeSteps, PtpTypes DEF Up
  <2>4. \/ s = Informer(x) /\ BrOf(x) = b /\ PISM_step(x)
        \/ s = Selector(Mstid(x)) /\ BrOf(x) = b /\ SelectedNow(x)
        \/ s # Informer(x) /\ InfoKept(x)
     BY <1>1, <1>2, InfoSteps
  <2>5. InfoAgrees(x)'
    <3>1. CASE s = Selector(Mstid(x)) /\ BrOf(x) = b /\ SelectedNow(x)
      <4> SUFFICES ASSUME AtBoundary(x)
                   PROVE  role[CistOf(x)].selectedRole # "Disabled"
         BY <2>2, <3>1, SelectionAgrees
      <4> DEFINE c == CistOf(x)
      <4>1. Mstid(x) \in Trees \ {0} BY PtpTypes DEF AtBoundary, IsCist
      <4>2. PRSSM_run(b, 0) = None BY <1>d, <3>1, <4>1
      <4>3. c \in Ptps /\ BrOf(c) = b /\ Mstid(c) = 0
         BY <3>1, PtpTypes DEF CistOf, Cist, BrOf, PortOf, Mstid
      <4>4. On(c) BY <2>1, <3>1, <4>3 DEF On
      <4>5. InfoAgrees(c) BY <4>3, <4>4 DEF QuietInv
      <4>6. info[c].infoIs = "Received" BY DEF AtBoundary
      <4>7. c \in PtpsOfTree(b, 0) /\ TreeOf(c) = <<b, 0>>
         BY <4>3 DEF PtpsOfTree, TreeOf
      <4> HIDE DEF c
      <4>8. info[c].selected = TRUE
         BY <4>2, <4>5, <4>7 DEF InfoAgrees, PRSSM_run, None
      <4>9. role[c].selectedRole # "Disabled"
         BY <4>5, <4>6, <4>8 DEF InfoAgrees
      <4>10. QED BY <4>9 DEF c
    <3>2. QED BY <2>2, <2>4, <3>1, KeptAgrees, MoveAgrees
  <2>6. DownSeen(x)'
    <3> SUFFICES ASSUME b = BrOf(x), ~Up(x), Rank(Informer(x)) < pos'
                 PROVE  info'[x].infoIs = "Disabled"
       BY <1>1, <2>3 DEF DownSeen, Informer, PortOf, Mstid, Rank, BrOf
    <3>1. CASE info[x].infoIs = "Disabled"
      <4>1. CASE s = Informer(x) /\ PISM_step(x)
        <5>1. info[x].PISM = "DISABLED" BY <2>2, <3>1 DEF InfoAgrees
        <5>2. PISM_run(x) \in {"DISABLED", None}
           BY <5>1 DEF PISM_run, Up
        <5>3. PISM_to_DISABLED(x)
           BY <4>1, <5>2
           DEF PISM_step, PISM_to_AGED, PISM_to_UPDATE, PISM_to_RECEIVE,
               PISM_to_DESIGNATED, PISM_to_INFERIOR_DESIGNATED,
               PISM_to_NOT_DESIGNATED, PISM_to_OTHER, PISM_to_CURRENT, None
        <5>4. QED BY <5>3, InfoMove DEF BecomesDisabled
      <4>2. QED BY <2>4, <3>1, <4>1 DEF SelectedNow, InfoKept
    <3>2. CASE info[x].infoIs # "Disabled"
      <4>1. Rank(s) <= Rank(Informer(x)) /\ PISM_run(x) = "DISABLED"
         BY <1>f, <2>2, <3>2
      <4>2. Informer(x) \in Slots(b) /\ Rank(Informer(x)) \in Nat
         BY SelectionSlots DEF Trees
      <4>3. Rank(s) = Rank(Informer(x)) BY <1>3, <1>4, <4>1, <4>2
      <4>4. s = Informer(x) BY <1>2, <4>2, <4>3, RankOrder
      <4>5. s # Selector(Mstid(x))
         BY <4>4 DEF Informer, Selector, PISM, PRSSM
      <4>6. PISM_step(x) BY <2>4, <4>4, <4>5
      <4>7. PISM_to_DISABLED(x)
         BY <4>1, <4>6
         DEF PISM_step, PISM_to_AGED, PISM_to_UPDATE, PISM_to_RECEIVE,
             PISM_to_DESIGNATED, PISM_to_INFERIOR_DESIGNATED,
             PISM_to_NOT_DESIGNATED, PISM_to_OTHER, PISM_to_CURRENT
      <4>8. QED BY <4>7, InfoMove DEF BecomesDisabled
    <3>3. QED BY <3>1, <3>2
  <2>7. NothingLeft(x)'
    <3> SUFFICES ASSUME NoStall, ~Up(x) \/ active # BrOf(x)
                 PROVE  info'[x].updtInfo = FALSE
       BY <1>1, <2>3 DEF NothingLeft, NoStall
    <3>0. info[x].updtInfo = FALSE BY <2>2 DEF NothingLeft
    <3>1. CASE s = Selector(Mstid(x)) /\ BrOf(x) = b /\ SelectedNow(x)
      <4>1. ~Up(x) BY <1>1, <3>1
      <4>2. Mstid(x) \in Trees BY PtpTypes
      <4>3. /\ Rank(Informer(x)) \in Nat
            /\ Rank(Informer(x)) < Rank(Selector(Mstid(x)))
         BY <3>1, <4>2, SelectionSlots
      <4>4. info[x].infoIs = "Disabled"
         BY <1>3, <1>f, <2>2, <3>1, <4>1, <4>3
      <4>5. QED BY <3>0, <3>1, <4>4 DEF SelectedNow
    <3>2. CASE PISM_step(x)
      <4>1. \/ BecomesDisabled(x) \/ BecomesAged(x) \/ BecomesMine(x)
            \/ MovesOn(x)
         BY <3>2, InfoMove, InfoReceive DEF PISM_step
      <4>2. QED
         BY <3>0, <4>1 DEF BecomesDisabled, BecomesAged, BecomesMine, MovesOn
    <3>3. QED BY <2>4, <3>0, <3>1, <3>2 DEF InfoKept
  <2>8. QED BY <2>5, <2>6, <2>7
<1>6. CistFirst(b)'
  <2> SUFFICES ASSUME NEW t \in Trees, Rank(Selector(0)) < pos',
                      pos' <= Rank(Selector(t))
               PROVE  PRSSM_run(b, 0)' = None
     BY DEF CistFirst, Selector, Rank
  <2>0. 0 \in Trees BY DEF Trees
  <2>1. Rank(Selector(0)) \in Nat /\ Rank(Selector(t)) \in Nat
     BY <2>0, SelectionSlots
  <2>2. Rank(Selector(0)) <= Rank(s) /\ Rank(s) <= Rank(Selector(t))
     BY <1>3, <1>4, <2>1
  <2>3. s[1] = PRSSM /\ s[3] \in Trees /\ s = Selector(s[3])
     BY <1>2, <2>2, SelectionsBetween
  <2>4. PRSSM_to_ROLE_SELECTION(b, s[3])
     BY <1>1, <2>3
     DEF Machine_step, BA, PRSM, PPMSM, BDSM, PTSM, PISM, PRSSM, PRTSM,
         PSTSM, TCSM
  <2>5. CASE s[3] = 0 BY <2>0, <2>4, <2>5, SelectionOnce
  <2>6. CASE s[3] # 0
    <3>1. PRSSM_run(b, 0) = None BY <1>d, <2>3, <2>6
    <3>2. s # Selector(0) BY <2>3, <2>6 DEF Selector
    <3>3. ASSUME NEW y \in PtpsOfTree(b, 0)
          PROVE  info'[y].reselect = info[y].reselect
      <4>1. y \in Ptps /\ IsCist(y) BY DEF PtpsOfTree, IsCist
      <4>2. QED BY <1>1, <1>2, <2>3, <3>2, <4>1, InfoSteps DEF InfoSame
    <3>4. tree'[<<b, 0>>] = tree[<<b, 0>>]
      <4>1. tree \in [BridgeTrees -> TreeRecs] BY DEF TypeOK, MachineTypeOK
      <4>2. PICK v : tree' = [tree EXCEPT ![<<b, s[3]>>] = v]
         BY <2>4 DEF PRSSM_to_ROLE_SELECTION
      <4>3. <<b, 0>> \in BridgeTrees /\ <<b, 0>> # <<b, s[3]>>
         BY <2>0, <2>6 DEF BridgeTrees
      <4>4. QED BY <4>1, <4>2, <4>3
    <3>5. PtpsOfTree(b, 0)' = PtpsOfTree(b, 0)
       BY DEF PtpsOfTree, BrOf, PortOf, Mstid
    <3>6. QED BY <3>1, <3>3, <3>4, <3>5 DEF PRSSM_run
  <2>7. QED BY <2>5, <2>6
<1>7. ASSUME NEW d \in Bridges, d # b PROVE CistFirst(d)'
   BY <1>1, <1>7 DEF CistFirst
<1>8. QED BY <1>1, <1>5, <1>6, <1>7 DEF QuietInv

-----------------------------------------------------------------------------
(* The end of a run. *)

\* The machines of a bridge of which none is ready.
LEMMA NoneReady ==
    ASSUME NEW b \in Bridges, Ready(b) = {}
    PROVE  /\ \A p \in Ports : BridgeOf[p] = b => /\ BA_run(p) = None
                                                 /\ PRSM_run(p) = None
           /\ \A t \in Trees : PRSSM_run(b, t) = None
           /\ \A x \in Ptps : BrOf(x) = b => /\ PISM_run(x) = None
                                             /\ PRTSM_run(x) = None
                                             /\ PSTSM_run(x) = None
<1> USE DEF BA, PRSM, PPMSM, BDSM, PTSM, PISM, PRSSM, PRTSM, PSTSM, TCSM
<1>0. \A s \in Slots(b) : Machine_run(b, s) = None BY DEF Ready
<1>1. ASSUME NEW p \in Ports, BridgeOf[p] = b
      PROVE  BA_run(p) = None /\ PRSM_run(p) = None
  <2>1. <<BA, p, 0>> \in Slots(b) /\ <<PRSM, p, 0>> \in Slots(b)
     BY <1>1 DEF Slots, PortsOf
  <2>2. /\ Machine_run(b, <<BA, p, 0>>) = BA_run(p)
        /\ Machine_run(b, <<PRSM, p, 0>>) = PRSM_run(p)
     BY DEF Machine_run
  <2>3. QED BY <1>0, <2>1, <2>2
<1>2. ASSUME NEW t \in Trees PROVE PRSSM_run(b, t) = None
   BY <1>0, SelectionSlots
<1>3. ASSUME NEW x \in Ptps, BrOf(x) = b
      PROVE  PISM_run(x) = None /\ PRTSM_run(x) = None /\ PSTSM_run(x) = None
  <2>0. 0 \in Trees BY DEF Trees
  <2>1. PISM_run(x) = None BY <1>0, <1>3, <2>0, SelectionSlots
  <2>2. x = <<PortOf(x), Mstid(x)>> BY DEF Ptps, PortOf, Mstid
  <2>3. /\ <<PRTSM, PortOf(x), Mstid(x)>> \in Slots(b)
        /\ <<PSTSM, PortOf(x), Mstid(x)>> \in Slots(b)
     BY <1>3, PtpTypes DEF Slots, PortsOf, BrOf
  <2>4. /\ Machine_run(b, <<PRTSM, PortOf(x), Mstid(x)>>) = PRTSM_run(x)
        /\ Machine_run(b, <<PSTSM, PortOf(x), Mstid(x)>>) = PSTSM_run(x)
     BY <2>2 DEF Machine_run
  <2>5. QED BY <1>0, <2>1, <2>3, <2>4
<1>4. QED BY <1>1, <1>2, <1>3

\* A port of such a bridge: its role is selected; if it is up it has
\* information and nothing to announce, if it is down it has none.
LEMMA QuietPort ==
    ASSUME TypeOK, QuietInv, NEW x \in Ptps, On(x), Ready(BrOf(x)) = {}
    PROVE  /\ info[x].selected = TRUE
           /\ info[x].infoIs = "Disabled" <=> ~Up(x)
           /\ Up(x) => /\ info[x].updtInfo = FALSE
                       /\ info[x].PISM \in {"AGED", "CURRENT"}
                       /\ IsCist(x) => info[x].PISM = "CURRENT"
           /\ ~Up(x) => info[x].PISM = "DISABLED"
<1>b. BrOf(x) \in Bridges /\ Mstid(x) \in Trees BY PtpTypes
<1>t. /\ info[x] \in InfoRecs /\ info[x].PISM \in PISM_states
      /\ info[x].updtInfo \in BOOLEAN /\ info[x].selected \in BOOLEAN
   BY InfoFields DEF TypeOK, MachineTypeOK
<1>1. InfoAgrees(x) BY DEF QuietInv
<1>2. PISM_run(x) = None /\ PRSSM_run(BrOf(x), Mstid(x)) = None
   BY <1>b, NoneReady
<1>3. info[x].selected = TRUE
  <2>1. x \in PtpsOfTree(BrOf(x), Mstid(x)) BY TreeOfType
  <2>2. QED BY <1>1, <1>2, <2>1 DEF InfoAgrees, PRSSM_run, TreeOf, None
<1>4. ~Up(x) => info[x].infoIs = "Disabled"
   BY <1>2 DEF PISM_run, Up, None
<1>5. info[x].infoIs = "Disabled" => info[x].PISM = "DISABLED"
   BY <1>1 DEF InfoAgrees
<1>6. info[x].PISM = "DISABLED" => ~Up(x)
   BY <1>2 DEF PISM_run, Up, None
<1>7. info[x].PISM \in {"DISABLED", "AGED", "CURRENT"}
   BY <1>2, <1>t DEF PISM_run, PISM_states, None
<1>8. ASSUME Up(x), info[x].PISM \in {"AGED", "CURRENT"}
      PROVE  info[x].updtInfo = FALSE
   BY <1>2, <1>3, <1>8, <1>t DEF PISM_run, Up, None
<1>9. Up(x) /\ IsCist(x) => info[x].PISM # "AGED"
   BY <1>1, <1>3, <1>8 DEF InfoAgrees
<1>10. QED BY <1>3, <1>4, <1>5, <1>6, <1>7, <1>8, <1>9

\* A run that ends by itself leaves nothing to announce; one that is given up
\* is counted.
LEMMA RunQuiet ==
    ASSUME TypeOK, QuietInv, NEW b \in Bridges,
           RunMachine(b) \/ RunDone(b) \/ RunTimeout(b)
    PROVE  QuietInv'
<1>1. CASE RunDone(b) \/ RunTimeout(b)
  <2>1. /\ active = b /\ active' = NoBridge /\ brg' = brg /\ info' = info
        /\ role' = role /\ tree' = tree /\ prt' = prt
     BY <1>1 DEF RunDone, RunTimeout, portVars, ptpVars
  <2>2. /\ budget.stalls \in Nat /\ BootBudget.stalls \in Nat
        /\ budget \in Budgets
     BY EventAssumption DEF TypeOK, Budgets
  <2>3. \/ /\ RunDone(b) /\ budget' = budget
        \/ /\ budget.stalls > 0 /\ budget'.stalls = budget.stalls - 1
     BY <1>1, <2>2 DEF RunDone, RunTimeout, envVars, Budgets
  <2>4. budget.stalls <= BootBudget.stalls BY DEF QuietInv
  <2>5. budget'.stalls <= BootBudget.stalls BY <2>2, <2>3, <2>4
  <2>6. ASSUME NEW d \in Bridges PROVE CistFirst(d)'
    <3>1. d # NoBridge BY TopologyAssumption DEF NoBridge
    <3>2. QED BY <2>1, <3>1 DEF CistFirst
  <2>7. ASSUME NEW x \in Ptps, On(x)'
        PROVE  InfoAgrees(x)' /\ DownSeen(x)' /\ NothingLeft(x)'
    <3>1. On(x) BY <2>1, <2>7 DEF On
    <3>2. InfoAgrees(x) /\ NothingLeft(x) BY <3>1 DEF QuietInv
    <3>3. BrOf(x) # NoBridge /\ BrOf(x) \in Bridges
       BY PtpTypes, TopologyAssumption DEF NoBridge
    <3>4. InfoAgrees(x)' BY <2>1, <3>2 DEF InfoAgrees
    <3>5. DownSeen(x)' BY <2>1, <3>3 DEF DownSeen
    <3>6. NothingLeft(x)'
      <4> SUFFICES ASSUME NoStall' PROVE info[x].updtInfo = FALSE
         BY <2>1 DEF NothingLeft
      <4>1. RunDone(b) /\ NoStall BY <2>2, <2>3, <2>4 DEF NoStall
      <4>2. CASE BrOf(x) # b \/ ~Up(x)
         BY <2>1, <3>2, <4>1, <4>2 DEF NothingLeft
      <4>3. CASE BrOf(x) = b /\ Up(x)
        <5>1. Ready(BrOf(x)) = {} BY <4>1, <4>3 DEF RunDone
        <5>2. QED BY <3>1, <4>3, <5>1, QuietPort
      <4>4. QED BY <4>2, <4>3
    <3>7. QED BY <3>4, <3>5, <3>6
  <2>8. QED BY <2>5, <2>6, <2>7 DEF QuietInv
<1>2. QED BY <1>1, MachineQuiet

-----------------------------------------------------------------------------
(* Events. *)

\* br_state_machines_begin puts Port Information of x into its begin state.
Begun(x) ==
    /\ info'[x].PISM = "DISABLED" /\ info'[x].infoIs = "Disabled"
    /\ info'[x].selected = FALSE /\ info'[x].reselect = TRUE
    /\ \/ info'[x].updtInfo = FALSE
       \/ info'[x].updtInfo = info[x].updtInfo /\ On(x)' = On(x)

\* What an event makes of x: its bridge is disabled, nothing has happened
\* except that its role may have to be selected again, or it starts over.
QuietStart(x) == ~On(x)' \/ (On(x)' = On(x) /\ InfoKept(x)) \/ Begun(x)

LEMMA QuietStartSuffices ==
    ASSUME TypeOK, QuietInv, Idle, PassStart, budget'.stalls = budget.stalls,
           \A x \in Ptps : QuietStart(x)
    PROVE  QuietInv'
<1>0. 0 \in Trees BY DEF Trees
<1>1. ASSUME NEW b \in Bridges PROVE CistFirst(b)'
  <2>1. b # NoBridge BY TopologyAssumption DEF NoBridge
  <2>2. Rank(Selector(0)) \in Nat /\ Rank(Selector(0))' = Rank(Selector(0))
     BY <1>0, SelectionSlots DEF Rank, Selector
  <2>3. ~(Rank(Selector(0)) < 0) BY <2>2
  <2>4. QED BY <2>1, <2>2, <2>3 DEF PassStart, CistFirst
<1>2. ASSUME NEW x \in Ptps, On(x)'
      PROVE  InfoAgrees(x)' /\ DownSeen(x)' /\ NothingLeft(x)'
  <2>1. BrOf(x) \in Bridges /\ BrOf(x) # NoBridge /\ BrOf(x)' = BrOf(x)
     BY PtpTypes, TopologyAssumption DEF NoBridge, BrOf, PortOf
  <2>2. On(x) => InfoAgrees(x) /\ NothingLeft(x) BY DEF QuietInv
  <2>3. On(x) /\ NoStall => info[x].updtInfo = FALSE
     BY <2>1, <2>2 DEF NothingLeft, Idle
  <2>4. QuietStart(x) OBVIOUS
  <2>5. DownSeen(x)'
    <3>1. Rank(Informer(x)) \in Nat /\ Rank(Informer(x))' = Rank(Informer(x))
       BY <1>0, <2>1, SelectionSlots DEF Rank, Informer, PortOf, Mstid
    <3>2. ~(Rank(Informer(x)) < 0) BY <3>1
    <3>3. QED BY <2>1, <3>1, <3>2 DEF PassStart, DownSeen
  <2>6. CASE On(x)' = On(x) /\ InfoKept(x)
    <3>1. On(x) BY <1>2, <2>6
    <3>2. InfoAgrees(x)' BY <2>2, <2>6, <3>1, KeptAgrees
    <3>3. NothingLeft(x)'
       BY <2>3, <2>6, <3>1 DEF NothingLeft, InfoKept, NoStall
    <3>4. QED BY <2>5, <3>2, <3>3
  <2>7. CASE Begun(x)
    <3>1. InfoAgrees(x)' BY <2>7 DEF InfoAgrees, Begun
    <3>2. NothingLeft(x)'
       BY <1>2, <2>3, <2>7 DEF NothingLeft, Begun, NoStall
    <3>3. QED BY <2>5, <3>1, <3>2
  <2>8. QED BY <1>2, <2>4, <2>6, <2>7 DEF QuietStart
<1>3. budget'.stalls <= BootBudget.stalls BY DEF QuietInv
<1>4. QED BY <1>1, <1>2, <1>3 DEF QuietInv

\* br_state_machines_begin.
LEMMA BeginQuiet ==
    ASSUME TypeOK, NEW b \in Bridges, NEW c, Begin(b, c),
           \A d \in Bridges : d # b =>
               brg'[d].bridgeEnabled = brg[d].bridgeEnabled,
           c.info \in [Ptps -> InfoRecs],
           \A x \in Ptps : IF BrOf(x) = b
               THEN \/ c.info[x].updtInfo = FALSE
                    \/ /\ c.info[x].updtInfo = info[x].updtInfo
                       /\ On(x)' = On(x)
               ELSE /\ c.info[x] = info[x]
                    /\ c.tree[TreeOf(x)] = tree[TreeOf(x)]
    PROVE  PassStart /\ \A x \in Ptps : QuietStart(x)
<1>1. PassStart BY DEF Begin, StartRun, PassStart
<1>2. ASSUME NEW x \in Ptps PROVE QuietStart(x)
  <2>0. BrOf(x) \in Bridges /\ BrOf(x)' = BrOf(x) /\ TreeOf(x) \in BridgeTrees
        /\ TreeOf(x)[1] = BrOf(x) /\ TreeOf(x)' = TreeOf(x)
     BY TreeOfType DEF BrOf, PortOf, TreeOf, Mstid
  <2>1. CASE BrOf(x) = b /\ ~brg'[b].bridgeEnabled
     BY <2>0, <2>1 DEF QuietStart, On
  <2>2. CASE BrOf(x) = b /\ brg'[b].bridgeEnabled
    <3>1. info'[x] = DisabledInfo(c.info[x])
       BY <2>2 DEF Begin, StateMachinesBegin
    <3>2. c.info[x] \in InfoRecs OBVIOUS
    <3>3. /\ info'[x].PISM = "DISABLED" /\ info'[x].infoIs = "Disabled"
          /\ info'[x].selected = FALSE /\ info'[x].reselect = TRUE
          /\ info'[x].updtInfo = c.info[x].updtInfo
       BY <3>1, <3>2 DEF DisabledInfo, InfoRecs
    <3>4. QED BY <2>2, <3>3 DEF QuietStart, Begun
  <2>3. CASE BrOf(x) # b
    <3>1. On(x)' = On(x) BY <2>0, <2>3 DEF On
    <3>2. info'[x] = info[x] /\ tree'[TreeOf(x)] = tree[TreeOf(x)]
          /\ role'[x] = role[x]
      <4>1. CASE ~brg'[b].bridgeEnabled
        <5>1. info' = c.info /\ tree' = c.tree /\ role' = role
           BY <4>1 DEF Begin
        <5>2. QED BY <2>3, <5>1
      <4>2. CASE brg'[b].bridgeEnabled
        <5>1. StateMachinesBegin(b, c) BY <4>2 DEF Begin
        <5>2. info'[x] = c.info[x] /\ role'[x] = role[x]
           BY <2>3, <5>1 DEF StateMachinesBegin
        <5>3. tree'[TreeOf(x)] = c.tree[TreeOf(x)]
           BY <2>0, <2>3, <5>1 DEF StateMachinesBegin
        <5>4. QED BY <2>3, <5>2, <5>3
      <4>3. QED BY <4>1, <4>2
    <3>3. InfoKept(x) BY <2>0, <3>2 DEF InfoKept
    <3>4. QED BY <3>1, <3>3 DEF QuietStart
  <2>4. QED BY <2>1, <2>2, <2>3
<1>3. QED BY <1>1, <1>2

\* MSTP_IN_set_bridge_enable.
LEMMA BridgeEnableQuiet ==
    ASSUME TypeOK, NEW b \in Bridges, NEW up \in BOOLEAN,
           MSTP_IN_set_bridge_enable(b, up)
    PROVE  PassStart /\ \A x \in Ptps : QuietStart(x)
<1>t. /\ brg \in [Bridges -> BridgeRecs] /\ info \in [Ptps -> InfoRecs]
      /\ tree \in [BridgeTrees -> TreeRecs]
   BY DEF TypeOK, MachineTypeOK
<1> DEFINE newTree == [u \in BridgeTrees |->
              IF u[1] = b THEN [tree[u] EXCEPT !.topology_change = FALSE]
              ELSE tree[u]]
           newInfo == [x \in Ptps |->
              IF BrOf(x) = b
              THEN [info[x] EXCEPT !.updtInfo = FALSE, !.disputed = FALSE,
                      !.rcvdInfo = "Other", !.mastered = FALSE]
              ELSE info[x]]
<1>1. \E p, r, t, s, a :
         Begin(b, [ tree |-> newTree, prt |-> p, rcv |-> r, info |-> newInfo,
                    pst |-> s, tc |-> t, ageing |-> a ])
   BY Zenon DEF MSTP_IN_set_bridge_enable
<1>2. ASSUME NEW x \in Ptps
      PROVE  /\ newInfo[x] \in InfoRecs
             /\ BrOf(x) = b => newInfo[x].updtInfo = FALSE
  <2>1. info[x] \in InfoRecs BY <1>t
  <2>2. CASE BrOf(x) # b BY <2>1, <2>2
  <2>3. CASE BrOf(x) = b
    <3> DEFINE i == [info[x] EXCEPT !.updtInfo = FALSE, !.disputed = FALSE,
                       !.rcvdInfo = "Other", !.mastered = FALSE]
    <3>1. newInfo[x] = i BY <2>3
    <3>2. i \in InfoRecs
      <4>1. [info[x] EXCEPT !.updtInfo = FALSE] \in InfoRecs
         BY <2>1, InfoFields
      <4>2. [info[x] EXCEPT !.updtInfo = FALSE, !.disputed = FALSE]
                \in InfoRecs
         BY <4>1, InfoFields
      <4>3. [info[x] EXCEPT !.updtInfo = FALSE, !.disputed = FALSE,
                !.rcvdInfo = "Other"] \in InfoRecs
         BY <4>2, InfoFields DEF Infos
      <4>4. QED BY <4>3, InfoFields
    <3>3. i.updtInfo = FALSE BY <2>1 DEF InfoRecs
    <3>4. QED BY <3>1, <3>2, <3>3
  <2>4. QED BY <2>2, <2>3
<1>3. newInfo \in [Ptps -> InfoRecs] BY <1>2
<1>4. ASSUME NEW x \in Ptps, BrOf(x) # b
      PROVE  /\ newInfo[x] = info[x]
             /\ newTree[TreeOf(x)] = tree[TreeOf(x)]
  <2>1. TreeOf(x) \in BridgeTrees /\ TreeOf(x)[1] = BrOf(x)
     BY TreeOfType
  <2>2. QED BY <1>4, <2>1
<1>5. \A d \in Bridges : d # b => brg'[d] = brg[d]
   BY <1>t DEF MSTP_IN_set_bridge_enable
<1> HIDE DEF newTree, newInfo
<1>6. PICK p, r, t, s, a :
         Begin(b, [ tree |-> newTree, prt |-> p, rcv |-> r, info |-> newInfo,
                    pst |-> s, tc |-> t, ageing |-> a ])
   BY <1>1
<1> DEFINE c == [ tree |-> newTree, prt |-> p, rcv |-> r, info |-> newInfo,
                  pst |-> s, tc |-> t, ageing |-> a ]
<1>7. c.tree = newTree /\ c.info = newInfo OBVIOUS
<1>8. Begin(b, c) BY <1>6
<1> HIDE DEF c
<1>9. c.info \in [Ptps -> InfoRecs] BY <1>3, <1>7
<1>10. ASSUME NEW x \in Ptps
       PROVE  IF BrOf(x) = b
              THEN \/ c.info[x].updtInfo = FALSE
                   \/ /\ c.info[x].updtInfo = info[x].updtInfo
                      /\ On(x)' = On(x)
              ELSE /\ c.info[x] = info[x]
                   /\ c.tree[TreeOf(x)] = tree[TreeOf(x)]
   BY <1>2, <1>4, <1>7
<1>11. \A d \in Bridges : d # b =>
           brg'[d].bridgeEnabled = brg[d].bridgeEnabled
   BY <1>5
<1>12. QED BY <1>8, <1>9, <1>10, <1>11, BeginQuiet

\* An event leaves Port Information alone or asks for a new selection.
InfoAsked(x) ==
    \/ InfoSame(x)
    \/ /\ info'[x].PISM = info[x].PISM
       /\ info'[x].rcvdInfo = info[x].rcvdInfo
       /\ info'[x].infoIs = info[x].infoIs
       /\ info'[x].updtInfo = info[x].updtInfo
       /\ info'[x].selected = FALSE /\ info'[x].reselect = TRUE

LEMMA ReselectedAsked ==
    ASSUME TypeOK, NEW S, info' = Reselected(S) \/ info' = info,
           NEW x \in Ptps
    PROVE  InfoAsked(x)
<1>1. info[x] \in InfoRecs BY DEF TypeOK, MachineTypeOK
<1>2. CASE info' = info BY <1>2 DEF InfoAsked, InfoSame
<1>3. CASE info' = Reselected(S)
  <2>1. \/ info'[x] = info[x]
        \/ info'[x] = [info[x] EXCEPT !.selected = FALSE, !.reselect = TRUE]
     BY <1>3 DEF Reselected
  <2>2. CASE info'[x] = info[x] BY <2>2 DEF InfoAsked, InfoSame
  <2>3. CASE info'[x] = [info[x] EXCEPT !.selected = FALSE, !.reselect = TRUE]
     BY <1>1, <2>3 DEF InfoAsked, InfoRecs
  <2>4. QED BY <2>1, <2>2, <2>3
<1>4. QED BY <1>2, <1>3

\* Events that do no more than that.
LEMMA AskedQuiet ==
    ASSUME TypeOK, role' = role,
           \A u \in BridgeTrees : tree'[u].PRSSM = tree[u].PRSSM,
           \A d \in Bridges : brg'[d].bridgeEnabled = brg[d].bridgeEnabled,
           \A x \in Ptps : InfoAsked(x)
    PROVE  \A x \in Ptps : QuietStart(x)
<1> TAKE x \in Ptps
<1>1. BrOf(x) \in Bridges /\ BrOf(x)' = BrOf(x) /\ TreeOf(x) \in BridgeTrees
      /\ TreeOf(x)' = TreeOf(x)
   BY TreeOfType DEF BrOf, PortOf, TreeOf, Mstid
<1>2. On(x)' = On(x) BY <1>1 DEF On
<1>3. tree'[TreeOf(x)].PRSSM = tree[TreeOf(x)].PRSSM BY <1>1
<1>4. InfoKept(x) BY <1>1, <1>3 DEF InfoKept, InfoAsked, InfoSame
<1>5. QED BY <1>2, <1>4 DEF QuietStart

\* Time passes.
LEMMA TickQuiet ==
    ASSUME TypeOK, NEW b \in Bridges, Tick(b)
    PROVE  PassStart /\ \A x \in Ptps : QuietStart(x)
<1>t. /\ info \in [Ptps -> InfoRecs] /\ role \in [Ptps -> RoleRecs]
      /\ tree \in [BridgeTrees -> TreeRecs]
   BY DEF TypeOK, MachineTypeOK
<1>1. PassStart BY DEF Tick, StartRun, PassStart
<1>2. brg' = brg BY DEF Tick
<1>3. ASSUME NEW x \in Ptps PROVE QuietStart(x)
  <2>1. BrOf(x)' = BrOf(x) /\ TreeOf(x) \in BridgeTrees /\ TreeOf(x)' = TreeOf(x)
     BY TreeOfType DEF BrOf, PortOf, TreeOf, Mstid
  <2>2. InfoSame(x)
    <3>1. info[x] \in InfoRecs BY <1>t
    <3>2. \/ info'[x] = info[x]
          \/ \E v : info'[x] = [info[x] EXCEPT !.rcvdInfoWhile = v]
       BY DEF Tick
    <3>3. QED BY <3>1, <3>2 DEF InfoSame, InfoRecs
  <2>3. role'[x].selectedRole = role[x].selectedRole
    <3>1. role[x] \in RoleRecs BY <1>t
    <3>2. \/ role'[x] = role[x]
          \/ \E f, r, k : role'[x] = [role[x] EXCEPT !.fdWhile = f,
                                        !.rrWhile = r, !.rbWhile = k]
       BY DEF Tick
    <3>3. QED BY <3>1, <3>2 DEF RoleRecs
  <2>4. tree'[TreeOf(x)].PRSSM = tree[TreeOf(x)].PRSSM
    <3>1. tree[TreeOf(x)] \in TreeRecs BY <1>t, <2>1
    <3>2. \/ tree'[TreeOf(x)] = tree[TreeOf(x)]
          \/ \E v : tree'[TreeOf(x)] =
                      [tree[TreeOf(x)] EXCEPT !.topology_change = v]
       BY <2>1 DEF Tick
    <3>3. QED BY <3>1, <3>2 DEF TreeRecs
  <2>5. InfoKept(x) BY <2>1, <2>2, <2>3, <2>4 DEF InfoKept, InfoSame
  <2>6. On(x)' = On(x) BY <1>2, <2>1 DEF On
  <2>7. QED BY <2>5, <2>6 DEF QuietStart
<1>4. QED BY <1>1, <1>3

\* Commands.
LEMMA CommandQuiet ==
    ASSUME TypeOK, Idle, NEW name, NEW on, NEW value,
           IsCommand(name, on, value), Execute(name, on, value)
    PROVE  PassStart /\ \A x \in Ptps : QuietStart(x)
<1>t. /\ brg \in [Bridges -> BridgeRecs] /\ info \in [Ptps -> InfoRecs]
      /\ tree \in [BridgeTrees -> TreeRecs]
   BY DEF TypeOK, MachineTypeOK
<1>b. ASSUME NEW b \in Bridges, NEW new, brg' = [brg EXCEPT ![b] = new],
             new.bridgeEnabled = brg[b].bridgeEnabled
      PROVE  \A d \in Bridges : brg'[d].bridgeEnabled = brg[d].bridgeEnabled
   BY <1>t, <1>b
<1>r. ASSUME NEW changed, NEW p, RunIf(changed, p) PROVE PassStart
   BY <1>r DEF RunIf, schedVars, StartRun, PassStart, Idle
<1>c. Current.info = info /\ Current.tree = tree BY DEF Current
<1>1. CASE name = "address" /\ MSTP_IN_set_bridge_address(on, value)
  <2>1. on \in Bridges BY <1>1 DEF IsCommand, RunFlags, QuietFlags
  <2> DEFINE moved == [u \in BridgeTrees |->
                 IF u[1] = on
                 THEN [tree[u] EXCEPT !.BridgeIdentifier =
                           BridgeIdentifier(BridgePrio(@), value)]
                 ELSE tree[u]]
             c == [Current EXCEPT !.tree = moved]
  <2>2. Begin(on, c) /\ brg' = brg
     BY <1>1 DEF MSTP_IN_set_bridge_address
  <2>3. c.info = info /\ c.tree = moved BY DEF Current
  <2>4. ASSUME NEW x \in Ptps, BrOf(x) # on
        PROVE  moved[TreeOf(x)] = tree[TreeOf(x)]
     BY <2>4, TreeOfType
  <2> HIDE DEF c, moved
  <2>5. ASSUME NEW x \in Ptps PROVE On(x)' = On(x)
     BY <2>2 DEF On, BrOf, PortOf
  <2>6. QED BY <1>t, <2>1, <2>2, <2>3, <2>4, <2>5, BeginQuiet
<1>2. CASE name = "version" /\ SetProtocolVersion(on, value)
  <2>1. on \in Bridges BY <1>2 DEF IsCommand, RunFlags, QuietFlags
  <2>2. Begin(on, Current) BY <1>2 DEF SetProtocolVersion
  <2>3. brg[on] \in BridgeRecs BY <1>t, <2>1
  <2>4. PICK new : /\ brg' = [brg EXCEPT ![on] = new]
                   /\ new = [brg[on] EXCEPT !.ForceProtocolVersion = value]
     BY <1>2, <1>t, <2>1 DEF SetProtocolVersion
  <2>5. new.bridgeEnabled = brg[on].bridgeEnabled
     BY <2>3, <2>4 DEF BridgeRecs
  <2>6. \A d \in Bridges : brg'[d].bridgeEnabled = brg[d].bridgeEnabled
     BY <1>b, <2>1, <2>4, <2>5
  <2>7. ASSUME NEW x \in Ptps PROVE On(x)' = On(x)
     BY <2>6, PtpTypes DEF On, BrOf, PortOf
  <2>8. QED BY <1>c, <1>t, <2>1, <2>2, <2>6, <2>7, BeginQuiet
<1>3. CASE \/ name = "times" /\ SetMaxAgeAndForwardDelay(on, value[1], value[2])
           \/ name = "maxhops" /\ SetMaxHops(on, value)
  <2>1. on \in Bridges BY <1>3 DEF IsCommand, RunFlags, QuietFlags
  <2>2. brg[on] \in BridgeRecs BY <1>t, <2>1
  <2>3. PICK new : /\ ChangeBridgeTimes(on, new)
                   /\ \/ new = [brg[on] EXCEPT !.Max_Age = value[1],
                                               !.Forward_Delay = value[2]]
                      \/ new = [brg[on] EXCEPT !.MaxHops = value]
     BY <1>3 DEF SetMaxAgeAndForwardDelay, SetMaxHops
  <2>4. new.bridgeEnabled = brg[on].bridgeEnabled
     BY <2>2, <2>3 DEF BridgeRecs
  <2>5. /\ brg' = [brg EXCEPT ![on] = new] /\ role' = role
        /\ info' = Reselected({x \in Ptps : BrOf(x) = on}) /\ StartRun(on)
     BY <2>3 DEF ChangeBridgeTimes, machineVars
  <2>6. PassStart BY <2>5 DEF StartRun, PassStart
  <2>7. ASSUME NEW u \in BridgeTrees PROVE tree'[u].PRSSM = tree[u].PRSSM
    <3>1. tree[u] \in TreeRecs BY <1>t
    <3>2. \/ tree'[u] = tree[u]
          \/ tree'[u] = [tree[u] EXCEPT
                  !.BridgeTimes.remainingHops = new.MaxHops,
                  !.BridgeTimes.Forward_Delay = new.Forward_Delay,
                  !.BridgeTimes.Max_Age = new.Max_Age,
                  !.BridgeTimes.Hello_Time = HelloTime]
       BY <2>3 DEF ChangeBridgeTimes
    <3>3. QED BY <3>1, <3>2 DEF TreeRecs
  <2>8. \A x \in Ptps : InfoAsked(x) BY <2>5, ReselectedAsked
  <2>9. QED BY <1>b, <2>1, <2>4, <2>5, <2>6, <2>7, <2>8, AskedQuiet
<1>4. CASE \/ name = "txholdcount" /\ SetTxHoldCount(on, value)
           \/ name = "ageing" /\ SetAgeingTime(on, value)
  <2>1. on \in Bridges BY <1>4 DEF IsCommand, RunFlags, QuietFlags
  <2>2. brg[on] \in BridgeRecs BY <1>t, <2>1
  <2>3. PICK new : /\ brg' = [brg EXCEPT ![on] = new]
                   /\ \/ new = [brg[on] EXCEPT !.Transmit_Hold_Count = value]
                      \/ new = [brg[on] EXCEPT !.Ageing_Time = value]
     BY <1>4, <1>t, <2>1 DEF SetTxHoldCount, SetAgeingTime
  <2>4. new.bridgeEnabled = brg[on].bridgeEnabled
     BY <2>2, <2>3 DEF BridgeRecs
  <2>5. info' = info /\ role' = role /\ tree' = tree
     BY <1>4 DEF SetTxHoldCount, SetAgeingTime, machineVars, ptpVars
  <2>6. PassStart
     BY <1>4 DEF SetTxHoldCount, SetAgeingTime, schedVars, StartRun,
                 PassStart, Idle
  <2>7. \A x \in Ptps : InfoAsked(x) BY <2>5, ReselectedAsked
  <2>8. QED BY <1>b, <2>1, <2>3, <2>4, <2>5, <2>6, <2>7, AskedQuiet
<1>5. CASE /\ name = "treeprio"
           /\ MSTP_IN_set_msti_bridge_config(on[1], on[2], value)
  <2>1. PICK v : tree' = [tree EXCEPT ![<<on[1], on[2]>>] =
              [tree[<<on[1], on[2]>>] EXCEPT !.BridgeIdentifier = v]]
     BY <1>5, <1>t DEF MSTP_IN_set_msti_bridge_config
  <2>2. ASSUME NEW u \in BridgeTrees PROVE tree'[u].PRSSM = tree[u].PRSSM
    <3>1. tree[u] \in TreeRecs BY <1>t
    <3>2. \/ tree'[u] = tree[u]
          \/ tree'[u] = [tree[u] EXCEPT !.BridgeIdentifier = v]
       BY <1>t, <2>1
    <3>3. QED BY <3>1, <3>2 DEF TreeRecs
  <2>3. /\ brg' = brg /\ role' = role /\ PassStart
        /\ info' = Reselected(PtpsOfTree(on[1], on[2]))
     BY <1>5
     DEF MSTP_IN_set_msti_bridge_config, machineVars, schedVars, PassStart,
         Idle
  <2>4. \A x \in Ptps : InfoAsked(x) BY <2>3, ReselectedAsked
  <2>5. QED BY <2>2, <2>3, <2>4, AskedQuiet
<1>6. CASE MSTP_IN_port_mcheck(on)
  <2>1. /\ brg' = brg /\ role' = role /\ tree' = tree /\ PassStart
        /\ info' = [info EXCEPT ![Cist(on)] =
                      [info[Cist(on)] EXCEPT !.proposing = TRUE]]
     BY <1>6, <1>t DEF MSTP_IN_port_mcheck, StartRun, PassStart
  <2>2. ASSUME NEW x \in Ptps PROVE InfoAsked(x)
    <3>1. info[x] \in InfoRecs BY <1>t
    <3>2. \/ info'[x] = info[x]
          \/ info'[x] = [info[x] EXCEPT !.proposing = TRUE]
       BY <1>t, <2>1
    <3>3. QED BY <3>1, <3>2 DEF InfoAsked, InfoSame, InfoRecs
  <2>3. QED BY <2>1, <2>2, AskedQuiet
<1>7. CASE SetQuietFlag(on, name, value)
  <2>1. /\ brg' = brg /\ role' = role /\ tree' = tree /\ info' = info
        /\ PassStart
     BY <1>7 DEF SetQuietFlag, ptpVars, schedVars, PassStart, Idle
  <2>2. \A x \in Ptps : InfoAsked(x) BY <2>1, ReselectedAsked
  <2>3. QED BY <2>1, <2>2, AskedQuiet
<1>8. CASE \/ SetExternalPathCost(on, value) \/ SetAdminP2P(on, value)
           \/ SetRunFlag(on, name, value) \/ SetAdminEdgePort(on, value)
           \/ SetTreePortPriority(on, value) \/ SetInternalPathCost(on, value)
  <2>1. role' = role /\ tree' = tree /\ brg' = brg
     BY <1>8
     DEF SetExternalPathCost, SetAdminP2P, SetRunFlag, SetAdminEdgePort,
         SetTreePortPriority, SetInternalPathCost, ChangeTreePort,
         machineVars
  <2>2. \E changed, p : RunIf(changed, p)
     BY <1>8
     DEF SetExternalPathCost, SetAdminP2P, SetRunFlag, SetAdminEdgePort,
         SetTreePortPriority, SetInternalPathCost, ChangeTreePort
  <2>3. PICK S : info' = Reselected(S) \/ info' = info
     BY <1>8
     DEF SetExternalPathCost, SetAdminP2P, SetRunFlag, SetAdminEdgePort,
         SetTreePortPriority, SetInternalPathCost, ChangeTreePort
  <2>4. \A x \in Ptps : InfoAsked(x) BY <2>3, ReselectedAsked
  <2>5. QED BY <1>r, <2>1, <2>2, <2>4, AskedQuiet
<1>9. QED
   BY <1>1, <1>2, <1>3, <1>4, <1>5, <1>6, <1>7, <1>8 DEF Execute

\* Every event.
LEMMA EventQuiet ==
    ASSUME TypeOK, QuietInv, Event
    PROVE  QuietInv'
<1>0. Idle BY DEF Event
<1>b. budget \in Budgets BY DEF TypeOK
<1>k. ASSUME NEW S, info' = Reselected(S) \/ info' = info, role' = role,
             tree' = tree, brg' = brg
      PROVE  \A x \in Ptps : QuietStart(x)
  <2>1. \A x \in Ptps : InfoAsked(x) BY <1>k, ReselectedAsked
  <2>2. QED BY <1>k, <2>1, AskedQuiet
<1>1. ASSUME NEW b \in Bridges, MSTP_IN_one_second(b) PROVE QuietInv'
  <2>1. budget' = budget BY <1>1 DEF MSTP_IN_one_second
  <2>2. CASE Tick(b) BY <1>0, <2>1, <2>2, TickQuiet, QuietStartSuffices
  <2>3. CASE DisabledTick(b)
    <3>1. /\ info' = info /\ role' = role /\ tree' = tree /\ brg' = brg
          /\ PassStart
       BY <1>0, <2>3 DEF DisabledTick, ptpVars, schedVars, PassStart, Idle
    <3>2. \A x \in Ptps : QuietStart(x) BY <1>k, <3>1
    <3>3. QED BY <1>0, <2>1, <3>1, <3>2, QuietStartSuffices
  <2>4. QED BY <1>1, <2>2, <2>3 DEF MSTP_IN_one_second
<1>2. ASSUME NEW b \in Bridges, FlapBridge(b) PROVE QuietInv'
  <2>1. budget'.stalls = budget.stalls BY <1>2, <1>b DEF FlapBridge, Budgets
  <2>2. (~brg[b].bridgeEnabled) \in BOOLEAN OBVIOUS
  <2>3. MSTP_IN_set_bridge_enable(b, ~brg[b].bridgeEnabled)
     BY <1>2 DEF FlapBridge
  <2>4. PassStart /\ \A x \in Ptps : QuietStart(x)
     BY <2>2, <2>3, BridgeEnableQuiet
  <2>5. QED BY <1>0, <2>1, <2>4, QuietStartSuffices
<1>3. ASSUME NEW p \in Ports,
             MSTP_IN_rx_bpdu(p) \/ Lose(p) \/ FlapPort(p) \/ ShutDown(p)
      PROVE  QuietInv'
  <2>1. info' = info /\ role' = role /\ tree' = tree /\ brg' = brg
     BY <1>3
     DEF MSTP_IN_rx_bpdu, Lose, FlapPort, ShutDown, PortUp, PortDown,
         ptpVars, machineVars
  <2>2. PassStart
     BY <1>0, <1>3
     DEF MSTP_IN_rx_bpdu, RxGuarded, RxDropped, RxKept, Lose, FlapPort,
         ShutDown, PortUp, PortDown, schedVars, StartRun, PassStart, Idle
  <2>3. budget'.stalls = budget.stalls
     BY <1>3, <1>b
     DEF MSTP_IN_rx_bpdu, Lose, FlapPort, ShutDown, envVars, Budgets
  <2>4. \A x \in Ptps : QuietStart(x) BY <1>k, <2>1
  <2>5. QED BY <1>0, <2>2, <2>3, <2>4, QuietStartSuffices
<1>4. ASSUME NEW c \in Commands, Tell(c) PROVE QuietInv'
  <2>1. budget'.stalls = budget.stalls BY <1>4, <1>b DEF Tell, Budgets
  <2>2. PassStart /\ \A x \in Ptps : QuietStart(x)
     BY <1>0, <1>4, EventAssumption, CommandQuiet DEF Tell
  <2>3. QED BY <1>0, <2>1, <2>2, QuietStartSuffices
<1>5. QED BY <1>1, <1>2, <1>3, <1>4 DEF Event

\* QuietInv is an invariant.
LEMMA QuietInvAlways == Spec => [](TypeOK /\ QuietInv)
<1> DEFINE Inv == TypeOK /\ QuietInv
<1>1. Init => Inv
  <2> SUFFICES ASSUME Init PROVE QuietInv BY InitTypes
  <2>1. active = NoBridge /\ brg = BootBridge /\ budget = BootBudget
     BY BootAssumption DEF Init
  <2>2. BootBudget.stalls \in Nat BY EventAssumption DEF Budgets
  <2>3. ASSUME NEW x \in Ptps PROVE ~On(x)
    <3>1. BrOf(x) \in Bridges BY PtpTypes
    <3>2. QED BY <2>1, <3>1, BootAssumption DEF On
  <2>4. ASSUME NEW b \in Bridges PROVE CistFirst(b)
    <3>1. b # NoBridge BY TopologyAssumption DEF NoBridge
    <3>2. QED BY <2>1, <3>1 DEF CistFirst
  <2>5. QED BY <2>1, <2>2, <2>3, <2>4 DEF QuietInv
<1>2. Inv /\ [Next]_vars => Inv'
  <2> SUFFICES ASSUME Inv, [Next]_vars PROVE Inv' OBVIOUS
  <2>1. CASE Run BY <2>1, RunTypes, RunQuiet DEF Run
  <2>2. CASE Event BY <2>2, EventTypes, EventQuiet
  <2>3. CASE UNCHANGED vars
    <3>0. /\ UNCHANGED <<active, pos, brg, tree, prt, info, role, budget>>
       BY <2>3 DEF vars, schedVars, portVars, ptpVars, envVars
    <3>1. TypeOK'
       BY <2>3
       DEF vars, schedVars, portVars, ptpVars, envVars, TypeOK, MachineTypeOK
    <3>2. ASSUME NEW x \in Ptps, On(x)'
          PROVE  InfoAgrees(x)' /\ DownSeen(x)' /\ NothingLeft(x)'
      <4>1. InfoAgrees(x) /\ DownSeen(x) /\ NothingLeft(x)
         BY <3>0, <3>2 DEF QuietInv, On
      <4>2. InfoAgrees(x)' BY <3>0, <4>1 DEF InfoAgrees
      <4>3. DownSeen(x)' BY <3>0, <4>1 DEF DownSeen, Up
      <4>4. NothingLeft(x)' BY <3>0, <4>1 DEF NothingLeft, NoStall, Up
      <4>5. QED BY <4>2, <4>3, <4>4
    <3>3. ASSUME NEW b \in Bridges PROVE CistFirst(b)'
       BY <3>0 DEF QuietInv, CistFirst, PRSSM_run
    <3>4. QED BY <3>0, <3>1, <3>2, <3>3 DEF QuietInv
  <2>4. QED BY <2>1, <2>2, <2>3 DEF Next
<1>3. QED BY <1>1, <1>2, PTL DEF Spec

-----------------------------------------------------------------------------
(* The theorems. *)

\* What holds of the messages of a port of a quiet, enabled bridge.
LEMMA QuietMessages ==
    ASSUME TypeOK, QuietInv, NEW b \in Bridges, brg[b].bridgeEnabled, Quiet(b),
           NEW p \in PortsOf(b)
    PROVE  /\ \A x \in PtpsOfPort(p) :
                  info[x].rcvdMsg => ~IsCist(x) /\ info[x].PISM = "AGED"
           /\ rcv[p].rcvdBpdu => \E x \in PtpsOfPort(p) : info[x].rcvdMsg
<1>1. p \in Ports /\ BridgeOf[p] = b /\ Ready(b) = {} BY DEF PortsOf, Quiet
<1>2. ASSUME NEW x \in PtpsOfPort(p)
      PROVE  /\ x \in Ptps /\ PortOf(x) = p /\ BrOf(x) = b /\ On(x)
             /\ PISM_run(x) = None
  <2>1. x \in Ptps /\ PortOf(x) = p BY DEF PtpsOfPort
  <2>2. BrOf(x) = b BY <1>1, <2>1 DEF BrOf
  <2>3. QED BY <1>1, <2>1, <2>2, NoneReady DEF On
<1>c. /\ Cist(p) \in PtpsOfPort(p) /\ IsCist(Cist(p))
      /\ CistOf(Cist(p)) = Cist(p)
   BY <1>1 DEF Cist, PtpsOfPort, Ptps, PortOf, IsCist, Mstid, CistOf, Trees
<1>3. ASSUME NEW x \in PtpsOfPort(p), ~Up(x) PROVE ~info[x].rcvdMsg
  <2>1. info[x].PISM = "DISABLED" BY <1>1, <1>2, <1>3, QuietPort
  <2>2. QED BY <1>2, <1>3, <2>1 DEF PISM_run, Up, None
<1>4. ASSUME Up(Cist(p))
      PROVE  info[Cist(p)].updtInfo = FALSE /\ ~info[Cist(p)].rcvdMsg
  <2>1. info[Cist(p)].updtInfo = FALSE /\ info[Cist(p)].PISM = "CURRENT"
     BY <1>1, <1>2, <1>4, <1>c, QuietPort
  <2>2. QED BY <1>2, <1>4, <1>c, <2>1 DEF PISM_run, Up, None
<1>5. ASSUME NEW x \in PtpsOfPort(p), info[x].rcvdMsg
      PROVE  ~IsCist(x) /\ info[x].PISM = "AGED"
  <2>1. Up(x) /\ Up(Cist(p)) BY <1>2, <1>3, <1>5, <1>c DEF Up
  <2>2. CASE IsCist(x)
    <3>1. x = Cist(p)
       BY <1>2, <2>2 DEF Cist, Ptps, PortOf, IsCist, Mstid
    <3>2. QED BY <1>4, <1>5, <2>1, <3>1
  <2>3. CASE ~IsCist(x)
    <3>1. CistOf(x) = Cist(p) BY <1>2 DEF CistOf
    <3>2. info[x].updtInfo = FALSE /\ info[x].PISM \in {"AGED", "CURRENT"}
       BY <1>1, <1>2, <2>1, QuietPort
    <3>3. info[x].PISM # "CURRENT"
       BY <1>2, <1>4, <1>5, <2>1, <2>3, <3>1, <3>2 DEF PISM_run, Up, None
    <3>4. QED BY <2>3, <3>2, <3>3
  <2>4. QED BY <2>2, <2>3
<1>6. ASSUME rcv[p].rcvdBpdu PROVE \E x \in PtpsOfPort(p) : info[x].rcvdMsg
  <2>1. PRSM_run(p) = None BY <1>1, NoneReady
  <2>2. QED BY <1>6, <2>1 DEF PRSM_run, rcvdAnyMsg, None
<1>7. QED BY <1>5, <1>6

\* The CIST is served: a run that has ended by itself has consumed every
\* message for the CIST, and a BPDU or a message it leaves on a port is one
\* that waits for an MSTI whose information has aged out and that has nothing
\* of its own to announce yet.
CistDrained ==
    \A b \in Bridges : brg[b].bridgeEnabled /\ Quiet(b) =>
        \A p \in PortsOf(b) :
            /\ ~info[Cist(p)].rcvdMsg
            /\ \A x \in PtpsOfPort(p) :
                   info[x].rcvdMsg => ~IsCist(x) /\ info[x].PISM = "AGED"
            /\ rcv[p].rcvdBpdu => \E x \in PtpsOfPort(p) : info[x].rcvdMsg

\* In every network, with any number of MSTIs: when br_state_machines_run has
\* ended by itself no port is left with an unprocessed message for the CIST.
THEOREM CistAlwaysDrained == Spec => []CistDrained
<1>1. TypeOK /\ QuietInv => CistDrained
  <2> SUFFICES ASSUME TypeOK, QuietInv, NEW b \in Bridges,
                      brg[b].bridgeEnabled, Quiet(b), NEW p \in PortsOf(b)
               PROVE  /\ ~info[Cist(p)].rcvdMsg
                      /\ \A x \in PtpsOfPort(p) : info[x].rcvdMsg =>
                             ~IsCist(x) /\ info[x].PISM = "AGED"
                      /\ rcv[p].rcvdBpdu =>
                             \E x \in PtpsOfPort(p) : info[x].rcvdMsg
     BY DEF CistDrained
  <2>1. Cist(p) \in PtpsOfPort(p) /\ IsCist(Cist(p))
     BY DEF Cist, PtpsOfPort, Ptps, PortOf, IsCist, Mstid, Trees, PortsOf
  <2>2. QED BY <2>1, QuietMessages
<1>2. QED BY <1>1, QuietInvAlways, PTL

\* In every network of bridges without MSTIs: when br_state_machines_run has
\* ended by itself, every BPDU has been processed, so that MSTP_IN_rx_bpdu
\* never drops the next one as "Port hasn't processed previous BPDU".
THEOREM AlwaysDrainedWithoutMstis ==
    ASSUME Mstis = {}
    PROVE  Spec => []QuietDrained
<1>1. TypeOK /\ QuietInv => QuietDrained
  <2> SUFFICES ASSUME TypeOK, QuietInv, NEW b \in Bridges,
                      brg[b].bridgeEnabled, Quiet(b), NEW p \in PortsOf(b)
               PROVE  /\ ~rcv[p].rcvdBpdu
                      /\ \A x \in PtpsOfPort(p) : ~info[x].rcvdMsg
     BY DEF QuietDrained
  <2>1. \A x \in PtpsOfPort(p) : IsCist(x)
     BY DEF PtpsOfPort, Ptps, IsCist, Mstid, Trees
  <2>2. QED BY <2>1, QuietMessages
<1>2. QED BY <1>1, QuietInvAlways, PTL

\* In every network, as long as no run has been given up: when
\* br_state_machines_run has ended, every port has the role that was selected
\* for it, and has the role Disabled exactly if its link is down.
THEOREM SettledUnlessGivenUp == Spec => [](NoStall => QuietSettled)
<1>1. TypeOK /\ QuietInv => (NoStall => QuietSettled)
  <2> SUFFICES ASSUME TypeOK, QuietInv, NoStall, NEW b \in Bridges,
                      brg[b].bridgeEnabled, Quiet(b), NEW p \in PortsOf(b),
                      NEW x \in PtpsOfPort(p)
               PROVE  /\ Settled(x)
                      /\ role[x].role = role[x].selectedRole
                      /\ (role[x].role = "Disabled") = ~prt[p].portEnabled
     BY DEF QuietSettled
  <2>1. /\ p \in Ports /\ BridgeOf[p] = b /\ Ready(b) = {} /\ active # b
        /\ x \in Ptps /\ PortOf(x) = p
     BY DEF PortsOf, Quiet, PtpsOfPort
  <2>2. BrOf(x) = b /\ On(x) /\ (Up(x) <=> prt[p].portEnabled)
     BY <2>1 DEF BrOf, On, Up
  <2>3. InfoAgrees(x) /\ NothingLeft(x) BY <2>1, <2>2 DEF QuietInv
  <2>4. info[x].updtInfo = FALSE BY <2>1, <2>2, <2>3 DEF NothingLeft
  <2>5. /\ info[x].selected = TRUE /\ (info[x].infoIs = "Disabled" <=> ~Up(x))
        /\ PRTSM_run(x) = None
     BY <2>1, <2>2, QuietPort, NoneReady
  <2>6. Settled(x) BY <2>4, <2>5 DEF Settled
  <2>7. role[x].role = role[x].selectedRole
     BY <2>5, <2>6 DEF PRTSM_run, EntryState, None
  <2>8. role[x].selectedRole = "Disabled" <=> ~Up(x)
     BY <2>3, <2>5 DEF InfoAgrees
  <2>9. QED BY <2>2, <2>6, <2>7, <2>8
<1>2. QED BY <1>1, QuietInvAlways, PTL

\* Bridge assurance: when a run has ended, a network port that is not an edge
\* port, has heard no BPDU for three hello times and is not the way to the
\* root is blocked in the kernel, in the CIST and in every MSTI.  (BaInconsistent
\* does not stop a root port: there Port Information ages the root out, with
\* the hello time of the sender.)
SilentPortBlocked ==
    \A p \in Ports :
        /\ brg[BridgeOf[p]].bridgeEnabled /\ Quiet(BridgeOf[p])
        /\ prt[p].portEnabled /\ assurancePort(p)
        /\ prt[p].brAssuRcvdInfoWhile = 0 /\ ~edge[p].operEdge
        => \A x \in PtpsOfPort(p) : role[x].role \notin {"Root", "Master"}
               => pst[x].state = "BLOCKING"

\* In every network bridge assurance blocks a silent network port: the port
\* is found inconsistent before a run ends, and the role transitions of the
\* same run take learn and forward away.
THEOREM SilentPortAlwaysBlocked == Spec => []SilentPortBlocked
<1>1. RoleInv /\ TypeOK /\ QuietInv => SilentPortBlocked
  <2> SUFFICES ASSUME RoleInv, TypeOK, QuietInv, NEW p \in Ports,
                      brg[BridgeOf[p]].bridgeEnabled, Quiet(BridgeOf[p]),
                      prt[p].portEnabled, assurancePort(p),
                      prt[p].brAssuRcvdInfoWhile = 0, ~edge[p].operEdge,
                      NEW x \in PtpsOfPort(p),
                      role[x].role \notin {"Root", "Master"}
               PROVE  pst[x].state = "BLOCKING"
     BY DEF SilentPortBlocked
  <2> DEFINE b == BridgeOf[p]
  <2>1. /\ b \in Bridges /\ Ready(b) = {} /\ x \in Ptps /\ PortOf(x) = p
        /\ BrOf(x) = b
     BY TopologyAssumption DEF Quiet, PtpsOfPort, BrOf
  <2>2. /\ BA_run(p) = None /\ PRTSM_run(x) = None /\ PSTSM_run(x) = None
     BY <2>1, NoneReady
  <2>3. prt[p].BaInconsistent BY <2>2 DEF BA_run, None
  <2>4. On(x) /\ Up(x) BY <2>1 DEF On, Up
  <2>5. Settled(x) BY <2>1, <2>4, QuietPort DEF Settled
  <2>6. /\ RoleOfState(x) /\ BlockedRole(x) /\ KernelState(x)
     BY <2>1 DEF RoleInv, PortRolesAndStates
  <2>7. role[x] \in RoleRecs /\ pst[x] \in PstRecs
     BY <2>1 DEF TypeOK, MachineTypeOK
  <2>8. ~role[x].learn /\ ~role[x].forward
    <3>1. CASE role[x].role \in {"Disabled", "Alternate", "Backup"}
       BY <2>6, <3>1 DEF BlockedRole
    <3>2. CASE role[x].role = "Designated"
      <4>1. role[x].PRTSM = "DESIGNATED_PORT"
         BY <2>2, <2>6, <2>7, <3>2
         DEF PRTSM_run, EntryState, None, RoleOfState, RoleRecs,
             PRTSM_states, DisabledStates, MasterStates, RootStates,
             DesignatedStates, AlternateStates
      <4>2. DesignatedPort_run(x) = None
         BY <2>2, <2>5, <4>1 DEF PRTSM_run, EntryState, None
      <4>3. QED BY <2>1, <2>3, <4>2 DEF DesignatedPort_run, None
    <3>3. QED BY <2>7, <3>1, <3>2 DEF RoleRecs, Roles
  <2>9. pst[x].PSTSM = "DISCARDING"
     BY <2>2, <2>7, <2>8 DEF PSTSM_run, PstRecs, PSTSM_states, None
  <2>10. QED BY <2>1, <2>6, <2>9 DEF KernelState, KernelStateOf
<1>2. QED BY <1>1, QuietInvAlways, RoleInvAlways, PTL

-----------------------------------------------------------------------------
(* The times behind the timer of a topology change.  newTcWhile takes the   *)
(* maximum age of the root, which comes from the bridge itself or from a   *)
(* BPDU: it is never zero in the CIST if no bridge is given a maximum age  *)
(* of zero, so that the timer starts whenever the flag is set.             *)

TimedBpdu(m) == m.type # "TCN" => m.MaxAge # 0
TimedBpdus == {m \in Bpdus : TimedBpdu(m)}

\* The times of the tree and of x have been chosen.
Chosen(x) == /\ tree[TreeOf(x)].rootTimes.Max_Age # 0
             /\ vec[x].designatedTimes.Max_Age # 0

\* Something has been done with them.
Wanted(x) == \/ info[x].selected = TRUE
             \/ role[x].learn = TRUE
             \/ tc[x].TCSM # "INACTIVE"

\* A message stays classified only until the pass has dealt with it; a TCN,
\* which carries no times, is not classified as superior.
Classified(x) ==
    info[x].PISM = "RECEIVE" =>
        /\ active = BrOf(x) /\ pos <= Rank(Informer(x))
        /\ info[x].rcvdInfo = "SuperiorDesignated" => Bpdu(x).type # "TCN"

PortTimed(x) == /\ vec[x].portTimes.Max_Age # 0
                /\ Wanted(x) => Chosen(x)
                /\ Classified(x)

\* The flag of a tree is set only while a timer of the tree runs.
ChangeTimed(b, t) ==
    tree[<<b, t>>].topology_change = TRUE =>
        \E y \in PtpsOfTree(b, t) : tc[y].tcWhile # 0

BridgeTimed(b) == /\ brg[b].Max_Age # 0
                  /\ tree[<<b, 0>>].BridgeTimes.Max_Age # 0
                  /\ ChangeTimed(b, 0)

TimesInv ==
    /\ \A p \in Ports : TimedBpdu(rcv[p].bpdu) /\ chan[p] \in Seq(TimedBpdus)
    /\ \A b \in Bridges : BridgeTimed(b)
    /\ \A x \in Ptps : IsCist(x) => PortTimed(x)

-----------------------------------------------------------------------------
(* What the machines do. *)

\* No machine replaces the BPDU a port holds.
LEMMA BpduKept ==
    ASSUME TypeOK, NEW b \in Bridges, NEW s \in Slots(b), Machine_step(b, s),
           NEW p \in Ports
    PROVE  rcv'[p].bpdu = rcv[p].bpdu
<1> USE DEF BA, PRSM, PPMSM, BDSM, PTSM, PISM, PRSSM, PRTSM, PSTSM, TCSM
<1>t. rcv \in [Ports -> RcvRecs] /\ rcv[p] \in RcvRecs
   BY DEF TypeOK, MachineTypeOK
<1>0. rcv' = rcv => rcv'[p].bpdu = rcv[p].bpdu OBVIOUS
<1>1. CASE s[1] = PRSM
  <2>0. PRSM_to_DISCARD(s[2]) \/ PRSM_to_RECEIVE(s[2])
     BY <1>1 DEF Machine_step, PRSM_step
  <2>1. CASE PRSM_to_DISCARD(s[2])
    <3>1. \/ rcv'[p] = rcv[p]
          \/ rcv'[p] = [rcv[p] EXCEPT !.PRSM = "DISCARD", !.rcvdBpdu = FALSE,
                                      !.edgeDelayWhile = MigrateTime]
       BY <1>t, <2>1 DEF PRSM_to_DISCARD
    <3>2. QED BY <1>t, <3>1 DEF RcvRecs
  <2>2. CASE PRSM_to_RECEIVE(s[2])
    <3>1. PICK v : \/ rcv'[p] = rcv[p]
                   \/ rcv'[p] = [rcv[p] EXCEPT !.PRSM = "RECEIVE",
                                   !.rcvdBpdu = FALSE, !.rcvdInternal = v,
                                   !.edgeDelayWhile = MigrateTime]
       BY <1>t, <2>2 DEF PRSM_to_RECEIVE
    <3>2. QED BY <1>t, <3>1 DEF RcvRecs
  <2>3. QED BY <2>0, <2>1, <2>2
<1>2. CASE s[1] = PISM
  <2> DEFINE x == <<s[2], s[3]>>
  <2>0. PISM_step(x) BY <1>2 DEF Machine_step
  <2>x. x \in Ptps BY <1>2 DEF Slots, PortsOf, Ptps
  <2>f. ASSUME NEW r, r = RcvWithTcFlags(x)
        PROVE  r \in {rcv, [rcv EXCEPT ![PortOf(x)] =
                             [rcv[PortOf(x)] EXCEPT !.rcvdTcAck = TRUE]]}
     BY <1>t, <2>f DEF RcvWithTcFlags
  <2>1. CASE PISM_to_RECEIVE(x)
    <3>1. \/ rcv'[p] = rcv[p]
          \/ \E v : rcv'[p] = [rcv[p] EXCEPT !.rcvdTcn = v]
       BY <1>t, <2>1 DEF PISM_to_RECEIVE
    <3>2. QED BY <1>t, <3>1 DEF RcvRecs
  <2>2. CASE PISM_to_NOT_DESIGNATED(x)
    <3>1. rcv' = RcvWithTcFlags(x) BY <2>2 DEF PISM_to_NOT_DESIGNATED
    <3>2. \/ rcv'[p] = rcv[p]
          \/ rcv'[p] = [rcv[p] EXCEPT !.rcvdTcAck = TRUE]
       BY <1>t, <2>f, <3>1
    <3>3. QED BY <1>t, <3>2 DEF RcvRecs
  <2>3. CASE PISM_to_DESIGNATED(x)
    <3> DEFINE r == RcvWithTcFlags(x)
    <3>1. \/ rcv'[p] = r[p]
          \/ \E v : rcv'[p] = [r[p] EXCEPT !.infoInternal = v]
      <4>1. r \in [Ports -> RcvRecs] BY <2>x, TcFlagTypes
      <4>2. PICK v : rcv' = [r EXCEPT ![PortOf(x)] =
                               [r[PortOf(x)] EXCEPT !.infoInternal = v]]
         BY <2>3, <4>1 DEF PISM_to_DESIGNATED
      <4> HIDE DEF r
      <4>3. QED BY <4>1, <4>2
    <3>2. r[p] = rcv[p] \/ r[p] = [rcv[p] EXCEPT !.rcvdTcAck = TRUE]
       BY <1>t, <2>f
    <3>3. r[p] \in RcvRecs BY <2>x, TcFlagTypes
    <3>4. r[p].bpdu = rcv[p].bpdu BY <1>t, <3>2 DEF RcvRecs
    <3> HIDE DEF r
    <3>5. QED BY <3>1, <3>3, <3>4 DEF RcvRecs
  <2>4. CASE ~(\/ PISM_to_RECEIVE(x) \/ PISM_to_NOT_DESIGNATED(x)
               \/ PISM_to_DESIGNATED(x))
     BY <1>0, <2>0, <2>4
     DEF PISM_step, PISM_to_DISABLED, PISM_to_AGED, PISM_to_UPDATE,
         PISM_to_INFERIOR_DESIGNATED, PISM_to_OTHER, PISM_to_CURRENT, portVars
  <2>5. QED BY <2>1, <2>2, <2>3, <2>4
<1>3. CASE s[1] = PRTSM
  <2> DEFINE x == <<s[2], s[3]>>
  <2>0. PRTSM_step(x) BY <1>3 DEF Machine_step
  <2>1. CASE PRTSM_to_DESIGNATED_PROPOSE(x)
    <3>1. PICK v : \/ rcv'[p] = rcv[p]
                   \/ rcv'[p] = [rcv[p] EXCEPT !.edgeDelayWhile = v]
       BY <1>t, <2>1 DEF PRTSM_to_DESIGNATED_PROPOSE
    <3>2. QED BY <1>t, <3>1 DEF RcvRecs
  <2>2. CASE ~PRTSM_to_DESIGNATED_PROPOSE(x)
     BY <1>0, <2>0, <2>2
     DEF PRTSM_step, PRTSM_to_DISABLE_PORT,
         PRTSM_to_DISABLED_PORT, PRTSM_to_MASTER_or_DESIGNATED_PORT,
         PRTSM_to_ROOT_PORT, PRTSM_to_PROPOSED, PRTSM_to_AGREED,
         PRTSM_to_SYNCED, PRTSM_to_RETIRED, PRTSM_to_REROOT, PRTSM_to_LEARN,
         PRTSM_to_FORWARD, PRTSM_to_DISCARD, PRTSM_to_BLOCK_PORT,
         PRTSM_to_BACKUP_PORT, PRTSM_to_ALTERNATE_PORT, PRTSM_role_only,
         PRTSM_role_info, portVars
  <2>3. QED BY <2>1, <2>2
<1>4. CASE s[1] = TCSM
  <2> DEFINE x == <<s[2], s[3]>>
  <2>0. TCSM_step(x) BY <1>4 DEF Machine_step
  <2>1. CASE TCSM_to_LEARNING(x)
    <3>1. PICK v, w : \/ rcv'[p] = rcv[p]
                      \/ rcv'[p] = [rcv[p] EXCEPT !.rcvdTcn = v,
                                                  !.rcvdTcAck = w]
       BY <1>t, <2>1 DEF TCSM_to_LEARNING
    <3>2. QED BY <1>t, <3>1 DEF RcvRecs
  <2>2. CASE TCSM_to_NOTIFIED_TC(x)
    <3>1. PICK v : \/ rcv'[p] = rcv[p]
                   \/ rcv'[p] = [rcv[p] EXCEPT !.rcvdTcn = v]
       BY <1>t, <2>2 DEF TCSM_to_NOTIFIED_TC
    <3>2. QED BY <1>t, <3>1 DEF RcvRecs
  <2>3. CASE TCSM_to_ACKNOWLEDGED(x)
    <3>1. \/ rcv'[p] = rcv[p]
          \/ rcv'[p] = [rcv[p] EXCEPT !.rcvdTcAck = FALSE]
       BY <1>t, <2>3 DEF TCSM_to_ACKNOWLEDGED
    <3>2. QED BY <1>t, <3>1 DEF RcvRecs
  <2>4. CASE ~(\/ TCSM_to_LEARNING(x) \/ TCSM_to_NOTIFIED_TC(x)
               \/ TCSM_to_ACKNOWLEDGED(x))
     BY <1>0, <2>0, <2>4
     DEF TCSM_step, TCSM_to_INACTIVE, TCSM_to_DETECTED, TCSM_to_NOTIFIED_TCN,
         TCSM_to_PROPAGATING, TCSM_to_ACTIVE, portVars
  <2>5. QED BY <2>1, <2>2, <2>3, <2>4
<1>5. CASE s[1] \in {BA, PPMSM, BDSM, PTSM, PRSSM, PSTSM}
  <2>1. \/ BA_to_INCONSISTENT(s[2]) \/ PPMSM_step(s[2]) \/ BDSM_step(s[2])
        \/ PTSM_step(s[2]) \/ PSTSM_step(<<s[2], s[3]>>)
        \/ PRSSM_to_ROLE_SELECTION(b, s[3])
     BY <1>5 DEF Machine_step
  <2>2. rcv' = rcv
     BY <2>1
     DEF BA_to_INCONSISTENT, PPMSM_step, PPMSM_to_CHECKING_RSTP,
         PPMSM_to_SELECTING_STP, PPMSM_to_SENSING, PPMSM_only, BDSM_step,
         BDSM_to_EDGE, BDSM_to_NOT_EDGE, PTSM_step, PTSM_to_TRANSMIT_INIT,
         PTSM_to_TRANSMIT_CONFIG, PTSM_to_TRANSMIT_TCN,
         PTSM_to_TRANSMIT_RSTP, PTSM_to_TRANSMIT_PERIODIC, PTSM_to_IDLE,
         PTSM_only, PSTSM_step, PSTSM_to_DISCARDING, PSTSM_to_LEARNING,
         PSTSM_to_FORWARDING, PSTSM_only, PRSSM_to_ROLE_SELECTION, portVars
  <2>3. QED BY <1>0, <2>2
<1>6. QED BY <1>1, <1>2, <1>3, <1>4, <1>5 DEF Machine_step

\* Port Information writes the times of its own port only, and never those
\* it announces.
LEMMA InformerVec ==
    ASSUME TypeOK, NEW x \in Ptps, PISM_step(x), NEW y \in Ptps
    PROVE  /\ vec'[y].designatedTimes = vec[y].designatedTimes
           /\ y # x => vec'[y] = vec[y]
<1>t. vec \in [Ptps -> VecRecs] /\ vec[y] \in VecRecs
   BY DEF TypeOK, MachineTypeOK
<1>1. ASSUME NEW v, NEW w,
             vec' = [vec EXCEPT ![x] =
                      [vec[x] EXCEPT !.portPriority = v, !.portTimes = w]]
      PROVE  /\ vec'[y].designatedTimes = vec[y].designatedTimes
             /\ y # x => vec'[y] = vec[y]
  <2>1. /\ \/ vec'[y] = vec[y]
           \/ vec'[y] = [vec[y] EXCEPT !.portPriority = v, !.portTimes = w]
        /\ y # x => vec'[y] = vec[y]
     BY <1>t, <1>1
  <2>2. QED BY <1>t, <2>1 DEF VecRecs
<1>u. CASE PISM_to_UPDATE(x)
  <2>1. PICK v, w : vec' = [vec EXCEPT ![x] =
                      [vec[x] EXCEPT !.portPriority = v, !.portTimes = w]]
     BY <1>t, <1>u DEF PISM_to_UPDATE
  <2>2. QED BY <1>1, <2>1
<1>d. CASE PISM_to_DESIGNATED(x)
  <2>1. PICK v, w : \/ vec' = vec
                    \/ vec' = [vec EXCEPT ![x] =
                          [vec[x] EXCEPT !.portPriority = v, !.portTimes = w]]
     BY <1>t, <1>d DEF PISM_to_DESIGNATED
  <2>2. QED BY <1>1, <2>1
<1>2. CASE ~(PISM_to_UPDATE(x) \/ PISM_to_DESIGNATED(x))
  <2>1. vec' = vec
     BY <1>2
     DEF PISM_step, PISM_to_DISABLED, PISM_to_AGED, PISM_to_RECEIVE,
         PISM_to_INFERIOR_DESIGNATED, PISM_to_NOT_DESIGNATED, PISM_to_OTHER,
         PISM_to_CURRENT
  <2>2. QED BY <2>1
<1>3. QED BY <1>u, <1>d, <1>2

\* The times Port Information gives to a port of the CIST are the ones that
\* were chosen or the ones of a BPDU that is not a TCN.
LEMMA InformerTimes ==
    ASSUME TypeOK, NEW x \in Ptps, IsCist(x), PISM_step(x), PortTimed(x),
           TimedBpdu(Bpdu(x))
    PROVE  vec'[x].portTimes.Max_Age # 0
<1>t. vec \in [Ptps -> VecRecs] /\ vec[x] \in VecRecs
   BY DEF TypeOK, MachineTypeOK
<1>0. vec'[x].portTimes = vec[x].portTimes => vec'[x].portTimes.Max_Age # 0
   BY DEF PortTimed
<1>1. CASE PISM_to_UPDATE(x)
  <2>1. info[x].selected = TRUE
    <3>1. PISM_run(x) = "UPDATE" BY <1>1 DEF PISM_to_UPDATE
    <3>2. info[x].PISM \in {"AGED", "CURRENT"} BY <3>1, InfoSources
    <3>3. info[x].selected \in BOOLEAN
       BY InfoFields DEF TypeOK, MachineTypeOK
    <3>4. QED BY <3>1, <3>2, <3>3 DEF PISM_run, None
  <2>2. vec[x].designatedTimes.Max_Age # 0
     BY <2>1 DEF PortTimed, Wanted, Chosen
  <2>3. vec'[x] = [vec[x] EXCEPT !.portPriority = vec[x].designatedPriority,
                                 !.portTimes = vec[x].designatedTimes]
     BY <1>t, <1>1 DEF PISM_to_UPDATE
  <2>4. vec'[x].portTimes = vec[x].designatedTimes
     BY <1>t, <2>3 DEF VecRecs
  <2>5. QED BY <2>2, <2>4
<1>2. CASE PISM_to_DESIGNATED(x)
  <2>1. CASE PISM_run(x) = "SUPERIOR_DESIGNATED"
    <3>1. info[x].PISM = "RECEIVE" /\ info[x].rcvdInfo = "SuperiorDesignated"
       BY <2>1 DEF PISM_run, None
    <3>2. Bpdu(x).MaxAge # 0
       BY <3>1 DEF PortTimed, Classified, TimedBpdu
    <3>3. vec'[x] = [vec[x] EXCEPT !.portPriority = MsgPriority(x),
                                   !.portTimes = RecordedTimes(x)]
       BY <1>t, <1>2, <2>1 DEF PISM_to_DESIGNATED
    <3>4. vec'[x].portTimes = RecordedTimes(x)
       BY <1>t, <3>3 DEF VecRecs
    <3>5. MsgTimes(x) \in Times /\ MsgTimes(x).Max_Age = Bpdu(x).MaxAge
       BY MsgTypes DEF MsgTimes
    <3>6. RecordedTimes(x).Max_Age = MsgTimes(x).Max_Age
       BY <3>5 DEF RecordedTimes, Times
    <3>7. QED BY <3>2, <3>4, <3>5, <3>6
  <2>2. CASE PISM_run(x) # "SUPERIOR_DESIGNATED"
     BY <1>0, <1>2, <2>2 DEF PISM_to_DESIGNATED
  <2>3. QED BY <2>1, <2>2
<1>3. CASE ~(PISM_to_UPDATE(x) \/ PISM_to_DESIGNATED(x))
  <2>1. vec' = vec
     BY <1>3
     DEF PISM_step, PISM_to_DISABLED, PISM_to_AGED, PISM_to_RECEIVE,
         PISM_to_INFERIOR_DESIGNATED, PISM_to_NOT_DESIGNATED, PISM_to_OTHER,
         PISM_to_CURRENT
  <2>2. QED BY <1>0, <2>1
<1>4. QED BY <1>1, <1>2, <1>3

\* The times role selection chooses are those of the bridge or of its root
\* port.
LEMMA SelectorTimes ==
    ASSUME TypeOK, NEW b \in Bridges, NEW t \in Trees,
           PRSSM_to_ROLE_SELECTION(b, t),
           tree[<<b, t>>].BridgeTimes.Max_Age # 0,
           \A y \in PtpsOfTree(b, t) : vec[y].portTimes.Max_Age # 0
    PROVE  /\ tree'[<<b, t>>].rootTimes.Max_Age # 0
           /\ \A y \in PtpsOfTree(b, t) :
                  vec'[y].designatedTimes.Max_Age # 0
<1> DEFINE r == RootPtp(b, t)
           rt == RootTimes(r, b, t)
<1>t. /\ tree \in [BridgeTrees -> TreeRecs] /\ vec \in [Ptps -> VecRecs]
   BY DEF TypeOK, MachineTypeOK
<1>1. rt \in Times /\ (r = NoPtp \/ r \in PtpsOfTree(b, t))
   BY SelectionTypes DEF RootPtp
<1>2. rt.Max_Age # 0
  <2>1. CASE r = NoPtp BY <2>1 DEF RootTimes
  <2>2. CASE r # NoPtp
    <3>1. r \in PtpsOfTree(b, t) BY <1>1, <2>2
    <3>2. vec[r] \in VecRecs BY <1>t, <3>1 DEF PtpsOfTree
    <3>3. vec[r].portTimes \in Times BY <3>2, VecFields
    <3>4. vec[r].portTimes.Max_Age # 0 BY <3>1
    <3> HIDE DEF r
    <3> DEFINE v == vec[r].portTimes
    <3>5. \/ rt = [v EXCEPT !.remainingHops = Decremented(@)]
          \/ rt = [v EXCEPT !.Message_Age = (@ + 1) % AgeModulus]
       BY <2>2 DEF RootTimes
    <3> HIDE DEF v, rt
    <3>6. v \in Times /\ v.Max_Age # 0 BY <3>3, <3>4 DEF v
    <3>7. QED BY <3>5, <3>6 DEF Times
  <2>3. QED BY <2>1, <2>2
<1>3. tree'[<<b, t>>].rootTimes = rt
  <2>1. <<b, t>> \in BridgeTrees BY DEF BridgeTrees
  <2>2. PICK u, v : tree'[<<b, t>>] =
                 [tree[<<b, t>>] EXCEPT !.PRSSM = "ROLE_SELECTION",
                               !.rootPortId = u, !.rootPriority = v,
                               !.rootTimes = rt]
     BY <1>t, <2>1 DEF PRSSM_to_ROLE_SELECTION
  <2> HIDE DEF rt
  <2>3. QED BY <1>t, <2>1, <2>2 DEF TreeRecs
<1>4. ASSUME NEW y \in PtpsOfTree(b, t)
      PROVE  vec'[y].designatedTimes.Max_Age # 0
  <2>1. y \in Ptps BY DEF PtpsOfTree
  <2>2. PICK v : vec'[y] = [vec[y] EXCEPT !.designatedPriority = v,
                                  !.designatedTimes = DesignatedTimes(y, rt)]
     BY <2>1 DEF PRSSM_to_ROLE_SELECTION
  <2>3. vec[y] \in VecRecs BY <1>t, <2>1
  <2> HIDE DEF rt
  <2>4. vec'[y].designatedTimes = DesignatedTimes(y, rt)
     BY <2>2, <2>3 DEF VecRecs
  <2>5. DesignatedTimes(y, rt).Max_Age = rt.Max_Age
     BY <1>1 DEF DesignatedTimes, Times
  <2>6. QED BY <1>2, <2>4, <2>5
<1>5. QED BY <1>2, <1>3, <1>4

\* Role selection leaves the times the ports have, and what the ports of
\* other trees announce.
LEMMA SelectorVec ==
    ASSUME TypeOK, NEW b \in Bridges, NEW t \in Trees,
           PRSSM_to_ROLE_SELECTION(b, t), NEW y \in Ptps
    PROVE  /\ vec'[y].portTimes = vec[y].portTimes
           /\ y \notin PtpsOfTree(b, t) => vec'[y] = vec[y]
<1>t. vec[y] \in VecRecs BY DEF TypeOK, MachineTypeOK
<1>1. PICK v, w : /\ \/ vec'[y] = vec[y]
                     \/ vec'[y] = [vec[y] EXCEPT !.designatedPriority = v,
                                                 !.designatedTimes = w]
                  /\ y \notin PtpsOfTree(b, t) => vec'[y] = vec[y]
   BY DEF PRSSM_to_ROLE_SELECTION
<1>2. QED BY <1>t, <1>1 DEF VecRecs

\* Only a port whose role is selected is told to learn.
LEMMA LearnSteps ==
    ASSUME TypeOK, brg' = brg, NEW b \in Bridges, NEW s \in Slots(b),
           Machine_step(b, s), NEW y \in Ptps
    PROVE  role'[y].learn = TRUE
               => role[y].learn = TRUE \/ info[y].selected = TRUE
<1> USE DEF BA, PRSM, PPMSM, BDSM, PTSM, PISM, PRSSM, PRTSM, PSTSM, TCSM
<1>t. role \in [Ptps -> RoleRecs] /\ role[y] \in RoleRecs
   BY DEF TypeOK, MachineTypeOK
<1>0. role'[y].learn = role[y].learn =>
          (role'[y].learn = TRUE
               => role[y].learn = TRUE \/ info[y].selected = TRUE)
   OBVIOUS
<1>1. CASE s[1] \notin {PRTSM, PSTSM}
   BY <1>0, <1>1, OtherMachines DEF RolesKept
<1>2. CASE s[1] = PSTSM
  <2>1. PSTSM_step(<<s[2], s[3]>>) BY <1>2 DEF Machine_step
  <2>2. role' = role
     BY <2>1 DEF PSTSM_step, PSTSM_to_DISCARDING, PSTSM_to_LEARNING,
                 PSTSM_to_FORWARDING, PSTSM_only
  <2>3. QED BY <2>2
<1>3. CASE s[1] = PRTSM
  <2> DEFINE x == <<s[2], s[3]>>
  <2>0. PRTSM_step(x) BY <1>3 DEF Machine_step
  <2>x. x \in Ptps BY <1>3 DEF Slots, PortsOf, Ptps
  <2> HIDE DEF x
  <2>r. role[x] \in RoleRecs BY <1>t, <2>x
  <2>1. CASE PRTSM_to_PROPOSED(x)
    <3>1. PICK v : \/ role'[y] = role[y]
                   \/ role'[y] = [role[y] EXCEPT !.sync = TRUE, !.PRTSM = v]
       BY <2>1 DEF PRTSM_to_PROPOSED
    <3>2. QED BY <1>0, <1>t, <3>1 DEF RoleRecs
  <2>2. CASE PRTSM_to_REROOT(x)
    <3>1. PICK v : \/ role'[y] = role[y]
                   \/ role'[y] = [role[y] EXCEPT !.reRoot = TRUE, !.PRTSM = v]
       BY <2>2 DEF PRTSM_to_REROOT
    <3>2. QED BY <1>0, <1>t, <3>1 DEF RoleRecs
  <2>3. CASE PRTSM_to_LEARN(x)
    <3>1. CASE y = x
      <4>1. PRTSM_run(x) \in {"MASTER_LEARN", "ROOT_LEARN",
                              "DESIGNATED_LEARN"}
         BY <2>3 DEF PRTSM_to_LEARN
      <4>2. role[x].PRTSM \in PRTSM_states /\ role[x].selectedRole \in Roles
         BY <2>r, RoleFields
      <4>3. role[x].PRTSM \in {"MASTER_PORT", "ROOT_PORT", "DESIGNATED_PORT"}
         BY <4>1, <4>2, RoleSources
         DEF MasterStates, RootStates, DesignatedStates
      <4>4. Settled(x)
        <5> SUFFICES ASSUME ~Settled(x) PROVE FALSE OBVIOUS
        <5> USE DEF None, MasterStates, RootStates, DesignatedStates
        <5>1. PRTSM_run(x) = None
          <6>1. CASE role[x].PRTSM = "MASTER_PORT" BY <6>1 DEF PRTSM_run
          <6>2. CASE role[x].PRTSM = "ROOT_PORT" BY <6>2 DEF PRTSM_run
          <6>3. CASE role[x].PRTSM = "DESIGNATED_PORT" BY <6>3 DEF PRTSM_run
          <6>4. QED BY <4>3, <6>1, <6>2, <6>3
        <5>2. QED BY <4>1, <5>1 DEF None
      <4>5. info[x].selected \in BOOLEAN
         BY <2>x, InfoFields DEF TypeOK, MachineTypeOK
      <4>6. QED BY <3>1, <4>4, <4>5 DEF Settled
    <3>2. CASE y # x
       BY <1>t, <2>3, <3>2 DEF PRTSM_to_LEARN
    <3>3. QED BY <3>1, <3>2
  <2>4. CASE ~(\/ PRTSM_to_PROPOSED(x) \/ PRTSM_to_REROOT(x)
               \/ PRTSM_to_LEARN(x))
    <3> SUFFICES ASSUME role'[y].learn = TRUE
                 PROVE  role[y].learn = TRUE
       OBVIOUS
    <3>1. CASE PRTSM_to_DISABLE_PORT(x)
       BY <1>t, <2>x, <2>r, <3>1 DEF PRTSM_to_DISABLE_PORT, RoleRecs
    <3>2. CASE PRTSM_to_DISABLED_PORT(x)
       BY <1>t, <2>x, <2>r, <3>2 DEF PRTSM_to_DISABLED_PORT, RoleRecs
    <3>3. CASE PRTSM_to_MASTER_or_DESIGNATED_PORT(x)
       BY <1>t, <2>x, <2>r, <3>3
       DEF PRTSM_to_MASTER_or_DESIGNATED_PORT, RoleRecs
    <3>4. CASE PRTSM_to_ROOT_PORT(x)
       BY <1>t, <2>x, <2>r, <3>4 DEF PRTSM_to_ROOT_PORT, RoleRecs
    <3>5. CASE PRTSM_to_AGREED(x)
       BY <1>t, <2>x, <2>r, <3>5 DEF PRTSM_to_AGREED, RoleRecs
    <3>6. CASE PRTSM_to_SYNCED(x)
       BY <1>t, <2>x, <2>r, <3>6 DEF PRTSM_to_SYNCED, RoleRecs
    <3>7. CASE PRTSM_to_RETIRED(x)
       BY <1>t, <2>x, <2>r, <3>7 DEF PRTSM_to_RETIRED, RoleRecs
    <3>9. CASE PRTSM_to_FORWARD(x)
       BY <1>t, <2>x, <2>r, <3>9 DEF PRTSM_to_FORWARD, RoleRecs
    <3>10. CASE PRTSM_to_DISCARD(x)
       BY <1>t, <2>x, <2>r, <3>10 DEF PRTSM_to_DISCARD, RoleRecs
    <3>11. CASE PRTSM_to_DESIGNATED_PROPOSE(x)
       BY <1>t, <2>x, <2>r, <3>11 DEF PRTSM_to_DESIGNATED_PROPOSE, RoleRecs
    <3>12. CASE PRTSM_to_BLOCK_PORT(x)
       BY <1>t, <2>x, <2>r, <3>12 DEF PRTSM_to_BLOCK_PORT, RoleRecs
    <3>13. CASE PRTSM_to_BACKUP_PORT(x)
       BY <1>t, <2>x, <2>r, <3>13 DEF PRTSM_to_BACKUP_PORT, RoleRecs
    <3>14. CASE PRTSM_to_ALTERNATE_PORT(x)
       BY <1>t, <2>x, <2>r, <3>14 DEF PRTSM_to_ALTERNATE_PORT, RoleRecs
    <3>15. QED
       BY <2>0, <2>4, <3>1, <3>2, <3>3, <3>4, <3>5, <3>6, <3>7,
          <3>9, <3>10, <3>11, <3>12, <3>13, <3>14
       DEF PRTSM_step
  <2>5. QED BY <2>1, <2>2, <2>3, <2>4
<1>4. QED BY <1>1, <1>2, <1>3

\* The Topology Change machine of a port moves itself alone, and only once
\* the port learns or has learned.
LEMMA ChangeMachine ==
    ASSUME TypeOK, NEW x \in Ptps, TCSM_step(x)
    PROVE  /\ role[x].learn = TRUE \/ tc[x].TCSM # "INACTIVE"
           /\ \A y \in Ptps : y # x => tc'[y].TCSM = tc[y].TCSM
<1>t. tc \in [Ptps -> TcRecs] /\ \A y \in Ptps : tc[y] \in TcRecs
   BY DEF TypeOK, MachineTypeOK
<1>1. role[x].learn = TRUE \/ tc[x].TCSM # "INACTIVE"
  <2> SUFFICES ASSUME tc[x].TCSM = "INACTIVE" PROVE role[x].learn = TRUE
     OBVIOUS
  <2>1. role[x].learn \in BOOLEAN BY RoleFields DEF TypeOK, MachineTypeOK
  <2>2. TCSM_run(x) # None
     BY DEF TCSM_step, TCSM_to_INACTIVE, TCSM_to_LEARNING, TCSM_to_DETECTED,
            TCSM_to_NOTIFIED_TCN, TCSM_to_NOTIFIED_TC, TCSM_to_PROPAGATING,
            TCSM_to_ACKNOWLEDGED, TCSM_to_ACTIVE, None
  <2>3. QED BY <2>1, <2>2 DEF TCSM_run
<1>2. ASSUME NEW y \in Ptps, y # x PROVE tc'[y].TCSM = tc[y].TCSM
  <2>1. CASE TCSM_to_DETECTED(x)
    <3>1. PICK v : tc'[y] = [tc[y] EXCEPT !.tcProp = v]
       BY <1>2, <2>1 DEF TCSM_to_DETECTED
    <3>2. QED BY <1>t, <3>1 DEF TcRecs
  <2>2. CASE TCSM_to_NOTIFIED_TC(x)
    <3>1. PICK v : tc'[y] = [tc[y] EXCEPT !.tcProp = v]
       BY <1>2, <2>2 DEF TCSM_to_NOTIFIED_TC
    <3>2. QED BY <1>t, <3>1 DEF TcRecs
  <2>3. CASE ~(TCSM_to_DETECTED(x) \/ TCSM_to_NOTIFIED_TC(x))
    <3>1. PICK v : tc' = [tc EXCEPT ![x] = v]
       BY <2>3
       DEF TCSM_step, TCSM_to_INACTIVE, TCSM_to_LEARNING,
           TCSM_to_NOTIFIED_TCN, TCSM_to_PROPAGATING, TCSM_to_ACKNOWLEDGED,
           TCSM_to_ACTIVE
    <3>2. QED BY <1>t, <1>2, <3>1
  <2>4. QED BY <2>1, <2>2, <2>3
<1>3. QED BY <1>1, <1>2

\* When the times have been chosen the timer starts with more than zero.
LEMMA TimerStarts ==
    ASSUME TypeOK, NEW x \in Ptps, Chosen(x)
    PROVE  TcWhile(x) # 0
<1>1. PortHelloTime(PortOf(x)) \in Nat BY PtpTypes, TimeTypes DEF TypeOK
<1>2. /\ tree[TreeOf(x)].rootTimes.Max_Age \in Nat \ {0}
      /\ tree[TreeOf(x)].rootTimes.Forward_Delay \in Nat
  <2>1. tree[TreeOf(x)] \in TreeRecs BY PtpTypes DEF TypeOK, MachineTypeOK
  <2>2. tree[TreeOf(x)].rootTimes \in Times BY <2>1 DEF TreeRecs
  <2>3. QED BY <2>2, TimesFields DEF Chosen
<1>3. QED BY <1>1, <1>2 DEF TcWhile

\* Setting the flag starts a timer of the tree, and the flag is cleared with
\* the last one.
LEMMA ChangeStep ==
    ASSUME TypeOK, NEW x \in Ptps, TCSM_step(x),
           NEW b \in Bridges, NEW t \in Trees, ChangeTimed(b, t),
           TreeOf(x) = <<b, t>> => TcWhile(x) # 0
    PROVE  ChangeTimed(b, t)'
<1>t. tree \in [BridgeTrees -> TreeRecs] /\ tc \in [Ptps -> TcRecs]
   BY DEF TypeOK, MachineTypeOK
<1>u. /\ TreeOf(x) \in BridgeTrees /\ <<b, t>> \in BridgeTrees
      /\ x \in PtpsOfTree(BrOf(x), Mstid(x))
      /\ TreeOf(x) = <<BrOf(x), Mstid(x)>>
   BY TreeOfType DEF BridgeTrees, TreeOf
<1>p. PtpsOfTree(b, t)' = PtpsOfTree(b, t)
   BY DEF PtpsOfTree, BrOf, PortOf, Mstid
<1> SUFFICES ASSUME tree'[<<b, t>>].topology_change = TRUE
             PROVE  \E y \in PtpsOfTree(b, t) : tc'[y].tcWhile # 0
   BY <1>p DEF ChangeTimed
<1>m. \A y \in PtpsOfTree(b, t) : y \in Ptps /\ TreeOf(y) = <<b, t>>
   BY DEF PtpsOfTree, TreeOf
<1>1. CASE TcTimersKept
  <2>1. PICK y \in PtpsOfTree(b, t) : tc[y].tcWhile # 0
     BY <1>1 DEF TcTimersKept, ChangeTimed
  <2>2. QED BY <1>1, <1>m, <2>1 DEF TcTimersKept
<1>2. CASE TcStopped(x)
  <2>1. CASE TreeOf(x) = <<b, t>>
    <3>1. TopologyChangeAfter(b, t, tc')
       BY <1>2, <1>u, <2>1 DEF TcStopped
    <3>2. QED BY <3>1 DEF TopologyChangeAfter
  <2>2. CASE TreeOf(x) # <<b, t>>
    <3>1. tree'[<<b, t>>] = tree[<<b, t>>] BY <1>2, <1>u, <2>2 DEF TcStopped
    <3>2. PICK y \in PtpsOfTree(b, t) : tc[y].tcWhile # 0
       BY <3>1 DEF ChangeTimed
    <3>3. y # x /\ y \in Ptps BY <1>m, <2>2
    <3>4. tc'[y] = tc[y] BY <1>2, <3>3 DEF TcStopped
    <3>5. QED BY <3>2, <3>4
  <2>3. QED BY <2>1, <2>2
<1>3. CASE TcStarted(x)
  <2>1. CASE TreeOf(x) = <<b, t>>
    <3>1. x \in PtpsOfTree(b, t) BY <1>u, <2>1
    <3>2. QED BY <1>3, <2>1, <3>1 DEF TcStarted
  <2>2. CASE TreeOf(x) # <<b, t>>
    <3>1. tree'[<<b, t>>] = tree[<<b, t>>]
       BY <1>3, <1>t, <1>u, <2>2 DEF TcStarted, TreeWithNewTc
    <3>2. PICK y \in PtpsOfTree(b, t) : tc[y].tcWhile # 0
       BY <3>1 DEF ChangeTimed
    <3>3. y # x /\ y \in Ptps BY <1>m, <2>2
    <3>4. tc'[y].tcWhile = tc[y].tcWhile BY <1>3, <3>3 DEF TcStarted
    <3>5. QED BY <3>2, <3>4
  <2>3. QED BY <2>1, <2>2
<1>4. QED BY <1>1, <1>2, <1>3, TcOutcomes

\* What a port of the CIST sends carries the times that were chosen.
LEMMA SentTimes ==
    ASSUME TypeOK, NEW p \in Ports
    PROVE  /\ txTcn(p).type = "TCN"
           /\ txConfig(p).MaxAge = vec[Cist(p)].designatedTimes.Max_Age
           /\ txMstp(p).MaxAge = vec[Cist(p)].designatedTimes.Max_Age
<1> DEFINE m == CistFields(BlankBpdu, p)
           c == Cist(p)
<1>1. /\ DOMAIN m = DOMAIN BlankBpdu
      /\ m.MaxAge = vec[Cist(p)].designatedTimes.Max_Age
   BY DEF CistFields, BlankBpdu
<1>2. "MaxAge" \in DOMAIN m BY <1>1 DEF BlankBpdu
<1>3. txTcn(p).type = "TCN" BY DEF txTcn, BlankBpdu
<1> HIDE DEF m
<1>4. txConfig(p).MaxAge = m.MaxAge
   BY <1>2 DEF txConfig, m
<1>5. ASSUME NEW r, NEW e, NEW f, NEW g, NEW h, NEW i,
             r = [m EXCEPT !.type = "RST", !.version = protoRSTP, !.role = e,
                           !.proposal = f, !.learning = g, !.agreement = h,
                           !.RRootID = i]
      PROVE  "MaxAge" \in DOMAIN r /\ r.MaxAge = m.MaxAge
   BY <1>2, <1>5
<1> DEFINE rst == [m EXCEPT !.type = "RST", !.version = protoRSTP,
                            !.role = EncodedRole(role[c].role),
                            !.proposal = info[c].proposing,
                            !.learning = pst[c].learning,
                            !.agreement = info[c].agree,
                            !.RRootID = vec[c].designatedPriority.RRootID]
<1>6. "MaxAge" \in DOMAIN rst /\ rst.MaxAge = m.MaxAge BY <1>5
<1>7. PICK e, f, g, h, i :
         \/ txMstp(p) = rst
         \/ txMstp(p) = [rst EXCEPT !.version = protoMSTP, !.MstConfigId = e,
                           !.IntRootPathCost = f, !.BridgeID = g,
                           !.RemainingHops = h, !.msti = i]
   BY DEF txMstp, m
<1> HIDE DEF rst
<1>8. txMstp(p).MaxAge = m.MaxAge BY <1>6, <1>7
<1>9. QED BY <1>1, <1>3, <1>4, <1>8

\* Nothing without times is sent.
LEMMA SentTimed ==
    ASSUME TypeOK, NEW p \in Ports, PTSM_step(p), PortTimed(Cist(p)),
           \A q \in Ports : chan[q] \in Seq(TimedBpdus),
           NEW q \in Ports
    PROVE  chan'[q] \in Seq(TimedBpdus)
<1>t. chan \in [Ports -> Seq(Bpdus)] BY DEF TypeOK, MachineTypeOK
<1>1. ASSUME NEW m \in TimedBpdus, chan' = ChanAfterTx(p, m)
      PROVE  chan'[q] \in Seq(TimedBpdus)
  <2>1. CASE Peer[p] \in Ports
    <3>1. \/ chan' = chan
          \/ chan' = [chan EXCEPT ![Peer[p]] = Append(@, m)]
       BY <1>1 DEF ChanAfterTx
    <3>2. chan'[q] = chan[q] \/ chan'[q] = Append(chan[q], m)
       BY <1>t, <2>1, <3>1
    <3>3. chan[q] \in Seq(TimedBpdus) OBVIOUS
    <3>4. Append(chan[q], m) \in Seq(TimedBpdus) BY <3>3
    <3>5. QED BY <3>2, <3>3, <3>4
  <2>2. CASE Peer[p] = NoPort BY <1>1, <2>2 DEF ChanAfterTx
  <2>3. QED BY <2>1, <2>2, TopologyAssumption
<1>2. PTSM_run(p) \in {"TRANSMIT_CONFIG", "TRANSMIT_RSTP"} =>
          vec[Cist(p)].designatedTimes.Max_Age # 0
  <2> SUFFICES ASSUME PTSM_run(p) \in {"TRANSMIT_CONFIG", "TRANSMIT_RSTP"}
               PROVE  vec[Cist(p)].designatedTimes.Max_Age # 0
     OBVIOUS
  <2>1. allTransmitReady(p) BY DEF PTSM_run, None
  <2>2. Cist(p) \in Ptps /\ Cist(p) \in PtpsOfPort(p)
     BY CistType DEF PtpsOfPort, Cist, PortOf
  <2>3. info[Cist(p)].selected \in BOOLEAN
     BY <2>2, InfoFields DEF TypeOK, MachineTypeOK
  <2>4. info[Cist(p)].selected = TRUE
     BY <2>1, <2>2, <2>3 DEF allTransmitReady, Settled
  <2>5. QED BY <2>4 DEF PortTimed, Wanted, Chosen
<1>3. CASE PTSM_to_TRANSMIT_CONFIG(p)
  <2>1. txConfig(p) \in TimedBpdus
     BY <1>2, <1>3, SentTimes, BpduTypes
     DEF PTSM_to_TRANSMIT_CONFIG, TimedBpdus, TimedBpdu
  <2>2. QED BY <1>1, <1>3, <2>1 DEF PTSM_to_TRANSMIT_CONFIG
<1>4. CASE PTSM_to_TRANSMIT_TCN(p)
  <2>1. txTcn(p) \in TimedBpdus
     BY SentTimes, BpduTypes DEF TimedBpdus, TimedBpdu
  <2>2. QED BY <1>1, <1>4, <2>1 DEF PTSM_to_TRANSMIT_TCN
<1>5. CASE PTSM_to_TRANSMIT_RSTP(p)
  <2>1. txMstp(p) \in TimedBpdus
     BY <1>2, <1>5, SentTimes, BpduTypes
     DEF PTSM_to_TRANSMIT_RSTP, TimedBpdus, TimedBpdu
  <2>2. QED BY <1>1, <1>5, <2>1 DEF PTSM_to_TRANSMIT_RSTP
<1>6. CASE chan' = chan BY <1>6
<1>7. QED
   BY <1>3, <1>4, <1>5, <1>6
   DEF PTSM_step, PTSM_to_TRANSMIT_INIT, PTSM_to_TRANSMIT_PERIODIC,
       PTSM_to_IDLE

\* Port Information enters the state its condition names; a message is
\* classified where one is taken up, and a TCN is not superior.
LEMMA InformerReceive ==
    ASSUME TypeOK, NEW x \in Ptps, PISM_step(x), info'[x].PISM = "RECEIVE"
    PROVE  /\ info[x].PISM = "CURRENT"
           /\ info'[x].rcvdInfo = "SuperiorDesignated" => Bpdu(x).type # "TCN"
<1>t. info \in [Ptps -> InfoRecs] /\ info[x] \in InfoRecs
   BY DEF TypeOK, MachineTypeOK
<1>1. ~PISM_to_DISABLED(x) BY InfoMove DEF BecomesDisabled
<1>2. ~PISM_to_AGED(x) BY InfoMove DEF BecomesAged
<1>3. ~PISM_to_UPDATE(x) BY InfoMove DEF BecomesMine
<1>4. ~PISM_to_DESIGNATED(x)
  <2> SUFFICES ASSUME PISM_to_DESIGNATED(x) PROVE FALSE OBVIOUS
  <2> DEFINE n == PISM_run(x)
             superior == n = "SUPERIOR_DESIGNATED"
             p == info[x].proposed \/ Message(x).proposal
             a == AgreementIn(x)
             q == info[x].proposing /\ ~superior /\ ~AgreementIn(x)
             g == info[x].agree /\ (superior => betterorsameReceived(x))
             w == RcvdInfoLife(x, IF superior THEN RecordedTimes(x)
                                  ELSE vec[x].portTimes)
             o == IF superior THEN "Received" ELSE info[x].infoIs
             i == info[x].reselect \/ superior
             s == info[x].selected /\ ~superior
  <2>1. info'[x] = [info[x] EXCEPT
                      !.PISM = n, !.rcvdMsg = FALSE,
                      !.proposed = p, !.agreed = a, !.proposing = q,
                      !.agree = g, !.rcvdInfoWhile = w, !.infoIs = o,
                      !.reselect = i, !.selected = s]
     BY DEF PISM_to_DESIGNATED
  <2>2. n # "RECEIVE" BY DEF PISM_to_DESIGNATED
  <2> HIDE DEF n, p, a, q, g, w, o, i, s, superior
  <2>3. QED BY <1>t, <2>1, <2>2 DEF InfoRecs
<1>5. ~PISM_to_INFERIOR_DESIGNATED(x)
  <2> SUFFICES ASSUME PISM_to_INFERIOR_DESIGNATED(x) PROVE FALSE OBVIOUS
  <2>1. PICK e, f : info'[x] = [info[x] EXCEPT !.PISM = "INFERIOR_DESIGNATED",
                          !.rcvdMsg = FALSE, !.disputed = e, !.agreed = f]
     BY DEF PISM_to_INFERIOR_DESIGNATED
  <2>2. QED BY <1>t, <2>1 DEF InfoRecs
<1>6. ~PISM_to_NOT_DESIGNATED(x)
  <2> SUFFICES ASSUME PISM_to_NOT_DESIGNATED(x) PROVE FALSE OBVIOUS
  <2>1. PICK e, f : info'[x] = [info[x] EXCEPT !.PISM = "NOT_DESIGNATED",
                          !.rcvdMsg = FALSE, !.agreed = e, !.proposing = f]
     BY DEF PISM_to_NOT_DESIGNATED
  <2>2. QED BY <1>t, <2>1 DEF InfoRecs
<1>7. ~PISM_to_OTHER(x)
  <2> SUFFICES ASSUME PISM_to_OTHER(x) PROVE FALSE OBVIOUS
  <2>1. info'[x] = [info[x] EXCEPT !.PISM = "OTHER", !.rcvdMsg = FALSE]
     BY <1>t DEF PISM_to_OTHER
  <2>2. QED BY <1>t, <2>1 DEF InfoRecs
<1>8. ~PISM_to_CURRENT(x)
  <2> SUFFICES ASSUME PISM_to_CURRENT(x) PROVE FALSE OBVIOUS
  <2>1. info'[x] = [info[x] EXCEPT !.PISM = "CURRENT"]
     BY <1>t DEF PISM_to_CURRENT
  <2>2. QED BY <1>t, <2>1 DEF InfoRecs
<1>9. PISM_to_RECEIVE(x)
   BY <1>1, <1>2, <1>3, <1>4, <1>5, <1>6, <1>7, <1>8 DEF PISM_step
<1>10. info[x].PISM = "CURRENT"
  <2>1. PISM_run(x) = "RECEIVE" BY <1>9 DEF PISM_to_RECEIVE
  <2>2. info[x].PISM \in PISM_states BY <1>t, InfoFields
  <2>3. QED BY <2>1, <2>2 DEF PISM_run, PISM_states, None
<1>11. info'[x].rcvdInfo = rcvInfo(x)
  <2> DEFINE i == rcvInfo(x)
  <2>1. PICK v : info'[x] = [info[x] EXCEPT !.PISM = "RECEIVE",
                                  !.rcvdInfo = i, !.mastered = v]
     BY <1>9 DEF PISM_to_RECEIVE
  <2> HIDE DEF i
  <2>2. info'[x].rcvdInfo = i BY <1>t, <2>1 DEF InfoRecs
  <2>3. QED BY <2>2 DEF i
<1>12. Bpdu(x).type = "TCN" => rcvInfo(x) = "Other" BY DEF rcvInfo
<1>13. QED BY <1>10, <1>11, <1>12

\* A classified message is dealt with in the pass that classified it.
LEMMA ClassifiedNext ==
    ASSUME TypeOK, NEW b \in Bridges, RunMachine(b), NEW x \in Ptps,
           Classified(x)
    PROVE  Classified(x)'
<1> DEFINE s == Upcoming(Ready(b))
<1>1. /\ Ready(b) # {} /\ Machine_step(b, s) /\ active = b /\ active' = b
      /\ pos' = Rank(s) + IF RunsOnce(b, s) THEN 1 ELSE 0
   BY DEF RunMachine
<1>2. s \in Ready(b) /\ s \in Slots(b) BY <1>1, UpcomingType
<1>3. pos \in Nat /\ Rank(s) \in Nat BY <1>2, RankType DEF TypeOK
<1>4. pos' \in {Rank(s), Rank(s) + 1} BY <1>1, <1>3
<1>u. \A u \in Ready(b) : Rank(s) <= Rank(u) \/ Rank(u) < pos
   BY <1>3, UpcomingFirst
<1>r. s[1] = PISM => ~RunsOnce(b, s)
   BY DEF RunsOnce, BA, PRSM, PPMSM, BDSM, PTSM, PISM, PRSSM, PSTSM
<1> HIDE DEF s
<1> SUFFICES ASSUME info'[x].PISM = "RECEIVE"
             PROVE  /\ b = BrOf(x) /\ pos' <= Rank(Informer(x))
                    /\ info'[x].rcvdInfo = "SuperiorDesignated" =>
                           Bpdu(x).type # "TCN"
  <2>1. Bpdu(x)' = Bpdu(x) BY <1>1, <1>2, BpduKept, PtpTypes DEF Bpdu, PortOf
  <2>2. /\ Rank(Informer(x))' = Rank(Informer(x)) /\ BrOf(x)' = BrOf(x)
        /\ Bpdu(x)'.type = Bpdu(x).type
     BY <2>1 DEF Rank, Informer, PortOf, Mstid, BrOf
  <2>3. QED BY <1>1, <2>1, <2>2 DEF Classified
<1>5. \/ s = Informer(x) /\ BrOf(x) = b /\ PISM_step(x)
      \/ s = Selector(Mstid(x)) /\ BrOf(x) = b /\ SelectedNow(x)
      \/ s # Informer(x) /\ InfoKept(x)
   BY <1>1, <1>2, InfoSteps
<1>6. CASE s = Informer(x) /\ BrOf(x) = b /\ PISM_step(x)
  <2>1. s[1] = PISM BY <1>6 DEF Informer
  <2>2. pos' = Rank(Informer(x)) BY <1>1, <1>3, <1>6, <1>r, <2>1
  <2>3. pos' <= Rank(Informer(x)) BY <1>3, <1>6, <2>2
  <2>4. QED BY <1>6, <2>3, InformerReceive
<1>7. CASE ~(s = Informer(x) /\ BrOf(x) = b /\ PISM_step(x))
  <2>0. s # Informer(x)
     BY <1>5, <1>7 DEF Selector, Informer, PISM, PRSSM
  <2>1. info[x].PISM = "RECEIVE" /\ info'[x].rcvdInfo = info[x].rcvdInfo
     BY <1>5, <1>7 DEF SelectedNow, InfoKept
  <2>2. b = BrOf(x) /\ pos <= Rank(Informer(x)) BY <1>1, <2>1 DEF Classified
  <2>3. /\ Informer(x) \in Slots(b) /\ Rank(Informer(x)) \in Nat
        /\ Machine_run(b, Informer(x)) = PISM_run(x)
     BY <2>2, SelectionSlots DEF Trees
  <2>4. PISM_run(x) # None
    <3>1. info[x].rcvdInfo \in Infos BY InfoFields DEF TypeOK, MachineTypeOK
    <3>2. QED BY <2>1, <3>1 DEF PISM_run, None, Infos
  <2>5. Informer(x) \in Ready(b) BY <2>3, <2>4 DEF Ready
  <2>6. Rank(s) <= Rank(Informer(x)) BY <1>3, <1>u, <2>2, <2>3, <2>5
  <2>7. Rank(s) # Rank(Informer(x)) BY <1>2, <2>0, <2>3, RankOrder
  <2>8. pos' <= Rank(Informer(x)) BY <1>3, <1>4, <2>3, <2>6, <2>7
  <2>9. QED BY <2>1, <2>2, <2>8 DEF Classified
<1>8. QED BY <1>6, <1>7

\* The times of a port of the CIST stay usable.
LEMMA PortTimesNext ==
    ASSUME TypeOK, TimesInv, NEW b \in Bridges, NEW s \in Slots(b),
           Machine_step(b, s), NEW x \in Ptps, IsCist(x)
    PROVE  vec'[x].portTimes.Max_Age # 0
<1> USE DEF BA, PRSM, PPMSM, BDSM, PTSM, PISM, PRSSM, PRTSM, PSTSM, TCSM
<1>0. PortTimed(x) /\ TimedBpdu(Bpdu(x)) BY PtpTypes DEF TimesInv, Bpdu
<1>1. CASE s[1] \notin {PISM, PRSSM}
  <2>1. vec' = vec BY <1>1, VecSteps
  <2>2. QED BY <1>0, <2>1 DEF PortTimed
<1>2. CASE s[1] = PISM
  <2> DEFINE y == <<s[2], s[3]>>
  <2>1. PISM_step(y) BY <1>2 DEF Machine_step
  <2>2. y \in Ptps BY <1>2 DEF Slots, PortsOf, Ptps
  <2> HIDE DEF y
  <2>3. CASE y = x BY <1>0, <2>1, <2>3, InformerTimes
  <2>4. CASE y # x
    <3>1. vec'[x] = vec[x] BY <2>1, <2>2, <2>4, InformerVec
    <3>2. QED BY <1>0, <3>1 DEF PortTimed
  <2>5. QED BY <2>3, <2>4
<1>3. CASE s[1] = PRSSM
  <2>1. PRSSM_to_ROLE_SELECTION(b, s[3]) BY <1>3 DEF Machine_step
  <2>2. s[3] \in Trees BY <1>3 DEF Slots
  <2>3. vec'[x].portTimes = vec[x].portTimes BY <2>1, <2>2, SelectorVec
  <2>4. QED BY <1>0, <2>3 DEF PortTimed
<1>4. QED BY <1>1, <1>2, <1>3

\* Once chosen the times stay chosen, and a selected port has them.
LEMMA ChosenNext ==
    ASSUME TypeOK, TimesInv, NEW b \in Bridges, NEW s \in Slots(b),
           Machine_step(b, s), NEW x \in Ptps, IsCist(x)
    PROVE  /\ Chosen(x) => Chosen(x)'
           /\ s = Selector(0) /\ BrOf(x) = b => Chosen(x)'
<1> USE DEF BA, PRSM, PPMSM, BDSM, PTSM, PISM, PRSSM, PRTSM, PSTSM, TCSM
<1>u. TreeOf(x) \in BridgeTrees /\ TreeOf(x) = <<BrOf(x), 0>>
   BY PtpTypes DEF TreeOf, IsCist
<1>v. TreeOf(x)' = TreeOf(x) BY DEF TreeOf, BrOf, PortOf, Mstid
<1>c. /\ tree'[TreeOf(x)].rootTimes.Max_Age # 0
      /\ vec'[x].designatedTimes.Max_Age # 0
      => Chosen(x)'
   BY <1>v DEF Chosen
<1>1. CASE s[1] # PRSSM
  <2>1. tree'[TreeOf(x)].rootTimes = tree[TreeOf(x)].rootTimes
     BY <1>1, <1>u, TreeSteps
  <2>2. vec'[x].designatedTimes = vec[x].designatedTimes
    <3>1. CASE s[1] # PISM BY <1>1, <3>1, VecSteps
    <3>2. CASE s[1] = PISM
      <4>1. PISM_step(<<s[2], s[3]>>) BY <3>2 DEF Machine_step
      <4>2. <<s[2], s[3]>> \in Ptps BY <3>2 DEF Slots, PortsOf, Ptps
      <4>3. QED BY <4>1, <4>2, InformerVec
    <3>3. QED BY <3>1, <3>2
  <2>3. s # Selector(0) BY <1>1 DEF Selector
  <2>4. QED BY <1>c, <2>1, <2>2, <2>3 DEF Chosen
<1>2. CASE s[1] = PRSSM
  <2>1. PRSSM_to_ROLE_SELECTION(b, s[3]) BY <1>2 DEF Machine_step
  <2>2. s[3] \in Trees /\ s = Selector(s[3]) BY <1>2 DEF Slots, Selector
  <2>3. CASE s[3] = 0 /\ BrOf(x) = b
    <3>1. /\ tree[<<b, 0>>].BridgeTimes.Max_Age # 0
          /\ \A y \in PtpsOfTree(b, 0) : vec[y].portTimes.Max_Age # 0
       BY DEF TimesInv, BridgeTimed, PortTimed, PtpsOfTree, IsCist
    <3>2. x \in PtpsOfTree(b, 0) BY <2>3 DEF PtpsOfTree, IsCist
    <3>3. /\ tree'[<<b, 0>>].rootTimes.Max_Age # 0
          /\ \A y \in PtpsOfTree(b, 0) : vec'[y].designatedTimes.Max_Age # 0
       BY <2>1, <2>2, <2>3, <3>1, SelectorTimes
    <3>4. QED BY <1>c, <1>u, <2>3, <3>2, <3>3
  <2>4. CASE ~(s[3] = 0 /\ BrOf(x) = b)
    <3>1. x \notin PtpsOfTree(b, s[3]) BY <2>4 DEF PtpsOfTree, IsCist
    <3>2. vec'[x] = vec[x] BY <2>1, <2>2, <3>1, SelectorVec
    <3>3. TreeOf(x) # <<b, s[3]>> BY <1>u, <2>4
    <3>4. tree'[TreeOf(x)].rootTimes = tree[TreeOf(x)].rootTimes
       BY <1>u, <3>3, TreeSteps
    <3>5. s # Selector(0) \/ BrOf(x) # b BY <2>4 DEF Selector
    <3>6. QED BY <1>c, <3>2, <3>4, <3>5 DEF Chosen
  <2>5. QED BY <2>3, <2>4
<1>3. QED BY <1>1, <1>2

\* Whatever uses the times of a port finds them chosen.
LEMMA WantedNext ==
    ASSUME TypeOK, TimesInv, brg' = brg, NEW b \in Bridges,
           NEW s \in Slots(b), Machine_step(b, s), NEW x \in Ptps, IsCist(x)
    PROVE  Wanted(x)' => Chosen(x)'
<1> USE DEF BA, PRSM, PPMSM, BDSM, PTSM, PISM, PRSSM, PRTSM, PSTSM, TCSM
<1>0. Wanted(x) => Chosen(x)' BY ChosenNext DEF TimesInv, PortTimed
<1>1. CASE info'[x].selected = TRUE
  <2>1. CASE PISM_step(x)
    <3>1. \/ BecomesDisabled(x) \/ BecomesAged(x) \/ BecomesMine(x)
          \/ MovesOn(x)
       BY <2>1, InfoMove, InfoReceive DEF PISM_step
    <3>2. info[x].selected = TRUE
       BY <1>1, <3>1
       DEF BecomesDisabled, BecomesAged, BecomesMine, MovesOn
    <3>3. QED BY <1>0, <3>2 DEF Wanted
  <2>2. CASE s = Selector(Mstid(x)) /\ BrOf(x) = b
     BY <2>2, ChosenNext DEF IsCist
  <2>3. CASE InfoKept(x)
    <3>1. info[x].selected = TRUE BY <1>1, <2>3 DEF InfoKept
    <3>2. QED BY <1>0, <3>1 DEF Wanted
  <2>4. QED BY <2>1, <2>2, <2>3, InfoSteps
<1>2. CASE role'[x].learn = TRUE BY <1>0, <1>2, LearnSteps DEF Wanted
<1>3. CASE tc'[x].TCSM # "INACTIVE"
  <2>1. CASE s[1] # TCSM
    <3>1. tc'[x].TCSM = tc[x].TCSM BY <2>1, TcNotes
    <3>2. QED BY <1>0, <1>3, <3>1 DEF Wanted
  <2>2. CASE s[1] = TCSM
    <3> DEFINE y == <<s[2], s[3]>>
    <3>1. TCSM_step(y) BY <2>2 DEF Machine_step
    <3>2. y \in Ptps BY <2>2 DEF Slots, PortsOf, Ptps
    <3> HIDE DEF y
    <3>3. CASE y = x BY <1>0, <3>1, <3>3, ChangeMachine DEF Wanted
    <3>4. CASE y # x
      <4>1. tc'[x].TCSM = tc[x].TCSM BY <3>1, <3>2, <3>4, ChangeMachine
      <4>2. QED BY <1>0, <1>3, <4>1 DEF Wanted
    <3>5. QED BY <3>3, <3>4
  <2>3. QED BY <2>1, <2>2
<1>4. QED BY <1>1, <1>2, <1>3 DEF Wanted

\* The flag of the CIST and its timers agree.
LEMMA ChangeNext ==
    ASSUME TypeOK, TimesInv, NEW b \in Bridges, NEW s \in Slots(b),
           Machine_step(b, s), NEW d \in Bridges
    PROVE  ChangeTimed(d, 0)'
<1> USE DEF BA, PRSM, PPMSM, BDSM, PTSM, PISM, PRSSM, PRTSM, PSTSM, TCSM
<1>0. ChangeTimed(d, 0) /\ 0 \in Trees BY DEF TimesInv, BridgeTimed, Trees
<1>1. CASE s[1] # TCSM
  <2>1. <<d, 0>> \in BridgeTrees BY <1>0 DEF BridgeTrees
  <2>2. tree'[<<d, 0>>].topology_change = tree[<<d, 0>>].topology_change
     BY <1>1, <2>1, TreeSteps
  <2>3. \A y \in Ptps : tc'[y].tcWhile = tc[y].tcWhile BY <1>1, TcNotes
  <2>4. PtpsOfTree(d, 0)' = PtpsOfTree(d, 0)
     BY DEF PtpsOfTree, BrOf, PortOf, Mstid
  <2>5. \A y \in PtpsOfTree(d, 0) : tc'[y].tcWhile = tc[y].tcWhile
     BY <2>3 DEF PtpsOfTree
  <2>6. QED BY <1>0, <2>2, <2>4, <2>5 DEF ChangeTimed
<1>2. CASE s[1] = TCSM
  <2> DEFINE x == <<s[2], s[3]>>
  <2>1. TCSM_step(x) BY <1>2 DEF Machine_step
  <2>2. x \in Ptps BY <1>2 DEF Slots, PortsOf, Ptps
  <2> HIDE DEF x
  <2>3. TreeOf(x) = <<d, 0>> => TcWhile(x) # 0
    <3> SUFFICES ASSUME TreeOf(x) = <<d, 0>> PROVE TcWhile(x) # 0
       OBVIOUS
    <3>1. IsCist(x) BY DEF TreeOf, IsCist
    <3>2. Wanted(x) BY <2>1, <2>2, ChangeMachine DEF Wanted
    <3>3. Chosen(x) BY <2>2, <3>1, <3>2 DEF TimesInv, PortTimed
    <3>4. QED BY <2>2, <3>3, TimerStarts
  <2>4. QED BY <1>0, <2>1, <2>2, <2>3, ChangeStep
<1>3. QED BY <1>1, <1>2

\* A step of a machine.
LEMMA MachineTimes ==
    ASSUME TypeOK, TimesInv, NEW b \in Bridges, RunMachine(b)
    PROVE  TimesInv'
<1> DEFINE s == Upcoming(Ready(b))
<1>1. Ready(b) # {} /\ Machine_step(b, s) /\ brg' = brg
   BY DEF RunMachine
<1>2. s \in Slots(b) BY <1>1, UpcomingType
<1> HIDE DEF s
<1>3. ASSUME NEW p \in Ports
      PROVE  TimedBpdu(rcv[p].bpdu)' /\ chan'[p] \in Seq(TimedBpdus)
  <2>1. rcv'[p].bpdu = rcv[p].bpdu BY <1>1, <1>2, BpduKept
  <2>2. TimedBpdu(rcv[p].bpdu)' BY <2>1 DEF TimesInv, TimedBpdu
  <2>3. CASE s[1] # PTSM
    <3>1. chan' = chan BY <1>1, <2>3, VecSteps
    <3>2. QED BY <2>2, <3>1 DEF TimesInv
  <2>4. CASE s[1] = PTSM
    <3>1. PTSM_step(s[2])
       BY <1>1, <2>4
       DEF Machine_step, BA, PRSM, PPMSM, BDSM, PTSM, PISM, PRSSM, PRTSM,
           PSTSM, TCSM
    <3>2. s[2] \in Ports
       BY <1>2, <2>4 DEF Slots, PortsOf, PTSM, PISM, PRTSM, PSTSM, TCSM, PRSSM
    <3>3. Cist(s[2]) \in Ptps /\ IsCist(Cist(s[2]))
       BY <3>2, CistType DEF Cist, IsCist, Mstid
    <3>4. PortTimed(Cist(s[2])) BY <3>3 DEF TimesInv
    <3>5. \A q \in Ports : chan[q] \in Seq(TimedBpdus) BY DEF TimesInv
    <3>6. chan'[p] \in Seq(TimedBpdus) BY <3>1, <3>2, <3>4, <3>5, SentTimed
    <3>7. QED BY <2>2, <3>6
  <2>5. QED BY <2>3, <2>4
<1>4. ASSUME NEW d \in Bridges PROVE BridgeTimed(d)'
  <2>1. ChangeTimed(d, 0)' BY <1>1, <1>2, ChangeNext
  <2>2. <<d, 0>> \in BridgeTrees BY DEF BridgeTrees, Trees
  <2>3. tree'[<<d, 0>>].BridgeTimes = tree[<<d, 0>>].BridgeTimes
     BY <1>1, <2>2, TreeSteps
  <2>4. BridgeTimed(d) BY DEF TimesInv
  <2>5. QED BY <1>1, <2>1, <2>3, <2>4 DEF BridgeTimed
<1>5. ASSUME NEW x \in Ptps, IsCist(x) PROVE PortTimed(x)'
  <2>1. Classified(x)' BY <1>5, ClassifiedNext DEF TimesInv, PortTimed
  <2>2. vec'[x].portTimes.Max_Age # 0 BY <1>1, <1>2, <1>5, PortTimesNext
  <2>3. Wanted(x)' => Chosen(x)' BY <1>1, <1>2, <1>5, WantedNext
  <2>4. QED BY <2>1, <2>2, <2>3 DEF PortTimed
<1>6. QED
  <2>1. \A x \in Ptps : IsCist(x)' => IsCist(x) BY DEF IsCist, Mstid
  <2>2. TimedBpdus' = TimedBpdus
     BY DEF TimedBpdus, TimedBpdu, Bpdus, MstiMessages
  <2>3. QED BY <1>3, <1>4, <1>5, <2>1, <2>2 DEF TimesInv

\* The end of a run: no message is left classified.
LEMMA RunEndTimes ==
    ASSUME TypeOK, TimesInv, NEW b \in Bridges, RunDone(b) \/ RunTimeout(b)
    PROVE  TimesInv'
<1>1. /\ active = b /\ Ahead(Ready(b)) = {}
      /\ UNCHANGED <<brg, tree, rcv, info, vec, role, tc, chan>>
   BY DEF RunDone, RunTimeout, Ahead, portVars, ptpVars
<1>2. ASSUME NEW x \in Ptps, IsCist(x), info[x].PISM = "RECEIVE"
      PROVE  FALSE
  <2>1. Classified(x) BY <1>2 DEF TimesInv, PortTimed
  <2>2. BrOf(x) = b /\ pos <= Rank(Informer(x))
     BY <1>1, <1>2, <2>1 DEF Classified
  <2>3. /\ Informer(x) \in Slots(b) /\ Rank(Informer(x)) \in Nat
        /\ Machine_run(b, Informer(x)) = PISM_run(x)
     BY <2>2, SelectionSlots DEF Trees
  <2>4. PISM_run(x) # None
    <3>1. info[x].rcvdInfo \in Infos BY InfoFields DEF TypeOK, MachineTypeOK
    <3>2. QED BY <1>2, <3>1 DEF PISM_run, None, Infos
  <2>5. Informer(x) \in Ready(b) BY <2>3, <2>4 DEF Ready
  <2>6. pos \in Nat BY DEF TypeOK
  <2>7. Informer(x) \in Ahead(Ready(b)) BY <2>2, <2>3, <2>5, <2>6 DEF Ahead
  <2>8. QED BY <1>1, <2>7
<1>3. ASSUME NEW p \in Ports
      PROVE  TimedBpdu(rcv[p].bpdu)' /\ (chan[p] \in Seq(TimedBpdus))'
  <2>1. TimedBpdus' = TimedBpdus
     BY DEF TimedBpdus, TimedBpdu, Bpdus, MstiMessages
  <2>2. QED BY <1>1, <2>1 DEF TimesInv, TimedBpdu
<1>4. ASSUME NEW d \in Bridges PROVE BridgeTimed(d)'
  <2>1. PtpsOfTree(d, 0)' = PtpsOfTree(d, 0)
     BY DEF PtpsOfTree, BrOf, PortOf, Mstid
  <2>2. QED BY <1>1, <2>1 DEF TimesInv, BridgeTimed, ChangeTimed
<1>5. ASSUME NEW x \in Ptps, IsCist(x)' PROVE PortTimed(x)'
  <2>1. IsCist(x) /\ TreeOf(x)' = TreeOf(x)
     BY <1>5 DEF IsCist, Mstid, TreeOf, BrOf, PortOf
  <2>2. Classified(x)' BY <1>1, <1>2, <2>1 DEF Classified
  <2>3. QED
     BY <1>1, <2>1, <2>2 DEF TimesInv, PortTimed, Wanted, Chosen
<1>6. QED BY <1>3, <1>4, <1>5 DEF TimesInv

-----------------------------------------------------------------------------
(* What the events do.  Between two runs no message is classified. *)

\* The times of x are kept, and nothing is done with them that was not.
Calm(x) ==
    /\ vec'[x].portTimes.Max_Age = vec[x].portTimes.Max_Age
    /\ vec'[x].designatedTimes = vec[x].designatedTimes
    /\ tree'[TreeOf(x)].rootTimes = tree[TreeOf(x)].rootTimes
    /\ info'[x].PISM \in {info[x].PISM, "DISABLED"}
    /\ info'[x].selected \in {info[x].selected, FALSE}
    /\ role'[x].learn \in {role[x].learn, FALSE}
    /\ tc'[x].TCSM \in {tc[x].TCSM, "INACTIVE"}

\* BPDUs come from the channel of the port.
BpdusFrom(p) == /\ chan'[p] \in {chan[p], <<>>, Tail(chan[p])}
                /\ \/ rcv'[p].bpdu = rcv[p].bpdu
                   \/ chan[p] # <<>> /\ rcv'[p].bpdu = Head(chan[p])

LEMMA CalmSuffices ==
    ASSUME TypeOK, TimesInv, Idle,
           \A p \in Ports : BpdusFrom(p),
           \A d \in Bridges : BridgeTimed(d)',
           \A x \in Ptps : IsCist(x) => Calm(x)
    PROVE  TimesInv'
<1>1. ASSUME NEW x \in Ptps, IsCist(x) PROVE info[x].PISM # "RECEIVE"
  <2>1. BrOf(x) \in Bridges /\ BrOf(x) # NoBridge
     BY PtpTypes, TopologyAssumption DEF NoBridge
  <2>2. Classified(x) BY <1>1 DEF TimesInv, PortTimed
  <2>3. QED BY <2>1, <2>2 DEF Classified, Idle
<1>2. ASSUME NEW p \in Ports
      PROVE  TimedBpdu(rcv[p].bpdu)' /\ (chan[p] \in Seq(TimedBpdus))'
  <2>1. TimedBpdus' = TimedBpdus
     BY DEF TimedBpdus, TimedBpdu, Bpdus, MstiMessages
  <2>2. TimedBpdu(rcv[p].bpdu) /\ chan[p] \in Seq(TimedBpdus)
     BY DEF TimesInv
  <2>3. chan'[p] \in Seq(TimedBpdus)
    <3>1. chan[p] # <<>> => Tail(chan[p]) \in Seq(TimedBpdus)
       BY <2>2
    <3>2. Tail(<<>>) = <<>> OBVIOUS
    <3>3. <<>> \in Seq(TimedBpdus) OBVIOUS
    <3>4. QED BY <2>2, <3>1, <3>2, <3>3 DEF BpdusFrom
  <2>4. chan[p] # <<>> => TimedBpdu(Head(chan[p]))
    <3>1. chan[p] # <<>> => Head(chan[p]) \in TimedBpdus BY <2>2
    <3>2. QED BY <3>1 DEF TimedBpdus
  <2>5. TimedBpdu(rcv'[p].bpdu) BY <2>2, <2>4 DEF BpdusFrom
  <2>6. QED BY <2>1, <2>3, <2>5 DEF TimedBpdu
<1>3. ASSUME NEW x \in Ptps, IsCist(x)' PROVE PortTimed(x)'
  <2>1. IsCist(x) /\ TreeOf(x)' = TreeOf(x)
     BY <1>3 DEF IsCist, Mstid, TreeOf, BrOf, PortOf
  <2>2. Calm(x) /\ PortTimed(x) BY <2>1 DEF TimesInv
  <2>3. info'[x].PISM # "RECEIVE" BY <1>1, <2>1, <2>2 DEF Calm
  <2>4. Classified(x)' BY <2>3 DEF Classified
  <2>5. Wanted(x)' => Wanted(x) BY <2>2 DEF Calm, Wanted
  <2>6. Chosen(x) => Chosen(x)' BY <2>1, <2>2 DEF Calm, Chosen
  <2>7. vec'[x].portTimes.Max_Age # 0 BY <2>2 DEF Calm, PortTimed
  <2>8. QED BY <2>2, <2>4, <2>5, <2>6, <2>7 DEF PortTimed
<1>4. QED BY <1>2, <1>3 DEF TimesInv

\* A bridge whose flag and timers are kept.
LEMMA FlagKept ==
    ASSUME NEW d \in Bridges, BridgeTimed(d), brg'[d].Max_Age # 0,
           tree'[<<d, 0>>].BridgeTimes.Max_Age # 0,
           tree'[<<d, 0>>].topology_change
               \in {tree[<<d, 0>>].topology_change, FALSE},
           \A y \in PtpsOfTree(d, 0) : tc'[y].tcWhile = tc[y].tcWhile
    PROVE  BridgeTimed(d)'
<1>1. PtpsOfTree(d, 0)' = PtpsOfTree(d, 0)
   BY DEF PtpsOfTree, BrOf, PortOf, Mstid
<1>2. QED BY <1>1 DEF BridgeTimed, ChangeTimed

\* Time passes.
LEMMA TickTimes ==
    ASSUME TypeOK, TimesInv, Idle, NEW b \in Bridges, Tick(b)
    PROVE  TimesInv'
<1>t. /\ info \in [Ptps -> InfoRecs] /\ role \in [Ptps -> RoleRecs]
      /\ tree \in [BridgeTrees -> TreeRecs] /\ tc \in [Ptps -> TcRecs]
      /\ rcv \in [Ports -> RcvRecs]
   BY DEF TypeOK, MachineTypeOK
<1>1. brg' = brg /\ vec' = vec /\ chan' = chan BY DEF Tick
<1>2. ASSUME NEW p \in Ports PROVE BpdusFrom(p)
  <2>1. \/ rcv'[p] = rcv[p]
        \/ \E v : rcv'[p] = [rcv[p] EXCEPT !.edgeDelayWhile = v]
     BY DEF Tick
  <2>2. rcv'[p].bpdu = rcv[p].bpdu BY <1>t, <2>1 DEF RcvRecs
  <2>3. QED BY <1>1, <2>2 DEF BpdusFrom
<1>w. ASSUME NEW u \in BridgeTrees
      PROVE  /\ tree'[u].rootTimes = tree[u].rootTimes
             /\ tree'[u].BridgeTimes = tree[u].BridgeTimes
  <2>1. tree[u] \in TreeRecs BY <1>t
  <2>2. \/ tree'[u] = tree[u]
        \/ \E v : tree'[u] = [tree[u] EXCEPT !.topology_change = v]
     BY DEF Tick
  <2>3. QED BY <2>1, <2>2 DEF TreeRecs
<1>c. ASSUME NEW x \in Ptps
      PROVE  /\ tc'[x].TCSM = tc[x].TCSM
             /\ BrOf(x) # b => tc'[x].tcWhile = tc[x].tcWhile
             /\ BrOf(x) = b => tc'[x].tcWhile = Decremented(tc[x].tcWhile)
  <2>1. tc[x] \in TcRecs BY <1>t
  <2>2. CASE BrOf(x) # b
    <3>1. tc'[x] = tc[x] BY <2>2 DEF Tick
    <3>2. QED BY <2>2, <3>1
  <2>3. CASE BrOf(x) = b
    <3>1. tc'[x] = [tc[x] EXCEPT !.tcWhile = Decremented(tc[x].tcWhile)]
       BY <2>3 DEF Tick
    <3>2. QED BY <2>1, <2>3, <3>1 DEF TcRecs
  <2>4. QED BY <2>2, <2>3
<1>3. ASSUME NEW x \in Ptps PROVE Calm(x)
  <2>1. TreeOf(x) \in BridgeTrees BY TreeOfType
  <2>2. InfoSame(x) /\ info'[x].selected = info[x].selected
    <3>1. info[x] \in InfoRecs BY <1>t
    <3>2. \/ info'[x] = info[x]
          \/ \E v : info'[x] = [info[x] EXCEPT !.rcvdInfoWhile = v]
       BY DEF Tick
    <3>3. QED BY <3>1, <3>2 DEF InfoSame, InfoRecs
  <2>3. role'[x].learn = role[x].learn
    <3>1. role[x] \in RoleRecs BY <1>t
    <3>2. \/ role'[x] = role[x]
          \/ \E f, r, k : role'[x] = [role[x] EXCEPT !.fdWhile = f,
                                        !.rrWhile = r, !.rbWhile = k]
       BY DEF Tick
    <3>3. QED BY <3>1, <3>2 DEF RoleRecs
  <2>4. QED BY <1>1, <1>c, <1>w, <2>1, <2>2, <2>3 DEF Calm, InfoSame
<1>4. ASSUME NEW d \in Bridges PROVE BridgeTimed(d)'
  <2>1. BridgeTimed(d) BY DEF TimesInv
  <2>2. <<d, 0>> \in BridgeTrees BY DEF BridgeTrees, Trees
  <2>3. /\ brg'[d].Max_Age # 0 /\ tree'[<<d, 0>>].BridgeTimes.Max_Age # 0
     BY <1>1, <1>w, <2>1, <2>2 DEF BridgeTimed
  <2>4. CASE d # b
    <3>1. tree'[<<d, 0>>] = tree[<<d, 0>>] BY <2>2, <2>4 DEF Tick
    <3>2. \A y \in PtpsOfTree(d, 0) : tc'[y].tcWhile = tc[y].tcWhile
       BY <1>c, <2>4 DEF PtpsOfTree
    <3>3. QED BY <2>1, <2>3, <3>1, <3>2, FlagKept
  <2>5. CASE d = b
    <3>0. PtpsOfTree(b, 0)' = PtpsOfTree(b, 0)
       BY DEF PtpsOfTree, BrOf, PortOf, Mstid
    <3>t. tree[<<b, 0>>] \in TreeRecs BY <1>t, <2>2, <2>5
    <3> DEFINE newTc == [x \in Ptps |-> IF BrOf(x) = b
                           THEN [tc[x] EXCEPT !.tcWhile = Decremented(@)]
                           ELSE tc[x]]
               expired == \E x \in PtpsOfTree(b, 0) : tc[x].tcWhile = 1
               flag == TopologyChangeAfter(b, 0, newTc)
    <3>1. /\ tc' = newTc
          /\ expired => tree'[<<b, 0>>] = [tree[<<b, 0>>] EXCEPT
                                             !.topology_change = flag]
          /\ ~expired => tree'[<<b, 0>>] = tree[<<b, 0>>]
       BY <2>2, <2>5 DEF Tick
    <3> HIDE DEF newTc
    <3>2. CASE expired
      <4>1. tree'[<<b, 0>>].topology_change = flag
         BY <3>1, <3>2, <3>t DEF TreeRecs
      <4>2. ChangeTimed(b, 0)'
         BY <3>0, <3>1, <4>1 DEF ChangeTimed, TopologyChangeAfter
      <4>3. QED BY <2>3, <2>5, <4>2 DEF BridgeTimed
    <3>3. CASE ~expired
      <4>1. ASSUME NEW y \in PtpsOfTree(b, 0), tc[y].tcWhile # 0
            PROVE  tc'[y].tcWhile # 0
        <5>1. y \in Ptps /\ BrOf(y) = b BY DEF PtpsOfTree
        <5>2. tc[y].tcWhile \in Nat BY <1>t, <5>1, TcFields
        <5>3. tc[y].tcWhile # 1 BY <3>3
        <5>4. QED BY <1>c, <4>1, <5>1, <5>2, <5>3 DEF Decremented
      <4>2. ChangeTimed(b, 0) BY <2>1, <2>5 DEF BridgeTimed
      <4>3. tree'[<<b, 0>>] = tree[<<b, 0>>] BY <3>1, <3>3
      <4>4. ChangeTimed(b, 0)' BY <3>0, <4>1, <4>2, <4>3 DEF ChangeTimed
      <4>5. QED BY <2>3, <2>5, <4>4 DEF BridgeTimed
    <3>4. QED BY <3>2, <3>3
  <2>6. QED BY <2>4, <2>5
<1>5. QED BY <1>2, <1>3, <1>4, CalmSuffices

\* What br_state_machines_begin starts from keeps the times of b.
BeginCalm(c) ==
    /\ c.tc \in [Ptps -> TcRecs] /\ c.tree \in [BridgeTrees -> TreeRecs]
    /\ c.info \in [Ptps -> InfoRecs] /\ c.rcv \in [Ports -> RcvRecs]
    /\ \A p \in Ports : c.rcv[p].bpdu = rcv[p].bpdu
    /\ \A u \in BridgeTrees :
          /\ c.tree[u].BridgeTimes = tree[u].BridgeTimes
          /\ c.tree[u].rootTimes = tree[u].rootTimes
          /\ c.tree[u].topology_change \in {tree[u].topology_change, FALSE}
    /\ \A x \in Ptps :
          /\ c.info[x].PISM = info[x].PISM
          /\ c.info[x].selected = info[x].selected
          /\ c.tc[x].TCSM = tc[x].TCSM /\ c.tc[x].tcWhile = tc[x].tcWhile

\* br_state_machines_begin.
LEMMA BeginTimes ==
    ASSUME TypeOK, TimesInv, Idle, NEW b \in Bridges, NEW c, BeginCalm(c),
           Begin(b, c), \A d \in Bridges : brg'[d].Max_Age = brg[d].Max_Age
    PROVE  TimesInv'
<1>t. /\ c.tc \in [Ptps -> TcRecs] /\ c.tree \in [BridgeTrees -> TreeRecs]
      /\ c.info \in [Ptps -> InfoRecs] /\ c.rcv \in [Ports -> RcvRecs]
      /\ role \in [Ptps -> RoleRecs]
   BY DEF BeginCalm, TypeOK, MachineTypeOK
<1>1. vec' = vec /\ chan' = chan BY DEF Begin
<1>m. ASSUME NEW d \in Bridges PROVE brg'[d].Max_Age # 0
   BY DEF TimesInv, BridgeTimed
<1>2. CASE ~brg'[b].bridgeEnabled
  <2>1. /\ tree' = c.tree /\ rcv' = c.rcv /\ info' = c.info /\ tc' = c.tc
        /\ role' = role
     BY <1>2 DEF Begin
  <2>2. \A p \in Ports : BpdusFrom(p)
     BY <1>1, <2>1 DEF BpdusFrom, BeginCalm
  <2>3. ASSUME NEW x \in Ptps PROVE Calm(x)
     BY <1>1, <2>1, TreeOfType DEF Calm, BeginCalm
  <2>4. ASSUME NEW d \in Bridges PROVE BridgeTimed(d)'
    <3>1. <<d, 0>> \in BridgeTrees BY DEF BridgeTrees, Trees
    <3>2. BridgeTimed(d) BY DEF TimesInv
    <3>3. \A y \in PtpsOfTree(d, 0) : tc'[y].tcWhile = tc[y].tcWhile
       BY <2>1 DEF PtpsOfTree, BeginCalm
    <3>4. tree'[<<d, 0>>].BridgeTimes.Max_Age # 0
       BY <2>1, <3>1, <3>2 DEF BeginCalm, BridgeTimed
    <3>5. tree'[<<d, 0>>].topology_change
              \in {tree[<<d, 0>>].topology_change, FALSE}
       BY <2>1, <3>1 DEF BeginCalm
    <3>6. QED BY <1>m, <3>2, <3>3, <3>4, <3>5, FlagKept
  <2>5. QED BY <2>2, <2>3, <2>4, CalmSuffices
<1>3. CASE brg'[b].bridgeEnabled
  <2>0. StateMachinesBegin(b, c) BY <1>3 DEF Begin
  <2>1. ASSUME NEW p \in Ports PROVE BpdusFrom(p)
    <3>1. \/ rcv'[p] = c.rcv[p]
          \/ rcv'[p] = [c.rcv[p] EXCEPT !.PRSM = "DISCARD",
                          !.rcvdBpdu = FALSE, !.edgeDelayWhile = MigrateTime]
       BY <2>0 DEF StateMachinesBegin
    <3>2. c.rcv[p] \in RcvRecs BY <1>t
    <3>3. rcv'[p].bpdu = c.rcv[p].bpdu BY <3>1, <3>2 DEF RcvRecs
    <3>4. QED BY <1>1, <3>3 DEF BpdusFrom, BeginCalm
  <2>2. ASSUME NEW u \in BridgeTrees
        PROVE  /\ tree'[u].rootTimes = tree[u].rootTimes
               /\ tree'[u].BridgeTimes = tree[u].BridgeTimes
               /\ u[1] # b => tree'[u] = c.tree[u]
               /\ u[1] = b /\ PortsOf(b) # {} =>
                      tree'[u].topology_change = FALSE
               /\ tree'[u].topology_change = TRUE =>
                      tree[u].topology_change = TRUE
    <3>1. c.tree[u] \in TreeRecs BY <1>t
    <3>2. CASE u[1] # b
      <4>1. tree'[u] = c.tree[u] BY <2>0, <3>2 DEF StateMachinesBegin
      <4>2. QED BY <3>2, <4>1 DEF BeginCalm
    <3>3. CASE u[1] = b
      <4> DEFINE v == c.tree[u].topology_change /\ PortsOf(b) = {}
      <4>1. tree'[u] = [c.tree[u] EXCEPT !.PRSSM = "INIT_TREE",
                                         !.topology_change = v]
         BY <2>0, <3>3 DEF StateMachinesBegin
      <4>2. /\ v = TRUE => c.tree[u].topology_change = TRUE
            /\ PortsOf(b) # {} => v = FALSE
        <5>1. c.tree[u].topology_change \in BOOLEAN BY <3>1, TreeFields
        <5>2. QED BY <5>1
      <4> HIDE DEF v
      <4>3. /\ tree'[u].rootTimes = c.tree[u].rootTimes
            /\ tree'[u].BridgeTimes = c.tree[u].BridgeTimes
            /\ tree'[u].topology_change = v
         BY <3>1, <4>1 DEF TreeRecs
      <4>4. QED BY <3>3, <4>2, <4>3 DEF BeginCalm
    <3>4. QED BY <3>2, <3>3
  <2>3. ASSUME NEW x \in Ptps PROVE Calm(x)
    <3>1. TreeOf(x) \in BridgeTrees BY TreeOfType
    <3>2. CASE BrOf(x) # b
      <4>1. info'[x] = c.info[x] /\ tc'[x] = c.tc[x] /\ role'[x] = role[x]
         BY <2>0, <3>2 DEF StateMachinesBegin
      <4>2. /\ c.info[x].PISM = info[x].PISM
            /\ c.info[x].selected = info[x].selected
            /\ c.tc[x].TCSM = tc[x].TCSM
         BY DEF BeginCalm
      <4>3. QED BY <1>1, <2>2, <3>1, <4>1, <4>2 DEF Calm
    <3>3. CASE BrOf(x) = b
      <4>1. info'[x] = DisabledInfo(c.info[x])
         BY <2>0, <3>3 DEF StateMachinesBegin
      <4>2. c.info[x] \in InfoRecs BY <1>t
      <4>3. info'[x].PISM = "DISABLED" /\ info'[x].selected = FALSE
         BY <4>1, <4>2 DEF DisabledInfo, InfoRecs
      <4>4. role'[x] = [InitPort(role[x], PortOf(x)) EXCEPT
                          !.selectedRole = "Disabled"]
         BY <2>0, <3>3 DEF StateMachinesBegin
      <4>5. role'[x].learn = FALSE
        <5>1. role[x] \in RoleRecs BY <1>t
        <5> DEFINE f == FwdDelay(PortOf(x))
                   m == MaxAge(PortOf(x))
        <5>2. role'[x] = [role[x] EXCEPT !.PRTSM = "INIT_PORT",
                 !.role = "Disabled", !.learn = FALSE, !.forward = FALSE,
                 !.synced = FALSE, !.sync = TRUE, !.reRoot = TRUE,
                 !.rrWhile = f, !.fdWhile = m, !.rbWhile = 0,
                 !.selectedRole = "Disabled"]
           BY <4>4 DEF InitPort
        <5> HIDE DEF f, m
        <5>3. QED BY <5>1, <5>2 DEF RoleRecs
      <4>6. tc'[x] = [c.tc[x] EXCEPT !.TCSM = "INACTIVE", !.tcWhile = 0]
         BY <2>0, <3>3 DEF StateMachinesBegin
      <4>7. c.tc[x] \in TcRecs BY <1>t
      <4>8. tc'[x].TCSM = "INACTIVE" BY <4>6, <4>7 DEF TcRecs
      <4>9. QED BY <1>1, <2>2, <3>1, <4>3, <4>5, <4>8 DEF Calm
    <3>4. QED BY <3>2, <3>3
  <2>4. ASSUME NEW d \in Bridges PROVE BridgeTimed(d)'
    <3>1. <<d, 0>> \in BridgeTrees BY DEF BridgeTrees, Trees
    <3>2. BridgeTimed(d) BY DEF TimesInv
    <3>3. tree'[<<d, 0>>].BridgeTimes.Max_Age # 0
       BY <2>2, <3>1, <3>2 DEF BridgeTimed
    <3>4. CASE d # b
      <4>1. \A y \in PtpsOfTree(d, 0) : tc'[y] = c.tc[y]
         BY <2>0, <3>4 DEF PtpsOfTree, StateMachinesBegin
      <4>2. \A y \in PtpsOfTree(d, 0) : tc'[y].tcWhile = tc[y].tcWhile
         BY <4>1 DEF PtpsOfTree, BeginCalm
      <4>3. tree'[<<d, 0>>] = c.tree[<<d, 0>>] BY <2>2, <3>1, <3>4
      <4>4. tree'[<<d, 0>>].topology_change
                \in {tree[<<d, 0>>].topology_change, FALSE}
         BY <3>1, <4>3 DEF BeginCalm
      <4>5. QED BY <1>m, <3>2, <3>3, <4>2, <4>4, FlagKept
    <3>5. CASE d = b
      <4>1. tree'[<<d, 0>>].topology_change # TRUE
        <5>1. CASE PortsOf(b) # {} BY <2>2, <3>1, <3>5, <5>1
        <5>2. CASE PortsOf(b) = {}
          <6>1. PtpsOfTree(b, 0) = {}
             BY <5>2, PtpTypes DEF PtpsOfTree, PortsOf, BrOf
          <6>2. tree[<<d, 0>>].topology_change # TRUE
             BY <3>2, <3>5, <6>1 DEF BridgeTimed, ChangeTimed
          <6>3. QED BY <2>2, <3>1, <6>2
        <5>3. QED BY <5>1, <5>2
      <4>2. ChangeTimed(d, 0)' BY <4>1 DEF ChangeTimed
      <4>3. QED BY <1>m, <3>3, <4>2 DEF BridgeTimed
    <3>6. QED BY <3>4, <3>5
  <2>5. QED BY <2>1, <2>3, <2>4, CalmSuffices
<1>4. QED BY <1>2, <1>3

\* MSTP_IN_set_bridge_enable.
LEMMA BridgeEnableTimes ==
    ASSUME TypeOK, TimesInv, Idle, NEW b \in Bridges, NEW up \in BOOLEAN,
           MSTP_IN_set_bridge_enable(b, up)
    PROVE  TimesInv'
<1>t. /\ brg \in [Bridges -> BridgeRecs] /\ info \in [Ptps -> InfoRecs]
      /\ tree \in [BridgeTrees -> TreeRecs] /\ tc \in [Ptps -> TcRecs]
      /\ rcv \in [Ports -> RcvRecs]
   BY DEF TypeOK, MachineTypeOK
<1> DEFINE newTree == [u \in BridgeTrees |->
              IF u[1] = b THEN [tree[u] EXCEPT !.topology_change = FALSE]
              ELSE tree[u]]
           newRcv == [p \in Ports |->
              IF BridgeOf[p] = b
              THEN [rcv[p] EXCEPT !.infoInternal = FALSE,
                      !.rcvdInternal = FALSE, !.rcvdTcAck = FALSE,
                      !.rcvdTcn = FALSE]
              ELSE rcv[p]]
           newInfo == [x \in Ptps |->
              IF BrOf(x) = b
              THEN [info[x] EXCEPT !.updtInfo = FALSE, !.disputed = FALSE,
                      !.rcvdInfo = "Other", !.mastered = FALSE]
              ELSE info[x]]
           newTc == [x \in Ptps |->
              IF BrOf(x) = b THEN [tc[x] EXCEPT !.rcvdTc = FALSE,
                                                !.tcProp = FALSE]
              ELSE tc[x]]
<1>1. \E p, s, a :
         Begin(b, [ tree |-> newTree, prt |-> p, rcv |-> newRcv,
                    info |-> newInfo, pst |-> s, tc |-> newTc,
                    ageing |-> a ])
   BY Zenon DEF MSTP_IN_set_bridge_enable
<1>2. newTree \in [BridgeTrees -> TreeRecs] BY <1>t, TreeFields
<1>3. newTc \in [Ptps -> TcRecs] BY <1>t, TcFields
<1>4. ASSUME NEW p \in Ports
      PROVE  newRcv[p] \in RcvRecs /\ newRcv[p].bpdu = rcv[p].bpdu
  <2>1. rcv[p] \in RcvRecs BY <1>t
  <2>2. CASE BridgeOf[p] # b BY <2>1, <2>2
  <2>3. CASE BridgeOf[p] = b
    <3> DEFINE r == [rcv[p] EXCEPT !.infoInternal = FALSE,
                       !.rcvdInternal = FALSE, !.rcvdTcAck = FALSE,
                       !.rcvdTcn = FALSE]
    <3>1. newRcv[p] = r BY <2>3
    <3>2. r \in RcvRecs BY <2>1, RcvFields
    <3>3. r.bpdu = rcv[p].bpdu BY <2>1 DEF RcvRecs
    <3>4. QED BY <3>1, <3>2, <3>3
  <2>4. QED BY <2>2, <2>3
<1>5. ASSUME NEW x \in Ptps
      PROVE  /\ newInfo[x] \in InfoRecs /\ newInfo[x].PISM = info[x].PISM
             /\ newInfo[x].selected = info[x].selected
  <2>1. info[x] \in InfoRecs BY <1>t
  <2>2. CASE BrOf(x) # b BY <2>1, <2>2
  <2>3. CASE BrOf(x) = b
    <3> DEFINE i == [info[x] EXCEPT !.updtInfo = FALSE, !.disputed = FALSE,
                       !.rcvdInfo = "Other", !.mastered = FALSE]
    <3>1. newInfo[x] = i BY <2>3
    <3>2. i \in InfoRecs
      <4>1. [info[x] EXCEPT !.updtInfo = FALSE, !.disputed = FALSE]
                \in InfoRecs
         BY <2>1, InfoFields
      <4>2. [info[x] EXCEPT !.updtInfo = FALSE, !.disputed = FALSE,
                !.rcvdInfo = "Other"] \in InfoRecs
         BY <4>1, InfoFields DEF Infos
      <4>3. QED BY <4>2, InfoFields
    <3>3. i.PISM = info[x].PISM /\ i.selected = info[x].selected
       BY <2>1 DEF InfoRecs
    <3>4. QED BY <3>1, <3>2, <3>3
  <2>4. QED BY <2>2, <2>3
<1>6. ASSUME NEW x \in Ptps
      PROVE  /\ newTc[x].TCSM = tc[x].TCSM
             /\ newTc[x].tcWhile = tc[x].tcWhile
  <2>1. tc[x] \in TcRecs BY <1>t
  <2>2. \/ newTc[x] = tc[x]
        \/ newTc[x] = [tc[x] EXCEPT !.rcvdTc = FALSE, !.tcProp = FALSE]
     OBVIOUS
  <2> HIDE DEF newTc
  <2>3. QED BY <2>1, <2>2 DEF TcRecs
<1>7. ASSUME NEW u \in BridgeTrees
      PROVE  /\ newTree[u].BridgeTimes = tree[u].BridgeTimes
             /\ newTree[u].rootTimes = tree[u].rootTimes
             /\ newTree[u].topology_change
                    \in {tree[u].topology_change, FALSE}
  <2>1. tree[u] \in TreeRecs BY <1>t
  <2>2. \/ newTree[u] = tree[u]
        \/ newTree[u] = [tree[u] EXCEPT !.topology_change = FALSE]
     OBVIOUS
  <2> HIDE DEF newTree
  <2>3. QED BY <2>1, <2>2 DEF TreeRecs
<1>8. newRcv \in [Ports -> RcvRecs] /\ newInfo \in [Ptps -> InfoRecs]
   BY <1>4, <1>5
<1>9. ASSUME NEW d \in Bridges PROVE brg'[d].Max_Age = brg[d].Max_Age
  <2>1. brg[d] \in BridgeRecs BY <1>t
  <2>2. \/ brg'[d] = brg[d]
        \/ brg'[d] = [brg[d] EXCEPT !.bridgeEnabled = up]
     BY <1>t DEF MSTP_IN_set_bridge_enable
  <2>3. QED BY <2>1, <2>2 DEF BridgeRecs
<1> HIDE DEF newTree, newInfo, newTc, newRcv
<1>10. PICK p, s, a :
         Begin(b, [ tree |-> newTree, prt |-> p, rcv |-> newRcv,
                    info |-> newInfo, pst |-> s, tc |-> newTc,
                    ageing |-> a ])
   BY <1>1
<1> DEFINE c == [ tree |-> newTree, prt |-> p, rcv |-> newRcv,
                  info |-> newInfo, pst |-> s, tc |-> newTc, ageing |-> a ]
<1>11. /\ c.tree = newTree /\ c.info = newInfo /\ c.tc = newTc
       /\ c.rcv = newRcv
   OBVIOUS
<1>12. Begin(b, c) BY <1>10
<1> HIDE DEF c
<1>13. BeginCalm(c)
   BY <1>2, <1>3, <1>4, <1>5, <1>6, <1>7, <1>8, <1>11 DEF BeginCalm
<1>14. QED BY <1>9, <1>12, <1>13, BeginTimes

\* Events that leave the timers and the machines of the trees alone.
LEMMA KeptTimes ==
    ASSUME TypeOK, TimesInv, Idle, role' = role, tc' = tc,
           \A p \in Ports : BpdusFrom(p),
           \A d \in Bridges : brg'[d].Max_Age # 0,
           \A u \in BridgeTrees :
               /\ tree'[u].rootTimes = tree[u].rootTimes
               /\ tree'[u].topology_change = tree[u].topology_change
               /\ tree[u].BridgeTimes.Max_Age # 0 =>
                      tree'[u].BridgeTimes.Max_Age # 0,
           \A x \in Ptps :
               /\ InfoAsked(x)
               /\ vec'[x].portTimes.Max_Age = vec[x].portTimes.Max_Age
               /\ vec'[x].designatedTimes = vec[x].designatedTimes
    PROVE  TimesInv'
<1>1. ASSUME NEW x \in Ptps PROVE Calm(x)
  <2>1. TreeOf(x) \in BridgeTrees BY TreeOfType
  <2>2. info'[x].PISM = info[x].PISM
        /\ info'[x].selected \in {info[x].selected, FALSE}
     BY DEF InfoAsked, InfoSame
  <2>3. QED BY <2>1, <2>2 DEF Calm
<1>2. ASSUME NEW d \in Bridges PROVE BridgeTimed(d)'
  <2>1. <<d, 0>> \in BridgeTrees BY DEF BridgeTrees, Trees
  <2>2. BridgeTimed(d) BY DEF TimesInv
  <2>3. tree'[<<d, 0>>].BridgeTimes.Max_Age # 0
     BY <2>1, <2>2 DEF BridgeTimed
  <2>4. QED BY <2>1, <2>2, <2>3, FlagKept
<1>3. QED BY <1>1, <1>2, CalmSuffices

\* Commands.
LEMMA CommandTimes ==
    ASSUME TypeOK, TimesInv, Idle, NEW name, NEW on, NEW value,
           IsCommand(name, on, value), Execute(name, on, value),
           name = "times" => value[1] # 0
    PROVE  TimesInv'
<1>t. /\ brg \in [Bridges -> BridgeRecs] /\ info \in [Ptps -> InfoRecs]
      /\ tree \in [BridgeTrees -> TreeRecs] /\ vec \in [Ptps -> VecRecs]
      /\ tc \in [Ptps -> TcRecs] /\ rcv \in [Ports -> RcvRecs]
   BY DEF TypeOK, MachineTypeOK
<1>m. \A d \in Bridges : brg[d].Max_Age # 0 BY DEF TimesInv, BridgeTimed
<1>b. ASSUME NEW b \in Bridges, NEW new, brg' = [brg EXCEPT ![b] = new],
             new.Max_Age # 0
      PROVE  \A d \in Bridges : brg'[d].Max_Age # 0
   BY <1>t, <1>m, <1>b
<1>p. ASSUME rcv' = rcv, chan' = chan PROVE \A p \in Ports : BpdusFrom(p)
   BY <1>p DEF BpdusFrom
<1>1. CASE name = "address" /\ MSTP_IN_set_bridge_address(on, value)
  <2>1. on \in Bridges BY <1>1 DEF IsCommand, RunFlags, QuietFlags
  <2> DEFINE moved == [u \in BridgeTrees |->
                 IF u[1] = on
                 THEN [tree[u] EXCEPT !.BridgeIdentifier =
                           BridgeIdentifier(BridgePrio(@), value)]
                 ELSE tree[u]]
             c == [Current EXCEPT !.tree = moved]
  <2>2. Begin(on, c) /\ brg' = brg
     BY <1>1 DEF MSTP_IN_set_bridge_address
  <2>3. /\ c.tree = moved /\ c.tc = tc /\ c.info = info /\ c.rcv = rcv
     BY DEF Current
  <2>4. moved \in [BridgeTrees -> TreeRecs]
    <3>1. value \in Nat
       BY <1>1, SpaceAssumption DEF IsCommand, RunFlags, QuietFlags
    <3>2. ASSUME NEW u \in BridgeTrees
          PROVE  BridgeIdentifier(BridgePrio(tree[u].BridgeIdentifier), value)
                     \in Nat
      <4>1. tree[u].BridgeIdentifier \in Nat BY <1>t, TreeFields
      <4>2. QED BY <3>1, <4>1, IdentifierTypes
    <3>3. QED BY <1>t, <3>2, TreeFields
  <2>5. ASSUME NEW u \in BridgeTrees
        PROVE  /\ moved[u].BridgeTimes = tree[u].BridgeTimes
               /\ moved[u].rootTimes = tree[u].rootTimes
               /\ moved[u].topology_change = tree[u].topology_change
    <3>1. tree[u] \in TreeRecs BY <1>t
    <3>2. \/ moved[u] = tree[u]
          \/ \E v : moved[u] = [tree[u] EXCEPT !.BridgeIdentifier = v]
       OBVIOUS
    <3> HIDE DEF moved
    <3>3. QED BY <3>1, <3>2 DEF TreeRecs
  <2> HIDE DEF moved, c
  <2>6. BeginCalm(c) BY <1>t, <2>3, <2>4, <2>5 DEF BeginCalm
  <2>7. \A d \in Bridges : brg'[d].Max_Age = brg[d].Max_Age BY <2>2
  <2>8. QED BY <2>1, <2>2, <2>6, <2>7, BeginTimes
<1>2. CASE name = "version" /\ SetProtocolVersion(on, value)
  <2>1. on \in Bridges BY <1>2 DEF IsCommand, RunFlags, QuietFlags
  <2>2. Begin(on, Current) BY <1>2 DEF SetProtocolVersion
  <2>3. BeginCalm(Current) BY <1>t DEF BeginCalm, Current
  <2>4. ASSUME NEW d \in Bridges PROVE brg'[d].Max_Age = brg[d].Max_Age
    <3>1. brg[d] \in BridgeRecs BY <1>t
    <3>2. \/ brg'[d] = brg[d]
          \/ brg'[d] = [brg[d] EXCEPT !.ForceProtocolVersion = value]
       BY <1>2, <1>t DEF SetProtocolVersion
    <3>3. QED BY <3>1, <3>2 DEF BridgeRecs
  <2>5. QED BY <2>1, <2>2, <2>3, <2>4, BeginTimes
<1>3. CASE \/ name = "times" /\ SetMaxAgeAndForwardDelay(on, value[1], value[2])
           \/ name = "maxhops" /\ SetMaxHops(on, value)
  <2>1. on \in Bridges BY <1>3 DEF IsCommand, RunFlags, QuietFlags
  <2>2. brg[on] \in BridgeRecs BY <1>t, <2>1
  <2>3. PICK new : /\ ChangeBridgeTimes(on, new)
                   /\ \/ /\ name = "times"
                         /\ new = [brg[on] EXCEPT !.Max_Age = value[1],
                                                  !.Forward_Delay = value[2]]
                      \/ new = [brg[on] EXCEPT !.MaxHops = value]
     BY <1>3 DEF SetMaxAgeAndForwardDelay, SetMaxHops
  <2>4. new.Max_Age # 0 BY <1>m, <2>1, <2>2, <2>3 DEF BridgeRecs
  <2>5. /\ brg' = [brg EXCEPT ![on] = new] /\ role' = role /\ tc' = tc
        /\ info' = Reselected({x \in Ptps : BrOf(x) = on})
        /\ rcv' = rcv /\ chan' = chan
     BY <2>3 DEF ChangeBridgeTimes, machineVars
  <2>6. ASSUME NEW u \in BridgeTrees
        PROVE  /\ tree'[u].rootTimes = tree[u].rootTimes
               /\ tree'[u].topology_change = tree[u].topology_change
               /\ tree[u].BridgeTimes.Max_Age # 0 =>
                      tree'[u].BridgeTimes.Max_Age # 0
    <3>1. tree[u] \in TreeRecs /\ tree[u].BridgeTimes \in Times
       BY <1>t, TreeFields
    <3>2. CASE tree'[u] = tree[u] BY <3>2
    <3>3. CASE tree'[u] = [tree[u] EXCEPT
                  !.BridgeTimes.remainingHops = new.MaxHops,
                  !.BridgeTimes.Forward_Delay = new.Forward_Delay,
                  !.BridgeTimes.Max_Age = new.Max_Age,
                  !.BridgeTimes.Hello_Time = HelloTime]
      <4>1. tree'[u].rootTimes = tree[u].rootTimes
            /\ tree'[u].topology_change = tree[u].topology_change
         BY <3>1, <3>3 DEF TreeRecs
      <4> DEFINE m == new.Max_Age
                 times == [tree[u].BridgeTimes EXCEPT
                             !.remainingHops = new.MaxHops,
                             !.Forward_Delay = new.Forward_Delay,
                             !.Max_Age = m, !.Hello_Time = HelloTime]
      <4>2. tree'[u].BridgeTimes.Max_Age = m
        <5>1. tree'[u].BridgeTimes = times BY <3>1, <3>3 DEF TreeRecs
        <5> HIDE DEF m
        <5>2. times.Max_Age = m BY <3>1 DEF Times
        <5>3. QED BY <5>1, <5>2
      <4>3. QED BY <2>4, <4>1, <4>2
    <3>4. QED BY <2>3, <3>2, <3>3 DEF ChangeBridgeTimes
  <2>7. ASSUME NEW x \in Ptps
        PROVE  /\ vec'[x].portTimes.Max_Age = vec[x].portTimes.Max_Age
               /\ vec'[x].designatedTimes = vec[x].designatedTimes
    <3>1. vec[x] \in VecRecs /\ vec[x].portTimes \in Times
       BY <1>t, VecFields
    <3>2. \/ vec'[x] = vec[x]
          \/ vec'[x] = [vec[x] EXCEPT !.portTimes.Hello_Time = HelloTime]
       BY <2>3 DEF ChangeBridgeTimes
    <3>3. QED BY <3>1, <3>2 DEF VecRecs, Times
  <2>8. \A x \in Ptps : InfoAsked(x) BY <2>5, ReselectedAsked
  <2>9. \A d \in Bridges : brg'[d].Max_Age # 0 BY <1>b, <2>1, <2>4, <2>5
  <2>10. QED BY <1>p, <2>5, <2>6, <2>7, <2>8, <2>9, KeptTimes
<1>4. CASE \/ name = "txholdcount" /\ SetTxHoldCount(on, value)
           \/ name = "ageing" /\ SetAgeingTime(on, value)
  <2>1. on \in Bridges BY <1>4 DEF IsCommand, RunFlags, QuietFlags
  <2>2. brg[on] \in BridgeRecs BY <1>t, <2>1
  <2>3. PICK new : /\ brg' = [brg EXCEPT ![on] = new]
                   /\ \/ new = [brg[on] EXCEPT !.Transmit_Hold_Count = value]
                      \/ new = [brg[on] EXCEPT !.Ageing_Time = value]
     BY <1>4, <1>t, <2>1 DEF SetTxHoldCount, SetAgeingTime
  <2>4. new.Max_Age # 0 BY <1>m, <2>1, <2>2, <2>3 DEF BridgeRecs
  <2>5. /\ info' = info /\ role' = role /\ tree' = tree /\ tc' = tc
        /\ vec' = vec /\ rcv' = rcv /\ chan' = chan
     BY <1>4
     DEF SetTxHoldCount, SetAgeingTime, machineVars, portVars, ptpVars
  <2>6. \A x \in Ptps : InfoAsked(x) BY <2>5, ReselectedAsked
  <2>7. \A d \in Bridges : brg'[d].Max_Age # 0 BY <1>b, <2>1, <2>3, <2>4
  <2>8. QED BY <1>p, <2>5, <2>6, <2>7, KeptTimes
<1>5. CASE /\ name = "treeprio"
           /\ MSTP_IN_set_msti_bridge_config(on[1], on[2], value)
  <2>1. PICK v : tree' = [tree EXCEPT ![<<on[1], on[2]>>] =
              [tree[<<on[1], on[2]>>] EXCEPT !.BridgeIdentifier = v]]
     BY <1>5, <1>t DEF MSTP_IN_set_msti_bridge_config
  <2>2. ASSUME NEW u \in BridgeTrees
        PROVE  /\ tree'[u].rootTimes = tree[u].rootTimes
               /\ tree'[u].topology_change = tree[u].topology_change
               /\ tree'[u].BridgeTimes = tree[u].BridgeTimes
    <3>1. tree[u] \in TreeRecs BY <1>t
    <3>2. \/ tree'[u] = tree[u]
          \/ tree'[u] = [tree[u] EXCEPT !.BridgeIdentifier = v]
       BY <1>t, <2>1
    <3>3. QED BY <3>1, <3>2 DEF TreeRecs
  <2>3. /\ brg' = brg /\ role' = role /\ tc' = tc /\ vec' = vec
        /\ rcv' = rcv /\ chan' = chan
        /\ info' = Reselected(PtpsOfTree(on[1], on[2]))
     BY <1>5 DEF MSTP_IN_set_msti_bridge_config, machineVars
  <2>4. \A x \in Ptps : InfoAsked(x) BY <2>3, ReselectedAsked
  <2>5. QED BY <1>m, <1>p, <2>2, <2>3, <2>4, KeptTimes
<1>6. CASE MSTP_IN_port_mcheck(on)
  <2>1. /\ brg' = brg /\ role' = role /\ tree' = tree /\ tc' = tc
        /\ vec' = vec /\ rcv' = rcv /\ chan' = chan
        /\ info' = [info EXCEPT ![Cist(on)] =
                      [info[Cist(on)] EXCEPT !.proposing = TRUE]]
     BY <1>6, <1>t DEF MSTP_IN_port_mcheck
  <2>2. ASSUME NEW x \in Ptps PROVE InfoAsked(x)
    <3>1. info[x] \in InfoRecs BY <1>t
    <3>2. \/ info'[x] = info[x]
          \/ info'[x] = [info[x] EXCEPT !.proposing = TRUE]
       BY <1>t, <2>1
    <3>3. QED BY <3>1, <3>2 DEF InfoAsked, InfoSame, InfoRecs
  <2>3. QED BY <1>m, <1>p, <2>1, <2>2, KeptTimes
<1>7. CASE \/ SetQuietFlag(on, name, value) \/ SetRunFlag(on, name, value)
           \/ SetExternalPathCost(on, value) \/ SetAdminP2P(on, value)
           \/ SetAdminEdgePort(on, value)
  <2>1. /\ brg' = brg /\ role' = role /\ tree' = tree /\ tc' = tc
        /\ vec' = vec /\ rcv' = rcv /\ chan' = chan
     BY <1>7
     DEF SetQuietFlag, SetRunFlag, SetExternalPathCost, SetAdminP2P,
         SetAdminEdgePort, machineVars, portVars, ptpVars
  <2>2. PICK S : info' = Reselected(S) \/ info' = info
     BY <1>7
     DEF SetQuietFlag, SetRunFlag, SetExternalPathCost, SetAdminP2P,
         SetAdminEdgePort, ptpVars
  <2>3. \A x \in Ptps : InfoAsked(x) BY <2>2, ReselectedAsked
  <2>4. QED BY <1>m, <1>p, <2>1, <2>3, KeptTimes
<1>8. CASE SetTreePortPriority(on, value) \/ SetInternalPathCost(on, value)
  <2>1. PICK new :
           /\ ChangeTreePort(on, new)
           /\ \/ \E v : new = [vec[on] EXCEPT !.portId = v]
              \/ \E v, w : new = [vec[on] EXCEPT
                                    !.AdminInternalPortPathCost = v,
                                    !.InternalPortPathCost = w]
     BY <1>8 DEF SetTreePortPriority, SetInternalPathCost
  <2>2. /\ brg' = brg /\ role' = role /\ tree' = tree /\ tc' = tc
        /\ vec' = [vec EXCEPT ![on] = new] /\ rcv' = rcv /\ chan' = chan
     BY <2>1 DEF ChangeTreePort, machineVars
  <2>3. PICK S : info' = Reselected(S) \/ info' = info
     BY <2>1 DEF ChangeTreePort
  <2>4. \A x \in Ptps : InfoAsked(x) BY <2>3, ReselectedAsked
  <2>5. ASSUME NEW x \in Ptps
        PROVE  /\ vec'[x].portTimes = vec[x].portTimes
               /\ vec'[x].designatedTimes = vec[x].designatedTimes
    <3>1. vec[x] \in VecRecs BY <1>t
    <3>2. CASE vec'[x] = vec[x] BY <3>2
    <3>3. CASE x = on /\ vec'[x] = new BY <2>1, <3>1, <3>3 DEF VecRecs
    <3>4. QED BY <1>t, <2>2, <3>2, <3>3
  <2>6. QED BY <1>m, <1>p, <2>2, <2>4, <2>5, KeptTimes
<1>9. QED
   BY <1>1, <1>2, <1>3, <1>4, <1>5, <1>6, <1>7, <1>8 DEF Execute

\* Every event.
LEMMA EventTimes ==
    ASSUME TypeOK, TimesInv, Event
    PROVE  TimesInv'
<1>0. Idle BY DEF Event
<1>t. /\ rcv \in [Ports -> RcvRecs] /\ vec \in [Ptps -> VecRecs]
      /\ chan \in [Ports -> Seq(Bpdus)]
   BY DEF TypeOK, MachineTypeOK
<1>m. \A d \in Bridges : brg[d].Max_Age # 0 BY DEF TimesInv, BridgeTimed
<1>k. ASSUME brg' = brg, role' = role, tree' = tree, tc' = tc, info' = info,
             \A p \in Ports : BpdusFrom(p),
             \A x \in Ptps :
                 /\ vec'[x].portTimes = vec[x].portTimes
                 /\ vec'[x].designatedTimes = vec[x].designatedTimes
      PROVE  TimesInv'
  <2>1. \A x \in Ptps : InfoAsked(x) BY <1>k DEF InfoAsked, InfoSame
  <2>2. QED BY <1>0, <1>k, <1>m, <2>1, KeptTimes
<1>1. ASSUME NEW b \in Bridges, MSTP_IN_one_second(b) PROVE TimesInv'
  <2>1. CASE DisabledTick(b)
    <3>1. /\ brg' = brg /\ role' = role /\ tree' = tree /\ tc' = tc
          /\ info' = info /\ vec' = vec /\ rcv' = rcv /\ chan' = chan
       BY <2>1 DEF DisabledTick, portVars, ptpVars
    <3>2. \A p \in Ports : BpdusFrom(p) BY <3>1 DEF BpdusFrom
    <3>3. QED BY <1>k, <3>1, <3>2
  <2>2. QED BY <1>0, <1>1, <2>1, TickTimes DEF MSTP_IN_one_second
<1>2. ASSUME NEW b \in Bridges, FlapBridge(b) PROVE TimesInv'
  <2>1. (~brg[b].bridgeEnabled) \in BOOLEAN OBVIOUS
  <2>2. MSTP_IN_set_bridge_enable(b, ~brg[b].bridgeEnabled)
     BY <1>2 DEF FlapBridge
  <2>3. QED BY <1>0, <2>1, <2>2, BridgeEnableTimes
<1>3. ASSUME NEW p \in Ports, MSTP_IN_rx_bpdu(p) \/ Lose(p) PROVE TimesInv'
  <2>1. /\ brg' = brg /\ role' = role /\ tree' = tree /\ tc' = tc
        /\ info' = info /\ vec' = vec
        /\ chan[p] # <<>> /\ chan' = [chan EXCEPT ![p] = Tail(chan[p])]
     BY <1>3 DEF MSTP_IN_rx_bpdu, Lose, machineVars, portVars, ptpVars
  <2>2. \/ rcv' = rcv
        \/ rcv' = [rcv EXCEPT ![p] = [rcv[p] EXCEPT !.rcvdBpdu = TRUE,
                                        !.bpdu = Head(chan[p])]]
     BY <1>3
     DEF MSTP_IN_rx_bpdu, RxGuarded, RxDropped, RxKept, Lose, portVars
  <2>3. ASSUME NEW q \in Ports PROVE BpdusFrom(q)
    <3>1. chan'[q] \in {chan[q], Tail(chan[q])}
       BY <1>t, <2>1
    <3>2. CASE rcv'[q] = rcv[q] BY <3>1, <3>2 DEF BpdusFrom
    <3>3. CASE q = p /\ rcv'[q] = [rcv[p] EXCEPT !.rcvdBpdu = TRUE,
                                      !.bpdu = Head(chan[p])]
      <4>1. rcv[p] \in RcvRecs BY <1>t
      <4>2. rcv'[q].bpdu = Head(chan[p]) BY <3>3, <4>1 DEF RcvRecs
      <4>3. QED BY <2>1, <3>1, <3>3, <4>2 DEF BpdusFrom
    <3>4. QED BY <1>t, <2>2, <3>2, <3>3
  <2>4. QED BY <1>k, <2>1, <2>3
<1>4. ASSUME NEW p \in Ports, FlapPort(p) \/ ShutDown(p) PROVE TimesInv'
  <2>0. PortUp(p) \/ PortDown(p) BY <1>4 DEF FlapPort, ShutDown
  <2>1. /\ brg' = brg /\ role' = role /\ tree' = tree /\ tc' = tc
        /\ info' = info /\ rcv' = rcv
     BY <2>0 DEF PortUp, PortDown, machineVars
  <2>2. chan' = chan \/ chan' = [chan EXCEPT ![p] = <<>>]
     BY <2>0 DEF PortUp, PortDown
  <2>3. ASSUME NEW q \in Ports PROVE BpdusFrom(q)
    <3>1. chan'[q] \in {chan[q], <<>>} BY <1>t, <2>2
    <3>2. QED BY <2>1, <3>1 DEF BpdusFrom
  <2>4. ASSUME NEW x \in Ptps
        PROVE  /\ vec'[x].portTimes = vec[x].portTimes
               /\ vec'[x].designatedTimes = vec[x].designatedTimes
    <3>1. vec[x] \in VecRecs BY <1>t
    <3>2. \/ vec'[x] = vec[x]
          \/ \E v : vec'[x] = [vec[x] EXCEPT !.InternalPortPathCost = v]
       BY <2>0 DEF PortUp, PortDown
    <3>3. QED BY <3>1, <3>2 DEF VecRecs
  <2>5. QED BY <1>k, <2>1, <2>3, <2>4
<1>5. ASSUME NEW c \in Commands, Tell(c) PROVE TimesInv'
   BY <1>0, <1>5, EventAssumption, MaxAgeAssumption, CommandTimes DEF Tell
<1>6. QED BY <1>1, <1>2, <1>3, <1>4, <1>5 DEF Event

\* TimesInv is an invariant.
LEMMA TimesInvAlways == Spec => [](TypeOK /\ TimesInv)
<1> DEFINE Inv == TypeOK /\ TimesInv
<1>1. Init => Inv
  <2> SUFFICES ASSUME Init PROVE TimesInv BY InitTypes
  <2>1. ASSUME NEW p \in Ports
        PROVE  TimedBpdu(rcv[p].bpdu) /\ chan[p] \in Seq(TimedBpdus)
    <3>1. rcv[p].bpdu = BlankBpdu /\ chan[p] = <<>> BY DEF Init
    <3>2. QED BY <3>1 DEF TimedBpdu, BlankBpdu
  <2>2. ASSUME NEW b \in Bridges PROVE BridgeTimed(b)
    <3>1. <<b, 0>> \in BridgeTrees BY DEF BridgeTrees, Trees
    <3>2. brg[b] = BootBridge[b] /\ tree[<<b, 0>>] = create_tree(<<b, 0>>)
       BY <3>1 DEF Init
    <3>3. /\ tree[<<b, 0>>].BridgeTimes.Max_Age = BootBridge[b].Max_Age
          /\ tree[<<b, 0>>].topology_change = FALSE
       BY <3>2 DEF create_tree, BridgeTimes
    <3>4. QED
       BY <3>2, <3>3, MaxAgeAssumption DEF BridgeTimed, ChangeTimed
  <2>3. ASSUME NEW x \in Ptps PROVE PortTimed(x)
    <3>1. /\ info[x].PISM = "DISABLED" /\ info[x].selected = FALSE
          /\ role[x].learn = FALSE /\ tc[x].TCSM = "INACTIVE"
       BY DEF Init
    <3>2. vec[x] = create_vec(x) BY DEF Init
    <3>3. vec[x].portTimes.Max_Age = BootBridge[BrOf(x)].Max_Age
       BY <3>2 DEF create_vec, BridgeTimes
    <3>4. vec[x].portTimes.Max_Age # 0
       BY <3>3, PtpTypes, MaxAgeAssumption
    <3>5. ~Wanted(x) /\ Classified(x) BY <3>1 DEF Wanted, Classified
    <3>6. QED BY <3>4, <3>5 DEF PortTimed
  <2>4. QED BY <2>1, <2>2, <2>3 DEF TimesInv
<1>2. Inv /\ [Next]_vars => Inv'
  <2> SUFFICES ASSUME Inv, [Next]_vars PROVE Inv' OBVIOUS
  <2>1. CASE Run BY <2>1, RunTypes, MachineTimes, RunEndTimes DEF Run
  <2>2. CASE Event BY <2>2, EventTypes, EventTimes
  <2>3. CASE UNCHANGED vars
    <3>0. UNCHANGED <<active, pos, brg, tree, rcv, info, vec, role, tc, chan>>
       BY <2>3 DEF vars, schedVars, portVars, ptpVars
    <3>1. TypeOK'
       BY <2>3
       DEF vars, schedVars, portVars, ptpVars, envVars, TypeOK, MachineTypeOK
    <3>2. ASSUME NEW p \in Ports
          PROVE  TimedBpdu(rcv[p].bpdu)' /\ (chan[p] \in Seq(TimedBpdus))'
      <4>1. TimedBpdus' = TimedBpdus
         BY DEF TimedBpdus, TimedBpdu, Bpdus, MstiMessages
      <4>2. QED BY <3>0, <4>1 DEF TimesInv, TimedBpdu
    <3>3. ASSUME NEW b \in Bridges PROVE BridgeTimed(b)'
      <4>1. BridgeTimed(b) BY DEF TimesInv
      <4>2. QED BY <3>0, <4>1, FlagKept DEF BridgeTimed
    <3>4. ASSUME NEW x \in Ptps, IsCist(x)' PROVE PortTimed(x)'
      <4>1. IsCist(x) /\ TreeOf(x)' = TreeOf(x) /\ BrOf(x)' = BrOf(x)
         BY <3>4 DEF IsCist, Mstid, TreeOf, BrOf, PortOf
      <4>2. PortTimed(x) BY <4>1 DEF TimesInv
      <4>3. /\ Bpdu(x)'.type = Bpdu(x).type
            /\ Rank(Informer(x))' = Rank(Informer(x))
         BY <3>0 DEF Bpdu, PortOf, Rank, Informer, Mstid
      <4>4. Classified(x)' BY <3>0, <4>1, <4>2, <4>3 DEF PortTimed, Classified
      <4>5. QED BY <3>0, <4>1, <4>2, <4>4 DEF PortTimed, Wanted, Chosen
    <3>5. QED BY <3>1, <3>2, <3>3, <3>4 DEF TimesInv
  <2>4. QED BY <2>1, <2>2, <2>3 DEF Next
<1>3. QED BY <1>1, <1>2, PTL DEF Spec

\* The part of TopologyChangeHasTimer that is about the CIST.
CistChangeHasTimer ==
    \A b \in Bridges : tree[<<b, 0>>].topology_change =>
        \E x \in PtpsOfTree(b, 0) : tc[x].tcWhile # 0

\* In every network of bridges running mstpd and at every step: the CIST of a
\* bridge reports a topology change only while the timer of one of its ports
\* runs, as the comment of set_TopologyChange says.  The flag cannot outlive
\* the timers, since the time newTcWhile gives is never zero: it comes from
\* times that have been selected, and those from a bridge or from a BPDU.
THEOREM CistChangeAlwaysTimed == Spec => []CistChangeHasTimer
<1>1. TypeOK /\ TimesInv => CistChangeHasTimer
   BY DEF TimesInv, BridgeTimed, ChangeTimed, CistChangeHasTimer
<1>2. QED BY <1>1, TimesInvAlways, PTL

\* In every network without MSTIs: no tree reports a topology change without a
\* timer.  The flag of an MSTI can be set without one: the messages of an MSTI
\* carry no times, and newTcWhile on a port that does not send RSTP then takes
\* a maximum age and a forward delay of zero.
THEOREM TopologyChangeAlwaysTimed ==
    ASSUME Mstis = {}
    PROVE  Spec => []TopologyChangeHasTimer
<1>1. TypeOK /\ TimesInv => TopologyChangeHasTimer
  <2> SUFFICES ASSUME TypeOK, TimesInv, NEW u \in BridgeTrees,
                      tree[u].topology_change
               PROVE  \E x \in PtpsOfTree(u[1], u[2]) : tc[x].tcWhile # 0
     BY DEF TopologyChangeHasTimer
  <2>1. u[1] \in Bridges /\ u = <<u[1], 0>> /\ u[2] = 0
     BY DEF BridgeTrees, Trees
  <2>2. tree[u].topology_change = TRUE BY TreeFields DEF TypeOK, MachineTypeOK
  <2>3. QED BY <2>1, <2>2 DEF TimesInv, BridgeTimed, ChangeTimed
<1>2. QED BY <1>1, TimesInvAlways, PTL
=============================================================================
