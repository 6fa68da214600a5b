----------------------------- MODULE MstpSafety -----------------------------
(***************************************************************************)
(* PortRolesAndStates is an invariant of every network: the role of a      *)
(* port, the state of its Port Role Transitions machine, what that machine *)
(* asks for, the state of its Port State Transition machine and the state  *)
(* the kernel was given agree at every step.                               *)
(***************************************************************************)
EXTENDS MstpProperties, MstpTypes

\* A run is in progress only on a bridge that is enabled.
ActiveEnabled == active # NoBridge => brg[active].bridgeEnabled

\* The inductive invariant.
RoleInv == TypeOK /\ ActiveEnabled /\ PortRolesAndStates

-----------------------------------------------------------------------------
(* Where the transitions of the Port Role Transitions machine start. *)

\* The states the resting state of a role may move to.
LEMMA RestingStates ==
    ASSUME NEW x
    PROVE  /\ DisabledPort_run(x) \in {"DISABLED_PORT", None}
           /\ MasterPort_run(x) \in (MasterStates \ {"MASTER_PORT"})
                                        \cup {None}
           /\ RootPort_run(x) \in RootStates \cup {None}
           /\ DesignatedPort_run(x) \in (DesignatedStates
                                           \ {"DESIGNATED_PORT"}) \cup {None}
           /\ AlternatePort_run(x) \in (AlternateStates \ {"BLOCK_PORT"})
                                           \cup {None}
           /\ MasterPort_run(x) = "MASTER_FORWARD" => role[x].learn
           /\ RootPort_run(x) = "ROOT_FORWARD" => role[x].learn
           /\ DesignatedPort_run(x) = "DESIGNATED_FORWARD" => role[x].learn
<1>1. DisabledPort_run(x) \in {"DISABLED_PORT", None}
   BY DEF DisabledPort_run
<1>2. /\ MasterPort_run(x) \in (MasterStates \ {"MASTER_PORT"}) \cup {None}
      /\ MasterPort_run(x) = "MASTER_FORWARD" => role[x].learn
   BY DEF MasterPort_run, MasterStates, None
<1>3. /\ RootPort_run(x) \in RootStates \cup {None}
      /\ RootPort_run(x) = "ROOT_FORWARD" => role[x].learn
   BY DEF RootPort_run, RootStates, None
<1>4. /\ DesignatedPort_run(x)
             \in (DesignatedStates \ {"DESIGNATED_PORT"}) \cup {None}
      /\ DesignatedPort_run(x) = "DESIGNATED_FORWARD" => role[x].learn
   BY DEF DesignatedPort_run, DesignatedStates, None
<1>5. AlternatePort_run(x) \in (AlternateStates \ {"BLOCK_PORT"}) \cup {None}
   BY DEF AlternatePort_run, AlternateStates, None
<1>6. QED BY <1>1, <1>2, <1>3, <1>4, <1>5

\* Which state each transition of the Port Role Transitions machine starts
\* from.
LEMMA RoleSources ==
    ASSUME NEW x, role[x].PRTSM \in PRTSM_states, role[x].selectedRole \in Roles
    PROVE  LET s == PRTSM_run(x)
               from == role[x].PRTSM
           IN  /\ s \in MasterStates \ {"MASTER_PORT"} => from = "MASTER_PORT"
               /\ s \in RootStates \ {"ROOT_PORT"} => from = "ROOT_PORT"
               /\ s \in DesignatedStates \ {"DESIGNATED_PORT"}
                      => from = "DESIGNATED_PORT"
               /\ s \in {"BACKUP_PORT", "ALTERNATE_PROPOSED",
                         "ALTERNATE_AGREED"} => from = "ALTERNATE_PORT"
               /\ s = "DISABLED_PORT" =>
                      \/ from = "DISABLED_PORT"
                      \/ /\ from = "DISABLE_PORT"
                         /\ ~pst[x].learning /\ ~pst[x].forwarding
               /\ s = "ALTERNATE_PORT" =>
                      \/ from \in AlternateStates \ {"BLOCK_PORT"}
                      \/ /\ from = "BLOCK_PORT"
                         /\ ~pst[x].learning /\ ~pst[x].forwarding
               /\ s = "BLOCK_PORT" =>
                      role[x].selectedRole \in {"Alternate", "Backup"}
               /\ s \in {"MASTER_FORWARD", "ROOT_FORWARD",
                         "DESIGNATED_FORWARD"} => role[x].learn
<1> DEFINE s == PRTSM_run(x)
           from == role[x].PRTSM
<1> USE DEF None, DisabledStates, MasterStates, RootStates, DesignatedStates,
            AlternateStates
<1>0. ASSUME NEW r \in Roles
      PROVE  /\ EntryState(r) \in {"DISABLE_PORT", "MASTER_PORT", "ROOT_PORT",
                                   "DESIGNATED_PORT", "BLOCK_PORT"}
             /\ EntryState(r) = "BLOCK_PORT" => r \in {"Alternate", "Backup"}
   BY DEF EntryState, Roles
<1>1. CASE role[x].role # role[x].selectedRole /\ Settled(x)
  <2>1. s = EntryState(role[x].selectedRole) BY <1>1 DEF PRTSM_run
  <2>2. QED BY <1>0, <2>1
<1>2. CASE ~(role[x].role # role[x].selectedRole /\ Settled(x))
  <2>1. CASE from = "INIT_PORT"
    <3>1. s = "DISABLE_PORT" BY <1>2, <2>1 DEF PRTSM_run
    <3>2. QED BY <3>1
  <2>2. CASE from = "DISABLE_PORT"
    <3>1. \/ s = None
          \/ /\ s = "DISABLED_PORT"
             /\ ~pst[x].learning /\ ~pst[x].forwarding
       BY <1>2, <2>2 DEF PRTSM_run
    <3>2. QED BY <2>2, <3>1
  <2>3. CASE from = "DISABLED_PORT"
    <3>1. s \in {None, DisabledPort_run(x)} BY <1>2, <2>3 DEF PRTSM_run
    <3>2. QED BY <2>3, <3>1, RestingStates
  <2>4. CASE from = "MASTER_PORT"
    <3>1. s \in {None, MasterPort_run(x)} BY <1>2, <2>4 DEF PRTSM_run
    <3>2. QED BY <2>4, <3>1, RestingStates
  <2>5. CASE from = "ROOT_PORT"
    <3>1. s \in {None, RootPort_run(x)} BY <1>2, <2>5 DEF PRTSM_run
    <3>2. QED BY <2>5, <3>1, RestingStates
  <2>6. CASE from = "DESIGNATED_PORT"
    <3>1. s \in {None, DesignatedPort_run(x)} BY <1>2, <2>6 DEF PRTSM_run
    <3>2. QED BY <2>6, <3>1, RestingStates
  <2>7. CASE from = "BLOCK_PORT"
    <3>1. \/ s = None
          \/ /\ s = "ALTERNATE_PORT"
             /\ ~pst[x].learning /\ ~pst[x].forwarding
       BY <1>2, <2>7 DEF PRTSM_run
    <3>2. QED BY <2>7, <3>1
  <2>8. CASE from = "ALTERNATE_PORT"
    <3>1. s \in {None, AlternatePort_run(x)} BY <1>2, <2>8 DEF PRTSM_run
    <3>2. QED BY <2>8, <3>1, RestingStates
  <2>9. CASE from \in MasterStates \ {"MASTER_PORT"}
    <3>1. s = "MASTER_PORT" BY <1>2, <2>9 DEF PRTSM_run
    <3>2. QED BY <3>1
  <2>10. CASE from \in RootStates \ {"ROOT_PORT"}
    <3>1. s = "ROOT_PORT" BY <1>2, <2>10 DEF PRTSM_run
    <3>2. QED BY <3>1
  <2>11. CASE from \in DesignatedStates \ {"DESIGNATED_PORT"}
    <3>1. s = "DESIGNATED_PORT" BY <1>2, <2>11 DEF PRTSM_run
    <3>2. QED BY <3>1
  <2>12. CASE from \in {"BACKUP_PORT", "ALTERNATE_PROPOSED",
                        "ALTERNATE_AGREED"}
    <3>1. s = "ALTERNATE_PORT" BY <1>2, <2>12 DEF PRTSM_run
    <3>2. QED BY <2>12, <3>1
  <2>13. QED
     BY <2>1, <2>2, <2>3, <2>4, <2>5, <2>6, <2>7, <2>8, <2>9, <2>10, <2>11,
        <2>12
     DEF PRTSM_states
<1>3. QED BY <1>1, <1>2

-----------------------------------------------------------------------------
(* The steps of a run. *)

\* PortRolesAndStates of one per-tree port.
RolesAndStates(x) == /\ RoleOfState(x) /\ BlockedRole(x)
                     /\ PortStateFlags(x) /\ ReallyBlocked(x)
                     /\ KernelState(x)

\* The step leaves alone what PortRolesAndStates is about.
RolesKept ==
    /\ \A x \in Ptps : /\ role'[x].PRTSM = role[x].PRTSM
                       /\ role'[x].role = role[x].role
                       /\ role'[x].learn = role[x].learn
                       /\ role'[x].forward = role[x].forward
                       /\ pst'[x] = pst[x]
    /\ \A b \in Bridges : brg'[b].bridgeEnabled = brg[b].bridgeEnabled

\* Such a step preserves it.
LEMMA RolesKeptSuffices ==
    ASSUME PortRolesAndStates, RolesKept
    PROVE  PortRolesAndStates'
<1>1. \A x \in Ptps : BrOf(x) \in Bridges BY PtpTypes
<1>2. SUFFICES ASSUME NEW x \in Ptps PROVE RolesAndStates(x)'
   BY DEF PortRolesAndStates, RolesAndStates
<1>3. /\ role'[x].PRTSM = role[x].PRTSM /\ role'[x].role = role[x].role
      /\ role'[x].learn = role[x].learn /\ role'[x].forward = role[x].forward
      /\ pst'[x] = pst[x]
      /\ brg'[BrOf(x)].bridgeEnabled = brg[BrOf(x)].bridgeEnabled
   BY <1>1 DEF RolesKept
<1>4. RolesAndStates(x) BY DEF PortRolesAndStates, RolesAndStates
<1>5. QED
   BY <1>3, <1>4
   DEF RolesAndStates, RoleOfState, BlockedRole, PortStateFlags,
       ReallyBlocked, KernelState

\* Every machine but the Port Role and Port State Transition machines is such
\* a step.
LEMMA OtherMachines ==
    ASSUME TypeOK, brg' = brg, NEW b \in Bridges, NEW s, Machine_step(b, s),
           s[1] \notin {PRTSM, PSTSM}
    PROVE  RolesKept
<1> USE DEF BA, PRSM, PPMSM, BDSM, PTSM, PISM, PRSSM, PRTSM, PSTSM, TCSM
<1>t. role \in [Ptps -> RoleRecs] BY DEF TypeOK, MachineTypeOK
<1>1. (role' = role /\ pst' = pst) => RolesKept BY DEF RolesKept
<1>2. CASE s[1] = BA /\ BA_to_INCONSISTENT(s[2])
   BY <1>1, <1>2 DEF BA_to_INCONSISTENT, ptpVars
<1>3. CASE s[1] = PRSM /\ PRSM_step(s[2])
   BY <1>1, <1>3 DEF PRSM_step, PRSM_to_DISCARD, PRSM_to_RECEIVE
<1>4. CASE s[1] = PPMSM /\ PPMSM_step(s[2])
   BY <1>1, <1>4
   DEF PPMSM_step, PPMSM_to_CHECKING_RSTP, PPMSM_to_SELECTING_STP,
       PPMSM_to_SENSING, PPMSM_only, ptpVars
<1>5. CASE s[1] = BDSM /\ BDSM_step(s[2])
   BY <1>1, <1>5 DEF BDSM_step, BDSM_to_EDGE, BDSM_to_NOT_EDGE, ptpVars
<1>6. CASE s[1] = PTSM /\ PTSM_step(s[2])
  <2>1. PTSM_only
     BY <1>6
     DEF PTSM_step, PTSM_to_TRANSMIT_INIT, PTSM_to_TRANSMIT_CONFIG,
         PTSM_to_TRANSMIT_TCN, PTSM_to_TRANSMIT_RSTP,
         PTSM_to_TRANSMIT_PERIODIC, PTSM_to_IDLE
  <2>2. QED BY <1>1, <2>1 DEF PTSM_only, ptpVars
<1>7. CASE s[1] = PISM /\ PISM_step(<<s[2], s[3]>>)
  <2> DEFINE x == <<s[2], s[3]>>
  <2>1. pst' = pst
     BY <1>7
     DEF PISM_step, PISM_to_DISABLED, PISM_to_AGED, PISM_to_UPDATE,
         PISM_to_RECEIVE, PISM_to_DESIGNATED, PISM_to_INFERIOR_DESIGNATED,
         PISM_to_NOT_DESIGNATED, PISM_to_OTHER, PISM_to_CURRENT
  <2>2. CASE PISM_to_UPDATE(x) \/ PISM_to_DESIGNATED(x)
    <3>1. PICK v : role' = [role EXCEPT ![x] = [@ EXCEPT !.synced = v]]
       BY <2>2 DEF PISM_to_UPDATE, PISM_to_DESIGNATED
    <3>2. \A y \in Ptps : \E w :
             role'[y] = role[y] \/ role'[y] = [role[y] EXCEPT !.synced = w]
       BY <1>t, <3>1
    <3>3. ASSUME NEW y \in Ptps
          PROVE  /\ role'[y].PRTSM = role[y].PRTSM
                 /\ role'[y].role = role[y].role
                 /\ role'[y].learn = role[y].learn
                 /\ role'[y].forward = role[y].forward
      <4>1. role[y] \in RoleRecs BY <1>t
      <4>2. PICK w : \/ role'[y] = role[y]
                     \/ role'[y] = [role[y] EXCEPT !.synced = w]
         BY <3>2
      <4>3. QED BY <4>1, <4>2 DEF RoleRecs
    <3>4. QED BY <2>1, <3>3 DEF RolesKept
  <2>3. CASE ~(PISM_to_UPDATE(x) \/ PISM_to_DESIGNATED(x))
    <3>1. role' = role
       BY <1>7, <2>3
       DEF PISM_step, PISM_to_DISABLED, PISM_to_AGED, PISM_to_RECEIVE,
           PISM_to_INFERIOR_DESIGNATED, PISM_to_NOT_DESIGNATED,
           PISM_to_OTHER, PISM_to_CURRENT
    <3>2. QED BY <1>1, <2>1, <3>1
  <2>4. QED BY <2>2, <2>3
<1>8. CASE s[1] = PRSSM /\ PRSSM_to_ROLE_SELECTION(b, s[3])
  <2>1. \A y \in Ptps : \E v, w :
           \/ role'[y] = [role[y] EXCEPT !.selectedRole = v]
           \/ role'[y] = [role[y] EXCEPT !.synced = v, !.sync = w]
     BY <1>8, <1>t DEF PRSSM_to_ROLE_SELECTION
  <2>2. pst' = pst BY <1>8 DEF PRSSM_to_ROLE_SELECTION
  <2>3. ASSUME NEW y \in Ptps
        PROVE  /\ role'[y].PRTSM = role[y].PRTSM
               /\ role'[y].role = role[y].role
               /\ role'[y].learn = role[y].learn
               /\ role'[y].forward = role[y].forward
    <3>1. role[y] \in RoleRecs BY <1>t
    <3>2. PICK v, w : \/ role'[y] = [role[y] EXCEPT !.selectedRole = v]
                      \/ role'[y] = [role[y] EXCEPT !.synced = v, !.sync = w]
       BY <2>1
    <3>3. QED BY <3>1, <3>2 DEF RoleRecs
  <2>4. QED BY <2>2, <2>3 DEF RolesKept
<1>9. CASE s[1] = TCSM /\ TCSM_step(<<s[2], s[3]>>)
   BY <1>1, <1>9
   DEF TCSM_step, TCSM_to_INACTIVE, TCSM_to_LEARNING, TCSM_to_DETECTED,
       TCSM_to_NOTIFIED_TCN, TCSM_to_NOTIFIED_TC, TCSM_to_PROPAGATING,
       TCSM_to_ACKNOWLEDGED, TCSM_to_ACTIVE
<1>10. QED
   BY <1>2, <1>3, <1>4, <1>5, <1>6, <1>7, <1>8, <1>9 DEF Machine_step

\* A transition of the Port Role Transitions machine of x changes nothing of
\* the roles of the other ports, and at x preserves the invariant.
LEMMA RoleTransition ==
    ASSUME TypeOK, PortRolesAndStates, brg' = brg, NEW x \in Ptps,
           PRTSM_step(x)
    PROVE  PortRolesAndStates'
<1>t. role \in [Ptps -> RoleRecs] BY DEF TypeOK, MachineTypeOK
<1>s. pst' = pst
   BY DEF PRTSM_step, PRTSM_to_DISABLE_PORT, PRTSM_to_DISABLED_PORT,
      PRTSM_to_MASTER_or_DESIGNATED_PORT, PRTSM_to_ROOT_PORT,
      PRTSM_to_PROPOSED, PRTSM_to_AGREED, PRTSM_to_SYNCED, PRTSM_to_RETIRED,
      PRTSM_to_REROOT, PRTSM_to_LEARN, PRTSM_to_FORWARD, PRTSM_to_DISCARD,
      PRTSM_to_DESIGNATED_PROPOSE, PRTSM_to_BLOCK_PORT, PRTSM_to_BACKUP_PORT,
      PRTSM_to_ALTERNATE_PORT, PRTSM_role_only, PRTSM_role_info
<1>i. \A y \in Ptps : RolesAndStates(y)
   BY DEF PortRolesAndStates, RolesAndStates
<1>o. ASSUME NEW y \in Ptps, y # x PROVE RolesAndStates(y)'
  <2>1. /\ role'[y].PRTSM = role[y].PRTSM /\ role'[y].role = role[y].role
        /\ role'[y].learn = role[y].learn
        /\ role'[y].forward = role[y].forward
    <3>1. CASE PRTSM_to_PROPOSED(x) \/ PRTSM_to_REROOT(x)
      <4>1. role[y] \in RoleRecs BY <1>t
      <4>2. \/ role'[y] = role[y]
            \/ role'[y] = [role[y] EXCEPT !.sync = TRUE,
                                          !.PRTSM = role[y].PRTSM]
            \/ role'[y] = [role[y] EXCEPT !.reRoot = TRUE,
                                          !.PRTSM = role[y].PRTSM]
         BY <1>o, <3>1 DEF PRTSM_to_PROPOSED, PRTSM_to_REROOT
      <4>3. QED BY <4>1, <4>2 DEF RoleRecs
    <3>2. CASE ~(PRTSM_to_PROPOSED(x) \/ PRTSM_to_REROOT(x))
      <4>1. role'[y] = role[y]
         BY <1>o, <1>t, <3>2
         DEF PRTSM_step, PRTSM_to_DISABLE_PORT, PRTSM_to_DISABLED_PORT,
             PRTSM_to_MASTER_or_DESIGNATED_PORT, PRTSM_to_ROOT_PORT,
             PRTSM_to_AGREED, PRTSM_to_SYNCED, PRTSM_to_RETIRED,
             PRTSM_to_LEARN, PRTSM_to_FORWARD, PRTSM_to_DISCARD,
             PRTSM_to_DESIGNATED_PROPOSE, PRTSM_to_BLOCK_PORT,
             PRTSM_to_BACKUP_PORT, PRTSM_to_ALTERNATE_PORT
      <4>2. QED BY <4>1
    <3>3. QED BY <3>1, <3>2
  <2>2. QED
     BY <1>i, <1>s, <2>1
     DEF RolesAndStates, RoleOfState, BlockedRole, PortStateFlags,
         ReallyBlocked, KernelState
<1>x. RolesAndStates(x)'
  <2> DEFINE r == role[x]
             n == role'[x]
             s == PRTSM_run(x)
  <2>1. PortStateFlags(x)' /\ KernelState(x)'
     BY <1>i, <1>s DEF RolesAndStates, PortStateFlags, KernelState
  <2>2. r \in RoleRecs /\ r.PRTSM \in PRTSM_states /\ r.selectedRole \in Roles
     BY <1>t, RoleFields
  <2>3. RoleOfState(x) /\ BlockedRole(x) /\ ReallyBlocked(x) /\ PortStateFlags(x)
     BY <1>i DEF RolesAndStates
  <2>b. ~pst[x].learning => pst[x].PSTSM = "DISCARDING"
     BY <2>3 DEF PortStateFlags
  <2> SUFFICES RoleOfState(x)' /\ BlockedRole(x)' /\ ReallyBlocked(x)'
     BY <2>1 DEF RolesAndStates
  <2>4. CASE \/ PRTSM_to_PROPOSED(x) \/ PRTSM_to_AGREED(x)
             \/ PRTSM_to_SYNCED(x) \/ PRTSM_to_RETIRED(x)
             \/ PRTSM_to_REROOT(x) \/ PRTSM_to_DESIGNATED_PROPOSE(x)
             \/ PRTSM_to_BACKUP_PORT(x)
    <3>1. /\ n.PRTSM = s /\ n.role = r.role
          /\ n.learn = r.learn /\ n.forward = r.forward
      <4>1. CASE PRTSM_to_PROPOSED(x) \/ PRTSM_to_REROOT(x)
        <5>1. \/ n = [r EXCEPT !.sync = TRUE, !.PRTSM = s]
              \/ n = [r EXCEPT !.reRoot = TRUE, !.PRTSM = s]
           BY <4>1 DEF PRTSM_to_PROPOSED, PRTSM_to_REROOT
        <5>2. QED BY <2>2, <5>1 DEF RoleRecs
      <4>2. CASE PRTSM_to_AGREED(x)
         BY <1>t, <2>2, <4>2 DEF PRTSM_to_AGREED, RoleRecs
      <4>3. CASE PRTSM_to_SYNCED(x)
         BY <1>t, <2>2, <4>3 DEF PRTSM_to_SYNCED, RoleRecs
      <4>4. CASE \/ PRTSM_to_RETIRED(x) \/ PRTSM_to_DESIGNATED_PROPOSE(x)
                 \/ PRTSM_to_BACKUP_PORT(x)
         BY <1>t, <2>2, <4>4
         DEF PRTSM_to_RETIRED, PRTSM_to_DESIGNATED_PROPOSE,
             PRTSM_to_BACKUP_PORT, RoleRecs
      <4>5. QED BY <2>4, <4>1, <4>2, <4>3, <4>4
    <3>2. \/ s \in MasterStates \ {"MASTER_PORT"}
          \/ s \in RootStates \ {"ROOT_PORT"}
          \/ s \in DesignatedStates \ {"DESIGNATED_PORT"}
          \/ s \in {"BACKUP_PORT", "ALTERNATE_PROPOSED", "ALTERNATE_AGREED"}
       BY <2>4
       DEF PRTSM_to_PROPOSED, PRTSM_to_AGREED, PRTSM_to_SYNCED,
           PRTSM_to_RETIRED, PRTSM_to_REROOT, PRTSM_to_DESIGNATED_PROPOSE,
           PRTSM_to_BACKUP_PORT, MasterStates, RootStates, DesignatedStates
    <3>3. \/ s \in MasterStates /\ r.PRTSM = "MASTER_PORT"
          \/ s \in RootStates /\ r.PRTSM = "ROOT_PORT"
          \/ s \in DesignatedStates /\ r.PRTSM = "DESIGNATED_PORT"
          \/ s \in AlternateStates /\ r.PRTSM = "ALTERNATE_PORT"
       BY <2>2, <3>2, RoleSources DEF AlternateStates
    <3> HIDE DEF s, n, r
    <3>4. QED
       BY <1>s, <2>3, <3>1, <3>3
       DEF RoleOfState, BlockedRole, ReallyBlocked, MasterStates, RootStates,
           DesignatedStates, AlternateStates, DisabledStates, n, r
  <2>5. CASE PRTSM_to_LEARN(x) \/ PRTSM_to_FORWARD(x) \/ PRTSM_to_DISCARD(x)
    <3>1. /\ n.PRTSM = s /\ n.role = r.role
          /\ n.forward => n.learn
      <4>1. s \in {"MASTER_FORWARD", "ROOT_FORWARD", "DESIGNATED_FORWARD"}
                => r.learn
         BY <2>2, RoleSources
      <4> HIDE DEF s
      <4>2. CASE PRTSM_to_LEARN(x)
         BY <1>t, <2>2, <4>2 DEF PRTSM_to_LEARN, RoleRecs, s
      <4>3. CASE PRTSM_to_FORWARD(x)
         BY <1>t, <2>2, <4>1, <4>3 DEF PRTSM_to_FORWARD, RoleRecs, s
      <4>4. CASE PRTSM_to_DISCARD(x)
         BY <1>t, <2>2, <4>4 DEF PRTSM_to_DISCARD, RoleRecs, s
      <4>5. QED BY <2>5, <4>2, <4>3, <4>4
    <3>2. \/ s \in MasterStates \ {"MASTER_PORT"}
          \/ s \in RootStates \ {"ROOT_PORT"}
          \/ s \in DesignatedStates \ {"DESIGNATED_PORT"}
       BY <2>5
       DEF PRTSM_to_LEARN, PRTSM_to_FORWARD, PRTSM_to_DISCARD, MasterStates,
           RootStates, DesignatedStates
    <3>3. \/ s \in MasterStates /\ r.PRTSM = "MASTER_PORT"
          \/ s \in RootStates /\ r.PRTSM = "ROOT_PORT"
          \/ s \in DesignatedStates /\ r.PRTSM = "DESIGNATED_PORT"
       BY <2>2, <3>2, RoleSources
    <3> HIDE DEF s, n, r
    <3>4. QED
       BY <1>s, <2>3, <3>1, <3>3
       DEF RoleOfState, BlockedRole, ReallyBlocked, MasterStates, RootStates,
           DesignatedStates, AlternateStates, DisabledStates, n, r
  <2>6. CASE PRTSM_to_MASTER_or_DESIGNATED_PORT(x) \/ PRTSM_to_ROOT_PORT(x)
    <3>1. /\ \/ n.PRTSM = "MASTER_PORT" /\ n.role = "Master"
             \/ n.PRTSM = "DESIGNATED_PORT" /\ n.role = "Designated"
             \/ n.PRTSM = "ROOT_PORT" /\ n.role = "Root"
          /\ n.learn = r.learn /\ n.forward = r.forward
       BY <1>t, <2>2, <2>6
       DEF PRTSM_to_MASTER_or_DESIGNATED_PORT, PRTSM_to_ROOT_PORT, RoleRecs
    <3> HIDE DEF s, n, r
    <3>2. QED
       BY <1>s, <2>3, <3>1
       DEF RoleOfState, BlockedRole, ReallyBlocked, MasterStates, RootStates,
           DesignatedStates, AlternateStates, DisabledStates, n, r
  <2>7. CASE PRTSM_to_DISABLE_PORT(x) \/ PRTSM_to_BLOCK_PORT(x)
    <3>1. /\ \/ n.PRTSM = "DISABLE_PORT" /\ n.role = "Disabled"
             \/ n.PRTSM = "BLOCK_PORT" /\ n.role \in {"Alternate", "Backup"}
          /\ ~n.learn /\ ~n.forward
      <4>1. s = "BLOCK_PORT" => r.selectedRole \in {"Alternate", "Backup"}
         BY <2>2, RoleSources
      <4>2. CASE PRTSM_to_DISABLE_PORT(x)
         BY <1>t, <2>2, <4>2 DEF PRTSM_to_DISABLE_PORT, RoleRecs
      <4>3. CASE PRTSM_to_BLOCK_PORT(x)
         BY <1>t, <2>2, <4>1, <4>3 DEF PRTSM_to_BLOCK_PORT, RoleRecs
      <4>4. QED BY <2>7, <4>2, <4>3
    <3> HIDE DEF s, n, r
    <3>2. QED
       BY <1>s, <2>3, <3>1
       DEF RoleOfState, BlockedRole, ReallyBlocked, MasterStates, RootStates,
           DesignatedStates, AlternateStates, DisabledStates, n, r
  <2>8. CASE PRTSM_to_DISABLED_PORT(x) \/ PRTSM_to_ALTERNATE_PORT(x)
    <3>1. /\ n.PRTSM = s /\ n.role = r.role
          /\ n.learn = r.learn /\ n.forward = r.forward
       BY <1>t, <2>2, <2>8
       DEF PRTSM_to_DISABLED_PORT, PRTSM_to_ALTERNATE_PORT, RoleRecs
    <3>2. \/ /\ s = "DISABLED_PORT"
             /\ r.PRTSM \in {"DISABLE_PORT", "DISABLED_PORT"}
          \/ s = "ALTERNATE_PORT" /\ r.PRTSM \in AlternateStates
       BY <2>2, <2>8, RoleSources
       DEF PRTSM_to_DISABLED_PORT, PRTSM_to_ALTERNATE_PORT, AlternateStates
    <3>3. pst[x].PSTSM = "DISCARDING"
       BY <2>2, <2>3, <2>8, <2>b, RoleSources
       DEF PRTSM_to_DISABLED_PORT, PRTSM_to_ALTERNATE_PORT, ReallyBlocked
    <3> HIDE DEF s, n, r
    <3>4. QED
       BY <1>s, <2>3, <3>1, <3>2, <3>3
       DEF RoleOfState, BlockedRole, ReallyBlocked, MasterStates, RootStates,
           DesignatedStates, AlternateStates, DisabledStates, n, r
  <2>9. QED BY <2>4, <2>5, <2>6, <2>7, <2>8 DEF PRTSM_step
<1>q. QED BY <1>o, <1>x DEF PortRolesAndStates, RolesAndStates

\* A transition of the Port State Transition machine preserves the invariant:
\* only a port that is told to learn or forward leaves DISCARDING, and that
\* is never one that has got past BLOCK_PORT or DISABLE_PORT.
LEMMA StateTransition ==
    ASSUME TypeOK, PortRolesAndStates, brg' = brg, NEW x \in Ptps,
           brg[BrOf(x)].bridgeEnabled, PSTSM_step(x)
    PROVE  PortRolesAndStates'
<1>t. /\ role \in [Ptps -> RoleRecs] /\ pst \in [Ptps -> PstRecs]
   BY DEF TypeOK, MachineTypeOK
<1>r. role' = role
   BY DEF PSTSM_step, PSTSM_to_DISCARDING, PSTSM_to_LEARNING,
          PSTSM_to_FORWARDING, PSTSM_only
<1>i. \A y \in Ptps : RolesAndStates(y)
   BY DEF PortRolesAndStates, RolesAndStates
<1>o. ASSUME NEW y \in Ptps, y # x PROVE RolesAndStates(y)'
  <2>1. pst'[y] = pst[y]
     BY <1>o, <1>t
     DEF PSTSM_step, PSTSM_to_DISCARDING, PSTSM_to_LEARNING,
         PSTSM_to_FORWARDING
  <2>2. QED
     BY <1>i, <1>r, <2>1
     DEF RolesAndStates, RoleOfState, BlockedRole, PortStateFlags,
         ReallyBlocked, KernelState
<1>x. RolesAndStates(x)'
  <2> DEFINE n == pst'[x]
             r == role[x]
  <2>1. /\ RoleOfState(x) /\ BlockedRole(x) /\ PortStateFlags(x)
        /\ pst[x].PSTSM \in PSTSM_states /\ r.PRTSM \in PRTSM_states
     BY <1>i, <1>t, PstFields, RoleFields DEF RolesAndStates
  <2>2. /\ n.learning = (n.PSTSM # "DISCARDING")
        /\ n.forwarding = (n.PSTSM = "FORWARDING")
        /\ n.PSTSM \in PSTSM_states /\ n.state = KernelStateOf(n.PSTSM)
        /\ n.PSTSM # "DISCARDING" => r.learn
    <3>1. CASE PSTSM_to_DISCARDING(x)
       BY <1>t, <3>1
       DEF PSTSM_to_DISCARDING, Discarding, KernelStateOf, PSTSM_states
    <3>2. CASE PSTSM_to_LEARNING(x)
      <4>1. r.learn /\ pst[x].PSTSM = "DISCARDING"
         BY <2>1, <3>2 DEF PSTSM_to_LEARNING, PSTSM_run, PSTSM_states, None
      <4>2. /\ n.PSTSM = "LEARNING" /\ n.state = "LEARNING" /\ n.learning
            /\ n.forwarding = pst[x].forwarding /\ n.learning \in BOOLEAN
         BY <1>t, <3>2 DEF PSTSM_to_LEARNING, PstRecs
      <4>3. ~pst[x].forwarding BY <2>1, <4>1 DEF PortStateFlags
      <4>4. QED
         BY <1>t, <4>1, <4>2, <4>3, PstFields DEF KernelStateOf, PSTSM_states
    <3>3. CASE PSTSM_to_FORWARDING(x)
      <4>1. r.learn /\ pst[x].PSTSM = "LEARNING"
         BY <2>1, <3>3 DEF PSTSM_to_FORWARDING, PSTSM_run, PSTSM_states, None
      <4>2. /\ n.PSTSM = "FORWARDING" /\ n.state = "FORWARDING"
            /\ n.forwarding = TRUE /\ n.learning = pst[x].learning
         BY <1>t, <3>3 DEF PSTSM_to_FORWARDING, PstRecs
      <4>3. pst[x].learning BY <2>1, <4>1 DEF PortStateFlags
      <4>4. QED
         BY <1>t, <4>1, <4>2, <4>3, PstFields DEF KernelStateOf, PSTSM_states
    <3>4. QED BY <3>1, <3>2, <3>3 DEF PSTSM_step
  <2> HIDE DEF n
  <2>3. RoleOfState(x)' /\ BlockedRole(x)'
     BY <1>r, <2>1 DEF RoleOfState, BlockedRole
  <2>4. ReallyBlocked(x)'
     BY <1>r, <2>1, <2>2
     DEF RoleOfState, BlockedRole, ReallyBlocked, AlternateStates,
         DisabledStates, n
  <2>5. PortStateFlags(x)' /\ KernelState(x)'
     BY <2>2 DEF PortStateFlags, KernelState, n
  <2>6. QED BY <2>3, <2>4, <2>5 DEF RolesAndStates
<1>q. QED BY <1>o, <1>x DEF PortRolesAndStates, RolesAndStates

\* A run preserves the invariant.
LEMMA RunRoles ==
    ASSUME RoleInv, Run
    PROVE  ActiveEnabled' /\ PortRolesAndStates'
<1> USE DEF RoleInv
<1>1. PICK b \in Bridges : RunMachine(b) \/ RunDone(b) \/ RunTimeout(b)
   BY DEF Run
<1>2. CASE RunMachine(b)
  <2> DEFINE s == Upcoming(Ready(b))
  <2>1. /\ Machine_step(b, s) /\ s \in Slots(b) /\ brg' = brg
        /\ active = b /\ active' = active
     BY <1>2, UpcomingType DEF RunMachine
  <2>2. brg[b].bridgeEnabled
     BY <2>1, TopologyAssumption DEF ActiveEnabled, NoBridge
  <2>3. ActiveEnabled' BY <2>1 DEF ActiveEnabled
  <2> HIDE DEF s
  <2>4. CASE s[1] \notin {PRTSM, PSTSM}
     BY <2>1, <2>3, <2>4, OtherMachines, RolesKeptSuffices
  <2>5. CASE s[1] \in {PRTSM, PSTSM}
    <3> DEFINE x == <<s[2], s[3]>>
    <3>1. x \in Ptps /\ BrOf(x) = b
       BY <2>1, <2>5
       DEF Slots, PortsOf, Ptps, BrOf, PortOf, BA, PRSM, PPMSM, BDSM, PTSM,
           PISM, PRSSM, PRTSM, PSTSM, TCSM
    <3>2. PRTSM_step(x) \/ PSTSM_step(x)
       BY <2>1, <2>5
       DEF Machine_step, BA, PRSM, PPMSM, BDSM, PTSM, PISM, PRSSM, PRTSM,
           PSTSM, TCSM
    <3> HIDE DEF x
    <3>3. QED
       BY <2>1, <2>2, <2>3, <3>1, <3>2, RoleTransition, StateTransition
  <2>6. QED BY <2>4, <2>5
<1>3. CASE RunDone(b) \/ RunTimeout(b)
  <2>1. /\ role' = role /\ pst' = pst /\ brg' = brg
        /\ active' = NoBridge
     BY <1>3 DEF RunDone, RunTimeout, ptpVars
  <2>2. RolesKept BY <2>1 DEF RolesKept
  <2>3. QED BY <2>1, <2>2, RolesKeptSuffices DEF ActiveEnabled
<1>4. QED BY <1>1, <1>2, <1>3

-----------------------------------------------------------------------------
(* External events. *)

\* br_state_machines_run starts a run only on an enabled bridge.
LEMMA StartRunEnabled ==
    ASSUME NEW b, StartRun(b)
    PROVE  ActiveEnabled'
BY DEF StartRun, ActiveEnabled

\* br_state_machines_begin puts the role and port state machines of an
\* enabled bridge into their begin states; on a disabled bridge the ports
\* keep theirs, and the kernel has been told that they are disabled.
LEMMA BeginRoles ==
    ASSUME RoleInv, NEW b \in Bridges, NEW c, Begin(b, c),
           c.pst \in [Ptps -> PstRecs],
           \A d \in Bridges : d # b =>
               brg'[d].bridgeEnabled = brg[d].bridgeEnabled,
           \A x \in Ptps : BrOf(x) # b => c.pst[x] = pst[x],
           ~brg'[b].bridgeEnabled => \A x \in Ptps : BrOf(x) = b =>
               /\ c.pst[x].state = "DISABLED"
               /\ c.pst[x].PSTSM = pst[x].PSTSM
               /\ c.pst[x].learning = pst[x].learning
               /\ c.pst[x].forwarding = pst[x].forwarding
    PROVE  ActiveEnabled' /\ PortRolesAndStates'
<1>t. MachineTypeOK BY DEF RoleInv, TypeOK
<1>a. ActiveEnabled' BY StartRunEnabled DEF Begin
<1>i. \A y \in Ptps : RolesAndStates(y) /\ BrOf(y) \in Bridges
   BY PtpTypes DEF RoleInv, PortRolesAndStates, RolesAndStates
<1>1. ASSUME NEW x \in Ptps, BrOf(x) # b PROVE RolesAndStates(x)'
  <2>1. role'[x] = role[x] /\ pst'[x] = pst[x]
     BY <1>1 DEF Begin, StateMachinesBegin
  <2>2. brg'[BrOf(x)].bridgeEnabled = brg[BrOf(x)].bridgeEnabled
     BY <1>1, <1>i
  <2>3. QED
     BY <1>i, <2>1, <2>2
     DEF RolesAndStates, RoleOfState, BlockedRole, PortStateFlags,
         ReallyBlocked, KernelState
<1>2. ASSUME NEW x \in Ptps, BrOf(x) = b, ~brg'[b].bridgeEnabled
      PROVE  RolesAndStates(x)'
  <2>1. role' = role /\ pst' = c.pst BY <1>2 DEF Begin
  <2>2. QED
     BY <1>i, <1>2, <2>1
     DEF RolesAndStates, RoleOfState, BlockedRole, PortStateFlags,
         ReallyBlocked, KernelState
<1>3. ASSUME NEW x \in Ptps, BrOf(x) = b, brg'[b].bridgeEnabled
      PROVE  RolesAndStates(x)'
  <2>1. StateMachinesBegin(b, c) BY <1>3 DEF Begin
  <2>2. pst'[x] = Discarding BY <1>3, <2>1 DEF StateMachinesBegin
  <2>3. /\ role'[x].PRTSM = "INIT_PORT" /\ role'[x].role = "Disabled"
        /\ ~role'[x].learn /\ ~role'[x].forward
    <3>1. role'[x] = [InitPort(role[x], PortOf(x)) EXCEPT
                        !.selectedRole = "Disabled"]
       BY <1>3, <2>1 DEF StateMachinesBegin
    <3>2. role[x] \in RoleRecs BY <1>t DEF MachineTypeOK
    <3>3. QED BY <3>1, <3>2 DEF InitPort, RoleRecs
  <2>4. /\ pst'[x].PSTSM = "DISCARDING" /\ pst'[x].state = "BLOCKING"
        /\ pst'[x].learning = FALSE /\ pst'[x].forwarding = FALSE
     BY <2>2 DEF Discarding
  <2>5. RoleOfState(x)' /\ BlockedRole(x)'
     BY <2>3
     DEF RoleOfState, BlockedRole, MasterStates, RootStates, DesignatedStates,
         AlternateStates, DisabledStates
  <2>6. PortStateFlags(x)' /\ ReallyBlocked(x)'
     BY <2>4 DEF PortStateFlags, ReallyBlocked
  <2>7. KernelState(x)'
     BY <1>3, <2>4 DEF KernelState, KernelStateOf
  <2>8. QED BY <2>5, <2>6, <2>7 DEF RolesAndStates
<1>4. QED
   BY <1>a, <1>1, <1>2, <1>3 DEF PortRolesAndStates, RolesAndStates

\* So does an event that leaves roles and states alone, whether it starts a
\* run or not.
LEMMA QuietEvent ==
    ASSUME RoleInv, Idle, RolesKept,
           (\E b : StartRun(b)) \/ active' = active
    PROVE  ActiveEnabled' /\ PortRolesAndStates'
<1>1. ActiveEnabled' BY StartRunEnabled DEF ActiveEnabled, Idle
<1>2. PortRolesAndStates' BY RolesKeptSuffices DEF RoleInv
<1>3. QED BY <1>1, <1>2

\* Enabling or disabling a bridge.
LEMMA BridgeEnableRoles ==
    ASSUME RoleInv, NEW b \in Bridges, NEW up \in BOOLEAN,
           MSTP_IN_set_bridge_enable(b, up)
    PROVE  ActiveEnabled' /\ PortRolesAndStates'
<1>t. brg \in [Bridges -> BridgeRecs] /\ pst \in [Ptps -> PstRecs]
   BY DEF RoleInv, TypeOK, MachineTypeOK
<1>1. PICK c : /\ Begin(b, c)
               /\ c.pst = [x \in Ptps |-> IF BrOf(x) = b
                             THEN [pst[x] EXCEPT !.state = "DISABLED"]
                             ELSE pst[x]]
  <2> DEFINE off == [x \in Ptps |-> IF BrOf(x) = b
                        THEN [pst[x] EXCEPT !.state = "DISABLED"]
                        ELSE pst[x]]
  <2>1. \E t, p, r, i, c, a :
           Begin(b, [ tree |-> t, prt |-> p, rcv |-> r, info |-> i,
                      pst |-> off, tc |-> c, ageing |-> a ])
     BY Zenon DEF MSTP_IN_set_bridge_enable
  <2> HIDE DEF off
  <2>2. PICK t, p, r, i, c, a :
           Begin(b, [ tree |-> t, prt |-> p, rcv |-> r, info |-> i,
                      pst |-> off, tc |-> c, ageing |-> a ])
     BY <2>1
  <2>3. [ tree |-> t, prt |-> p, rcv |-> r, info |-> i,
          pst |-> off, tc |-> c, ageing |-> a ].pst = off OBVIOUS
  <2>4. QED BY <2>2, <2>3, Zenon DEF off
<1>2. ASSUME NEW x \in Ptps
      PROVE  /\ [pst[x] EXCEPT !.state = "DISABLED"] \in PstRecs
             /\ [pst[x] EXCEPT !.state = "DISABLED"].state = "DISABLED"
             /\ [pst[x] EXCEPT !.state = "DISABLED"].PSTSM = pst[x].PSTSM
             /\ [pst[x] EXCEPT !.state = "DISABLED"].learning
                    = pst[x].learning
             /\ [pst[x] EXCEPT !.state = "DISABLED"].forwarding
                    = pst[x].forwarding
  <2>1. pst[x] \in PstRecs BY <1>t
  <2>2. QED BY <2>1 DEF PstRecs, KernelStates
<1>3. c.pst \in [Ptps -> PstRecs] BY <1>t, <1>1, <1>2
<1>4. \A d \in Bridges : d # b =>
          brg'[d].bridgeEnabled = brg[d].bridgeEnabled
   BY <1>t DEF MSTP_IN_set_bridge_enable
<1>5. \A x \in Ptps : BrOf(x) # b => c.pst[x] = pst[x] BY <1>1
<1>6. \A x \in Ptps : BrOf(x) = b =>
          /\ c.pst[x].state = "DISABLED"
          /\ c.pst[x].PSTSM = pst[x].PSTSM
          /\ c.pst[x].learning = pst[x].learning
          /\ c.pst[x].forwarding = pst[x].forwarding
   BY <1>1, <1>2
<1>7. Begin(b, c) BY <1>1
<1>8. QED BY <1>3, <1>4, <1>5, <1>6, <1>7, BeginRoles

\* Commands that begin all over again while the bridge stays as it is, enabled
\* or not.
LEMMA BeginAgainRoles ==
    ASSUME RoleInv, NEW b \in Bridges, NEW c, Begin(b, c), c.pst = pst,
           \A d \in Bridges : brg'[d].bridgeEnabled = brg[d].bridgeEnabled
    PROVE  ActiveEnabled' /\ PortRolesAndStates'
<1>1. pst \in [Ptps -> PstRecs] BY DEF RoleInv, TypeOK, MachineTypeOK
<1>2. ~brg'[b].bridgeEnabled => \A x \in Ptps : BrOf(x) = b =>
          pst[x].state = "DISABLED"
   BY DEF RoleInv, PortRolesAndStates, KernelState
<1>3. QED BY <1>1, <1>2, BeginRoles

\* Time passes.
LEMMA TickRoles ==
    ASSUME RoleInv, Idle, NEW b \in Bridges, MSTP_IN_one_second(b)
    PROVE  ActiveEnabled' /\ PortRolesAndStates'
<1>t. role \in [Ptps -> RoleRecs] BY DEF RoleInv, TypeOK, MachineTypeOK
<1>1. CASE DisabledTick(b)
  <2>1. RolesKept
     BY <1>1 DEF DisabledTick, RolesKept, ptpVars
  <2>2. active' = active BY <1>1 DEF DisabledTick, schedVars
  <2>3. QED BY <2>1, <2>2, QuietEvent
<1>2. CASE Tick(b)
  <2>1. ASSUME NEW x \in Ptps
        PROVE  /\ role'[x].PRTSM = role[x].PRTSM
               /\ role'[x].role = role[x].role
               /\ role'[x].learn = role[x].learn
               /\ role'[x].forward = role[x].forward
    <3>1. role[x] \in RoleRecs BY <1>t
    <3>2. PICK f, r, n : \/ role'[x] = role[x]
                         \/ role'[x] = [role[x] EXCEPT !.fdWhile = f,
                                          !.rrWhile = r, !.rbWhile = n]
       BY <1>2 DEF Tick
    <3>3. QED BY <3>1, <3>2 DEF RoleRecs
  <2>2. pst' = pst /\ brg' = brg /\ StartRun(b) BY <1>2 DEF Tick
  <2>3. RolesKept BY <2>1, <2>2 DEF RolesKept
  <2>4. QED BY <2>2, <2>3, QuietEvent
<1>3. QED BY <1>1, <1>2 DEF MSTP_IN_one_second

\* A BPDU arrives or is lost, a link goes up or down.
LEMMA LinkRoles ==
    ASSUME RoleInv, Idle, NEW p \in Ports,
           MSTP_IN_rx_bpdu(p) \/ Lose(p) \/ FlapPort(p) \/ ShutDown(p)
    PROVE  ActiveEnabled' /\ PortRolesAndStates'
<1>1. role' = role /\ pst' = pst /\ brg' = brg
   BY DEF MSTP_IN_rx_bpdu, Lose, FlapPort, ShutDown, PortUp, PortDown, ptpVars,
          machineVars
<1>2. RolesKept BY <1>1 DEF RolesKept
<1>3. CASE MSTP_IN_rx_bpdu(p) /\ RxKept(p)
  <2>1. ActiveEnabled' BY <1>1, <1>3 DEF RxKept, ActiveEnabled
  <2>2. QED BY <1>2, <2>1, RolesKeptSuffices DEF RoleInv
<1>4. CASE ~(MSTP_IN_rx_bpdu(p) /\ RxKept(p))
  <2>1. (\E b : StartRun(b)) \/ active' = active
     BY <1>4
     DEF MSTP_IN_rx_bpdu, RxGuarded, RxDropped, Lose, FlapPort, ShutDown,
         PortUp, PortDown, schedVars
  <2>2. QED BY <1>2, <2>1, QuietEvent
<1>5. QED BY <1>3, <1>4

\* Commands that do not begin all over again leave roles and states to the run
\* they start.
LEMMA CommandRoles ==
    ASSUME RoleInv, Idle, NEW name, NEW on, NEW value,
           IsCommand(name, on, value), Execute(name, on, value)
    PROVE  ActiveEnabled' /\ PortRolesAndStates'
<1>t. brg \in [Bridges -> BridgeRecs] BY DEF RoleInv, TypeOK
<1>k. (role' = role /\ pst' = pst /\ brg' = brg) => RolesKept
   BY DEF RolesKept
<1>r. ASSUME NEW changed, NEW p, RunIf(changed, p)
      PROVE  (\E b : StartRun(b)) \/ active' = active
   BY <1>r DEF RunIf, schedVars
<1>b. ASSUME NEW b \in Bridges, NEW new, brg' = [brg EXCEPT ![b] = new],
             new.bridgeEnabled = brg[b].bridgeEnabled
      PROVE  \A d \in Bridges : brg'[d].bridgeEnabled = brg[d].bridgeEnabled
   BY <1>t, <1>b
<1>1. CASE name = "address" /\ MSTP_IN_set_bridge_address(on, value)
  <2>1. on \in Bridges
     BY <1>1 DEF IsCommand, RunFlags, QuietFlags
  <2>2. PICK c : Begin(on, c) /\ c.pst = pst /\ brg' = brg
     BY <1>1 DEF MSTP_IN_set_bridge_address, Current
  <2>3. QED BY <2>1, <2>2, BeginAgainRoles
<1>2. CASE name = "version" /\ SetProtocolVersion(on, value)
  <2>1. on \in Bridges BY <1>2 DEF IsCommand, RunFlags, QuietFlags
  <2>2. Begin(on, Current) /\ Current.pst = pst
     BY <1>2 DEF SetProtocolVersion, Current
  <2>3. brg[on] \in BridgeRecs BY <1>t, <2>1
  <2>4. PICK v : brg' = [brg EXCEPT ![on] =
                           [brg[on] EXCEPT !.ForceProtocolVersion = v]]
     BY <1>2, <1>t, <2>1 DEF SetProtocolVersion
  <2>5. [brg[on] EXCEPT !.ForceProtocolVersion = v].bridgeEnabled
            = brg[on].bridgeEnabled
     BY <2>3 DEF BridgeRecs
  <2>6. QED BY <1>b, <2>1, <2>2, <2>4, <2>5, BeginAgainRoles
<1>3. CASE \/ name = "times" /\ SetMaxAgeAndForwardDelay(on, value[1], value[2])
           \/ name = "maxhops" /\ SetMaxHops(on, value)
  <2>1. on \in Bridges BY <1>3 DEF IsCommand, RunFlags, QuietFlags
  <2>2. brg[on] \in BridgeRecs BY <1>t, <2>1
  <2>3. PICK new : /\ ChangeBridgeTimes(on, new)
                   /\ new.bridgeEnabled = brg[on].bridgeEnabled
    <3>1. CASE name = "times"
                 /\ SetMaxAgeAndForwardDelay(on, value[1], value[2])
      <4> DEFINE new == [brg[on] EXCEPT !.Max_Age = value[1],
                                        !.Forward_Delay = value[2]]
      <4>1. ChangeBridgeTimes(on, new) BY <3>1 DEF SetMaxAgeAndForwardDelay
      <4>2. new.bridgeEnabled = brg[on].bridgeEnabled BY <2>2 DEF BridgeRecs
      <4>3. QED BY <4>1, <4>2
    <3>2. CASE name = "maxhops" /\ SetMaxHops(on, value)
      <4> DEFINE new == [brg[on] EXCEPT !.MaxHops = value]
      <4>1. ChangeBridgeTimes(on, new) BY <3>2 DEF SetMaxHops
      <4>2. new.bridgeEnabled = brg[on].bridgeEnabled BY <2>2 DEF BridgeRecs
      <4>3. QED BY <4>1, <4>2
    <3>3. QED BY <1>3, <3>1, <3>2
  <2>4. /\ brg' = [brg EXCEPT ![on] = new] /\ role' = role /\ pst' = pst
        /\ StartRun(on)
     BY <2>3 DEF ChangeBridgeTimes, machineVars
  <2>5. RolesKept BY <1>b, <2>1, <2>3, <2>4 DEF RolesKept
  <2>6. QED BY <2>4, <2>5, QuietEvent
<1>4. CASE \/ name = "txholdcount" /\ SetTxHoldCount(on, value)
           \/ name = "ageing" /\ SetAgeingTime(on, value)
  <2>1. on \in Bridges BY <1>4 DEF IsCommand, RunFlags, QuietFlags
  <2>2. brg[on] \in BridgeRecs BY <1>t, <2>1
  <2>3. PICK new : /\ brg' = [brg EXCEPT ![on] = new]
                   /\ \/ new = [brg[on] EXCEPT !.Transmit_Hold_Count = value]
                      \/ new = [brg[on] EXCEPT !.Ageing_Time = value]
     BY <1>4, <1>t, <2>1 DEF SetTxHoldCount, SetAgeingTime
  <2>4. new.bridgeEnabled = brg[on].bridgeEnabled
     BY <2>2, <2>3 DEF BridgeRecs
  <2>5. role' = role /\ pst' = pst /\ (StartRun(on) \/ active' = active)
     BY <1>4 DEF SetTxHoldCount, SetAgeingTime, machineVars, ptpVars, schedVars
  <2>6. RolesKept BY <1>b, <2>1, <2>3, <2>4, <2>5 DEF RolesKept
  <2>7. QED BY <2>5, <2>6, QuietEvent
<1>5. CASE \/ MSTP_IN_set_msti_bridge_config(on[1], on[2], value)
           \/ SetQuietFlag(on, name, value)
           \/ MSTP_IN_port_mcheck(on)
  <2>1. role' = role /\ pst' = pst /\ brg' = brg
     BY <1>5
     DEF MSTP_IN_set_msti_bridge_config, SetQuietFlag, MSTP_IN_port_mcheck,
         machineVars, ptpVars
  <2>2. (\E b : StartRun(b)) \/ active' = active
     BY <1>5
     DEF MSTP_IN_set_msti_bridge_config, SetQuietFlag, MSTP_IN_port_mcheck,
         schedVars
  <2>3. QED BY <1>k, <2>1, <2>2, QuietEvent
<1>6. CASE \/ SetExternalPathCost(on, value) \/ SetAdminP2P(on, value)
           \/ SetAdminEdgePort(on, value) \/ SetRunFlag(on, name, value)
           \/ SetTreePortPriority(on, value) \/ SetInternalPathCost(on, value)
  <2>1. role' = role /\ pst' = pst /\ brg' = brg
     BY <1>6
     DEF SetExternalPathCost, SetAdminP2P, SetAdminEdgePort, SetRunFlag,
         SetTreePortPriority, SetInternalPathCost, ChangeTreePort, machineVars
  <2>2. \E changed, p : RunIf(changed, p)
     BY <1>6
     DEF SetExternalPathCost, SetAdminP2P, SetAdminEdgePort, SetRunFlag,
         SetTreePortPriority, SetInternalPathCost, ChangeTreePort
  <2>3. QED BY <1>k, <1>r, <2>1, <2>2, QuietEvent
<1>7. QED BY <1>1, <1>2, <1>3, <1>4, <1>5, <1>6 DEF Execute

\* Every event preserves the invariant.
LEMMA EventRoles ==
    ASSUME RoleInv, Event
    PROVE  ActiveEnabled' /\ PortRolesAndStates'
<1>1. Idle BY DEF Event
<1>2. ASSUME NEW b \in Bridges, FlapBridge(b)
      PROVE  ActiveEnabled' /\ PortRolesAndStates'
  <2>1. (~brg[b].bridgeEnabled) \in BOOLEAN OBVIOUS
  <2>2. QED BY <1>2, <2>1, BridgeEnableRoles DEF FlapBridge
<1>3. ASSUME NEW c \in Commands, Tell(c)
      PROVE  ActiveEnabled' /\ PortRolesAndStates'
   BY <1>1, <1>3, EventAssumption, CommandRoles DEF Tell
<1>4. QED BY <1>1, <1>2, <1>3, TickRoles, LinkRoles DEF Event

-----------------------------------------------------------------------------
\* All bridges are disabled at first, and so are their ports.
LEMMA InitRoles == Init => ActiveEnabled /\ PortRolesAndStates
<1> SUFFICES ASSUME Init PROVE ActiveEnabled /\ PortRolesAndStates OBVIOUS
<1>1. ActiveEnabled BY DEF Init, ActiveEnabled
<1>2. ASSUME NEW x \in Ptps PROVE RolesAndStates(x)
  <2>1. /\ role[x].PRTSM = "INIT_PORT" /\ role[x].role = "Disabled"
        /\ ~role[x].learn /\ ~role[x].forward
     BY DEF Init
  <2>2. /\ pst[x].PSTSM = "DISCARDING" /\ pst[x].state = "DISABLED"
        /\ pst[x].learning = FALSE /\ pst[x].forwarding = FALSE
     BY DEF Init, Discarding
  <2>3. ~brg[BrOf(x)].bridgeEnabled
     BY PtpTypes, BootAssumption DEF Init
  <2>4. RoleOfState(x) /\ BlockedRole(x)
     BY <2>1
     DEF RoleOfState, BlockedRole, MasterStates, RootStates, DesignatedStates,
         AlternateStates, DisabledStates
  <2>5. PortStateFlags(x) /\ ReallyBlocked(x)
     BY <2>2 DEF PortStateFlags, ReallyBlocked
  <2>6. KernelState(x) BY <2>2, <2>3 DEF KernelState
  <2>7. QED BY <2>4, <2>5, <2>6 DEF RolesAndStates
<1>3. QED BY <1>1, <1>2 DEF PortRolesAndStates, RolesAndStates

\* The inductive invariant holds at every step.
LEMMA RoleInvAlways == Spec => []RoleInv
<1>1. Init => RoleInv BY InitTypes, InitRoles DEF RoleInv
<1>2. RoleInv /\ [Next]_vars => RoleInv'
  <2> SUFFICES ASSUME RoleInv, [Next]_vars PROVE RoleInv' OBVIOUS
  <2>t. TypeOK BY DEF RoleInv
  <2>1. CASE Run BY <2>1, <2>t, RunTypes, RunRoles DEF Run, RoleInv
  <2>2. CASE Event BY <2>2, <2>t, EventTypes, EventRoles DEF RoleInv
  <2>3. CASE UNCHANGED vars
    <3>1. TypeOK'
       BY <2>t, <2>3 DEF vars, schedVars, portVars, ptpVars, envVars, TypeOK,
                         MachineTypeOK
    <3>2. role' = role /\ pst' = pst /\ brg' = brg /\ active' = active
       BY <2>3 DEF vars, schedVars, ptpVars
    <3>3. RolesKept BY <3>2 DEF RolesKept
    <3>4. ActiveEnabled' BY <3>2 DEF RoleInv, ActiveEnabled
    <3>5. QED BY <3>1, <3>3, <3>4, RolesKeptSuffices DEF RoleInv
  <2>4. QED BY <2>1, <2>2, <2>3 DEF Next
<1>3. QED BY <1>1, <1>2, PTL DEF Spec

\* In every network and after every step: each port's role is the one its Port
\* Role Transitions state stands for, a port without an active role is told
\* neither to learn nor to forward, a port past BLOCK_PORT or DISABLE_PORT is
\* discarding, and the state the kernel was given last is the one the Port
\* State Transition machine is in.
THEOREM RolesAndStatesAgree == Spec => []PortRolesAndStates
<1>1. RoleInv => PortRolesAndStates BY DEF RoleInv
<1>2. QED BY <1>1, RoleInvAlways, PTL
=============================================================================
