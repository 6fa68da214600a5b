--------------------------- MODULE StateMachines ----------------------------
(***************************************************************************)
(* br_state_machines_begin and br_state_machines_run of mstp.c: every      *)
(* machine of a bridge is put into its begin state, and all machines are   *)
(* run, pass after pass, until none can move or a second has gone by.      *)
(*                                                                         *)
(* A slot <<machine, port, MSTID>> is one state machine of a bridge.  A    *)
(* pass visits the slots in the order of their rank, and stays at a slot   *)
(* as long as the transitions of its machine call M_run again.             *)
(***************************************************************************)
EXTENDS PortStates

CONSTANT TreeSpace      \* more than every MSTID in the model

ASSUME TreeSpaceAssumption ==
    TreeSpace \in Nat \ {0} /\ Mstis \subseteq 1..(TreeSpace - 1)

BA == 0
PRSM == 1
PPMSM == 2
BDSM == 3
PTSM == 4
PISM == 5
PRSSM == 6
PRTSM == 7
PSTSM == 8
TCSM == 9

Slots(b) ==
    ({BA, PRSM, PPMSM, BDSM, PTSM} \X PortsOf(b) \X {0})
    \cup ({PISM, PRTSM, PSTSM, TCSM} \X PortsOf(b) \X Trees)
    \cup ({PRSSM} \X {NoPort} \X Trees)

Rank(s) == (s[1] * PortSpace + s[2]) * TreeSpace + s[3]

\* What machine s of bridge b would do now: its dry run.
Machine_run(b, s) ==
    LET p == s[2]
        x == <<s[2], s[3]>>
    IN  CASE s[1] = BA -> BA_run(p)
          [] s[1] = PRSM -> PRSM_run(p)
          [] s[1] = PPMSM -> PPMSM_run(p)
          [] s[1] = BDSM -> BDSM_run(p)
          [] s[1] = PTSM -> PTSM_run(p)
          [] s[1] = PISM -> PISM_run(x)
          [] s[1] = PRSSM -> PRSSM_run(b, s[3])
          [] s[1] = PRTSM -> PRTSM_run(x)
          [] s[1] = PSTSM -> PSTSM_run(x)
          [] s[1] = TCSM -> TCSM_run(x)

\* The machines whose dry run announces a change.
Ready(b) == {s \in Slots(b) : Machine_run(b, s) # None}

First(S) == CHOOSE s \in S : \A u \in S : Rank(s) <= Rank(u)

\* The part of the current pass that still has work.
Ahead(S) == {s \in S : Rank(s) >= pos}

\* The next machine to move: the first one ahead or, when the pass is over,
\* the first one of the next pass.
Upcoming(S) == First(IF Ahead(S) = {} THEN S ELSE Ahead(S))

\* Mutant: PSTSM_run is never called again.
RunsOnce_allPSTSM(b, s) ==
    \/ s[1] \in {BA, PRSM, BDSM, PRSSM, PSTSM}
    \/ s[1] = PPMSM /\ Machine_run(b, s) = "CHECKING_RSTP"
    \/ s[1] = PTSM /\ Machine_run(b, s) = "TRANSMIT_INIT"

\* The transitions after which M_run is not called again.
RunsOnce(b, s) ==
    \/ s[1] \in {BA, PRSM, BDSM, PRSSM}
    \/ s[1] = PPMSM /\ Machine_run(b, s) = "CHECKING_RSTP"
    \/ s[1] = PTSM /\ Machine_run(b, s) = "TRANSMIT_INIT"
    \/ s[1] = PSTSM /\ Machine_run(b, s) = "FORWARDING"

PRSM_step(p) ==
    \/ PRSM_to_DISCARD(p)
    \/ PRSM_to_RECEIVE(p)

PPMSM_step(p) ==
    \/ PPMSM_to_CHECKING_RSTP(p)
    \/ PPMSM_to_SELECTING_STP(p)
    \/ PPMSM_to_SENSING(p)

BDSM_step(p) ==
    \/ BDSM_to_EDGE(p)
    \/ BDSM_to_NOT_EDGE(p)

PTSM_step(p) ==
    \/ PTSM_to_TRANSMIT_INIT(p)
    \/ PTSM_to_TRANSMIT_CONFIG(p)
    \/ PTSM_to_TRANSMIT_TCN(p)
    \/ PTSM_to_TRANSMIT_RSTP(p)
    \/ PTSM_to_TRANSMIT_PERIODIC(p)
    \/ PTSM_to_IDLE(p)

PISM_step(x) ==
    \/ PISM_to_DISABLED(x)
    \/ PISM_to_AGED(x)
    \/ PISM_to_UPDATE(x)
    \/ PISM_to_RECEIVE(x)
    \/ PISM_to_DESIGNATED(x)
    \/ PISM_to_INFERIOR_DESIGNATED(x)
    \/ PISM_to_NOT_DESIGNATED(x)
    \/ PISM_to_OTHER(x)
    \/ PISM_to_CURRENT(x)

PRTSM_step(x) ==
    \/ PRTSM_to_DISABLE_PORT(x)
    \/ PRTSM_to_DISABLED_PORT(x)
    \/ PRTSM_to_MASTER_or_DESIGNATED_PORT(x)
    \/ PRTSM_to_ROOT_PORT(x)
    \/ PRTSM_to_PROPOSED(x)
    \/ PRTSM_to_AGREED(x)
    \/ PRTSM_to_SYNCED(x)
    \/ PRTSM_to_RETIRED(x)
    \/ PRTSM_to_REROOT(x)
    \/ PRTSM_to_LEARN(x)
    \/ PRTSM_to_FORWARD(x)
    \/ PRTSM_to_DISCARD(x)
    \/ PRTSM_to_DESIGNATED_PROPOSE(x)
    \/ PRTSM_to_BLOCK_PORT(x)
    \/ PRTSM_to_BACKUP_PORT(x)
    \/ PRTSM_to_ALTERNATE_PORT(x)

PSTSM_step(x) ==
    \/ PSTSM_to_DISCARDING(x)
    \/ PSTSM_to_LEARNING(x)
    \/ PSTSM_to_FORWARDING(x)

TCSM_step(x) ==
    \/ TCSM_to_INACTIVE(x)
    \/ TCSM_to_LEARNING(x)
    \/ TCSM_to_DETECTED(x)
    \/ TCSM_to_NOTIFIED_TCN(x)
    \/ TCSM_to_NOTIFIED_TC(x)
    \/ TCSM_to_PROPAGATING(x)
    \/ TCSM_to_ACKNOWLEDGED(x)
    \/ TCSM_to_ACTIVE(x)

\* The transition of machine s of bridge b.
Machine_step(b, s) ==
    \/ s[1] = BA /\ BA_to_INCONSISTENT(s[2])
    \/ s[1] = PRSM /\ PRSM_step(s[2])
    \/ s[1] = PPMSM /\ PPMSM_step(s[2])
    \/ s[1] = BDSM /\ BDSM_step(s[2])
    \/ s[1] = PTSM /\ PTSM_step(s[2])
    \/ s[1] = PISM /\ PISM_step(<<s[2], s[3]>>)
    \/ s[1] = PRSSM /\ PRSSM_to_ROLE_SELECTION(b, s[3])
    \/ s[1] = PRTSM /\ PRTSM_step(<<s[2], s[3]>>)
    \/ s[1] = PSTSM /\ PSTSM_step(<<s[2], s[3]>>)
    \/ s[1] = TCSM /\ TCSM_step(<<s[2], s[3]>>)

-----------------------------------------------------------------------------
\* br_state_machines_run of the active bridge.
RunMachine(b) ==
    /\ active = b
    /\ \E ready \in {Ready(b)} :
          /\ ready # {}
          /\ \E s \in {Upcoming(ready)} :
                /\ Machine_step(b, s)
                /\ pos' = Rank(s) + IF RunsOnce(b, s) THEN 1 ELSE 0
    /\ UNCHANGED <<active, brg, adm, envVars>>

\* The dry run finds nothing to do.
RunDone(b) ==
    /\ active = b
    /\ Ready(b) = {}
    /\ active' = NoBridge /\ pos' = 0
    /\ UNCHANGED <<brg, tree, adm, portVars, ptpVars, ageing, chan, envVars>>

\* More than a second has gone by at the end of a pass: the run is given up
\* with work left to do.
RunTimeout(b) ==
    /\ active = b
    /\ budget.stalls > 0
    /\ \E ready \in {Ready(b)} : ready # {} /\ Ahead(ready) = {}
    /\ active' = NoBridge /\ pos' = 0
    /\ budget' = [budget EXCEPT !.stalls = @ - 1]
    /\ UNCHANGED <<brg, tree, adm, portVars, ptpVars, ageing, chan, due>>

\* br_state_machines_run: does nothing on a disabled bridge.
StartRun(b) ==
    /\ active' = IF brg'[b].bridgeEnabled THEN b ELSE NoBridge
    /\ pos' = 0

-----------------------------------------------------------------------------
\* What a caller of br_state_machines_begin may have changed before.
Current == [ tree |-> tree, prt |-> prt, rcv |-> rcv, info |-> info,
             pst |-> pst, tc |-> tc, ageing |-> ageing ]

\* The ports of b on which TCSM_begin starts rapid ageing.  BDSM_begin has
\* made operEdge equal to AdminEdgePort.
BeginsRapidAgeing(b) ==
    IF rstpVersion(b)' THEN {} ELSE {p \in PortsOf(b) : ~adm[p].AdminEdgePort}

\* br_state_machines_begin on top of the changes in c.
StateMachinesBegin(b, c) ==
    LET aged == BeginsRapidAgeing(b)
        last == CHOOSE p \in aged : \A q \in aged : q <= p
        mine(x) == BrOf(x) = b
    IN  /\ tree' = [u \in BridgeTrees |->
              IF u[1] = b
              THEN [c.tree[u] EXCEPT !.PRSSM = "INIT_TREE",
                      !.topology_change = @ /\ PortsOf(b) = {}]
              ELSE c.tree[u]]
        /\ prt' = [p \in Ports |->
              IF p \in aged
              THEN [c.prt[p] EXCEPT !.rapidAgeingWhile = FwdDelay(p)]
              ELSE c.prt[p]]
        /\ rcv' = [p \in Ports |->
              IF BridgeOf[p] = b
              THEN [c.rcv[p] EXCEPT !.PRSM = "DISCARD", !.rcvdBpdu = FALSE,
                                    !.edgeDelayWhile = MigrateTime]
              ELSE c.rcv[p]]
        /\ mig' = [p \in Ports |->
              IF BridgeOf[p] = b
              THEN CheckingRstp([mig[p] EXCEPT !.rcvdRSTP = FALSE,
                                               !.rcvdSTP = FALSE],
                                rstpVersion(b)')
              ELSE mig[p]]
        /\ edge' = [p \in Ports |-> IF BridgeOf[p] = b
                                    THEN EdgeRec(adm[p].AdminEdgePort)
                                    ELSE edge[p]]
        /\ xmt' = [p \in Ports |->
              IF BridgeOf[p] = b
              THEN [TransmitInit(xmt[p]) EXCEPT !.tcAck = FALSE] ELSE xmt[p]]
        /\ info' = [x \in Ptps |-> IF mine(x) THEN DisabledInfo(c.info[x])
                                   ELSE c.info[x]]
        /\ role' = [x \in Ptps |->
              IF mine(x) THEN [InitPort(role[x], PortOf(x)) EXCEPT
                                 !.selectedRole = "Disabled"]
              ELSE role[x]]
        /\ pst' = [x \in Ptps |-> IF mine(x) THEN Discarding ELSE c.pst[x]]
        /\ tc' = [x \in Ptps |->
              IF mine(x) THEN [c.tc[x] EXCEPT !.TCSM = "INACTIVE",
                                              !.tcWhile = 0]
              ELSE c.tc[x]]
        /\ ageing' = IF aged = {} THEN c.ageing
                     ELSE [c.ageing EXCEPT ![b] = FwdDelay(last)]

\* br_state_machines_begin: does nothing on a disabled bridge.
Begin(b, c) ==
    /\ \/ /\ brg'[b].bridgeEnabled
          /\ StateMachinesBegin(b, c)
       \/ /\ ~brg'[b].bridgeEnabled
          /\ tree' = c.tree /\ prt' = c.prt /\ rcv' = c.rcv /\ info' = c.info
          /\ pst' = c.pst /\ tc' = c.tc /\ ageing' = c.ageing
          /\ UNCHANGED <<mig, edge, xmt, role>>
    /\ UNCHANGED <<vec, chan>>
    /\ StartRun(b)
=============================================================================
