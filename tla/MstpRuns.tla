------------------------------ MODULE MstpRuns ------------------------------
(***************************************************************************)
(* Further facts about every network: each BPDU is counted against the     *)
(* transmit hold count, a running topology change timer is reported, and a *)
(* machine that is not run again after a transition has nothing to do.     *)
(***************************************************************************)
EXTENDS MstpSafety

-----------------------------------------------------------------------------
(* The transmit hold count. *)

\* The step leaves what port p has counted alone, or makes it count again,
\* and enters no transmitting state.
CountKept(p) ==
    /\ xmt'[p].PTSM \in {xmt[p].PTSM, "TRANSMIT_INIT", "TRANSMIT_PERIODIC",
                         "IDLE"}
    /\ xmt'[p].txCount = xmt[p].txCount \/ CountsAgain(p)

\* The step puts no BPDU on any link.
NothingSent == \A q \in Ports : Len(chan'[q]) <= Len(chan[q])

\* A port from which nothing is sent.
LEMMA SilentStep ==
    ASSUME TypeOK, TypeOK', NEW p \in Ports,
           Peer[p] # NoPort => Len(chan'[Peer[p]]) <= Len(chan[Peer[p]]),
           xmt'[p].PTSM \in {xmt[p].PTSM, "TRANSMIT_INIT",
                             "TRANSMIT_PERIODIC", "IDLE"}
    PROVE  ~Sends(p)
<1>1. ~(Peer[p] # NoPort /\ Len(chan'[Peer[p]]) > Len(chan[Peer[p]]))
  <2> SUFFICES ASSUME Peer[p] # NoPort
               PROVE  ~(Len(chan'[Peer[p]]) > Len(chan[Peer[p]]))
     OBVIOUS
  <2>1. Peer[p] \in Ports BY TopologyAssumption
  <2>2. Len(chan[Peer[p]]) \in Nat /\ Len(chan'[Peer[p]]) \in Nat
     BY <2>1 DEF TypeOK, MachineTypeOK
  <2>3. QED BY <2>2
<1>2. QED BY <1>1 DEF Sends

\* Channels that do not change.
LEMMA QuietChan ==
    ASSUME TypeOK, chan' = chan
    PROVE  /\ NothingSent
           /\ \A p \in Ports : Peer[p] # NoPort =>
                  Len(chan'[Peer[p]]) <= Len(chan[Peer[p]])
<1>1. \A q \in Ports : Len(chan[q]) \in Nat
   BY DEF TypeOK, MachineTypeOK
<1>2. \A q \in Ports : Len(chan'[q]) <= Len(chan[q]) BY <1>1
<1>3. QED BY <1>2, TopologyAssumption DEF NothingSent

\* A step that keeps the counts and puts nothing on a link.
LEMMA CountKeptSuffices ==
    ASSUME TypeOK, TypeOK', NothingSent, \A p \in Ports : CountKept(p)
    PROVE  \A p \in Ports : Counted(p)
<1> TAKE p \in Ports
<1>1. Peer[p] # NoPort => Len(chan'[Peer[p]]) <= Len(chan[Peer[p]])
   BY TopologyAssumption DEF NothingSent
<1>2. ~Sends(p) BY <1>1, SilentStep DEF CountKept
<1>3. QED BY <1>2 DEF Counted, CountKept

\* A step that leaves the Port Transmit machines alone.
LEMMA XmtUnchanged ==
    ASSUME xmt' = xmt
    PROVE  \A p \in Ports : CountKept(p)
BY DEF CountKept

\* Only Port Information and Port Role Selection write vectors and times,
\* and only Port Transmit sends.
LEMMA VecSteps ==
    ASSUME NEW b \in Bridges, NEW s, Machine_step(b, s)
    PROVE  /\ s[1] \notin {PISM, PRSSM} => vec' = vec
           /\ s[1] # PTSM => chan' = chan
<1> USE DEF BA, PRSM, PPMSM, BDSM, PTSM, PISM, PRSSM, PRTSM, PSTSM, TCSM
<1>1. CASE s[1] \in {BA, PRSM, PPMSM, BDSM, PSTSM}
  <2>1. \/ BA_to_INCONSISTENT(s[2]) \/ PRSM_step(s[2]) \/ PPMSM_step(s[2])
        \/ BDSM_step(s[2]) \/ PSTSM_step(<<s[2], s[3]>>)
     BY <1>1 DEF Machine_step
  <2>2. vec' = vec /\ chan' = chan
     BY <2>1
     DEF BA_to_INCONSISTENT, PRSM_step, PRSM_to_DISCARD, PRSM_to_RECEIVE,
         PPMSM_step, PPMSM_to_CHECKING_RSTP,
         PPMSM_to_SELECTING_STP, PPMSM_to_SENSING, PPMSM_only, BDSM_step,
         BDSM_to_EDGE, BDSM_to_NOT_EDGE, PSTSM_step, PSTSM_to_DISCARDING,
         PSTSM_to_LEARNING, PSTSM_to_FORWARDING, PSTSM_only, ptpVars
  <2>3. QED BY <2>2
<1>2. CASE s[1] = PTSM /\ PTSM_step(s[2])
   BY <1>2
   DEF PTSM_step, PTSM_to_TRANSMIT_INIT, PTSM_to_TRANSMIT_CONFIG,
       PTSM_to_TRANSMIT_TCN, PTSM_to_TRANSMIT_RSTP,
       PTSM_to_TRANSMIT_PERIODIC, PTSM_to_IDLE, PTSM_only, ptpVars
<1>3. CASE s[1] = PISM /\ PISM_step(<<s[2], s[3]>>)
   BY <1>3
   DEF PISM_step, PISM_to_DISABLED, PISM_to_AGED, PISM_to_UPDATE,
       PISM_to_RECEIVE, PISM_to_DESIGNATED, PISM_to_INFERIOR_DESIGNATED,
       PISM_to_NOT_DESIGNATED, PISM_to_OTHER, PISM_to_CURRENT
<1>4. CASE s[1] = PRSSM /\ PRSSM_to_ROLE_SELECTION(b, s[3])
   BY <1>4 DEF PRSSM_to_ROLE_SELECTION
<1>5. CASE s[1] = PRTSM /\ PRTSM_step(<<s[2], s[3]>>)
   BY <1>5
   DEF PRTSM_step, PRTSM_to_DISABLE_PORT, PRTSM_to_DISABLED_PORT,
       PRTSM_to_MASTER_or_DESIGNATED_PORT, PRTSM_to_ROOT_PORT,
       PRTSM_to_PROPOSED, PRTSM_to_AGREED, PRTSM_to_SYNCED,
       PRTSM_to_RETIRED, PRTSM_to_REROOT, PRTSM_to_LEARN, PRTSM_to_FORWARD,
       PRTSM_to_DISCARD, PRTSM_to_DESIGNATED_PROPOSE, PRTSM_to_BLOCK_PORT,
       PRTSM_to_BACKUP_PORT, PRTSM_to_ALTERNATE_PORT, PRTSM_role_only,
       PRTSM_role_info
<1>6. CASE s[1] = TCSM /\ TCSM_step(<<s[2], s[3]>>)
   BY <1>6
   DEF TCSM_step, TCSM_to_INACTIVE, TCSM_to_LEARNING, TCSM_to_DETECTED,
       TCSM_to_NOTIFIED_TCN, TCSM_to_NOTIFIED_TC, TCSM_to_PROPAGATING,
       TCSM_to_ACKNOWLEDGED, TCSM_to_ACTIVE
<1>7. QED BY <1>1, <1>2, <1>3, <1>4, <1>5, <1>6 DEF Machine_step

\* newInfo and newInfoMsti ask for a BPDU, they do not send one.
LEMMA NewInfoCount ==
    ASSUME xmt \in [Ports -> XmtRecs], NEW x, NEW p \in Ports
    PROVE  /\ XmtWithNewInfo(x)[p].txCount = xmt[p].txCount
           /\ XmtWithNewInfo(x)[p].PTSM = xmt[p].PTSM
<1>1. xmt[p] \in XmtRecs OBVIOUS
<1>2. \/ XmtWithNewInfo(x)[p] = xmt[p]
      \/ XmtWithNewInfo(x)[p] = [xmt[p] EXCEPT !.newInfo = TRUE]
      \/ XmtWithNewInfo(x)[p] = [xmt[p] EXCEPT !.newInfoMsti = TRUE]
   BY DEF XmtWithNewInfo
<1>3. QED BY <1>1, <1>2 DEF XmtRecs

LEMMA ChanType ==
    ASSUME TypeOK
    PROVE  chan \in [Ports -> Seq(Bpdus)]
BY DEF TypeOK, MachineTypeOK

\* MSTP_OUT_tx_bpdu concerns the other end of the port's link only.
LEMMA TxChan ==
    ASSUME TypeOK, NEW p \in Ports, NEW q \in Ports, q # p, NEW bpdu,
           chan' = chan \/ chan' = ChanAfterTx(p, bpdu), Peer[q] # NoPort
    PROVE  chan'[Peer[q]] = chan[Peer[q]]
<1>1. chan \in [Ports -> Seq(Bpdus)] BY ChanType
<1>2. Peer[q] \in Ports /\ (Peer[p] # NoPort => Peer[p] \in Ports)
   BY TopologyAssumption
<1>3. Peer[q] # Peer[p] BY LinkAssumption
<1>4. \/ chan' = chan
      \/ chan' = [chan EXCEPT ![Peer[p]] = Append(chan[Peer[p]], bpdu)]
         /\ Peer[p] # NoPort
   BY <1>1, <1>2 DEF ChanAfterTx
<1>5. QED BY <1>1, <1>2, <1>3, <1>4

\* Port Transmit sends a BPDU only below the hold count, and counts it.
LEMMA TransmitCount ==
    ASSUME TypeOK, TypeOK', NEW p \in Ports, PTSM_step(p)
    PROVE  \A q \in Ports : Counted(q)
<1>t. xmt \in [Ports -> XmtRecs] /\ brg \in [Bridges -> BridgeRecs]
   BY DEF TypeOK, MachineTypeOK
<1>b. BridgeOf[p] \in Bridges BY TopologyAssumption
<1> DEFINE limit == brg[BridgeOf[p]].Transmit_Hold_Count
<1>n. limit \in Nat /\ xmt[p] \in XmtRecs /\ xmt[p].txCount \in Nat
   BY <1>t, <1>b, BridgeFields, XmtFields
<1>1. PICK new, bpdu : /\ xmt' = [xmt EXCEPT ![p] = new]
                       /\ chan' = chan \/ chan' = ChanAfterTx(p, bpdu)
   BY <1>t
   DEF PTSM_step, PTSM_to_TRANSMIT_INIT, PTSM_to_TRANSMIT_CONFIG,
       PTSM_to_TRANSMIT_TCN, PTSM_to_TRANSMIT_RSTP,
       PTSM_to_TRANSMIT_PERIODIC, PTSM_to_IDLE
<1>2. ASSUME NEW q \in Ports, q # p PROVE Counted(q)
  <2>1. xmt'[q] = xmt[q] BY <1>t, <1>1, <1>2
  <2>2. Peer[q] # NoPort => chan'[Peer[q]] = chan[Peer[q]]
     BY <1>1, <1>2, TxChan
  <2>3. ~Sends(q)
    <3>1. ~(/\ Peer[q] # NoPort
            /\ Len(chan'[Peer[q]]) > Len(chan[Peer[q]]))
      <4> SUFFICES ASSUME Peer[q] # NoPort
                   PROVE  ~(Len(chan'[Peer[q]]) > Len(chan[Peer[q]]))
         OBVIOUS
      <4>1. Peer[q] \in Ports BY TopologyAssumption
      <4>2. Len(chan[Peer[q]]) \in Nat BY <4>1 DEF TypeOK, MachineTypeOK
      <4>3. QED BY <2>2, <4>2
    <3>2. QED BY <2>1, <3>1 DEF Sends
  <2>4. QED BY <2>1, <2>3 DEF Counted
<1>3. Counted(p)
  <2>1. CASE PTSM_to_TRANSMIT_INIT(p)
    <3>1. xmt'[p] = TransmitInit(xmt[p]) /\ chan' = chan
       BY <1>t, <2>1 DEF PTSM_to_TRANSMIT_INIT
    <3>2. xmt'[p].txCount = 0 /\ xmt'[p].PTSM = "TRANSMIT_INIT"
       BY <1>n, <3>1 DEF TransmitInit, XmtRecs
    <3>3. ~Sends(p) BY <3>1, <3>2, QuietChan, SilentStep
    <3>4. QED BY <3>2, <3>3 DEF Counted, CountsAgain
  <2>2. CASE \/ PTSM_to_TRANSMIT_CONFIG(p) \/ PTSM_to_TRANSMIT_TCN(p)
             \/ PTSM_to_TRANSMIT_RSTP(p)
    <3> DEFINE Transmitting == {"TRANSMIT_CONFIG", "TRANSMIT_TCN",
                                "TRANSMIT_RSTP"}
    <3>1. PICK state \in Transmitting :
              PTSM_run(p) = state /\ xmt'[p] = Transmitted(xmt[p], state)
       BY <1>t, <2>2
       DEF PTSM_to_TRANSMIT_CONFIG, PTSM_to_TRANSMIT_TCN,
           PTSM_to_TRANSMIT_RSTP
    <3>2. ~HoldCountReached(p) /\ xmt[p].PTSM = "IDLE"
       BY <3>1 DEF PTSM_run, None
    <3>3. /\ xmt'[p].txCount = xmt[p].txCount + 1
          /\ xmt'[p].PTSM = state
       BY <1>n, <3>1 DEF Transmitted, XmtRecs
    <3>4. Sends(p) BY <3>1, <3>2, <3>3 DEF Sends
    <3>5. xmt[p].txCount < limit BY <1>n, <3>2 DEF HoldCountReached
    <3>6. QED BY <3>3, <3>4, <3>5 DEF Counted
  <2>3. CASE PTSM_to_TRANSMIT_PERIODIC(p)
    <3>1. PICK v, w : xmt'[p] = [xmt[p] EXCEPT !.PTSM = "TRANSMIT_PERIODIC",
                                        !.newInfo = v, !.newInfoMsti = w]
       BY <1>t, <2>3 DEF PTSM_to_TRANSMIT_PERIODIC
    <3>2. /\ xmt'[p].txCount = xmt[p].txCount
          /\ xmt'[p].PTSM = "TRANSMIT_PERIODIC"
       BY <1>n, <3>1 DEF XmtRecs
    <3>3. chan' = chan BY <2>3 DEF PTSM_to_TRANSMIT_PERIODIC
    <3>4. ~Sends(p) BY <3>2, <3>3, QuietChan, SilentStep
    <3>5. QED BY <3>2, <3>4 DEF Counted
  <2>4. CASE PTSM_to_IDLE(p)
    <3>1. PICK v : xmt'[p] = [xmt[p] EXCEPT !.PTSM = "IDLE", !.helloWhen = v]
       BY <1>t, <2>4 DEF PTSM_to_IDLE
    <3>2. xmt'[p].txCount = xmt[p].txCount /\ xmt'[p].PTSM = "IDLE"
       BY <1>n, <3>1 DEF XmtRecs
    <3>3. chan' = chan BY <2>4 DEF PTSM_to_IDLE
    <3>4. ~Sends(p) BY <3>2, <3>3, QuietChan, SilentStep
    <3>5. QED BY <3>2, <3>4 DEF Counted
  <2>5. QED BY <2>1, <2>2, <2>3, <2>4 DEF PTSM_step
<1>4. QED BY <1>2, <1>3

\* No other machine sends anything.
LEMMA MachineCount ==
    ASSUME TypeOK, NEW b \in Bridges, NEW s, Machine_step(b, s), s[1] # PTSM
    PROVE  \A p \in Ports : CountKept(p)
<1> USE DEF BA, PRSM, PPMSM, BDSM, PTSM, PISM, PRSSM, PRTSM, PSTSM, TCSM
<1>t. xmt \in [Ports -> XmtRecs] BY DEF TypeOK, MachineTypeOK
<1> DEFINE x == <<s[2], s[3]>>
<1>1. xmt' = xmt => \A p \in Ports : CountKept(p) BY DEF CountKept
<1>2. xmt' = XmtWithNewInfo(x) => \A p \in Ports : CountKept(p)
   BY <1>t, NewInfoCount DEF CountKept
<1>3. CASE s[1] \in {BA, PRSM, PPMSM, BDSM, PRSSM, PSTSM}
  <2>1. \/ BA_to_INCONSISTENT(s[2]) \/ PRSM_step(s[2])
        \/ PPMSM_step(s[2]) \/ BDSM_step(s[2])
        \/ PRSSM_to_ROLE_SELECTION(b, s[3]) \/ PSTSM_step(x)
     BY <1>3 DEF Machine_step
  <2>2. xmt' = xmt
     BY <2>1
     DEF BA_to_INCONSISTENT, PRSM_step, PRSM_to_DISCARD, PRSM_to_RECEIVE,
         PPMSM_step, PPMSM_to_CHECKING_RSTP, PPMSM_to_SELECTING_STP,
         PPMSM_to_SENSING, PPMSM_only, BDSM_step, BDSM_to_EDGE,
         BDSM_to_NOT_EDGE, PRSSM_to_ROLE_SELECTION, PSTSM_step,
         PSTSM_to_DISCARDING, PSTSM_to_LEARNING, PSTSM_to_FORWARDING,
         PSTSM_only, portVars
  <2>3. QED BY <1>1, <2>2
<1>4. CASE s[1] = PISM /\ PISM_step(x)
  <2>1. xmt' = xmt \/ xmt' = XmtWithNewInfo(x)
     BY <1>4
     DEF PISM_step, PISM_to_DISABLED, PISM_to_AGED, PISM_to_UPDATE,
         PISM_to_RECEIVE, PISM_to_DESIGNATED, PISM_to_INFERIOR_DESIGNATED,
         PISM_to_NOT_DESIGNATED, PISM_to_OTHER, PISM_to_CURRENT, portVars
  <2>2. QED BY <1>1, <1>2, <2>1
<1>5. CASE s[1] = PRTSM /\ PRTSM_step(x)
  <2>1. xmt' = xmt \/ xmt' = XmtWithNewInfo(x)
     BY <1>5
     DEF PRTSM_step, PRTSM_to_DISABLE_PORT, PRTSM_to_DISABLED_PORT,
         PRTSM_to_MASTER_or_DESIGNATED_PORT, PRTSM_to_ROOT_PORT,
         PRTSM_to_PROPOSED, PRTSM_to_AGREED, PRTSM_to_SYNCED,
         PRTSM_to_RETIRED, PRTSM_to_REROOT, PRTSM_to_LEARN, PRTSM_to_FORWARD,
         PRTSM_to_DISCARD, PRTSM_to_DESIGNATED_PROPOSE, PRTSM_to_BLOCK_PORT,
         PRTSM_to_BACKUP_PORT, PRTSM_to_ALTERNATE_PORT, PRTSM_role_only,
         PRTSM_role_info, portVars
  <2>2. QED BY <1>1, <1>2, <2>1
<1>6. CASE s[1] = TCSM /\ TCSM_step(x)
  <2>1. CASE TCSM_to_INACTIVE(x) \/ TCSM_to_NOTIFIED_TC(x)
    <3>1. PICK v : xmt' = [xmt EXCEPT ![PortOf(x)] = [@ EXCEPT !.tcAck = v]]
       BY <2>1 DEF TCSM_to_INACTIVE, TCSM_to_NOTIFIED_TC
    <3>2. ASSUME NEW p \in Ports PROVE CountKept(p)
      <4>1. xmt[p] \in XmtRecs BY <1>t
      <4>2. \/ xmt'[p] = xmt[p]
            \/ xmt'[p] = [xmt[p] EXCEPT !.tcAck = v]
         BY <1>t, <3>1
      <4>3. QED BY <4>1, <4>2 DEF XmtRecs, CountKept
    <3>3. QED BY <3>2
  <2>2. CASE ~(TCSM_to_INACTIVE(x) \/ TCSM_to_NOTIFIED_TC(x))
    <3>1. xmt' = xmt \/ xmt' = XmtWithNewInfo(x)
       BY <1>6, <2>2
       DEF TCSM_step, TCSM_to_LEARNING, TCSM_to_DETECTED,
           TCSM_to_NOTIFIED_TCN, TCSM_to_PROPAGATING, TCSM_to_ACKNOWLEDGED,
           TCSM_to_ACTIVE, XmtWithNewTc, portVars
    <3>2. QED BY <1>1, <1>2, <3>1
  <2>3. QED BY <2>1, <2>2
<1>7. QED BY <1>3, <1>4, <1>5, <1>6 DEF Machine_step

\* The steps of a run.
LEMMA RunCount ==
    ASSUME TypeOK, TypeOK', NEW b \in Bridges,
           RunMachine(b) \/ RunDone(b) \/ RunTimeout(b)
    PROVE  \A p \in Ports : Counted(p)
<1>1. CASE RunMachine(b)
  <2> DEFINE s == Upcoming(Ready(b))
  <2>1. Ready(b) # {} /\ Machine_step(b, s)
     BY <1>1 DEF RunMachine
  <2>2. s \in Slots(b) BY <2>1, UpcomingType
  <2> HIDE DEF s
  <2>3. CASE s[1] # PTSM
     BY <2>1, <2>3, MachineCount, VecSteps, QuietChan, CountKeptSuffices
  <2>4. CASE s[1] = PTSM
    <3>1. PTSM_step(s[2])
       BY <2>1, <2>4
       DEF Machine_step, BA, PRSM, PPMSM, BDSM, PTSM, PISM, PRSSM, PRTSM,
           PSTSM, TCSM
    <3>2. s[2] \in Ports
       BY <2>2, <2>4
       DEF Slots, PortsOf, BA, PRSM, PPMSM, BDSM, PTSM, PISM, PRSSM, PRTSM,
           PSTSM, TCSM
    <3>3. QED BY <2>1, <3>1, <3>2, TransmitCount
  <2>5. QED BY <2>3, <2>4
<1>2. CASE RunDone(b) \/ RunTimeout(b)
  <2>1. xmt' = xmt /\ chan' = chan
     BY <1>2 DEF RunDone, RunTimeout, portVars
  <2>2. QED BY <2>1, XmtUnchanged, QuietChan, CountKeptSuffices
<1>3. QED BY <1>1, <1>2

\* br_state_machines_begin starts to count again, and touches no other bridge.
LEMMA BeginCount ==
    ASSUME TypeOK, NEW b \in Bridges, NEW c, Begin(b, c)
    PROVE  NothingSent /\ \A p \in Ports : CountKept(p)
<1>0. NothingSent BY QuietChan DEF Begin
<1> SUFFICES \A p \in Ports : CountKept(p) BY <1>0
<1>t. xmt \in [Ports -> XmtRecs] BY DEF TypeOK, MachineTypeOK
<1> TAKE p \in Ports
<1>1. CASE ~brg'[b].bridgeEnabled
  <2>1. xmt' = xmt BY <1>1 DEF Begin
  <2>2. QED BY <2>1 DEF CountKept
<1>2. CASE brg'[b].bridgeEnabled
  <2>1. xmt' = [q \in Ports |->
              IF BridgeOf[q] = b
              THEN [TransmitInit(xmt[q]) EXCEPT !.tcAck = FALSE] ELSE xmt[q]]
     BY <1>2 DEF Begin, StateMachinesBegin
  <2>2. CASE BridgeOf[p] # b BY <2>1, <2>2 DEF CountKept
  <2>3. CASE BridgeOf[p] = b
    <3>1. xmt'[p] = [TransmitInit(xmt[p]) EXCEPT !.tcAck = FALSE]
       BY <2>1, <2>3
    <3>2. xmt[p] \in XmtRecs BY <1>t
    <3>3. xmt'[p].txCount = 0 /\ xmt'[p].PTSM = "TRANSMIT_INIT"
       BY <3>1, <3>2 DEF TransmitInit, XmtRecs
    <3>4. QED BY <3>3 DEF CountKept, CountsAgain
  <2>4. QED BY <2>2, <2>3
<1>3. QED BY <1>1, <1>2

\* A second passes: one more BPDU may be sent.
LEMMA TickCount ==
    ASSUME TypeOK, TypeOK', NEW b \in Bridges, MSTP_IN_one_second(b)
    PROVE  \A p \in Ports : Counted(p)
<1>1. CASE DisabledTick(b)
  <2>1. xmt' = xmt /\ chan' = chan BY <1>1 DEF DisabledTick, portVars
  <2>2. QED BY <2>1, XmtUnchanged, QuietChan, CountKeptSuffices
<1>2. CASE Tick(b)
  <2>t. xmt \in [Ports -> XmtRecs] BY DEF TypeOK, MachineTypeOK
  <2> TAKE p \in Ports
  <2>1. xmt[p] \in XmtRecs /\ xmt[p].txCount \in Nat BY <2>t, XmtFields
  <2>2. \/ xmt'[p] = xmt[p]
        \/ /\ BridgeOf[p] = b
           /\ xmt'[p] = [xmt[p] EXCEPT
                           !.helloWhen = Decremented(xmt[p].helloWhen),
                           !.txCount = Decremented(xmt[p].txCount)]
     BY <1>2 DEF Tick
  <2>3. /\ xmt'[p].PTSM = xmt[p].PTSM
        /\ \/ xmt'[p].txCount = xmt[p].txCount
           \/ /\ BridgeOf[p] = b
              /\ xmt'[p].txCount = Decremented(xmt[p].txCount)
     BY <2>1, <2>2 DEF XmtRecs
  <2>4. \/ xmt'[p].txCount = xmt[p].txCount
        \/ BridgeOf[p] = b /\ xmt'[p].txCount = xmt[p].txCount - 1
     BY <2>1, <2>3 DEF Decremented
  <2>5. chan' = chan BY <1>2 DEF Tick
  <2>6. ~Sends(p) BY <2>3, <2>5, QuietChan, SilentStep
  <2>7. QED BY <2>4, <2>6 DEF Counted
<1>3. QED BY <1>1, <1>2 DEF MSTP_IN_one_second

\* Commands: a new hold count makes every port count again.
LEMMA CommandCount ==
    ASSUME TypeOK, NEW name, NEW on, NEW value,
           IsCommand(name, on, value), Execute(name, on, value)
    PROVE  NothingSent /\ \A p \in Ports : CountKept(p)
<1>t. brg \in [Bridges -> BridgeRecs] /\ xmt \in [Ports -> XmtRecs]
   BY DEF TypeOK, MachineTypeOK
<1>1. CASE \/ name = "address" /\ MSTP_IN_set_bridge_address(on, value)
           \/ name = "version" /\ SetProtocolVersion(on, value)
  <2>1. on \in Bridges BY <1>1 DEF IsCommand, RunFlags, QuietFlags
  <2>2. PICK c : Begin(on, c)
     BY <1>1 DEF MSTP_IN_set_bridge_address, SetProtocolVersion
  <2>3. QED BY <2>1, <2>2, BeginCount
<1>2. CASE name = "txholdcount" /\ SetTxHoldCount(on, value)
  <2>1. on \in Bridges BY <1>2 DEF IsCommand, RunFlags, QuietFlags
  <2>2. chan' = chan BY <1>2 DEF SetTxHoldCount
  <2>3. /\ brg[on] \in BridgeRecs /\ value # brg[on].Transmit_Hold_Count
        /\ brg' = [brg EXCEPT ![on] =
                      [brg[on] EXCEPT !.Transmit_Hold_Count = value]]
     BY <1>2, <1>t, <2>1 DEF SetTxHoldCount
  <2>4. brg'[on].Transmit_Hold_Count # brg[on].Transmit_Hold_Count
     BY <1>t, <2>1, <2>3 DEF BridgeRecs
  <2>5. ASSUME NEW p \in Ports PROVE CountKept(p)
    <3>1. xmt[p] \in XmtRecs BY <1>t
    <3>2. CASE BridgeOf[p] = on
      <4>1. xmt'[p] = [xmt[p] EXCEPT !.txCount = 0]
         BY <1>2, <3>2 DEF SetTxHoldCount
      <4>2. xmt'[p].txCount = 0 /\ xmt'[p].PTSM = xmt[p].PTSM
         BY <3>1, <4>1 DEF XmtRecs
      <4>3. QED BY <2>4, <3>2, <4>2 DEF CountKept, CountsAgain
    <3>3. CASE BridgeOf[p] # on
      <4>1. xmt'[p] = xmt[p] BY <1>2, <3>3 DEF SetTxHoldCount
      <4>2. QED BY <4>1 DEF CountKept
    <3>4. QED BY <3>2, <3>3
  <2>6. QED BY <2>2, <2>5, QuietChan
<1>3. CASE \/ name = "times" /\ SetMaxAgeAndForwardDelay(on, value[1], value[2])
           \/ name = "maxhops" /\ SetMaxHops(on, value)
           \/ name = "ageing" /\ SetAgeingTime(on, value)
           \/ MSTP_IN_set_msti_bridge_config(on[1], on[2], value)
           \/ SetQuietFlag(on, name, value)
           \/ MSTP_IN_port_mcheck(on)
           \/ SetExternalPathCost(on, value) \/ SetAdminP2P(on, value)
           \/ SetAdminEdgePort(on, value) \/ SetRunFlag(on, name, value)
           \/ SetTreePortPriority(on, value) \/ SetInternalPathCost(on, value)
  <2>1. xmt' = xmt /\ chan' = chan
     BY <1>3
     DEF SetMaxAgeAndForwardDelay, SetMaxHops, ChangeBridgeTimes,
         SetAgeingTime, MSTP_IN_set_msti_bridge_config, SetQuietFlag,
         MSTP_IN_port_mcheck, SetExternalPathCost, SetAdminP2P,
         SetAdminEdgePort, SetRunFlag, SetTreePortPriority,
         SetInternalPathCost, ChangeTreePort, portVars
  <2>2. QED BY <2>1, XmtUnchanged, QuietChan
<1>4. QED BY <1>1, <1>2, <1>3 DEF Execute

\* Every event.
LEMMA EventCount ==
    ASSUME TypeOK, TypeOK', Event
    PROVE  \A p \in Ports : Counted(p)
<1>1. ASSUME NEW b \in Bridges, FlapBridge(b)
      PROVE  \A p \in Ports : Counted(p)
  <2>1. PICK c : Begin(b, c)
     BY <1>1, Zenon DEF FlapBridge, MSTP_IN_set_bridge_enable
  <2>2. QED BY <2>1, BeginCount, CountKeptSuffices
<1>2. ASSUME NEW p \in Ports,
             MSTP_IN_rx_bpdu(p) \/ Lose(p) \/ FlapPort(p) \/ ShutDown(p)
      PROVE  \A q \in Ports : Counted(q)
  <2>1. xmt' = xmt
     BY <1>2
     DEF MSTP_IN_rx_bpdu, Lose, FlapPort, ShutDown, PortUp, PortDown, portVars
  <2>2. \/ chan' = chan
        \/ chan' = [chan EXCEPT ![p] = <<>>]
        \/ chan[p] # <<>> /\ chan' = [chan EXCEPT ![p] = Tail(chan[p])]
     BY <1>2
     DEF MSTP_IN_rx_bpdu, Lose, FlapPort, ShutDown, PortUp, PortDown
  <2>3. NothingSent
    <3>1. chan \in [Ports -> Seq(Bpdus)] BY ChanType
    <3>2. ASSUME NEW q \in Ports PROVE Len(chan'[q]) <= Len(chan[q])
      <4>1. chan[q] \in Seq(Bpdus) BY <3>1
      <4>2. Len(chan[q]) \in Nat BY <4>1
      <4>3. \/ chan'[q] = chan[q] \/ chan'[q] = <<>>
            \/ chan[q] # <<>> /\ chan'[q] = Tail(chan[q])
         BY <2>2, <3>1
      <4>4. CASE chan'[q] = chan[q] BY <4>2, <4>4
      <4>5. CASE chan'[q] = <<>> BY <4>2, <4>5
      <4>6. CASE chan[q] # <<>> /\ chan'[q] = Tail(chan[q])
        <5>1. Len(Tail(chan[q])) = Len(chan[q]) - 1 BY <4>1, <4>6
        <5>2. QED BY <4>2, <4>6, <5>1
      <4>7. QED BY <4>3, <4>4, <4>5, <4>6
    <3>3. QED BY <3>2 DEF NothingSent
  <2>4. QED BY <2>1, <2>3, XmtUnchanged, CountKeptSuffices
<1>3. ASSUME NEW c \in Commands, Tell(c)
      PROVE  \A p \in Ports : Counted(p)
  <2>1. NothingSent /\ \A p \in Ports : CountKept(p)
     BY <1>3, EventAssumption, CommandCount DEF Tell
  <2>2. QED BY <2>1, CountKeptSuffices
<1>4. QED BY <1>1, <1>2, <1>3, TickCount DEF Event

\* In every network, whatever its configuration, network ports included, and
\* whatever the order in which machines, ticks and commands follow each
\* other: PTSM sends a BPDU only below the transmit hold count and counts it,
\* no other machine sends one, and the count is taken back one a second or
\* all at once, by begin, by the port going down or by a new hold count.
THEOREM TransmissionsAlwaysCounted == Spec => TransmissionsCounted
<1>1. TypeOK /\ TypeOK' /\ [Next]_vars => [\A p \in Ports : Counted(p)]_vars
  <2> SUFFICES ASSUME TypeOK, TypeOK', Next
               PROVE  \A p \in Ports : Counted(p)
     OBVIOUS
  <2>1. CASE Run BY <2>1, RunCount DEF Run
  <2>2. CASE Event BY <2>2, EventCount
  <2>3. QED BY <2>1, <2>2 DEF Next
<1>2. QED BY <1>1, TypeCorrect, PTL DEF Spec, TransmissionsCounted

-----------------------------------------------------------------------------
(* The topology change flag of a tree. *)

\* TopologyChangeReported of one per-tree port.
Reported(x) == brg[BrOf(x)].bridgeEnabled /\ tc[x].tcWhile # 0 =>
                   tree[TreeOf(x)].topology_change

\* The step leaves alone what Reported(x) is about.
ReportKept(x) ==
    /\ tc'[x].tcWhile = tc[x].tcWhile
    /\ tree'[TreeOf(x)].topology_change = tree[TreeOf(x)].topology_change
    /\ brg'[BrOf(x)].bridgeEnabled = brg[BrOf(x)].bridgeEnabled

\* A per-tree port belongs to a tree of its bridge.
LEMMA TreeOfType ==
    ASSUME NEW x \in Ptps
    PROVE  /\ TreeOf(x) \in BridgeTrees /\ BrOf(x) \in Bridges
           /\ TreeOf(x)[1] = BrOf(x) /\ TreeOf(x)[2] = Mstid(x)
           /\ x \in PtpsOfTree(BrOf(x), Mstid(x))
BY PtpTypes DEF TreeOf, BridgeTrees, PtpsOfTree, Ptps, Trees, Mstid

\* Steps that leave it alone at every port preserve TopologyChangeReported.
LEMMA ReportKeptSuffices ==
    ASSUME TopologyChangeReported,
           \A x \in Ptps : ReportKept(x) \/ Reported(x)'
    PROVE  TopologyChangeReported'
<1> SUFFICES ASSUME NEW x \in Ptps PROVE Reported(x)'
   BY DEF TopologyChangeReported, Reported
<1>1. Reported(x) BY DEF TopologyChangeReported, Reported
<1>2. QED BY <1>1 DEF Reported, ReportKept

\* set_TopologyChange after timers have become zero: the flag stays as long as
\* one of the tree is running.
LEMMA StillReported ==
    ASSUME TopologyChangeReported, brg' = brg, NEW x \in Ptps, NEW new,
           tree'[TreeOf(x)].topology_change
               = TopologyChangeAfter(BrOf(x), Mstid(x), new),
           new[x].tcWhile = tc'[x].tcWhile,
           tc'[x].tcWhile # 0 => tc[x].tcWhile # 0
    PROVE  Reported(x)'
<1> SUFFICES ASSUME brg[BrOf(x)].bridgeEnabled, tc'[x].tcWhile # 0
             PROVE  tree'[TreeOf(x)].topology_change
   BY DEF Reported
<1>1. tree[TreeOf(x)].topology_change BY DEF TopologyChangeReported
<1>2. x \in PtpsOfTree(BrOf(x), Mstid(x)) BY TreeOfType
<1>3. TopologyChangeAfter(BrOf(x), Mstid(x), new)
   BY <1>1, <1>2 DEF TopologyChangeAfter, TreeOf
<1>4. QED BY <1>3

\* newTcWhile sets the flag when it starts a timer.
LEMMA NewlyReported ==
    ASSUME TypeOK, TopologyChangeReported, brg' = brg, NEW x \in Ptps,
           tree' = TreeWithNewTc(x),
           \A y \in Ptps : y # x => tc'[y].tcWhile = tc[y].tcWhile
    PROVE  TopologyChangeReported'
<1>t. tree \in [BridgeTrees -> TreeRecs] BY DEF TypeOK, MachineTypeOK
<1> DEFINE u == TreeOf(x)
           flag == tree[u].topology_change \/ tc[x].tcWhile = 0
<1>u. u \in BridgeTrees /\ tree[u] \in TreeRecs BY <1>t, TreeOfType
<1>1. tree' = [tree EXCEPT ![u] = [tree[u] EXCEPT !.topology_change = flag]]
   BY <1>t, <1>u DEF TreeWithNewTc
<1>2. [tree[u] EXCEPT !.topology_change = flag].topology_change = flag
   BY <1>u DEF TreeRecs
<1>3. /\ tree'[u].topology_change = flag
      /\ \A v \in BridgeTrees : v # u => tree'[v] = tree[v]
   BY <1>t, <1>u, <1>1, <1>2
<1>4. ASSUME NEW y \in Ptps PROVE Reported(y)'
  <2> SUFFICES ASSUME brg[BrOf(y)].bridgeEnabled, tc'[y].tcWhile # 0
               PROVE  tree'[TreeOf(y)].topology_change
     BY DEF Reported
  <2>1. TreeOf(y) \in BridgeTrees BY TreeOfType
  <2>2. CASE y = x
    <3>1. flag BY <2>2 DEF TopologyChangeReported
    <3>2. QED BY <1>3, <2>2, <3>1
  <2>3. CASE y # x
    <3>1. tree[TreeOf(y)].topology_change
       BY <2>3 DEF TopologyChangeReported
    <3>2. QED BY <1>3, <2>1, <3>1
  <2>4. QED BY <2>2, <2>3
<1>5. QED BY <1>4 DEF TopologyChangeReported, Reported

\* What a transition of the Topology Change machine does to the timers and to
\* the flag of the tree: it stops the timer of x and looks whether another one
\* runs, leaves all of them alone, or starts the timer of x if it is stopped.
TcStopped(x) ==
    /\ tc'[x].tcWhile = 0
    /\ \A y \in Ptps : y # x => tc'[y] = tc[y]
    /\ tree'[TreeOf(x)].topology_change
           = TopologyChangeAfter(BrOf(x), Mstid(x), tc')
    /\ \A u \in BridgeTrees : u # TreeOf(x) => tree'[u] = tree[u]
TcTimersKept ==
    /\ tree' = tree
    /\ \A y \in Ptps : tc'[y].tcWhile = tc[y].tcWhile
TcStarted(x) ==
    /\ tree' = TreeWithNewTc(x)
    /\ tc'[x].tcWhile = TcWhile(x)
    /\ \A y \in Ptps : y # x => tc'[y].tcWhile = tc[y].tcWhile

LEMMA TcOutcomes ==
    ASSUME TypeOK, NEW x \in Ptps, TCSM_step(x)
    PROVE  TcStopped(x) \/ TcTimersKept \/ TcStarted(x)
<1>t. tree \in [BridgeTrees -> TreeRecs] /\ tc \in [Ptps -> TcRecs]
   BY DEF TypeOK, MachineTypeOK
<1>u. TreeOf(x) \in BridgeTrees BY TreeOfType
<1>r. \A y \in Ptps : tc[y] \in TcRecs BY <1>t
<1>1. CASE TCSM_to_INACTIVE(x) \/ TCSM_to_ACKNOWLEDGED(x)
  <2>1. PICK s : tc' = [tc EXCEPT ![x] =
                          [tc[x] EXCEPT !.TCSM = s, !.tcWhile = 0]]
     BY <1>1, <1>t DEF TCSM_to_INACTIVE, TCSM_to_ACKNOWLEDGED
  <2> DEFINE flag == TopologyChangeAfter(BrOf(x), Mstid(x), tc')
  <2>2. tree' = [tree EXCEPT ![TreeOf(x)] =
                   [tree[TreeOf(x)] EXCEPT !.topology_change = flag]]
     BY <1>1, <1>t, <1>u DEF TCSM_to_INACTIVE, TCSM_to_ACKNOWLEDGED
  <2>3. [tree[TreeOf(x)] EXCEPT !.topology_change = flag].topology_change
            = flag
     BY <1>t, <1>u DEF TreeRecs
  <2>4. /\ tree'[TreeOf(x)].topology_change = flag
        /\ \A v \in BridgeTrees : v # TreeOf(x) => tree'[v] = tree[v]
     BY <1>t, <1>u, <2>2, <2>3
  <2>5. [tc[x] EXCEPT !.TCSM = s, !.tcWhile = 0].tcWhile = 0
     BY <1>r DEF TcRecs
  <2>6. /\ tc'[x].tcWhile = 0
        /\ \A y \in Ptps : y # x => tc'[y] = tc[y]
     BY <1>t, <2>1, <2>5
  <2>7. QED BY <2>4, <2>6 DEF TcStopped
<1>2. CASE \/ TCSM_to_LEARNING(x) \/ TCSM_to_NOTIFIED_TC(x)
           \/ TCSM_to_ACTIVE(x)
  <2>1. tree' = tree
     BY <1>2 DEF TCSM_to_LEARNING, TCSM_to_NOTIFIED_TC, TCSM_to_ACTIVE
  <2>2. ASSUME NEW y \in Ptps PROVE tc'[y].tcWhile = tc[y].tcWhile
    <3>1. CASE TCSM_to_LEARNING(x)
      <4>1. tc'[y] \in {tc[y], [tc[y] EXCEPT !.TCSM = "LEARNING",
                                  !.rcvdTc = FALSE, !.tcProp = FALSE]}
         BY <1>t, <3>1 DEF TCSM_to_LEARNING
      <4>2. QED BY <1>r, <4>1 DEF TcRecs
    <3>2. CASE TCSM_to_NOTIFIED_TC(x)
      <4>1. PICK v : tc'[y] \in {[tc[y] EXCEPT !.TCSM = "NOTIFIED_TC",
                                               !.rcvdTc = FALSE],
                                 [tc[y] EXCEPT !.tcProp = v]}
         BY <3>2 DEF TCSM_to_NOTIFIED_TC
      <4>2. QED BY <1>r, <4>1 DEF TcRecs
    <3>3. CASE TCSM_to_ACTIVE(x)
      <4>1. tc'[y] \in {tc[y], [tc[y] EXCEPT !.TCSM = "ACTIVE"]}
         BY <1>t, <3>3 DEF TCSM_to_ACTIVE
      <4>2. QED BY <1>r, <4>1 DEF TcRecs
    <3>4. QED BY <1>2, <3>1, <3>2, <3>3
  <2>3. QED BY <2>1, <2>2 DEF TcTimersKept
<1>3. CASE \/ TCSM_to_DETECTED(x) \/ TCSM_to_NOTIFIED_TCN(x)
           \/ TCSM_to_PROPAGATING(x)
  <2>1. tree' = TreeWithNewTc(x)
     BY <1>3
     DEF TCSM_to_DETECTED, TCSM_to_NOTIFIED_TCN, TCSM_to_PROPAGATING
  <2>2. ASSUME NEW y \in Ptps, y # x PROVE tc'[y].tcWhile = tc[y].tcWhile
    <3>1. CASE TCSM_to_DETECTED(x)
      <4>1. PICK v : tc'[y] = [tc[y] EXCEPT !.tcProp = v]
         BY <2>2, <3>1 DEF TCSM_to_DETECTED
      <4>2. QED BY <1>r, <4>1 DEF TcRecs
    <3>2. CASE TCSM_to_NOTIFIED_TCN(x) \/ TCSM_to_PROPAGATING(x)
      <4>1. tc'[y] = tc[y]
         BY <1>t, <2>2, <3>2 DEF TCSM_to_NOTIFIED_TCN, TCSM_to_PROPAGATING
      <4>2. QED BY <4>1
    <3>3. QED BY <1>3, <3>1, <3>2
  <2> DEFINE n == TcWhile(x)
  <2>3. PICK s, v :
           \/ tc'[x] = [tc[x] EXCEPT !.TCSM = s, !.tcWhile = n]
           \/ tc'[x] = [tc[x] EXCEPT !.TCSM = s, !.tcWhile = n, !.tcProp = v]
     BY <1>3, <1>t
     DEF TCSM_to_DETECTED, TCSM_to_NOTIFIED_TCN, TCSM_to_PROPAGATING
  <2> HIDE DEF n
  <2>4. tc'[x].tcWhile = n BY <1>r, <2>3 DEF TcRecs
  <2>5. QED BY <2>1, <2>2, <2>4 DEF TcStarted, n
<1>4. QED BY <1>1, <1>2, <1>3 DEF TCSM_step

\* The Topology Change machine.
LEMMA TcTransition ==
    ASSUME TypeOK, TopologyChangeReported, brg' = brg, NEW x \in Ptps,
           TCSM_step(x)
    PROVE  TopologyChangeReported'
<1>1. CASE TcStopped(x)
  <2>1. ASSUME NEW y \in Ptps PROVE ReportKept(y) \/ Reported(y)'
    <3>1. CASE TreeOf(y) = TreeOf(x)
      <4>1. BrOf(y) = BrOf(x) /\ Mstid(y) = Mstid(x) BY <3>1 DEF TreeOf
      <4>2. tc'[y].tcWhile # 0 => tc[y].tcWhile # 0 BY <1>1 DEF TcStopped
      <4>3. tree'[TreeOf(y)].topology_change
                = TopologyChangeAfter(BrOf(y), Mstid(y), tc')
         BY <1>1, <3>1, <4>1 DEF TcStopped
      <4>4. Reported(y)' BY <4>2, <4>3, StillReported
      <4>5. QED BY <4>4
    <3>2. CASE TreeOf(y) # TreeOf(x)
       BY <1>1, <3>2, TreeOfType DEF TcStopped, ReportKept
    <3>3. QED BY <3>1, <3>2
  <2>2. QED BY <2>1, ReportKeptSuffices
<1>2. CASE TcTimersKept
   BY <1>2, ReportKeptSuffices DEF ReportKept, TcTimersKept
<1>3. CASE TcStarted(x) BY <1>3, NewlyReported DEF TcStarted
<1>4. QED BY <1>1, <1>2, <1>3, TcOutcomes

\* The other machines note a received topology change at most.
LEMMA TcNotes ==
    ASSUME TypeOK, NEW b \in Bridges, NEW s, Machine_step(b, s),
           s[1] # TCSM, NEW y \in Ptps
    PROVE  tc'[y].tcWhile = tc[y].tcWhile /\ tc'[y].TCSM = tc[y].TCSM
<1> USE DEF BA, PRSM, PPMSM, BDSM, PTSM, PISM, PRSSM, PRTSM, PSTSM, TCSM
<1>t. tc \in [Ptps -> TcRecs] /\ tc[y] \in TcRecs BY DEF TypeOK, MachineTypeOK
<1>1. CASE s[1] = PISM /\ PISM_step(<<s[2], s[3]>>)
  <2> DEFINE x == <<s[2], s[3]>>
  <2>1. tc'[y] \in {tc[y], [tc[y] EXCEPT !.rcvdTc = TRUE]}
    <3>1. CASE PISM_to_RECEIVE(x) BY <3>1 DEF PISM_to_RECEIVE
    <3>2. CASE PISM_to_DESIGNATED(x) \/ PISM_to_NOT_DESIGNATED(x)
      <4>1. tc' = tc \/ tc' = [tc EXCEPT ![x] = [tc[x] EXCEPT !.rcvdTc = TRUE]]
        <5>1. tc' = TcWithTcFlags(x)
           BY <3>2 DEF PISM_to_DESIGNATED, PISM_to_NOT_DESIGNATED
        <5>2. QED BY <1>t, <5>1 DEF TcWithTcFlags
      <4>2. QED BY <1>t, <4>1
    <3>3. CASE ~(\/ PISM_to_RECEIVE(x) \/ PISM_to_DESIGNATED(x)
                 \/ PISM_to_NOT_DESIGNATED(x))
      <4>1. tc' = tc
         BY <1>1, <3>3
         DEF PISM_step, PISM_to_DISABLED, PISM_to_AGED, PISM_to_UPDATE,
             PISM_to_INFERIOR_DESIGNATED, PISM_to_OTHER, PISM_to_CURRENT
      <4>2. QED BY <4>1
    <3>4. QED BY <3>1, <3>2, <3>3
  <2>2. QED BY <1>t, <2>1 DEF TcRecs
<1>2. CASE s[1] \in {BA, PRSM, PPMSM, BDSM, PTSM, PSTSM}
  <2>1. \/ BA_to_INCONSISTENT(s[2]) \/ PRSM_step(s[2])
        \/ PPMSM_step(s[2]) \/ BDSM_step(s[2])
        \/ PTSM_step(s[2]) \/ PSTSM_step(<<s[2], s[3]>>)
     BY <1>2 DEF Machine_step
  <2>2. tc' = tc
     BY <2>1
     DEF BA_to_INCONSISTENT, PRSM_step, PRSM_to_DISCARD, PRSM_to_RECEIVE,
         PPMSM_step, PPMSM_to_CHECKING_RSTP, PPMSM_to_SELECTING_STP,
         PPMSM_to_SENSING, PPMSM_only, BDSM_step, BDSM_to_EDGE,
         BDSM_to_NOT_EDGE, PTSM_step, PTSM_to_TRANSMIT_INIT,
         PTSM_to_TRANSMIT_CONFIG, PTSM_to_TRANSMIT_TCN,
         PTSM_to_TRANSMIT_RSTP, PTSM_to_TRANSMIT_PERIODIC, PTSM_to_IDLE,
         PTSM_only, PSTSM_step, PSTSM_to_DISCARDING, PSTSM_to_LEARNING,
         PSTSM_to_FORWARDING, PSTSM_only, ptpVars
  <2>3. QED BY <2>2
<1>3. CASE s[1] = PRSSM /\ PRSSM_to_ROLE_SELECTION(b, s[3])
   BY <1>3 DEF PRSSM_to_ROLE_SELECTION
<1>4. CASE s[1] = PRTSM /\ PRTSM_step(<<s[2], s[3]>>)
  <2>1. tc' = tc
     BY <1>4
     DEF PRTSM_step, PRTSM_to_DISABLE_PORT, PRTSM_to_DISABLED_PORT,
         PRTSM_to_MASTER_or_DESIGNATED_PORT, PRTSM_to_ROOT_PORT,
         PRTSM_to_PROPOSED, PRTSM_to_AGREED, PRTSM_to_SYNCED,
         PRTSM_to_RETIRED, PRTSM_to_REROOT, PRTSM_to_LEARN, PRTSM_to_FORWARD,
         PRTSM_to_DISCARD, PRTSM_to_DESIGNATED_PROPOSE, PRTSM_to_BLOCK_PORT,
         PRTSM_to_BACKUP_PORT, PRTSM_to_ALTERNATE_PORT, PRTSM_role_only,
         PRTSM_role_info
  <2>2. QED BY <2>1
<1>5. QED BY <1>1, <1>2, <1>3, <1>4 DEF Machine_step

\* What a step of a machine does to a tree: Port Role Selection chooses its
\* root, Topology Change sets or clears its flag.
LEMMA TreeSteps ==
    ASSUME TypeOK, NEW b \in Bridges, NEW s, Machine_step(b, s),
           NEW u \in BridgeTrees
    PROVE  /\ tree'[u].BridgeTimes = tree[u].BridgeTimes
           /\ s[1] # PRSSM \/ u # <<b, s[3]>>
                  => tree'[u].rootTimes = tree[u].rootTimes
           /\ s[1] # TCSM
                  => tree'[u].topology_change = tree[u].topology_change
<1> USE DEF BA, PRSM, PPMSM, BDSM, PTSM, PISM, PRSSM, PRTSM, PSTSM, TCSM
<1>t. tree \in [BridgeTrees -> TreeRecs] /\ tree[u] \in TreeRecs
   BY DEF TypeOK, MachineTypeOK
<1>2. CASE s[1] \in {BA, PRSM, PPMSM, BDSM, PTSM, PSTSM}
  <2>1. \/ BA_to_INCONSISTENT(s[2]) \/ PRSM_step(s[2])
        \/ PPMSM_step(s[2]) \/ BDSM_step(s[2])
        \/ PTSM_step(s[2]) \/ PSTSM_step(<<s[2], s[3]>>)
     BY <1>2 DEF Machine_step
  <2>2. tree' = tree
     BY <2>1
     DEF BA_to_INCONSISTENT, PRSM_step, PRSM_to_DISCARD, PRSM_to_RECEIVE,
         PPMSM_step, PPMSM_to_CHECKING_RSTP, PPMSM_to_SELECTING_STP,
         PPMSM_to_SENSING, PPMSM_only, BDSM_step, BDSM_to_EDGE,
         BDSM_to_NOT_EDGE, PTSM_step, PTSM_to_TRANSMIT_INIT,
         PTSM_to_TRANSMIT_CONFIG, PTSM_to_TRANSMIT_TCN,
         PTSM_to_TRANSMIT_RSTP, PTSM_to_TRANSMIT_PERIODIC, PTSM_to_IDLE,
         PTSM_only, PSTSM_step, PSTSM_to_DISCARDING, PSTSM_to_LEARNING,
         PSTSM_to_FORWARDING, PSTSM_only
  <2>3. QED BY <2>2
<1>3. CASE s[1] = PISM /\ PISM_step(<<s[2], s[3]>>)
  <2>1. tree' = tree
     BY <1>3
     DEF PISM_step, PISM_to_DISABLED, PISM_to_AGED, PISM_to_UPDATE,
         PISM_to_RECEIVE, PISM_to_DESIGNATED, PISM_to_INFERIOR_DESIGNATED,
         PISM_to_NOT_DESIGNATED, PISM_to_OTHER, PISM_to_CURRENT
  <2>2. QED BY <2>1
<1>4. CASE s[1] = PRSSM /\ PRSSM_to_ROLE_SELECTION(b, s[3])
  <2>1. PICK n, v, w : tree' = [tree EXCEPT ![<<b, s[3]>>] =
                          [@ EXCEPT !.PRSSM = "ROLE_SELECTION",
                                    !.rootPortId = n, !.rootPriority = v,
                                    !.rootTimes = w]]
     BY <1>4 DEF PRSSM_to_ROLE_SELECTION
  <2>2. \/ tree'[u] = tree[u]
        \/ /\ u = <<b, s[3]>>
           /\ tree'[u] = [tree[u] EXCEPT !.PRSSM = "ROLE_SELECTION",
                         !.rootPortId = n, !.rootPriority = v,
                         !.rootTimes = w]
     BY <1>t, <2>1
  <2>3. CASE tree'[u] = tree[u] BY <2>3
  <2>4. CASE /\ u = <<b, s[3]>>
             /\ tree'[u] = [tree[u] EXCEPT !.PRSSM = "ROLE_SELECTION",
                           !.rootPortId = n, !.rootPriority = v,
                           !.rootTimes = w]
     BY <1>4, <1>t, <2>4 DEF TreeRecs
  <2>5. QED BY <2>2, <2>3, <2>4
<1>5. CASE s[1] = PRTSM /\ PRTSM_step(<<s[2], s[3]>>)
  <2>1. tree' = tree
     BY <1>5
     DEF PRTSM_step, PRTSM_to_DISABLE_PORT, PRTSM_to_DISABLED_PORT,
         PRTSM_to_MASTER_or_DESIGNATED_PORT, PRTSM_to_ROOT_PORT,
         PRTSM_to_PROPOSED, PRTSM_to_AGREED, PRTSM_to_SYNCED,
         PRTSM_to_RETIRED, PRTSM_to_REROOT, PRTSM_to_LEARN, PRTSM_to_FORWARD,
         PRTSM_to_DISCARD, PRTSM_to_DESIGNATED_PROPOSE, PRTSM_to_BLOCK_PORT,
         PRTSM_to_BACKUP_PORT, PRTSM_to_ALTERNATE_PORT, PRTSM_role_only,
         PRTSM_role_info
  <2>2. QED BY <2>1
<1>6. CASE s[1] = TCSM /\ TCSM_step(<<s[2], s[3]>>)
  <2>1. \/ tree' = tree
        \/ \E w, v : tree' = [tree EXCEPT ![w] =
                                [tree[w] EXCEPT !.topology_change = v]]
     BY <1>6, <1>t
     DEF TCSM_step, TCSM_to_INACTIVE, TCSM_to_LEARNING, TCSM_to_DETECTED,
         TCSM_to_NOTIFIED_TCN, TCSM_to_NOTIFIED_TC, TCSM_to_PROPAGATING,
         TCSM_to_ACKNOWLEDGED, TCSM_to_ACTIVE, TreeWithNewTc
  <2>2. \/ tree'[u] = tree[u]
        \/ \E v : tree'[u] = [tree[u] EXCEPT !.topology_change = v]
     BY <1>t, <2>1
  <2>3. QED BY <1>6, <1>t, <2>2 DEF TreeRecs
<1>7. QED BY <1>2, <1>3, <1>4, <1>5, <1>6 DEF Machine_step

\* The other machines touch neither the timers nor the flag.
LEMMA MachineReport ==
    ASSUME TypeOK, brg' = brg, NEW b \in Bridges, NEW s, Machine_step(b, s),
           s[1] # TCSM
    PROVE  \A x \in Ptps : ReportKept(x)
BY TcNotes, TreeSteps, TreeOfType DEF ReportKept

\* The steps of a run.
LEMMA RunReport ==
    ASSUME TypeOK, TopologyChangeReported, NEW b \in Bridges,
           RunMachine(b) \/ RunDone(b) \/ RunTimeout(b)
    PROVE  TopologyChangeReported'
<1>1. CASE RunMachine(b)
  <2> DEFINE s == Upcoming(Ready(b))
  <2>1. Ready(b) # {} /\ Machine_step(b, s) /\ brg' = brg
     BY <1>1 DEF RunMachine
  <2>2. s \in Slots(b) BY <2>1, UpcomingType
  <2> HIDE DEF s
  <2>3. CASE s[1] # TCSM BY <2>1, <2>3, MachineReport, ReportKeptSuffices
  <2>4. CASE s[1] = TCSM
    <3>1. TCSM_step(<<s[2], s[3]>>)
       BY <2>1, <2>4
       DEF Machine_step, BA, PRSM, PPMSM, BDSM, PTSM, PISM, PRSSM, PRTSM,
           PSTSM, TCSM
    <3>2. <<s[2], s[3]>> \in Ptps
       BY <2>2, <2>4
       DEF Slots, PortsOf, Ptps, BA, PRSM, PPMSM, BDSM, PTSM, PISM, PRSSM,
           PRTSM, PSTSM, TCSM
    <3>3. QED BY <2>1, <3>1, <3>2, TcTransition
  <2>5. QED BY <2>3, <2>4
<1>2. CASE RunDone(b) \/ RunTimeout(b)
  <2>1. tc' = tc /\ tree' = tree /\ brg' = brg
     BY <1>2 DEF RunDone, RunTimeout, ptpVars
  <2>2. QED BY <2>1, ReportKeptSuffices DEF ReportKept
<1>3. QED BY <1>1, <1>2

\* br_state_machines_begin stops the timers of the bridge, or leaves a bridge
\* behind that is disabled.
LEMMA BeginReport ==
    ASSUME TopologyChangeReported, NEW b \in Bridges, NEW c, Begin(b, c),
           c.tc \in [Ptps -> TcRecs], c.tree \in [BridgeTrees -> TreeRecs],
           \A x \in Ptps : BrOf(x) # b =>
               /\ c.tc[x].tcWhile = tc[x].tcWhile
               /\ c.tree[TreeOf(x)].topology_change
                      = tree[TreeOf(x)].topology_change
               /\ brg'[BrOf(x)].bridgeEnabled = brg[BrOf(x)].bridgeEnabled
    PROVE  TopologyChangeReported'
<1>1. CASE ~brg'[b].bridgeEnabled
  <2>1. tc' = c.tc /\ tree' = c.tree BY <1>1 DEF Begin
  <2>2. ASSUME NEW x \in Ptps PROVE ReportKept(x) \/ Reported(x)'
     BY <1>1, <2>1 DEF ReportKept, Reported
  <2>3. QED BY <2>2, ReportKeptSuffices
<1>2. CASE brg'[b].bridgeEnabled
  <2>1. StateMachinesBegin(b, c) BY <1>2 DEF Begin
  <2>2. ASSUME NEW x \in Ptps PROVE ReportKept(x) \/ Reported(x)'
    <3>1. CASE BrOf(x) = b
      <4>1. tc'[x] = [c.tc[x] EXCEPT !.TCSM = "INACTIVE", !.tcWhile = 0]
         BY <2>1, <3>1 DEF StateMachinesBegin
      <4>2. c.tc[x] \in TcRecs OBVIOUS
      <4>3. tc'[x].tcWhile = 0 BY <4>1, <4>2 DEF TcRecs
      <4>4. QED BY <4>3 DEF Reported
    <3>2. CASE BrOf(x) # b
      <4>1. tc'[x] = c.tc[x] BY <2>1, <3>2 DEF StateMachinesBegin
      <4>2. TreeOf(x) \in BridgeTrees /\ TreeOf(x)[1] # b
         BY <3>2, TreeOfType
      <4>3. tree'[TreeOf(x)] = c.tree[TreeOf(x)]
         BY <2>1, <4>2 DEF StateMachinesBegin
      <4>4. QED BY <3>2, <4>1, <4>3 DEF ReportKept
    <3>3. QED BY <3>1, <3>2
  <2>3. QED BY <2>2, ReportKeptSuffices
<1>3. QED BY <1>1, <1>2

\* Enabling or disabling a bridge.
LEMMA BridgeEnableReport ==
    ASSUME TypeOK, TopologyChangeReported, NEW b \in Bridges,
           NEW up \in BOOLEAN, MSTP_IN_set_bridge_enable(b, up)
    PROVE  TopologyChangeReported'
<1>t. /\ brg \in [Bridges -> BridgeRecs] /\ tc \in [Ptps -> TcRecs]
      /\ tree \in [BridgeTrees -> TreeRecs]
   BY DEF TypeOK, MachineTypeOK
<1> DEFINE newTree == [u \in BridgeTrees |->
              IF u[1] = b THEN [tree[u] EXCEPT !.topology_change = FALSE]
              ELSE tree[u]]
           newTc == [x \in Ptps |->
              IF BrOf(x) = b THEN [tc[x] EXCEPT !.rcvdTc = FALSE,
                                                !.tcProp = FALSE]
              ELSE tc[x]]
<1>1. \E p, r, i, s, a :
         Begin(b, [ tree |-> newTree, prt |-> p, rcv |-> r, info |-> i,
                    pst |-> s, tc |-> newTc, ageing |-> a ])
   BY Zenon DEF MSTP_IN_set_bridge_enable
<1>2. newTree \in [BridgeTrees -> TreeRecs] BY <1>t, TreeFields
<1>3. newTc \in [Ptps -> TcRecs] BY <1>t, TcFields
<1>4. ASSUME NEW x \in Ptps, BrOf(x) # b
      PROVE  /\ newTc[x] = tc[x]
             /\ newTree[TreeOf(x)] = tree[TreeOf(x)]
             /\ brg'[BrOf(x)] = brg[BrOf(x)]
  <2>1. TreeOf(x) \in BridgeTrees /\ TreeOf(x)[1] = BrOf(x)
        /\ BrOf(x) \in Bridges
     BY TreeOfType
  <2>2. brg'[BrOf(x)] = brg[BrOf(x)]
     BY <1>t, <1>4, <2>1 DEF MSTP_IN_set_bridge_enable
  <2>3. QED BY <1>4, <2>1, <2>2
<1> HIDE DEF newTree, newTc
<1>5. PICK p, r, i, s, a :
         Begin(b, [ tree |-> newTree, prt |-> p, rcv |-> r, info |-> i,
                    pst |-> s, tc |-> newTc, ageing |-> a ])
   BY <1>1
<1> DEFINE c == [ tree |-> newTree, prt |-> p, rcv |-> r, info |-> i,
                  pst |-> s, tc |-> newTc, ageing |-> a ]
<1>6. c.tree = newTree /\ c.tc = newTc OBVIOUS
<1>7. Begin(b, c) BY <1>5
<1> HIDE DEF c
<1>8. QED BY <1>2, <1>3, <1>4, <1>6, <1>7, BeginReport

\* Time passes: a timer that runs out takes the flag along when it is the last
\* one of the tree.
LEMMA TickReport ==
    ASSUME TypeOK, TopologyChangeReported, NEW b \in Bridges, Tick(b)
    PROVE  TopologyChangeReported'
<1>t. tc \in [Ptps -> TcRecs] /\ tree \in [BridgeTrees -> TreeRecs]
   BY DEF TypeOK, MachineTypeOK
<1>b. brg' = brg BY DEF Tick
<1> DEFINE newTc == [x \in Ptps |-> IF BrOf(x) = b
                       THEN [tc[x] EXCEPT !.tcWhile = Decremented(@)]
                       ELSE tc[x]]
           expired(t) == \E x \in PtpsOfTree(b, t) : tc[x].tcWhile = 1
<1>1. /\ tc' = newTc
      /\ tree' = [u \in BridgeTrees |-> IF u[1] = b /\ expired(u[2])
              THEN [tree[u] EXCEPT !.topology_change =
                        TopologyChangeAfter(b, u[2], newTc)]
              ELSE tree[u]]
   BY DEF Tick
<1>2. ASSUME NEW x \in Ptps PROVE ReportKept(x) \/ Reported(x)'
  <2>u. /\ TreeOf(x) \in BridgeTrees /\ TreeOf(x)[1] = BrOf(x)
        /\ TreeOf(x)[2] = Mstid(x)
     BY TreeOfType
  <2>1. CASE BrOf(x) # b
    <3>1. tc'[x] = tc[x] BY <1>1, <2>1
    <3>2. tree'[TreeOf(x)] = tree[TreeOf(x)] BY <1>1, <2>1, <2>u
    <3>3. QED BY <1>b, <3>1, <3>2 DEF ReportKept
  <2>2. CASE BrOf(x) = b
    <3>1. tc'[x] = [tc[x] EXCEPT !.tcWhile = Decremented(tc[x].tcWhile)]
       BY <1>1, <2>2
    <3>2. tc[x] \in TcRecs /\ tc[x].tcWhile \in Nat BY <1>t, TcFields
    <3>3. tc'[x].tcWhile = Decremented(tc[x].tcWhile)
       BY <3>1, <3>2 DEF TcRecs
    <3>4. tc'[x].tcWhile # 0 => tc[x].tcWhile # 0
       BY <3>3 DEF Decremented
    <3>5. CASE expired(Mstid(x))
      <4>1. tree[TreeOf(x)] \in TreeRecs BY <1>t, <2>u
      <4> DEFINE flag == TopologyChangeAfter(BrOf(x), Mstid(x), newTc)
      <4>2. tree'[TreeOf(x)] = [tree[TreeOf(x)] EXCEPT
                                  !.topology_change = flag]
         BY <1>1, <2>2, <2>u, <3>5
      <4> HIDE DEF flag
      <4>3. tree'[TreeOf(x)].topology_change = flag
         BY <4>1, <4>2 DEF TreeRecs
      <4>4. newTc[x].tcWhile = tc'[x].tcWhile BY <1>1
      <4> HIDE DEF newTc
      <4>5. Reported(x)'
         BY <1>b, <3>4, <4>3, <4>4, StillReported DEF flag
      <4>6. QED BY <4>5
    <3>6. CASE ~expired(Mstid(x))
      <4>1. tree'[TreeOf(x)] = tree[TreeOf(x)] BY <1>1, <2>u, <3>6
      <4>2. Reported(x) BY DEF TopologyChangeReported, Reported
      <4>3. QED BY <1>b, <3>4, <4>1, <4>2 DEF Reported
    <3>7. QED BY <3>5, <3>6
  <2>3. QED BY <2>1, <2>2
<1>3. QED BY <1>2, ReportKeptSuffices

\* Commands.
LEMMA CommandReport ==
    ASSUME TypeOK, TopologyChangeReported, NEW name, NEW on, NEW value,
           IsCommand(name, on, value), Execute(name, on, value)
    PROVE  TopologyChangeReported'
<1>t. /\ brg \in [Bridges -> BridgeRecs] /\ tc \in [Ptps -> TcRecs]
      /\ tree \in [BridgeTrees -> TreeRecs]
   BY DEF TypeOK, MachineTypeOK
<1>b. ASSUME NEW b \in Bridges, NEW new, brg' = [brg EXCEPT ![b] = new],
             new.bridgeEnabled = brg[b].bridgeEnabled
      PROVE  \A d \in Bridges : brg'[d].bridgeEnabled = brg[d].bridgeEnabled
   BY <1>t, <1>b
<1>k. ASSUME tc' = tc,
             \A u \in BridgeTrees :
                 tree'[u].topology_change = tree[u].topology_change,
             \A d \in Bridges : brg'[d].bridgeEnabled = brg[d].bridgeEnabled
      PROVE  TopologyChangeReported'
   BY <1>k, ReportKeptSuffices, TreeOfType DEF ReportKept
<1>1. CASE name = "address" /\ MSTP_IN_set_bridge_address(on, value)
  <2>1. on \in Bridges BY <1>1 DEF IsCommand, RunFlags, QuietFlags
  <2> DEFINE moved == [u \in BridgeTrees |->
                IF u[1] = on
                THEN [tree[u] EXCEPT !.BridgeIdentifier =
                          BridgeIdentifier(BridgePrio(@), value)]
                ELSE tree[u]]
             c == [Current EXCEPT !.tree = moved]
  <2>2. Begin(on, c) /\ brg' = brg
     BY <1>1 DEF MSTP_IN_set_bridge_address
  <2>3. c.tree = moved /\ c.tc = tc BY DEF Current
  <2>4. moved \in [BridgeTrees -> TreeRecs]
    <3>1. value \in Nat
       BY <1>1, SpaceAssumption DEF IsCommand, RunFlags, QuietFlags
    <3>2. ASSUME NEW u \in BridgeTrees
          PROVE  BridgeIdentifier(BridgePrio(tree[u].BridgeIdentifier), value)
                     \in Nat
      <4>1. tree[u].BridgeIdentifier \in Nat BY <1>t, TreeFields
      <4>2. QED BY <3>1, <4>1, IdentifierTypes
    <3>3. QED BY <1>t, <3>2, TreeFields
  <2>5. \A x \in Ptps : BrOf(x) # on =>
            moved[TreeOf(x)] = tree[TreeOf(x)]
     BY TreeOfType
  <2> HIDE DEF moved, c
  <2>6. QED BY <1>t, <2>1, <2>2, <2>3, <2>4, <2>5, BeginReport
<1>2. CASE name = "version" /\ SetProtocolVersion(on, value)
  <2>1. on \in Bridges BY <1>2 DEF IsCommand, RunFlags, QuietFlags
  <2>2. Begin(on, Current) BY <1>2 DEF SetProtocolVersion
  <2>3. Current.tc = tc /\ Current.tree = tree BY DEF Current
  <2>4. \A d \in Bridges : d # on => brg'[d] = brg[d]
     BY <1>2, <1>t DEF SetProtocolVersion
  <2>5. QED BY <1>t, <2>1, <2>2, <2>3, <2>4, BeginReport, TreeOfType
<1>3. CASE \/ name = "times" /\ SetMaxAgeAndForwardDelay(on, value[1], value[2])
           \/ name = "maxhops" /\ SetMaxHops(on, value)
  <2>1. on \in Bridges BY <1>3 DEF IsCommand, RunFlags, QuietFlags
  <2>2. brg[on] \in BridgeRecs BY <1>t, <2>1
  <2>3. PICK new : /\ ChangeBridgeTimes(on, new)
                   /\ \/ new = [brg[on] EXCEPT !.Max_Age = value[1],
                                               !.Forward_Delay = value[2]]
                      \/ new = [brg[on] EXCEPT !.MaxHops = value]
     BY <1>3 DEF SetMaxAgeAndForwardDelay, SetMaxHops
  <2>4. new.bridgeEnabled = brg[on].bridgeEnabled
     BY <2>2, <2>3 DEF BridgeRecs
  <2>5. brg' = [brg EXCEPT ![on] = new] /\ tc' = tc
     BY <2>3 DEF ChangeBridgeTimes
  <2>6. ASSUME NEW u \in BridgeTrees
        PROVE  tree'[u].topology_change = tree[u].topology_change
    <3>1. tree[u] \in TreeRecs BY <1>t
    <3>2. \/ tree'[u] = tree[u]
          \/ tree'[u] = [tree[u] EXCEPT
                !.BridgeTimes.remainingHops = new.MaxHops,
                !.BridgeTimes.Forward_Delay = new.Forward_Delay,
                !.BridgeTimes.Max_Age = new.Max_Age,
                !.BridgeTimes.Hello_Time = HelloTime]
       BY <2>3 DEF ChangeBridgeTimes
    <3>3. QED BY <3>1, <3>2 DEF TreeRecs
  <2>7. QED BY <1>b, <1>k, <2>1, <2>4, <2>5, <2>6
<1>4. CASE \/ name = "txholdcount" /\ SetTxHoldCount(on, value)
           \/ name = "ageing" /\ SetAgeingTime(on, value)
  <2>1. on \in Bridges BY <1>4 DEF IsCommand, RunFlags, QuietFlags
  <2>2. brg[on] \in BridgeRecs BY <1>t, <2>1
  <2>3. PICK new : /\ brg' = [brg EXCEPT ![on] = new]
                   /\ \/ new = [brg[on] EXCEPT !.Transmit_Hold_Count = value]
                      \/ new = [brg[on] EXCEPT !.Ageing_Time = value]
     BY <1>4, <1>t, <2>1 DEF SetTxHoldCount, SetAgeingTime
  <2>4. new.bridgeEnabled = brg[on].bridgeEnabled
     BY <2>2, <2>3 DEF BridgeRecs
  <2>5. tc' = tc /\ tree' = tree
     BY <1>4 DEF SetTxHoldCount, SetAgeingTime, ptpVars
  <2>6. QED BY <1>b, <1>k, <2>1, <2>3, <2>4, <2>5
<1>5. CASE name = "treeprio"
             /\ MSTP_IN_set_msti_bridge_config(on[1], on[2], value)
  <2>1. tc' = tc /\ brg' = brg BY <1>5 DEF MSTP_IN_set_msti_bridge_config
  <2>2. PICK v : tree' = [tree EXCEPT ![<<on[1], on[2]>>] =
                            [@ EXCEPT !.BridgeIdentifier = v]]
     BY <1>5 DEF MSTP_IN_set_msti_bridge_config
  <2>3. ASSUME NEW u \in BridgeTrees
        PROVE  tree'[u].topology_change = tree[u].topology_change
    <3>1. tree[u] \in TreeRecs BY <1>t
    <3>2. \/ tree'[u] = tree[u]
          \/ tree'[u] = [tree[u] EXCEPT !.BridgeIdentifier = v]
       BY <1>t, <2>2
    <3>3. QED BY <3>1, <3>2 DEF TreeRecs
  <2>4. QED BY <1>k, <2>1, <2>3
<1>6. CASE \/ SetQuietFlag(on, name, value) \/ MSTP_IN_port_mcheck(on)
           \/ SetExternalPathCost(on, value) \/ SetAdminP2P(on, value)
           \/ SetAdminEdgePort(on, value) \/ SetRunFlag(on, name, value)
           \/ SetTreePortPriority(on, value) \/ SetInternalPathCost(on, value)
  <2>1. tc' = tc /\ tree' = tree /\ brg' = brg
     BY <1>6
     DEF SetQuietFlag, MSTP_IN_port_mcheck, SetExternalPathCost, SetAdminP2P,
         SetAdminEdgePort, SetRunFlag, SetTreePortPriority,
         SetInternalPathCost, ChangeTreePort, ptpVars
  <2>2. QED BY <1>k, <2>1
<1>7. QED BY <1>1, <1>2, <1>3, <1>4, <1>5, <1>6 DEF Execute

\* Every event.
LEMMA EventReport ==
    ASSUME TypeOK, TopologyChangeReported, Event
    PROVE  TopologyChangeReported'
<1>1. ASSUME NEW b \in Bridges, MSTP_IN_one_second(b)
      PROVE  TopologyChangeReported'
  <2>1. CASE DisabledTick(b)
    <3>1. tc' = tc /\ tree' = tree /\ brg' = brg
       BY <2>1 DEF DisabledTick, ptpVars
    <3>2. QED BY <3>1, ReportKeptSuffices DEF ReportKept
  <2>2. QED BY <1>1, <2>1, TickReport DEF MSTP_IN_one_second
<1>2. ASSUME NEW b \in Bridges, FlapBridge(b)
      PROVE  TopologyChangeReported'
  <2>1. (~brg[b].bridgeEnabled) \in BOOLEAN OBVIOUS
  <2>2. QED BY <1>2, <2>1, BridgeEnableReport DEF FlapBridge
<1>3. ASSUME NEW p \in Ports,
             MSTP_IN_rx_bpdu(p) \/ Lose(p) \/ FlapPort(p) \/ ShutDown(p)
      PROVE  TopologyChangeReported'
  <2>1. tc' = tc /\ tree' = tree /\ brg' = brg
     BY <1>3
     DEF MSTP_IN_rx_bpdu, Lose, FlapPort, ShutDown, PortUp, PortDown, ptpVars
  <2>2. QED BY <2>1, ReportKeptSuffices DEF ReportKept
<1>4. ASSUME NEW c \in Commands, Tell(c)
      PROVE  TopologyChangeReported'
   BY <1>4, EventAssumption, CommandReport DEF Tell
<1>5. QED BY <1>1, <1>2, <1>3, <1>4 DEF Event

\* In every network and at every step: while a topology change timer runs on
\* an enabled bridge its tree reports a topology change, although timers are
\* started and stopped by four transitions, the tick and begin, and the flag is
\* computed from the timers only when one of them ends.
THEOREM TopologyChangeAlwaysReported == Spec => []TopologyChangeReported
<1> DEFINE Inv == TypeOK /\ TopologyChangeReported
<1>1. Init => Inv
  <2> SUFFICES ASSUME Init PROVE TopologyChangeReported BY InitTypes
  <2>1. \A x \in Ptps : tc[x].tcWhile = 0 BY DEF Init
  <2>2. QED BY <2>1 DEF TopologyChangeReported
<1>2. Inv /\ [Next]_vars => Inv'
  <2> SUFFICES ASSUME Inv, [Next]_vars PROVE Inv' OBVIOUS
  <2>1. CASE Run BY <2>1, RunTypes, RunReport DEF Run
  <2>2. CASE Event BY <2>2, EventTypes, EventReport
  <2>3. CASE UNCHANGED vars
    <3>1. TypeOK'
       BY <2>3
       DEF vars, schedVars, portVars, ptpVars, envVars, TypeOK, MachineTypeOK
    <3>2. tc' = tc /\ tree' = tree /\ brg' = brg BY <2>3 DEF vars, ptpVars
    <3>3. QED BY <3>1, <3>2, ReportKeptSuffices DEF ReportKept
  <2>4. QED BY <2>1, <2>2, <2>3 DEF Next
<1>3. Inv => TopologyChangeReported OBVIOUS
<1>4. QED BY <1>1, <1>2, <1>3, PTL DEF Spec

-----------------------------------------------------------------------------
(* The order of the machines in a pass. *)

\* A number in a positional system is ordered by its leading digit.
LEMMA LeadingDigit ==
    ASSUME NEW n \in Nat, NEW a \in Nat, NEW b \in Nat, NEW c \in Nat,
           NEW d \in Nat, c < n, a < b
    PROVE  a * n + c < b * n + d
<1>1. PICK k \in Nat : b = a + 1 + k
  <2>1. b - a - 1 \in Nat /\ b = a + 1 + (b - a - 1) OBVIOUS
  <2>2. QED BY <2>1
<1>2. k * n \in Nat /\ a * n \in Nat OBVIOUS
<1>3. b * n = a * n + n + k * n BY <1>1
<1>4. QED BY <1>2, <1>3

\* Two numbers that are equal have the same digits.
LEMMA SameDigits ==
    ASSUME NEW n \in Nat, NEW a \in Nat, NEW b \in Nat, NEW c \in Nat,
           NEW d \in Nat, c < n, d < n, a * n + c = b * n + d
    PROVE  a = b /\ c = d
<1>0. a * n \in Nat /\ b * n \in Nat OBVIOUS
<1>1. ~(a < b)
  <2> SUFFICES ASSUME a < b PROVE FALSE OBVIOUS
  <2>1. a * n + c < b * n + d BY LeadingDigit
  <2>2. QED BY <1>0, <2>1
<1>2. ~(b < a)
  <2> SUFFICES ASSUME b < a PROVE FALSE OBVIOUS
  <2>1. b * n + d < a * n + c BY LeadingDigit
  <2>2. QED BY <1>0, <2>1
<1>3. a = b BY <1>1, <1>2
<1>4. QED BY <1>0, <1>3

\* The digits of a slot.
LEMMA SlotDigits ==
    ASSUME NEW b \in Bridges, NEW s \in Slots(b)
    PROVE  /\ s = <<s[1], s[2], s[3]>>
           /\ s[1] \in 0..9 /\ s[2] \in Nat /\ s[2] < PortSpace
           /\ s[3] \in Nat /\ s[3] < TreeSpace
<1>1. /\ s[1] \in {BA, PRSM, PPMSM, BDSM, PTSM, PISM, PRTSM, PSTSM, TCSM,
                   PRSSM}
      /\ s[2] \in Ports \cup {NoPort}
      /\ s[3] \in Trees
      /\ s = <<s[1], s[2], s[3]>>
   BY DEF Slots, PortsOf, Trees
<1>2. s[1] \in 0..9
   BY <1>1 DEF BA, PRSM, PPMSM, BDSM, PTSM, PISM, PRSSM, PRTSM, PSTSM, TCSM
<1>3. \A p \in Ports \cup {NoPort} : p \in Nat /\ p < PortSpace
   BY TopologyAssumption, SpaceAssumption DEF NoPort
<1>4. \A t \in Trees : t \in Nat /\ t < TreeSpace
   BY TreeSpaceAssumption DEF Trees
<1>5. QED BY <1>1, <1>2, <1>3, <1>4

\* A pass visits the machines by kind, and no two at the same place.
LEMMA RankOrder ==
    ASSUME NEW b \in Bridges, NEW s \in Slots(b), NEW u \in Slots(b)
    PROVE  /\ s[1] < u[1] => Rank(s) < Rank(u)
           /\ Rank(s) = Rank(u) => s = u
<1>1. PortSpace \in Nat /\ TreeSpace \in Nat
   BY SpaceAssumption, TreeSpaceAssumption
<1>2. /\ s[1] \in Nat /\ s[2] \in Nat /\ s[2] < PortSpace
      /\ s[3] \in Nat /\ s[3] < TreeSpace
      /\ u[1] \in Nat /\ u[2] \in Nat /\ u[2] < PortSpace
      /\ u[3] \in Nat /\ u[3] < TreeSpace
   BY SlotDigits
<1>3. ASSUME NEW a \in Nat, NEW p \in Nat PROVE a * PortSpace + p \in Nat
  <2>1. a * PortSpace \in Nat BY <1>1
  <2>2. QED BY <2>1
<1> DEFINE m == s[1] * PortSpace + s[2]
           n == u[1] * PortSpace + u[2]
<1>4. m \in Nat /\ n \in Nat BY <1>2, <1>3
<1>5. Rank(s) = m * TreeSpace + s[3] /\ Rank(u) = n * TreeSpace + u[3]
   BY DEF Rank
<1>6. s[1] < u[1] => m < n BY <1>1, <1>2, LeadingDigit
<1>7. m = n => s[1] = u[1] /\ s[2] = u[2]
  <2>1. ASSUME NEW i \in Nat, NEW j \in Nat, NEW p \in Nat, NEW q \in Nat,
               p < PortSpace, q < PortSpace,
               i * PortSpace + p = j * PortSpace + q
        PROVE  i = j /\ p = q
     BY <1>1, <2>1, SameDigits
  <2>2. QED BY <1>2, <2>1
<1> HIDE DEF m, n
<1>8. ASSUME s[1] < u[1] PROVE Rank(s) < Rank(u)
   BY <1>1, <1>2, <1>4, <1>5, <1>6, <1>8, LeadingDigit
<1>9. ASSUME Rank(s) = Rank(u) PROVE s = u
  <2>1. m = n /\ s[3] = u[3]
     BY <1>1, <1>2, <1>4, <1>5, <1>9, SameDigits
  <2>2. QED BY <1>7, <2>1, SlotDigits
<1>10. QED BY <1>8, <1>9

\* The machine that moves next is the first one of those that can move from
\* where the pass is, or of all of them if that is the end of the pass.
LEMMA UpcomingFirst ==
    ASSUME NEW b \in Bridges, NEW u \in Ready(b), pos \in Nat
    PROVE  LET s == Upcoming(Ready(b))
           IN  /\ Rank(s) <= Rank(u) \/ Rank(u) < pos
               /\ Rank(s) >= pos \/ (Rank(s) <= Rank(u) /\ Rank(u) < pos)
<1> DEFINE S == IF Ahead(Ready(b)) = {} THEN Ready(b) ELSE Ahead(Ready(b))
           s == Upcoming(Ready(b))
<1>1. S \subseteq Ready(b) /\ S # {} BY DEF Ahead
<1>2. Ready(b) \subseteq Slots(b) BY DEF Ready
<1>3. \A v \in Ready(b) : Rank(v) \in Nat BY <1>2, RankType
<1>a. Ahead(Ready(b)) # {} => S = Ahead(Ready(b)) OBVIOUS
<1>b. Ahead(Ready(b)) = {} => S = Ready(b) OBVIOUS
<1> HIDE DEF S
<1>4. First(S) \in S /\ \A v \in S : Rank(First(S)) <= Rank(v)
  <2> DEFINE T == {Rank(v) : v \in S}
  <2>1. T \subseteq Nat /\ T # {} BY <1>1, <1>3
  <2>2. PICK n \in T : \A m \in T : n <= m BY <2>1, LeastNatural
  <2>3. PICK v \in S : n = Rank(v) OBVIOUS
  <2>4. \A w \in S : Rank(v) <= Rank(w) BY <2>2, <2>3
  <2>5. QED BY <2>4 DEF First
<1>5. s = First(S) BY DEF Upcoming, S
<1> HIDE DEF s
<1>6. s \in Ready(b) /\ Rank(s) \in Nat /\ Rank(u) \in Nat
   BY <1>1, <1>3, <1>4, <1>5
<1>7. CASE Ahead(Ready(b)) = {}
  <2>1. Rank(s) <= Rank(u) BY <1>4, <1>5, <1>7, <1>b
  <2>2. ~(Rank(u) >= pos) BY <1>7 DEF Ahead
  <2>3. QED BY <1>6, <2>1, <2>2 DEF s
<1>8. CASE Ahead(Ready(b)) # {}
  <2>1. s \in Ahead(Ready(b)) BY <1>4, <1>5, <1>8, <1>a
  <2>2. Rank(s) >= pos BY <2>1 DEF Ahead
  <2>3. Rank(u) >= pos => Rank(s) <= Rank(u)
     BY <1>4, <1>5, <1>8, <1>a DEF Ahead
  <2>4. QED BY <1>6, <2>2, <2>3 DEF s
<1>9. QED BY <1>7, <1>8

-----------------------------------------------------------------------------
(* Port Receive and Bridge Detection of a port in one pass. *)

Receiver(p) == <<PRSM, p, 0>>
Detector(p) == <<BDSM, p, 0>>

\* The pass has left the Port Receive machine of p behind, but not yet its
\* Bridge Detection machine.
PastReceive(p) == Rank(Receiver(p)) < pos /\ pos <= Rank(Detector(p))

\* There, the edge delay of a port that is down has just been restarted.
DelayRestarted(p) ==
    active = BridgeOf[p] /\ ~prt[p].portEnabled /\ PastReceive(p)
        => rcv[p].edgeDelayWhile = MigrateTime

\* Only there, Bridge Detection may still be in EDGE although Port Receive has
\* cleared operEdge.
EdgeLost(p) ==
    /\ brg[BridgeOf[p]].bridgeEnabled
    /\ edge[p].BDSM = "EDGE" /\ edge[p].operEdge = FALSE
EdgeLostPast(p) ==
    EdgeLost(p) => /\ active = BridgeOf[p] /\ PastReceive(p)
                   /\ prt[p].portEnabled = TRUE
                   /\ rcv[p].edgeDelayWhile = MigrateTime

EdgeInv == \A p \in Ports : DelayRestarted(p) /\ EdgeLostPast(p)

\* The two machines of a port and their places in a pass.
LEMMA PortSlots ==
    ASSUME NEW p \in Ports
    PROVE  /\ BridgeOf[p] \in Bridges
           /\ Receiver(p) \in Slots(BridgeOf[p])
           /\ Detector(p) \in Slots(BridgeOf[p])
           /\ Receiver(p)[1] = PRSM /\ Detector(p)[1] = BDSM
           /\ Receiver(p) # Detector(p)
           /\ Rank(Receiver(p)) \in Nat /\ Rank(Detector(p)) \in Nat
           /\ Rank(Receiver(p)) < Rank(Detector(p))
<1>1. BridgeOf[p] \in Bridges BY TopologyAssumption
<1>2. /\ Receiver(p) \in Slots(BridgeOf[p])
      /\ Detector(p) \in Slots(BridgeOf[p])
   BY DEF Receiver, Detector, Slots, PortsOf
<1>3. /\ Receiver(p)[1] = PRSM /\ Detector(p)[1] = BDSM
      /\ Receiver(p)[1] < Detector(p)[1]
   BY DEF Receiver, Detector, PRSM, BDSM
<1>4. Receiver(p) # Detector(p) BY <1>3 DEF PRSM, BDSM
<1>5. QED BY <1>1, <1>2, <1>3, <1>4, RankType, RankOrder

\* A machine placed between them is one of three kinds.
LEMMA KindsBetween ==
    ASSUME NEW p \in Ports, NEW s \in Slots(BridgeOf[p]),
           Rank(Receiver(p)) <= Rank(s), Rank(s) <= Rank(Detector(p))
    PROVE  s[1] \in {PRSM, PPMSM, BDSM}
<1>1. s[1] \in 0..9 BY PortSlots, SlotDigits
<1>2. Rank(s) \in Nat BY PortSlots, RankType
<1>3. ~(s[1] < Receiver(p)[1]) BY <1>2, PortSlots, RankOrder
<1>4. ~(Detector(p)[1] < s[1]) BY <1>2, PortSlots, RankOrder
<1>5. s[1] \in 1..3 BY <1>1, <1>3, <1>4, PortSlots DEF PRSM, BDSM
<1>6. QED BY <1>5 DEF PRSM, PPMSM, BDSM

\* What a step of machine s does to the variables of port p that Bridge
\* Detection looks at.
LEMMA EdgeSteps ==
    ASSUME TypeOK, NEW b \in Bridges, NEW s \in Slots(b), Machine_step(b, s),
           NEW p \in Ports
    PROVE  /\ prt'[p].portEnabled = prt[p].portEnabled
           /\ s \in {Receiver(p), Detector(p)} \/ edge'[p] = edge[p]
           /\ s[1] \in {PRSM, PPMSM, BDSM} /\ s # Receiver(p)
                  => rcv'[p] = rcv[p]
           /\ s = Receiver(p) =>
                  /\ rcv'[p].edgeDelayWhile = MigrateTime
                  /\ edge'[p] = edge[p] \/ prt[p].portEnabled = TRUE
           /\ s = Detector(p) => \E v \in BOOLEAN : edge'[p] = EdgeRec(v)
<1> USE DEF BA, PRSM, PPMSM, BDSM, PTSM, PISM, PRSSM, PRTSM, PSTSM, TCSM
<1>t. /\ prt \in [Ports -> PrtRecs] /\ rcv \in [Ports -> RcvRecs]
      /\ edge \in [Ports -> EdgeRecs]
   BY DEF TypeOK, MachineTypeOK
<1>r. prt[p] \in PrtRecs /\ rcv[p] \in RcvRecs BY <1>t
<1>k. Receiver(p)[1] = PRSM /\ Detector(p)[1] = BDSM
   BY PortSlots
<1>s. s[1] \in {PRSM, BDSM} => s = <<s[1], s[2], 0>> BY DEF Slots
<1>1. CASE s[1] = BA /\ BA_to_INCONSISTENT(s[2])
  <2>1. \/ prt'[p] = prt[p]
        \/ prt'[p] = [prt[p] EXCEPT !.BaInconsistent = TRUE]
     BY <1>1, <1>t DEF BA_to_INCONSISTENT
  <2>2. prt'[p].portEnabled = prt[p].portEnabled
     BY <1>r, <2>1 DEF PrtRecs
  <2>3. edge' = edge BY <1>1 DEF BA_to_INCONSISTENT
  <2>4. QED BY <1>1, <1>k, <2>2, <2>3
<1>2. CASE s[1] = PRSM /\ PRSM_step(s[2])
  <2>1. prt' = prt BY <1>2 DEF PRSM_step, PRSM_to_DISCARD, PRSM_to_RECEIVE
  <2>2. CASE s[2] # p
    <3>1. rcv'[p] = rcv[p] /\ edge'[p] = edge[p]
       BY <1>2, <1>t, <2>2
       DEF PRSM_step, PRSM_to_DISCARD, PRSM_to_RECEIVE
    <3>2. s # Receiver(p) /\ s # Detector(p)
       BY <1>2, <2>2 DEF Receiver, Detector
    <3>3. QED BY <2>1, <3>1, <3>2
  <2>3. CASE s[2] = p
    <3>1. s = Receiver(p) /\ s # Detector(p)
       BY <1>2, <1>s, <1>k, <2>3 DEF Receiver
    <3>2. rcv'[p].edgeDelayWhile = MigrateTime
      <4>1. CASE PRSM_to_DISCARD(p)
        <5>1. rcv'[p] = [rcv[p] EXCEPT !.PRSM = "DISCARD", !.rcvdBpdu = FALSE,
                                       !.edgeDelayWhile = MigrateTime]
           BY <1>t, <4>1 DEF PRSM_to_DISCARD
        <5>2. QED BY <1>r, <5>1 DEF RcvRecs
      <4>2. CASE PRSM_to_RECEIVE(p)
        <5>1. rcv'[p] = [rcv[p] EXCEPT !.PRSM = "RECEIVE", !.rcvdBpdu = FALSE,
                                       !.rcvdInternal = fromSameRegion(p),
                                       !.edgeDelayWhile = MigrateTime]
           BY <1>t, <4>2 DEF PRSM_to_RECEIVE
        <5>2. QED BY <1>r, <5>1 DEF RcvRecs
      <4>3. QED BY <1>2, <2>3, <4>1, <4>2 DEF PRSM_step
    <3>3. edge'[p] = edge[p] \/ prt[p].portEnabled = TRUE
      <4>1. CASE PRSM_to_DISCARD(p) BY <4>1 DEF PRSM_to_DISCARD
      <4>2. CASE PRSM_to_RECEIVE(p)
        <5>1. PRSM_run(p) = "RECEIVE" BY <4>2 DEF PRSM_to_RECEIVE
        <5>2. prt[p].portEnabled BY <5>1 DEF PRSM_run, None
        <5>3. QED BY <1>r, <5>2, PrtFields
      <4>3. QED BY <1>2, <2>3, <4>1, <4>2 DEF PRSM_step
    <3>4. QED BY <2>1, <3>1, <3>2, <3>3
  <2>4. QED BY <2>2, <2>3
<1>3. CASE s[1] = PPMSM /\ PPMSM_step(s[2])
  <2>1. PPMSM_only
     BY <1>3
     DEF PPMSM_step, PPMSM_to_CHECKING_RSTP, PPMSM_to_SELECTING_STP,
         PPMSM_to_SENSING
  <2>2. QED BY <1>3, <1>k, <2>1 DEF PPMSM_only
<1>4. CASE s[1] = BDSM /\ BDSM_step(s[2])
  <2>1. prt' = prt /\ rcv' = rcv
     BY <1>4 DEF BDSM_step, BDSM_to_EDGE, BDSM_to_NOT_EDGE
  <2>2. PICK v \in BOOLEAN : edge' = [edge EXCEPT ![s[2]] = EdgeRec(v)]
     BY <1>4 DEF BDSM_step, BDSM_to_EDGE, BDSM_to_NOT_EDGE
  <2>3. CASE s[2] # p
    <3>1. s # Receiver(p) /\ s # Detector(p)
       BY <1>4, <2>3 DEF Receiver, Detector
    <3>2. edge'[p] = edge[p] BY <1>t, <2>2, <2>3
    <3>3. QED BY <2>1, <3>1, <3>2
  <2>4. CASE s[2] = p
    <3>1. s = Detector(p) /\ s # Receiver(p)
       BY <1>4, <1>s, <1>k, <2>4 DEF Detector
    <3>2. edge'[p] = EdgeRec(v) BY <1>t, <2>2, <2>4
    <3>3. QED BY <2>1, <3>1, <3>2
  <2>5. QED BY <2>3, <2>4
<1>5. ASSUME s[1] \notin {PRSM, PPMSM, BDSM},
             prt'[p].portEnabled = prt[p].portEnabled, edge' = edge
      PROVE  /\ prt'[p].portEnabled = prt[p].portEnabled
             /\ s \in {Receiver(p), Detector(p)} \/ edge'[p] = edge[p]
             /\ s[1] \in {PRSM, PPMSM, BDSM} /\ s # Receiver(p)
                    => rcv'[p] = rcv[p]
             /\ s = Receiver(p) =>
                    /\ rcv'[p].edgeDelayWhile = MigrateTime
                    /\ edge'[p] = edge[p] \/ prt[p].portEnabled = TRUE
             /\ s = Detector(p) => \E v \in BOOLEAN : edge'[p] = EdgeRec(v)
   BY <1>5, <1>k
<1>6. CASE \/ s[1] = PTSM /\ PTSM_step(s[2])
           \/ s[1] = PISM /\ PISM_step(<<s[2], s[3]>>)
           \/ s[1] = PRSSM /\ PRSSM_to_ROLE_SELECTION(b, s[3])
           \/ s[1] = PSTSM /\ PSTSM_step(<<s[2], s[3]>>)
  <2>1. prt' = prt /\ edge' = edge
     BY <1>6
     DEF PTSM_step, PTSM_to_TRANSMIT_INIT, PTSM_to_TRANSMIT_CONFIG,
         PTSM_to_TRANSMIT_TCN, PTSM_to_TRANSMIT_RSTP,
         PTSM_to_TRANSMIT_PERIODIC, PTSM_to_IDLE, PTSM_only,
         PISM_step, PISM_to_DISABLED, PISM_to_AGED, PISM_to_UPDATE,
         PISM_to_RECEIVE, PISM_to_DESIGNATED, PISM_to_INFERIOR_DESIGNATED,
         PISM_to_NOT_DESIGNATED, PISM_to_OTHER, PISM_to_CURRENT,
         PRSSM_to_ROLE_SELECTION, PSTSM_step, PSTSM_to_DISCARDING,
         PSTSM_to_LEARNING, PSTSM_to_FORWARDING, PSTSM_only, portVars
  <2>2. QED BY <1>5, <1>6, <2>1
<1>7. CASE s[1] = PRTSM /\ PRTSM_step(<<s[2], s[3]>>)
  <2>1. prt' = prt /\ edge' = edge
     BY <1>7
     DEF PRTSM_step, PRTSM_to_DISABLE_PORT, PRTSM_to_DISABLED_PORT,
         PRTSM_to_MASTER_or_DESIGNATED_PORT, PRTSM_to_ROOT_PORT,
         PRTSM_to_PROPOSED, PRTSM_to_AGREED, PRTSM_to_SYNCED,
         PRTSM_to_RETIRED, PRTSM_to_REROOT, PRTSM_to_LEARN, PRTSM_to_FORWARD,
         PRTSM_to_DISCARD, PRTSM_to_DESIGNATED_PROPOSE, PRTSM_to_BLOCK_PORT,
         PRTSM_to_BACKUP_PORT, PRTSM_to_ALTERNATE_PORT, PRTSM_role_only,
         PRTSM_role_info, portVars
  <2>2. QED BY <1>5, <1>7, <2>1
<1>8. CASE s[1] = TCSM /\ TCSM_step(<<s[2], s[3]>>)
  <2> DEFINE q == PortOf(<<s[2], s[3]>>)
  <2>1. edge' = edge /\ (prt' = prt \/ prt' = PrtAfterFlush(q))
     BY <1>8
     DEF TCSM_step, TCSM_to_INACTIVE, TCSM_to_LEARNING, TCSM_to_DETECTED,
         TCSM_to_NOTIFIED_TCN, TCSM_to_NOTIFIED_TC, TCSM_to_PROPAGATING,
         TCSM_to_ACKNOWLEDGED, TCSM_to_ACTIVE, portVars
  <2>2. PICK v : \/ prt'[p] = prt[p]
                 \/ prt'[p] = [prt[p] EXCEPT !.rapidAgeingWhile = v]
     BY <1>t, <2>1 DEF PrtAfterFlush
  <2>3. prt'[p].portEnabled = prt[p].portEnabled
     BY <1>r, <2>2 DEF PrtRecs
  <2>4. QED BY <1>5, <1>8, <2>1, <2>3
<1>9. QED BY <1>1, <1>2, <1>3, <1>4, <1>6, <1>7, <1>8 DEF Machine_step

\* A machine of the bridge that runs moves.
LEMMA MachineEdge ==
    ASSUME TypeOK, EdgeInv, NEW b \in Bridges, RunMachine(b)
    PROVE  EdgeInv'
<1> DEFINE s == Upcoming(Ready(b))
<1>1. /\ Ready(b) # {} /\ Machine_step(b, s) /\ active = b
      /\ active' = active /\ brg' = brg
      /\ pos' = Rank(s) + IF RunsOnce(b, s) THEN 1 ELSE 0
   BY DEF RunMachine
<1>2. s \in Ready(b) /\ s \in Slots(b) BY <1>1, UpcomingType
<1>3. pos \in Nat /\ Rank(s) \in Nat BY <1>2, RankType DEF TypeOK
<1>4. pos' \in {Rank(s), Rank(s) + 1} BY <1>1, <1>3
<1>5. s[1] = PRSM => pos' = Rank(s) + 1 BY <1>1, <1>3 DEF RunsOnce
<1>u. ASSUME NEW u \in Ready(b)
      PROVE  /\ Rank(s) <= Rank(u) \/ Rank(u) < pos
             /\ Rank(s) >= pos \/ (Rank(s) <= Rank(u) /\ Rank(u) < pos)
   BY <1>3, UpcomingFirst
<1> HIDE DEF s
<1> SUFFICES ASSUME NEW p \in Ports
             PROVE  DelayRestarted(p)' /\ EdgeLostPast(p)'
   BY DEF EdgeInv
<1> DEFINE r == Receiver(p)
           d == Detector(p)
<1>6. DelayRestarted(p) /\ EdgeLostPast(p) BY DEF EdgeInv
<1>p. /\ prt'[p].portEnabled = prt[p].portEnabled
      /\ s \in {r, d} \/ edge'[p] = edge[p]
      /\ s[1] \in {PRSM, PPMSM, BDSM} /\ s # r => rcv'[p] = rcv[p]
      /\ s = r => /\ rcv'[p].edgeDelayWhile = MigrateTime
                  /\ edge'[p] = edge[p] \/ prt[p].portEnabled = TRUE
      /\ s = d => \E v \in BOOLEAN : edge'[p] = EdgeRec(v)
   BY <1>1, <1>2, EdgeSteps
<1>r. /\ r[1] = PRSM /\ r # d /\ Rank(r) \in Nat /\ Rank(d) \in Nat
      /\ Rank(r) < Rank(d)
   BY PortSlots
<1>d. EdgeLost(p)' => s # d
  <2> SUFFICES ASSUME EdgeLost(p)', s = d PROVE FALSE OBVIOUS
  <2>1. PICK v \in BOOLEAN : edge'[p] = EdgeRec(v) BY <1>p
  <2>2. edge'[p].BDSM = "EDGE" /\ edge'[p].operEdge = FALSE BY DEF EdgeLost
  <2>3. v = FALSE BY <2>1, <2>2 DEF EdgeRec
  <2>4. edge'[p].BDSM = "NOT_EDGE" BY <2>1, <2>3 DEF EdgeRec
  <2>5. QED BY <2>2, <2>4
<1>7. CASE BridgeOf[p] # b
  <2>1. DelayRestarted(p)' BY <1>1, <1>7 DEF DelayRestarted
  <2>2. s # r
    <3>1. s[2] \in PortsOf(b) \/ s[2] = NoPort BY <1>2 DEF Slots
    <3>2. r[2] = p BY DEF Receiver
    <3>3. p # NoPort BY TopologyAssumption, SpaceAssumption DEF NoPort
    <3>4. QED BY <1>7, <3>1, <3>2, <3>3 DEF PortsOf
  <2>3. EdgeLost(p)' => EdgeLost(p) BY <1>1, <1>d, <1>p, <2>2 DEF EdgeLost
  <2>4. ~EdgeLost(p) BY <1>1, <1>6, <1>7 DEF EdgeLostPast
  <2>5. QED BY <2>1, <2>3, <2>4 DEF EdgeLostPast
<1>8. CASE BridgeOf[p] = b
  <2>s. r \in Slots(b) /\ d \in Slots(b) BY <1>8, PortSlots
  <2>i. /\ s # r => Rank(s) # Rank(r)
        /\ s # d => Rank(s) # Rank(d)
     BY <1>2, <2>s, RankOrder
  <2>k. Rank(r) <= Rank(s) /\ Rank(s) <= Rank(d) =>
            s[1] \in {PRSM, PPMSM, BDSM}
     BY <1>2, <1>8, KindsBetween
  <2>d. EdgeLost(p) => d \in Ready(b)
    <3> SUFFICES ASSUME EdgeLost(p) PROVE d \in Ready(b) OBVIOUS
    <3>1. BDSM_run(p) = "NOT_EDGE" BY DEF EdgeLost, BDSM_run
    <3>2. Machine_run(b, d) = BDSM_run(p)
       BY DEF Machine_run, Detector, BA, PRSM, PPMSM, BDSM, PTSM, PISM,
              PRSSM, PRTSM, PSTSM, TCSM
    <3>3. QED BY <2>s, <3>1, <3>2 DEF Ready, None
  <2>r. ~prt[p].portEnabled /\ rcv[p].edgeDelayWhile # MigrateTime
            => r \in Ready(b)
    <3> SUFFICES ASSUME ~prt[p].portEnabled,
                        rcv[p].edgeDelayWhile # MigrateTime
                 PROVE  r \in Ready(b)
       OBVIOUS
    <3>1. PRSM_run(p) = "DISCARD" BY DEF PRSM_run
    <3>2. Machine_run(b, r) = PRSM_run(p)
       BY DEF Machine_run, Receiver, BA, PRSM, PPMSM, BDSM, PTSM, PISM,
              PRSSM, PRTSM, PSTSM, TCSM
    <3>3. QED BY <2>s, <3>1, <3>2 DEF Ready, None
  <2> HIDE DEF r, d
  <2>1. DelayRestarted(p)'
    <3> SUFFICES ASSUME ~prt[p].portEnabled, PastReceive(p)'
                 PROVE  rcv'[p].edgeDelayWhile = MigrateTime
       BY <1>p DEF DelayRestarted
    <3>1. CASE s = r BY <1>p, <3>1
    <3>2. CASE s # r
      <4>1. Rank(r) < pos' /\ pos' <= Rank(d)
         BY DEF PastReceive, r, d
      <4>2. Rank(r) < Rank(s) /\ Rank(s) <= Rank(d)
         BY <1>3, <1>4, <1>r, <2>i, <3>2, <4>1
      <4>3. rcv'[p] = rcv[p] BY <1>3, <1>p, <1>r, <2>k, <3>2, <4>2
      <4>4. rcv[p].edgeDelayWhile = MigrateTime
        <5> SUFFICES ASSUME rcv[p].edgeDelayWhile # MigrateTime PROVE FALSE
           OBVIOUS
        <5>1. r \in Ready(b) BY <2>r
        <5>2. Rank(r) < pos /\ pos <= Rank(s)
           BY <1>3, <1>r, <1>u, <4>2, <5>1
        <5>3. PastReceive(p) BY <1>3, <1>r, <4>2, <5>2 DEF PastReceive, r, d
        <5>4. QED BY <1>1, <1>6, <1>8, <5>3 DEF DelayRestarted
      <4>5. QED BY <4>3, <4>4
    <3>3. QED BY <3>1, <3>2
  <2>2. EdgeLostPast(p)'
    <3> SUFFICES ASSUME EdgeLost(p)'
                 PROVE  /\ PastReceive(p)'
                        /\ prt[p].portEnabled = TRUE
                        /\ rcv'[p].edgeDelayWhile = MigrateTime
       BY <1>1, <1>8, <1>p DEF EdgeLostPast
    <3>1. s # d BY <1>d
    <3>2. CASE edge'[p] # edge[p]
      <4>1. s = r BY <1>p, <3>1, <3>2
      <4>2. prt[p].portEnabled = TRUE /\ rcv'[p].edgeDelayWhile = MigrateTime
         BY <1>p, <3>2, <4>1
      <4>3. pos' = Rank(r) + 1 BY <1>5, <1>r, <4>1
      <4>4. PastReceive(p)' BY <1>r, <4>3 DEF PastReceive, r, d
      <4>5. QED BY <4>2, <4>4
    <3>3. CASE edge'[p] = edge[p]
      <4>1. EdgeLost(p) BY <1>1, <3>3 DEF EdgeLost
      <4>2. /\ PastReceive(p) /\ prt[p].portEnabled = TRUE
            /\ rcv[p].edgeDelayWhile = MigrateTime
         BY <1>6, <4>1 DEF EdgeLostPast
      <4>3. Rank(r) < pos /\ pos <= Rank(d) BY <4>2 DEF PastReceive, r, d
      <4>4. d \in Ready(b) BY <2>d, <4>1
      <4>5. pos <= Rank(s) /\ Rank(s) <= Rank(d)
         BY <1>3, <1>r, <1>u, <4>3, <4>4
      <4>6. Rank(s) < Rank(d) BY <1>3, <1>r, <2>i, <3>1, <4>5
      <4>7. s # r /\ Rank(r) <= Rank(s) BY <1>3, <1>r, <4>3, <4>5
      <4>8. rcv'[p] = rcv[p] BY <1>p, <2>k, <4>5, <4>7
      <4>9. PastReceive(p)'
         BY <1>3, <1>4, <1>r, <4>3, <4>5, <4>6 DEF PastReceive, r, d
      <4>10. QED BY <4>2, <4>8, <4>9
    <3>4. QED BY <3>2, <3>3
  <2>3. QED BY <2>1, <2>2
<1>9. QED BY <1>7, <1>8

\* A run does not end while Bridge Detection has to leave EDGE.
LEMMA RunEdge ==
    ASSUME TypeOK, EdgeInv, NEW b \in Bridges,
           RunMachine(b) \/ RunDone(b) \/ RunTimeout(b)
    PROVE  EdgeInv'
<1>1. CASE RunDone(b) \/ RunTimeout(b)
  <2>1. /\ active' = NoBridge /\ edge' = edge /\ brg' = brg
        /\ Ahead(Ready(b)) = {} /\ active = b
     BY <1>1 DEF RunDone, RunTimeout, portVars, Ahead
  <2> SUFFICES ASSUME NEW p \in Ports
               PROVE  DelayRestarted(p)' /\ EdgeLostPast(p)'
     BY DEF EdgeInv
  <2>2. BridgeOf[p] # NoBridge BY TopologyAssumption DEF NoBridge
  <2>3. ~EdgeLost(p)
    <3> SUFFICES ASSUME EdgeLost(p) PROVE FALSE OBVIOUS
    <3>1. BridgeOf[p] = b /\ PastReceive(p)
       BY <2>1 DEF EdgeInv, EdgeLostPast
    <3>2. BDSM_run(p) = "NOT_EDGE" BY DEF EdgeLost, BDSM_run
    <3>3. Machine_run(b, Detector(p)) = BDSM_run(p)
       BY DEF Machine_run, Detector, BA, PRSM, PPMSM, BDSM, PTSM, PISM,
              PRSSM, PRTSM, PSTSM, TCSM
    <3>4. Detector(p) \in Ready(b)
       BY <3>1, <3>2, <3>3, PortSlots DEF Ready, None
    <3>5. Rank(Detector(p)) >= pos
       BY <3>1, PortSlots DEF PastReceive, TypeOK
    <3>6. QED BY <2>1, <3>4, <3>5 DEF Ahead
  <2>4. QED
     BY <2>1, <2>2, <2>3 DEF DelayRestarted, EdgeLostPast, EdgeLost
<1>2. QED BY <1>1, MachineEdge

\* What an event makes of Bridge Detection of port p: the bridge is disabled,
\* nothing has happened to it, or it is in a state of its own again.
EdgeStart(p) ==
    \/ ~brg'[BridgeOf[p]].bridgeEnabled
    \/ /\ edge'[p] = edge[p]
       /\ brg'[BridgeOf[p]].bridgeEnabled = brg[BridgeOf[p]].bridgeEnabled
    \/ \E v \in BOOLEAN : edge'[p] = EdgeRec(v)

\* What an event does to the scheduler: it starts a pass or no run.
PassStart == pos' = 0 \/ active' = NoBridge

\* That is enough: no pass is between the two machines of a port.
LEMMA EdgeStartSuffices ==
    ASSUME EdgeInv, Idle, PassStart, \A p \in Ports : EdgeStart(p)
    PROVE  EdgeInv'
<1> SUFFICES ASSUME NEW p \in Ports
             PROVE  DelayRestarted(p)' /\ EdgeLostPast(p)'
   BY DEF EdgeInv
<1>1. BridgeOf[p] # NoBridge BY TopologyAssumption DEF NoBridge
<1>2. DelayRestarted(p)'
  <2>1. pos' = 0 => ~PastReceive(p)' BY PortSlots DEF PastReceive
  <2>2. QED BY <1>1, <2>1 DEF PassStart, DelayRestarted
<1>3. ~EdgeLost(p) BY <1>1 DEF EdgeInv, EdgeLostPast, Idle
<1>4. ~EdgeLost(p)'
  <2>1. CASE ~brg'[BridgeOf[p]].bridgeEnabled BY <2>1 DEF EdgeLost
  <2>2. CASE /\ edge'[p] = edge[p]
             /\ brg'[BridgeOf[p]].bridgeEnabled
                    = brg[BridgeOf[p]].bridgeEnabled
     BY <1>3, <2>2 DEF EdgeLost
  <2>3. CASE \E v \in BOOLEAN : edge'[p] = EdgeRec(v)
    <3> SUFFICES ASSUME edge'[p].BDSM = "EDGE", edge'[p].operEdge = FALSE
                 PROVE  FALSE
       BY DEF EdgeLost
    <3>1. PICK v \in BOOLEAN : edge'[p] = EdgeRec(v) BY <2>3
    <3>2. v = FALSE BY <3>1 DEF EdgeRec
    <3>3. edge'[p].BDSM = "NOT_EDGE" BY <3>1, <3>2 DEF EdgeRec
    <3>4. QED BY <3>3
  <2>4. QED BY <2>1, <2>2, <2>3 DEF EdgeStart
<1>5. QED BY <1>2, <1>4 DEF EdgeLostPast

\* br_state_machines_begin.
LEMMA BeginEdge ==
    ASSUME TypeOK, EdgeInv, Idle, NEW b \in Bridges, NEW c, Begin(b, c),
           \A d \in Bridges : d # b =>
               brg'[d].bridgeEnabled = brg[d].bridgeEnabled
    PROVE  EdgeInv'
<1>1. PassStart BY DEF Begin, StartRun, PassStart
<1>2. adm \in [Ports -> AdmRecs] BY DEF TypeOK
<1>3. ASSUME NEW p \in Ports PROVE EdgeStart(p)
  <2>0. BridgeOf[p] \in Bridges BY TopologyAssumption
  <2>1. CASE ~brg'[b].bridgeEnabled
    <3>1. edge' = edge BY <2>1 DEF Begin
    <3>2. QED BY <2>0, <2>1, <3>1 DEF EdgeStart
  <2>2. CASE brg'[b].bridgeEnabled
    <3>1. edge'[p] = IF BridgeOf[p] = b THEN EdgeRec(adm[p].AdminEdgePort)
                     ELSE edge[p]
       BY <2>2 DEF Begin, StateMachinesBegin
    <3>2. adm[p].AdminEdgePort \in BOOLEAN BY <1>2, AdmFields
    <3>3. QED BY <2>0, <3>1, <3>2 DEF EdgeStart
  <2>3. QED BY <2>1, <2>2
<1>4. QED BY <1>1, <1>3, EdgeStartSuffices

\* Commands.
LEMMA CommandEdge ==
    ASSUME TypeOK, EdgeInv, Idle, NEW name, NEW on, NEW value,
           IsCommand(name, on, value), Execute(name, on, value)
    PROVE  EdgeInv'
<1>t. /\ brg \in [Bridges -> BridgeRecs] /\ edge \in [Ports -> EdgeRecs]
   BY DEF TypeOK, MachineTypeOK
<1>b. ASSUME NEW b \in Bridges, NEW new, brg' = [brg EXCEPT ![b] = new],
             new.bridgeEnabled = brg[b].bridgeEnabled
      PROVE  \A d \in Bridges : brg'[d].bridgeEnabled = brg[d].bridgeEnabled
   BY <1>t, <1>b
<1>k. ASSUME PassStart, edge' = edge,
             \A d \in Bridges : brg'[d].bridgeEnabled = brg[d].bridgeEnabled
      PROVE  EdgeInv'
   BY <1>k, EdgeStartSuffices, TopologyAssumption DEF EdgeStart
<1>r. ASSUME NEW changed, NEW p, RunIf(changed, p) PROVE PassStart
   BY <1>r DEF RunIf, schedVars, StartRun, PassStart, Idle
<1>1. CASE name = "address" /\ MSTP_IN_set_bridge_address(on, value)
  <2>1. on \in Bridges BY <1>1 DEF IsCommand, RunFlags, QuietFlags
  <2>2. PICK c : Begin(on, c) /\ brg' = brg
     BY <1>1 DEF MSTP_IN_set_bridge_address
  <2>3. QED BY <2>1, <2>2, BeginEdge
<1>2. CASE name = "version" /\ SetProtocolVersion(on, value)
  <2>1. on \in Bridges BY <1>2 DEF IsCommand, RunFlags, QuietFlags
  <2>2. Begin(on, Current) BY <1>2 DEF SetProtocolVersion
  <2>3. \A d \in Bridges : d # on => brg'[d] = brg[d]
     BY <1>2, <1>t DEF SetProtocolVersion
  <2>4. QED BY <2>1, <2>2, <2>3, BeginEdge
<1>3. CASE \/ name = "times" /\ SetMaxAgeAndForwardDelay(on, value[1], value[2])
           \/ name = "maxhops" /\ SetMaxHops(on, value)
  <2>1. on \in Bridges BY <1>3 DEF IsCommand, RunFlags, QuietFlags
  <2>2. brg[on] \in BridgeRecs BY <1>t, <2>1
  <2>3. PICK new : /\ ChangeBridgeTimes(on, new)
                   /\ \/ new = [brg[on] EXCEPT !.Max_Age = value[1],
                                               !.Forward_Delay = value[2]]
                      \/ new = [brg[on] EXCEPT !.MaxHops = value]
     BY <1>3 DEF SetMaxAgeAndForwardDelay, SetMaxHops
  <2>4. new.bridgeEnabled = brg[on].bridgeEnabled
     BY <2>2, <2>3 DEF BridgeRecs
  <2>5. brg' = [brg EXCEPT ![on] = new] /\ edge' = edge /\ StartRun(on)
     BY <2>3 DEF ChangeBridgeTimes, machineVars
  <2>6. PassStart BY <2>5 DEF StartRun, PassStart
  <2>7. QED BY <1>b, <1>k, <2>1, <2>4, <2>5, <2>6
<1>4. CASE \/ name = "txholdcount" /\ SetTxHoldCount(on, value)
           \/ name = "ageing" /\ SetAgeingTime(on, value)
  <2>1. on \in Bridges BY <1>4 DEF IsCommand, RunFlags, QuietFlags
  <2>2. brg[on] \in BridgeRecs BY <1>t, <2>1
  <2>3. PICK new : /\ brg' = [brg EXCEPT ![on] = new]
                   /\ \/ new = [brg[on] EXCEPT !.Transmit_Hold_Count = value]
                      \/ new = [brg[on] EXCEPT !.Ageing_Time = value]
     BY <1>4, <1>t, <2>1 DEF SetTxHoldCount, SetAgeingTime
  <2>4. new.bridgeEnabled = brg[on].bridgeEnabled
     BY <2>2, <2>3 DEF BridgeRecs
  <2>5. edge' = edge /\ PassStart
     BY <1>4 DEF SetTxHoldCount, SetAgeingTime, machineVars, portVars,
                 schedVars, StartRun, PassStart, Idle
  <2>6. QED BY <1>b, <1>k, <2>1, <2>3, <2>4, <2>5
<1>5. CASE \/ MSTP_IN_set_msti_bridge_config(on[1], on[2], value)
           \/ SetQuietFlag(on, name, value) \/ MSTP_IN_port_mcheck(on)
  <2>1. edge' = edge /\ brg' = brg
     BY <1>5
     DEF MSTP_IN_set_msti_bridge_config, SetQuietFlag, MSTP_IN_port_mcheck,
         machineVars, portVars
  <2>2. PassStart
     BY <1>5
     DEF MSTP_IN_set_msti_bridge_config, SetQuietFlag, MSTP_IN_port_mcheck,
         schedVars, StartRun, PassStart, Idle
  <2>3. QED BY <1>k, <2>1, <2>2
<1>6. CASE \/ SetExternalPathCost(on, value) \/ SetAdminP2P(on, value)
           \/ SetRunFlag(on, name, value)
           \/ SetTreePortPriority(on, value) \/ SetInternalPathCost(on, value)
  <2>1. edge' = edge /\ brg' = brg
     BY <1>6
     DEF SetExternalPathCost, SetAdminP2P, SetRunFlag, SetTreePortPriority,
         SetInternalPathCost, ChangeTreePort, machineVars
  <2>2. \E changed, p : RunIf(changed, p)
     BY <1>6
     DEF SetExternalPathCost, SetAdminP2P, SetRunFlag, SetTreePortPriority,
         SetInternalPathCost, ChangeTreePort
  <2>3. QED BY <1>k, <1>r, <2>1, <2>2
<1>7. CASE name = "adminedge" /\ SetAdminEdgePort(on, value)
  <2>1. value \in BOOLEAN BY <1>7 DEF IsCommand, RunFlags, QuietFlags
  <2>2. /\ brg' = brg /\ edge' = [edge EXCEPT ![on] = EdgeRec(value)]
        /\ RunIf(TRUE, on)
     BY <1>7 DEF SetAdminEdgePort
  <2>3. \A p \in Ports : EdgeStart(p) BY <1>t, <2>1, <2>2 DEF EdgeStart
  <2>4. PassStart BY <1>r, <2>2
  <2>5. QED BY <2>3, <2>4, EdgeStartSuffices
<1>8. QED BY <1>1, <1>2, <1>3, <1>4, <1>5, <1>6, <1>7 DEF Execute

\* Every event.
LEMMA EventEdge ==
    ASSUME TypeOK, EdgeInv, Event
    PROVE  EdgeInv'
<1>0. Idle BY DEF Event
<1>k. ASSUME PassStart, edge' = edge, brg' = brg PROVE EdgeInv'
   BY <1>0, <1>k, EdgeStartSuffices DEF EdgeStart
<1>1. ASSUME NEW b \in Bridges, MSTP_IN_one_second(b) PROVE EdgeInv'
  <2>1. edge' = edge /\ brg' = brg
     BY <1>1 DEF MSTP_IN_one_second, Tick, DisabledTick, portVars
  <2>2. PassStart
     BY <1>0, <1>1
     DEF MSTP_IN_one_second, Tick, DisabledTick, schedVars, StartRun,
         PassStart, Idle
  <2>3. QED BY <1>k, <2>1, <2>2
<1>2. ASSUME NEW b \in Bridges, FlapBridge(b) PROVE EdgeInv'
  <2>1. brg \in [Bridges -> BridgeRecs] BY DEF TypeOK
  <2>2. PICK c : Begin(b, c)
     BY <1>2, Zenon DEF FlapBridge, MSTP_IN_set_bridge_enable
  <2>3. \A d \in Bridges : d # b => brg'[d] = brg[d]
     BY <1>2, <2>1 DEF FlapBridge, MSTP_IN_set_bridge_enable
  <2>4. QED BY <1>0, <2>2, <2>3, BeginEdge
<1>3. ASSUME NEW p \in Ports,
             MSTP_IN_rx_bpdu(p) \/ Lose(p) \/ FlapPort(p) \/ ShutDown(p)
      PROVE  EdgeInv'
  <2>1. edge' = edge /\ brg' = brg
     BY <1>3
     DEF MSTP_IN_rx_bpdu, Lose, FlapPort, ShutDown, PortUp, PortDown,
         portVars, machineVars
  <2>2. PassStart
     BY <1>0, <1>3
     DEF MSTP_IN_rx_bpdu, RxGuarded, RxDropped, RxKept, Lose, FlapPort,
         ShutDown, PortUp, PortDown, schedVars, StartRun, PassStart, Idle
  <2>3. QED BY <1>k, <2>1, <2>2
<1>4. ASSUME NEW c \in Commands, Tell(c) PROVE EdgeInv'
   BY <1>0, <1>4, EventAssumption, CommandEdge DEF Tell
<1>5. QED BY <1>1, <1>2, <1>3, <1>4 DEF Event

-----------------------------------------------------------------------------
(* Once is enough: the transitions after which M_run is not called again. *)

\* Bridge assurance, Port Receive, Protocol Migration and Port Transmit leave
\* a state behind in which they have nothing to do.
LEMMA PortOnce ==
    ASSUME TypeOK, NEW p \in Ports
    PROVE  /\ BA_to_INCONSISTENT(p) => BA_run(p)' = None
           /\ PRSM_step(p) => PRSM_run(p)' = None
           /\ PPMSM_to_CHECKING_RSTP(p) => PPMSM_run(p)' = None
           /\ PTSM_to_TRANSMIT_INIT(p) => PTSM_run(p)' = None
<1>t. /\ prt \in [Ports -> PrtRecs] /\ rcv \in [Ports -> RcvRecs]
      /\ mig \in [Ports -> MigRecs] /\ xmt \in [Ports -> XmtRecs]
   BY DEF TypeOK, MachineTypeOK
<1>r. /\ prt[p] \in PrtRecs /\ rcv[p] \in RcvRecs /\ mig[p] \in MigRecs
      /\ xmt[p] \in XmtRecs
   BY <1>t
<1>1. ASSUME BA_to_INCONSISTENT(p) PROVE BA_run(p)' = None
  <2>1. prt'[p] = [prt[p] EXCEPT !.BaInconsistent = TRUE]
     BY <1>1, <1>t DEF BA_to_INCONSISTENT
  <2>2. prt'[p].BaInconsistent = TRUE BY <1>r, <2>1 DEF PrtRecs
  <2>3. QED BY <2>2 DEF BA_run
<1>2. ASSUME PRSM_step(p) PROVE PRSM_run(p)' = None
  <2>1. rcv'[p].rcvdBpdu = FALSE /\ rcv'[p].edgeDelayWhile = MigrateTime
    <3>1. CASE PRSM_to_DISCARD(p)
      <4>1. rcv'[p] = [rcv[p] EXCEPT !.PRSM = "DISCARD", !.rcvdBpdu = FALSE,
                                     !.edgeDelayWhile = MigrateTime]
         BY <1>t, <3>1 DEF PRSM_to_DISCARD
      <4>2. QED BY <1>r, <4>1 DEF RcvRecs
    <3>2. CASE PRSM_to_RECEIVE(p)
      <4>1. PICK v : rcv'[p] = [rcv[p] EXCEPT !.PRSM = "RECEIVE",
                                     !.rcvdBpdu = FALSE, !.rcvdInternal = v,
                                     !.edgeDelayWhile = MigrateTime]
         BY <1>t, <3>2 DEF PRSM_to_RECEIVE
      <4>2. QED BY <1>r, <4>1 DEF RcvRecs
    <3>3. QED BY <1>2, <3>1, <3>2 DEF PRSM_step
  <2>2. QED BY <2>1 DEF PRSM_run
<1>3. ASSUME PPMSM_to_CHECKING_RSTP(p) PROVE PPMSM_run(p)' = None
  <2>1. PICK v : mig'[p] = CheckingRstp(mig[p], v)
     BY <1>3, <1>t DEF PPMSM_to_CHECKING_RSTP
  <2>2. /\ mig'[p].PPMSM = "CHECKING_RSTP"
        /\ mig'[p].mdelayWhile = MigrateTime
     BY <1>r, <2>1 DEF CheckingRstp, MigRecs
  <2>3. MigrateTime # 0 BY BootAssumption
  <2>4. QED BY <2>2, <2>3 DEF PPMSM_run
<1>4. ASSUME PTSM_to_TRANSMIT_INIT(p) PROVE PTSM_run(p)' = None
  <2>1. PTSM_run(p) = "TRANSMIT_INIT" /\ prt' = prt
     BY <1>4 DEF PTSM_to_TRANSMIT_INIT, PTSM_only
  <2>2. prt[p].portEnabled = FALSE
    <3>1. ~prt[p].portEnabled BY <2>1 DEF PTSM_run, None
    <3>2. QED BY <1>r, <3>1, PrtFields
  <2>3. xmt'[p] = TransmitInit(xmt[p])
     BY <1>4, <1>t DEF PTSM_to_TRANSMIT_INIT
  <2>4. /\ xmt'[p].PTSM = "TRANSMIT_INIT" /\ xmt'[p].newInfo = TRUE
        /\ xmt'[p].newInfoMsti = TRUE /\ xmt'[p].txCount = 0
     BY <1>r, <2>3 DEF TransmitInit, XmtRecs
  <2>5. QED BY <2>1, <2>2, <2>4 DEF PTSM_run
<1>5. QED BY <1>1, <1>2, <1>3, <1>4

\* Role selection leaves no reselect behind in its tree.
LEMMA SelectionOnce ==
    ASSUME TypeOK, NEW b \in Bridges, NEW t \in Trees,
           PRSSM_to_ROLE_SELECTION(b, t)
    PROVE  PRSSM_run(b, t)' = None
<1>t. tree \in [BridgeTrees -> TreeRecs] /\ info \in [Ptps -> InfoRecs]
   BY DEF TypeOK, MachineTypeOK
<1>1. tree'[<<b, t>>].PRSSM = "ROLE_SELECTION"
  <2>1. <<b, t>> \in BridgeTrees BY DEF BridgeTrees
  <2>2. PICK i, v, w : tree' = [tree EXCEPT ![<<b, t>>] =
              [@ EXCEPT !.PRSSM = "ROLE_SELECTION", !.rootPortId = i,
                        !.rootPriority = v, !.rootTimes = w]]
     BY DEF PRSSM_to_ROLE_SELECTION
  <2>3. tree[<<b, t>>] \in TreeRecs BY <1>t, <2>1
  <2>4. tree'[<<b, t>>] = [tree[<<b, t>>] EXCEPT !.PRSSM = "ROLE_SELECTION",
              !.rootPortId = i, !.rootPriority = v, !.rootTimes = w]
     BY <1>t, <2>1, <2>2
  <2>5. QED BY <2>3, <2>4 DEF TreeRecs
<1>2. ASSUME NEW y \in PtpsOfTree(b, t) PROVE info'[y].reselect = FALSE
  <2>1. y \in Ptps BY DEF PtpsOfTree, PtpsOfPort, Ptps
  <2>2. PICK v : info'[y] = [info[y] EXCEPT !.reselect = FALSE,
                               !.selected = TRUE, !.updtInfo = v]
     BY <2>1 DEF PRSSM_to_ROLE_SELECTION
  <2>3. info[y] \in InfoRecs BY <1>t, <2>1
  <2>4. QED BY <2>2, <2>3 DEF InfoRecs
<1>3. QED BY <1>1, <1>2 DEF PRSSM_run

\* A port that has been told to forward, and forwards, stays there.
LEMMA ForwardingOnce ==
    ASSUME TypeOK, NEW x \in Ptps, PSTSM_to_FORWARDING(x)
    PROVE  PSTSM_run(x)' = None
<1>t. pst \in [Ptps -> PstRecs] BY DEF TypeOK, MachineTypeOK
<1>1. pst'[x].PSTSM = "FORWARDING"
  <2>1. pst'[x] = [pst[x] EXCEPT !.PSTSM = "FORWARDING",
                      !.state = "FORWARDING", !.forwarding = TRUE]
     BY <1>t DEF PSTSM_to_FORWARDING
  <2>2. pst[x] \in PstRecs BY <1>t
  <2>3. QED BY <2>1, <2>2 DEF PstRecs
<1>2. role' = role BY DEF PSTSM_to_FORWARDING, PSTSM_only
<1>3. role[x].forward
  <2>1. PSTSM_run(x) = "FORWARDING" BY DEF PSTSM_to_FORWARDING
  <2>2. pst[x].PSTSM \in {"DISCARDING", "LEARNING", "FORWARDING"}
     BY <1>t, PstFields DEF PSTSM_states
  <2>3. QED BY <2>1, <2>2 DEF PSTSM_run, None
<1>4. QED BY <1>1, <1>2, <1>3 DEF PSTSM_run

\* Bridge Detection, when its turn comes in a pass: Port Receive of a port that
\* is down has restarted edgeDelayWhile before, so that the port cannot be
\* taken for an edge port and refused as one in turn.
LEMMA DetectionOnce ==
    ASSUME RoleInv, EdgeInv, NEW b \in Bridges, NEW p \in Ports,
           active = b, BridgeOf[p] = b, Ready(b) # {},
           Upcoming(Ready(b)) = Detector(p), BDSM_step(p), adm' = adm
    PROVE  BDSM_run(p)' = None
<1>t. /\ prt \in [Ports -> PrtRecs] /\ edge \in [Ports -> EdgeRecs]
      /\ adm \in [Ports -> AdmRecs] /\ pos \in Nat
   BY DEF RoleInv, TypeOK, MachineTypeOK
<1>1. /\ prt' = prt /\ rcv' = rcv /\ mig' = mig /\ info' = info
   BY DEF BDSM_step, BDSM_to_EDGE, BDSM_to_NOT_EDGE, ptpVars
<1>2. MigrateTime # 0 BY BootAssumption
<1>3. DelayRestarted(p) /\ EdgeLostPast(p) BY DEF EdgeInv
<1>4. ~prt[p].portEnabled => rcv[p].edgeDelayWhile = MigrateTime
  <2> SUFFICES ASSUME ~prt[p].portEnabled,
                      rcv[p].edgeDelayWhile # MigrateTime
               PROVE  FALSE
     OBVIOUS
  <2>1. PRSM_run(p) = "DISCARD" BY DEF PRSM_run
  <2>2. Machine_run(b, Receiver(p)) = PRSM_run(p)
     BY DEF Machine_run, Receiver, BA, PRSM, PPMSM, BDSM, PTSM, PISM,
            PRSSM, PRTSM, PSTSM, TCSM
  <2>3. Receiver(p) \in Ready(b)
     BY <2>1, <2>2, PortSlots DEF Ready, None
  <2>4. Rank(Receiver(p)) < pos /\ pos <= Rank(Detector(p))
    <3>1. LET s == Upcoming(Ready(b))
          IN  /\ Rank(s) <= Rank(Receiver(p)) \/ Rank(Receiver(p)) < pos
              /\ \/ Rank(s) >= pos
                 \/ /\ Rank(s) <= Rank(Receiver(p))
                    /\ Rank(Receiver(p)) < pos
       BY <1>t, <2>3, UpcomingFirst
    <3>2. QED BY <1>t, <3>1, PortSlots
  <2>5. QED BY <1>3, <2>4 DEF DelayRestarted, PastReceive
<1>5. brg[BridgeOf[p]].bridgeEnabled
  <2>1. b # NoBridge BY TopologyAssumption DEF NoBridge
  <2>2. QED BY <2>1 DEF RoleInv, ActiveEnabled
<1>6. CASE BDSM_to_EDGE(p)
  <2>1. BDSM_run(p) = "EDGE" BY <1>6 DEF BDSM_to_EDGE
  <2>2. edge'[p].BDSM = "EDGE" /\ edge'[p].operEdge = TRUE
     BY <1>6, <1>t DEF BDSM_to_EDGE, EdgeRec
  <2>3. edge[p].BDSM \in {"EDGE", "NOT_EDGE"}
     BY <1>t, EdgeFields DEF BDSM_states
  <2>4. \/ ~prt[p].portEnabled /\ adm[p].AdminEdgePort
        \/ rcv[p].edgeDelayWhile = 0 /\ adm[p].AutoEdge
     BY <2>1, <2>3 DEF BDSM_run, None
  <2>5. ~((~prt[p].portEnabled \/ ~adm[p].AutoEdge) /\ ~adm[p].AdminEdgePort)
     BY <1>2, <1>4, <2>4
  <2>6. QED BY <1>1, <2>2, <2>5 DEF BDSM_run
<1>7. CASE BDSM_to_NOT_EDGE(p)
  <2>1. BDSM_run(p) = "NOT_EDGE" BY <1>7 DEF BDSM_to_NOT_EDGE
  <2>2. edge'[p].BDSM = "NOT_EDGE" BY <1>7, <1>t DEF BDSM_to_NOT_EDGE, EdgeRec
  <2>3. edge[p].BDSM \in {"EDGE", "NOT_EDGE"} /\ edge[p].operEdge \in BOOLEAN
     BY <1>t, EdgeFields DEF BDSM_states
  <2>4. /\ edge[p].BDSM = "EDGE"
        /\ \/ /\ ~prt[p].portEnabled \/ ~adm[p].AutoEdge
              /\ ~adm[p].AdminEdgePort
           \/ ~edge[p].operEdge
     BY <2>1, <2>3 DEF BDSM_run, None
  <2>5. /\ ~(~prt[p].portEnabled /\ adm[p].AdminEdgePort)
        /\ ~(rcv[p].edgeDelayWhile = 0 /\ adm[p].AutoEdge)
    <3>1. CASE /\ ~prt[p].portEnabled \/ ~adm[p].AutoEdge
               /\ ~adm[p].AdminEdgePort
       BY <1>2, <1>4, <3>1
    <3>2. CASE ~edge[p].operEdge
      <4>1. edge[p].operEdge = FALSE BY <2>3, <3>2
      <4>2. EdgeLost(p) BY <1>5, <2>4, <4>1 DEF EdgeLost
      <4>3. /\ prt[p].portEnabled = TRUE
            /\ rcv[p].edgeDelayWhile = MigrateTime
         BY <1>3, <4>2 DEF EdgeLostPast
      <4>4. QED BY <1>2, <4>3
    <3>3. QED BY <2>4, <3>1, <3>2
  <2>6. QED BY <1>1, <2>2, <2>5 DEF BDSM_run
<1>8. QED BY <1>6, <1>7 DEF BDSM_step

\* A machine of the bridge that runs moves.
LEMMA MachineOnce ==
    ASSUME RoleInv, EdgeInv, NEW b \in Bridges, RunMachine(b),
           NEW s, s = Upcoming(Ready(b)), RunsOnce(b, s)
    PROVE  Machine_run(b, s)' = None
<1> USE DEF BA, PRSM, PPMSM, BDSM, PTSM, PISM, PRSSM, PRTSM, PSTSM, TCSM
<1>t. TypeOK BY DEF RoleInv
<1>1. Ready(b) # {} /\ Machine_step(b, s) /\ active = b /\ adm' = adm
   BY DEF RunMachine
<1>2. s \in Slots(b) BY <1>1, UpcomingType
<1>p. s[1] # PRSSM => /\ s[2] \in PortsOf(b) /\ s[2] \in Ports
                      /\ <<s[2], s[3]>> \in Ptps
   BY <1>2 DEF Slots, PortsOf, Ptps, Trees
<1>3. CASE s[1] = BA
  <2>1. BA_to_INCONSISTENT(s[2]) BY <1>1, <1>3 DEF Machine_step
  <2>2. BA_run(s[2])' = None BY <1>3, <1>p, <1>t, <2>1, PortOnce
  <2>3. QED BY <1>3, <2>2 DEF Machine_run
<1>4. CASE s[1] = PRSM
  <2>1. PRSM_step(s[2]) BY <1>1, <1>4 DEF Machine_step
  <2>2. PRSM_run(s[2])' = None BY <1>4, <1>p, <1>t, <2>1, PortOnce
  <2>3. QED BY <1>4, <2>2 DEF Machine_run
<1>5. CASE s[1] = PPMSM
  <2>1. PPMSM_step(s[2]) /\ PPMSM_run(s[2]) = "CHECKING_RSTP"
     BY <1>1, <1>5 DEF Machine_step, RunsOnce, Machine_run
  <2>2. PPMSM_to_CHECKING_RSTP(s[2])
     BY <2>1 DEF PPMSM_step, PPMSM_to_SELECTING_STP, PPMSM_to_SENSING
  <2>3. PPMSM_run(s[2])' = None BY <1>5, <1>p, <1>t, <2>2, PortOnce
  <2>4. QED BY <1>5, <2>3 DEF Machine_run
<1>6. CASE s[1] = BDSM
  <2>1. BDSM_step(s[2]) BY <1>1, <1>6 DEF Machine_step
  <2>2. s = Detector(s[2]) BY <1>2, <1>6 DEF Slots, Detector
  <2>3. s[2] \in Ports /\ BridgeOf[s[2]] = b BY <1>6, <1>p DEF PortsOf
  <2>4. BDSM_run(s[2])' = None BY <1>1, <2>1, <2>2, <2>3, DetectionOnce
  <2>5. QED BY <1>6, <2>4 DEF Machine_run
<1>7. CASE s[1] = PTSM
  <2>1. PTSM_step(s[2]) /\ PTSM_run(s[2]) = "TRANSMIT_INIT"
     BY <1>1, <1>7 DEF Machine_step, RunsOnce, Machine_run
  <2>2. PTSM_to_TRANSMIT_INIT(s[2])
     BY <2>1
     DEF PTSM_step, PTSM_to_TRANSMIT_CONFIG, PTSM_to_TRANSMIT_TCN,
         PTSM_to_TRANSMIT_RSTP, PTSM_to_TRANSMIT_PERIODIC, PTSM_to_IDLE
  <2>3. PTSM_run(s[2])' = None BY <1>7, <1>p, <1>t, <2>2, PortOnce
  <2>4. QED BY <1>7, <2>3 DEF Machine_run
<1>8. CASE s[1] = PRSSM
  <2>1. s[3] \in Trees BY <1>2, <1>8 DEF Slots
  <2>2. PRSSM_to_ROLE_SELECTION(b, s[3]) BY <1>1, <1>8 DEF Machine_step
  <2>3. PRSSM_run(b, s[3])' = None BY <1>t, <2>1, <2>2, SelectionOnce
  <2>4. QED BY <1>8, <2>3 DEF Machine_run
<1>9. CASE s[1] = PSTSM
  <2> DEFINE x == <<s[2], s[3]>>
  <2>1. PSTSM_step(x) /\ PSTSM_run(x) = "FORWARDING"
     BY <1>1, <1>9 DEF Machine_step, RunsOnce, Machine_run
  <2>2. x \in Ptps BY <1>9, <1>p
  <2>3. PSTSM_to_FORWARDING(x)
     BY <2>1 DEF PSTSM_step, PSTSM_to_DISCARDING, PSTSM_to_LEARNING
  <2>4. PSTSM_run(x)' = None BY <1>t, <2>2, <2>3, ForwardingOnce
  <2>5. QED BY <1>9, <2>4 DEF Machine_run
<1>10. s[1] \in {BA, PRSM, PPMSM, BDSM, PTSM, PRSSM, PSTSM}
   BY DEF RunsOnce
<1>11. QED BY <1>3, <1>4, <1>5, <1>6, <1>7, <1>8, <1>9, <1>10

\* In every network: after each of the transitions whose code says "No need to
\* run, no one condition will be met" and does not call M_run again, M_run
\* would indeed do nothing, so the pass loses no work.
THEOREM NeverNeedsToRun == Spec => NoNeedToRun
<1> DEFINE Inv == TypeOK /\ EdgeInv
<1>1. Init => Inv
  <2> SUFFICES ASSUME Init PROVE EdgeInv BY InitTypes
  <2>1. active = NoBridge /\ brg = BootBridge
     BY BootAssumption DEF Init
  <2>2. ASSUME NEW p \in Ports PROVE DelayRestarted(p) /\ EdgeLostPast(p)
    <3>1. BridgeOf[p] \in Bridges /\ BridgeOf[p] # NoBridge
       BY TopologyAssumption DEF NoBridge
    <3>2. ~brg[BridgeOf[p]].bridgeEnabled BY <2>1, <3>1, BootAssumption
    <3>3. QED BY <2>1, <3>1, <3>2 DEF DelayRestarted, EdgeLostPast, EdgeLost
  <2>3. QED BY <2>2 DEF EdgeInv
<1>2. Inv /\ [Next]_vars => Inv'
  <2> SUFFICES ASSUME Inv, [Next]_vars PROVE Inv' OBVIOUS
  <2>1. CASE Run BY <2>1, RunTypes, RunEdge DEF Run
  <2>2. CASE Event BY <2>2, EventTypes, EventEdge
  <2>3. CASE UNCHANGED vars
    <3>1. TypeOK'
       BY <2>3
       DEF vars, schedVars, portVars, ptpVars, envVars, TypeOK, MachineTypeOK
    <3>2. EdgeInv'
       BY <2>3
       DEF vars, schedVars, portVars, EdgeInv, DelayRestarted, EdgeLostPast,
           EdgeLost, PastReceive
    <3>3. QED BY <3>1, <3>2
  <2>4. QED BY <2>1, <2>2, <2>3 DEF Next
<1>3. RoleInv /\ Inv /\ [Next]_vars => [OnceIsEnough]_vars
  <2> SUFFICES ASSUME RoleInv, EdgeInv, Next, NEW b \in Bridges,
                      active = b, active' = b,
                      NEW s \in {Upcoming(Ready(b))}, RunsOnce(b, s)
               PROVE  Machine_run(b, s)' = None
     BY DEF OnceIsEnough
  <2>1. b # NoBridge BY TopologyAssumption DEF NoBridge
  <2>2. RunMachine(b)
     BY <2>1 DEF Next, Run, Event, Idle, RunMachine, RunDone, RunTimeout
  <2>3. QED BY <2>2, MachineOnce
<1>4. QED BY <1>1, <1>2, <1>3, RoleInvAlways, PTL DEF Spec, NoNeedToRun
=============================================================================
