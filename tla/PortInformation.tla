-------------------------- MODULE PortInformation ---------------------------
(***************************************************************************)
(* 13.32 Port Information state machine (PISM) of mstp.c: classifies the   *)
(* received message of a tree, records what it carries, ages it out.       *)
(***************************************************************************)
EXTENDS PortMachines

-----------------------------------------------------------------------------
\* The message for the tree of x: the CIST part of the BPDU held by the port
\* or the MSTI message in it.
Bpdu(x) == rcv[PortOf(x)].bpdu
Message(x) == IF IsCist(x) THEN Bpdu(x) ELSE Bpdu(x).msti[Mstid(x)]

\* msgPriority and msgTimes, as rcvInfo derives them from the BPDU.  Before
\* MST, the regional root field names the transmitting bridge.
MsgPriority(x) ==
    LET b == Bpdu(x)
        m == Message(x)
        mst == b.version >= protoMSTP
    IN  IF IsCist(x)
        THEN [ RootID |-> b.RootID, ExtRootPathCost |-> b.ExtRootPathCost,
               RRootID |-> b.RRootID,
               IntRootPathCost |-> IF mst THEN b.IntRootPathCost ELSE 0,
               DesignatedBridgeID |-> IF mst THEN b.BridgeID ELSE b.RRootID,
               DesignatedPortID |-> b.PortID ]
        ELSE [ RootID |-> 0, ExtRootPathCost |-> 0, RRootID |-> m.RRootID,
               IntRootPathCost |-> m.IntRootPathCost,
               DesignatedBridgeID |->
                   BridgeIdentifier(m.bridgePriority, MacAddress(b.BridgeID)),
               DesignatedPortID |->
                   PortIdentifier(m.portPriority, PortNumber(b.PortID)) ]

MsgTimes(x) ==
    LET b == Bpdu(x)
    IN  IF IsCist(x)
        THEN [ Forward_Delay |-> b.ForwardDelay, Max_Age |-> b.MaxAge,
               Message_Age |-> b.MessageAge, Hello_Time |-> b.HelloTime,
               remainingHops |-> IF b.version >= protoMSTP
                                 THEN b.RemainingHops
                                 ELSE brg[BrOf(x)].MaxHops ]
        ELSE [ Forward_Delay |-> 0, Max_Age |-> 0, Message_Age |-> 0,
               Hello_Time |-> 0, remainingHops |-> Message(x).remainingHops ]

\* The role the message conveys: a Configuration BPDU, and an RST BPDU with
\* the unknown role (the code of Master), count as Designated.
ConveyedRole(x) ==
    LET b == Bpdu(x)
        r == Message(x).role
    IN  IF IsCist(x)
        THEN IF b.version = protoSTP THEN "Designated"
             ELSE IF r = "Master" /\ b.version = protoRSTP THEN "Designated"
             ELSE r
        ELSE IF b.version < protoMSTP THEN "Master" ELSE r

\* 13.26.6, cases a) to c): a message that conveys the Designated role,
\* against the information the port holds.
DesignatedInfo(msg, msgTimes, own, ownTimes, infoIs, cist) ==
    LET better == ~betterorsamePriority(own, msg, 0, 0, cist)
        sameSource ==
            /\ MacAddress(msg.DesignatedBridgeID)
                   = MacAddress(own.DesignatedBridgeID)
            /\ PortNumber(msg.DesignatedPortID)
                   = PortNumber(own.DesignatedPortID)
        same == samePriorityAndTimers(msg, own, msgTimes, ownTimes, cist)
    IN  IF better \/ sameSource THEN "SuperiorDesignated"
        ELSE IF ~same /\ betterorsamePriority(msg, own, 0, 0, cist)
             THEN "SuperiorDesignated"
        ELSE IF same /\ infoIs = "Received" THEN "RepeatedDesignated"
        ELSE "InferiorDesignated"

rcvInfo(x) ==
    LET msg == MsgPriority(x)
        own == vec[x].portPriority
        r == ConveyedRole(x)
    IN  IF Bpdu(x).type = "TCN" \/ r = "Master" THEN "Other"
        ELSE IF r = "Designated"
             THEN DesignatedInfo(msg, MsgTimes(x), own, vec[x].portTimes,
                                 info[x].infoIs, IsCist(x))
        ELSE IF betterorsamePriority(own, msg, 0, 0, IsCist(x))
             THEN "InferiorRootAlternate" ELSE "Other"

-----------------------------------------------------------------------------
\* Helpers of the transitions.

\* What a CIST message from outside the region says holds for the MSTIs too.
Followers(x) == IF IsCist(x) /\ ~rcv[PortOf(x)].rcvdInternal
                THEN MstiPtps(PortOf(x)) ELSE {}

\* 13.26.1 betterorsameInfo, for the two origins it is called with.
betterorsameReceived(x) ==
    /\ info[x].infoIs = "Received"
    /\ betterorsamePriority(MsgPriority(x), vec[x].portPriority, 0, 0,
                            IsCist(x))
betterorsameMine(x) ==
    /\ info[x].infoIs = "Mine"
    /\ betterorsamePriority(vec[x].designatedPriority, vec[x].portPriority,
                            0, 0, IsCist(x))

\* 13.26.7: the agreement recordAgreement accepts.
AgreementIn(x) ==
    LET b == Bpdu(x)
        own == vec[CistOf(x)].portPriority
    IN  /\ prt[PortOf(x)].operPointToPointMAC
        /\ Message(x).agreement
        /\ IF IsCist(x) THEN rstpVersion(BrOf(x))
           ELSE /\ b.RootID = own.RootID
                /\ b.ExtRootPathCost = own.ExtRootPathCost
                /\ b.RRootID = own.RRootID

\* 13.26.22: how long the recorded information lives, once msg is recorded.
RcvdInfoLife(x, times) ==
    LET p == PortOf(x)
        cistTimes == IF IsCist(x) THEN times ELSE vec[CistOf(x)].portTimes
    IN  IF IF rcv[p].rcvdInternal THEN times.remainingHops > 1
           ELSE cistTimes.Message_Age + 1 <= cistTimes.Max_Age
        THEN 3 * PortHelloTime(p) ELSE 0

\* 13.26.11 recordTimes: the port keeps its own Hello_Time.
RecordedTimes(x) == [MsgTimes(x) EXCEPT
                       !.Hello_Time = vec[x].portTimes.Hello_Time]

\* 13.26.16 setTcFlags, the part kept in the port and the part kept in x.
RcvWithTcFlags(x) ==
    IF IsCist(x) /\ Bpdu(x).tcAck
    THEN [rcv EXCEPT ![PortOf(x)] = [@ EXCEPT !.rcvdTcAck = TRUE]] ELSE rcv
TcWithTcFlags(x) == IF Message(x).tc THEN [tc EXCEPT ![x] =
                                            [@ EXCEPT !.rcvdTc = TRUE]]
                    ELSE tc

-----------------------------------------------------------------------------
PISM_run(x) ==
    LET i == info[x]
        c == info[CistOf(x)]
        up == prt[PortOf(x)].portEnabled
        rcvdXstMsg == IF IsCist(x) THEN i.rcvdMsg ELSE ~c.rcvdMsg /\ i.rcvdMsg
        updtXstInfo == i.updtInfo \/ c.updtInfo
    IN  IF ~up /\ i.infoIs # "Disabled" THEN "DISABLED"
        ELSE CASE i.PISM = "DISABLED" ->
                    IF up THEN "AGED"
                    ELSE IF i.rcvdMsg THEN "DISABLED" ELSE None
               [] i.PISM = "AGED" ->
                    IF i.selected /\ i.updtInfo THEN "UPDATE" ELSE None
               [] i.PISM = "CURRENT" ->
                    IF rcvdXstMsg /\ ~updtXstInfo THEN "RECEIVE"
                    ELSE IF /\ i.infoIs = "Received" /\ i.rcvdInfoWhile = 0
                            /\ ~i.updtInfo /\ ~rcvdXstMsg THEN "AGED"
                    ELSE IF i.selected /\ i.updtInfo THEN "UPDATE" ELSE None
               [] i.PISM = "RECEIVE" ->
                    CASE i.rcvdInfo = "SuperiorDesignated" ->
                             "SUPERIOR_DESIGNATED"
                      [] i.rcvdInfo = "RepeatedDesignated" ->
                             "REPEATED_DESIGNATED"
                      [] i.rcvdInfo = "InferiorDesignated" ->
                             "INFERIOR_DESIGNATED"
                      [] i.rcvdInfo = "InferiorRootAlternate" ->
                             "NOT_DESIGNATED"
                      [] OTHER -> "OTHER"
               [] OTHER -> "CURRENT"

\* Mutant: the roles are not selected again.
DisabledInfo_noReselect(i) ==
    [i EXCEPT !.PISM = "DISABLED", !.rcvdMsg = FALSE, !.proposing = FALSE,
              !.proposed = FALSE, !.agree = FALSE, !.agreed = FALSE,
              !.rcvdInfoWhile = 0, !.infoIs = "Disabled"]

\* The record PISM_to_DISABLED leaves behind; also its begin state.
DisabledInfo(i) ==
    [i EXCEPT !.PISM = "DISABLED", !.rcvdMsg = FALSE, !.proposing = FALSE,
              !.proposed = FALSE, !.agree = FALSE, !.agreed = FALSE,
              !.rcvdInfoWhile = 0, !.infoIs = "Disabled", !.reselect = TRUE,
              !.selected = FALSE]

PISM_to_DISABLED(x) ==
    /\ PISM_run(x) = "DISABLED"
    /\ info' = [info EXCEPT ![x] = DisabledInfo(@)]
    /\ UNCHANGED <<portVars, vec, role, pst, tc, tree, ageing, chan>>

\* Mutant: the roles are not selected again.
PISM_to_AGED_noReselect(x) ==
    /\ PISM_run(x) = "AGED"
    /\ info' = [info EXCEPT ![x] =
                 [@ EXCEPT !.PISM = "AGED", !.infoIs = "Aged",
                           !.selected = FALSE]]
    /\ UNCHANGED <<portVars, vec, role, pst, tc, tree, ageing, chan>>

PISM_to_AGED(x) ==
    /\ PISM_run(x) = "AGED"
    /\ info' = [info EXCEPT ![x] =
                 [@ EXCEPT !.PISM = "AGED", !.infoIs = "Aged",
                           !.reselect = TRUE, !.selected = FALSE]]
    /\ UNCHANGED <<portVars, vec, role, pst, tc, tree, ageing, chan>>

PISM_to_UPDATE(x) ==
    LET agreed == info[x].agreed /\ betterorsameMine(x)
    IN  /\ PISM_run(x) = "UPDATE"
        /\ info' = [info EXCEPT ![x] =
                     [@ EXCEPT !.PISM = "UPDATE", !.proposing = FALSE,
                               !.proposed = FALSE, !.agreed = agreed,
                               !.updtInfo = FALSE, !.infoIs = "Mine"]]
        /\ role' = [role EXCEPT ![x] =
                      [@ EXCEPT !.synced = role[x].synced /\ agreed]]
        /\ vec' = [vec EXCEPT ![x] =
                    [@ EXCEPT !.portPriority = vec[x].designatedPriority,
                              !.portTimes = vec[x].designatedTimes]]
        /\ xmt' = XmtWithNewInfo(x)
        /\ UNCHANGED <<prt, rcv, mig, edge, pst, tc, tree, ageing, chan>>

\* rcvInfo and recordMastered.  A TCN reports a topology change to every
\* tree of the port.
PISM_to_RECEIVE(x) ==
    LET p == PortOf(x)
        tcn == Bpdu(x).type = "TCN"
    IN  /\ PISM_run(x) = "RECEIVE"
        /\ info' = [y \in Ptps |->
              IF y = x
              THEN [info[x] EXCEPT !.PISM = "RECEIVE", !.rcvdInfo = rcvInfo(x),
                      !.mastered = IF IsCist(x) THEN @
                                   ELSE /\ prt[p].operPointToPointMAC
                                        /\ Message(x).master]
              ELSE IF y \in Followers(x)
              THEN [info[y] EXCEPT !.mastered = FALSE] ELSE info[y]]
        /\ rcv' = [rcv EXCEPT ![p] =
                     [@ EXCEPT !.rcvdTcn = rcv[p].rcvdTcn \/ tcn]]
        /\ tc' = IF tcn THEN [y \in Ptps |-> IF PortOf(y) = p
                                THEN [tc[y] EXCEPT !.rcvdTc = TRUE] ELSE tc[y]]
                 ELSE tc
        /\ UNCHANGED <<prt, mig, edge, xmt, vec, role, pst, tree, ageing,
                       chan>>

\* PISM_to_SUPERIOR_DESIGNATED and PISM_to_REPEATED_DESIGNATED: both record
\* proposal, topology change flags and agreement; the first also takes over
\* priority and times and has the roles of the tree selected again.
PISM_to_DESIGNATED(x) ==
    LET p == PortOf(x)
        superior == PISM_run(x) = "SUPERIOR_DESIGNATED"
        proposed == info[x].proposed \/ Message(x).proposal
        agreed == AgreementIn(x)
        proposing == info[x].proposing /\ ~superior /\ ~agreed
        times == IF superior THEN RecordedTimes(x) ELSE vec[x].portTimes
    IN  /\ PISM_run(x) \in {"SUPERIOR_DESIGNATED", "REPEATED_DESIGNATED"}
        /\ info' = [y \in Ptps |->
              IF y = x
              THEN [info[x] EXCEPT
                      !.PISM = PISM_run(x), !.rcvdMsg = FALSE,
                      !.proposed = proposed, !.agreed = agreed,
                      !.proposing = proposing,
                      !.agree = @ /\ (superior => betterorsameReceived(x)),
                      !.rcvdInfoWhile = RcvdInfoLife(x, times),
                      !.infoIs = IF superior THEN "Received" ELSE @,
                      !.reselect = @ \/ superior,
                      !.selected = @ /\ ~superior]
              ELSE IF y \in Followers(x)
              THEN [info[y] EXCEPT
                      !.proposed = proposed \/ Message(x).tc,
                      !.agreed = agreed, !.proposing = proposing]
              ELSE info[y]]
        /\ role' = [role EXCEPT ![x] =
                     [@ EXCEPT !.synced =
                           role[x].synced /\ (superior => agreed)]]
        /\ vec' = IF superior
                  THEN [vec EXCEPT ![x] =
                         [@ EXCEPT !.portPriority = MsgPriority(x),
                                   !.portTimes = times]]
                  ELSE vec
        /\ rcv' = [RcvWithTcFlags(x) EXCEPT ![p] =
                     [@ EXCEPT !.infoInternal = rcv[p].rcvdInternal]]
        /\ tc' = TcWithTcFlags(x)
        /\ UNCHANGED <<prt, mig, edge, xmt, pst, tree, ageing, chan>>

\* recordDispute: a worse designated port that already learns.
PISM_to_INFERIOR_DESIGNATED(x) ==
    LET disputes == Message(x).learning
    IN  /\ PISM_run(x) = "INFERIOR_DESIGNATED"
        /\ info' = [y \in Ptps |->
              IF y = x
              THEN [info[x] EXCEPT !.PISM = "INFERIOR_DESIGNATED",
                      !.rcvdMsg = FALSE, !.disputed = @ \/ disputes,
                      !.agreed = @ /\ ~disputes]
              ELSE IF y \in Followers(x)
              THEN [info[y] EXCEPT !.disputed = @ \/ disputes,
                                   !.agreed = @ /\ ~disputes]
              ELSE info[y]]
        /\ UNCHANGED <<portVars, vec, role, pst, tc, tree, ageing, chan>>

\* recordAgreement and setTcFlags for a Root, Alternate or Backup message.
PISM_to_NOT_DESIGNATED(x) ==
    LET agreed == AgreementIn(x)
        proposing == info[x].proposing /\ ~agreed
    IN  /\ PISM_run(x) = "NOT_DESIGNATED"
        /\ info' = [y \in Ptps |->
              IF y = x
              THEN [info[x] EXCEPT !.PISM = "NOT_DESIGNATED",
                      !.rcvdMsg = FALSE, !.agreed = agreed,
                      !.proposing = proposing]
              ELSE IF y \in Followers(x)
              THEN [info[y] EXCEPT !.agreed = agreed, !.proposing = proposing,
                                   !.proposed = @ \/ Message(x).tc]
              ELSE info[y]]
        /\ rcv' = RcvWithTcFlags(x)
        /\ tc' = TcWithTcFlags(x)
        /\ UNCHANGED <<prt, mig, edge, xmt, vec, role, pst, tree, ageing,
                       chan>>

PISM_to_OTHER(x) ==
    /\ PISM_run(x) = "OTHER"
    /\ info' = [info EXCEPT ![x] =
                 [@ EXCEPT !.PISM = "OTHER", !.rcvdMsg = FALSE]]
    /\ UNCHANGED <<portVars, vec, role, pst, tc, tree, ageing, chan>>

PISM_to_CURRENT(x) ==
    /\ PISM_run(x) = "CURRENT"
    /\ info' = [info EXCEPT ![x] = [@ EXCEPT !.PISM = "CURRENT"]]
    /\ UNCHANGED <<portVars, vec, role, pst, tc, tree, ageing, chan>>
=============================================================================
