------------------------ MODULE BridgeTrackTheorems -------------------------
(***************************************************************************)
(* EngineFollowsLinks and OneBridgePerPort hold of mstpd's view of any     *)
(* number of bridges and ports, whatever the kernel announces, loses or    *)
(* announces late, and across crashes and restarts of mstpd.               *)
(***************************************************************************)
EXTENDS BridgeTrack, FiniteSetTheorems, SequenceTheorems, TLAPS

BrRecs == [known: BOOLEAN, up: BOOLEAN, stp_enabled: BOOLEAN,
           bridgeEnabled: BOOLEAN]
PrtRecs == [known: BOOLEAN, up: BOOLEAN, portEnabled: BOOLEAN, state: States]

\* The daemon states the operators of bridge_track.c take and return.
Views == [br: [Bridges -> BrRecs], prt: [Bridges -> [Ports -> PrtRecs]],
          told: [Ports -> States \cup {NotTold}]]

\* Notifications the kernel sends: about a bridge its master is the bridge
\* itself or nothing, about a port that exists its master is a bridge.
Messages ==
    {m \in [master: Bridges \cup {None}, if: Bridges \cup Ports,
            newlink: BOOLEAN, up: BOOLEAN, lost: BOOLEAN] :
        /\ m.if \in Bridges => m.master \in {None, m.if}
        /\ m.if \in Ports /\ m.newlink => m.master \in Bridges}

KBrRecs == [exists: {"never", "yes", "gone"}, up: BOOLEAN, stp: BOOLEAN]
KPortRecs == [master: Bridges \cup {None}, running: BOOLEAN, state: States]
Requests == [op: {"add", "del"}, br: Bridges]

TrackTypeOK ==
    /\ kbr \in [Bridges -> KBrRecs]
    /\ kport \in [Ports -> KPortRecs]
    /\ pending \in Seq(Messages)
    /\ request \in Requests \cup {NoRequest}
    /\ phase \in {"off", "dump", "run", "read"}
    /\ br \in [Bridges -> BrRecs]
    /\ prt \in [Bridges -> [Ports -> PrtRecs]]

\* What EngineFollowsLinks says of bridge record B and port record q; with it,
\* a port mstpd has belongs to a bridge it has, what it does not have is in
\* the state it will be created in, a port of a bridge that does not run is
\* DISABLED and one that is down on a bridge that runs is BLOCKING.
BridgeRule(B) ==
    /\ B.bridgeEnabled = (B.known /\ B.stp_enabled /\ B.up)
    /\ ~B.known => ~B.up /\ ~B.stp_enabled

PortRule(B, q) ==
    /\ q.portEnabled = (B.known /\ B.stp_enabled /\ q.known /\ q.up)
    /\ q.state \in {"LEARNING", "FORWARDING"} => q.portEnabled /\ B.bridgeEnabled
    /\ q.known => B.known
    /\ ~q.known => ~q.up /\ q.state = "DISABLED"
    /\ ~B.bridgeEnabled => q.state = "DISABLED"
    /\ B.bridgeEnabled /\ q.known /\ ~q.up => q.state = "BLOCKING"

Follows(d, b) == /\ BridgeRule(d.br[b])
                 /\ \A p \in Ports : PortRule(d.br[b], d.prt[b][p])

FollowsLinks(d) == \A b \in Bridges : Follows(d, b)

OneBridge(d) == \A p \in Ports : \A b, c \in Bridges :
                    d.prt[b][p].known /\ d.prt[c][p].known => b = c

\* The inductive invariant.
Good(d) == d \in Views /\ FollowsLinks(d) /\ OneBridge(d)
TrackInv == TrackTypeOK /\ Good(Daemon)

-----------------------------------------------------------------------------
(* What the operators on daemon states do to one bridge. *)

\* e is d but for bridge b.
OnlyAt(d, e, b) == \A c \in Bridges \ {b} : /\ e.br[c] = d.br[c]
                                            /\ e.prt[c] = d.prt[c]

\* The kernel is told the state of a port of b that is up when it changes,
\* and nothing else.
TellsChanges(d, e, b) == \A p \in Ports :
    e.told[p] = IF e.prt[b][p].up /\ e.prt[b][p].state # d.prt[b][p].state
                THEN e.prt[b][p].state ELSE d.told[p]

\* Port p of b is as it was.
Alike(d, e, b, p) == /\ e.prt[b][p].known = d.prt[b][p].known
                     /\ e.prt[b][p].up = d.prt[b][p].up
                     /\ e.prt[b][p].state = d.prt[b][p].state

\* After several changes the kernel knows the last of them.
TellsLast(d, e, b) == \A p \in Ports :
    IF e.prt[b][p].up
    THEN \/ e.told[p] = e.prt[b][p].state
         \/ e.told[p] = d.told[p] /\ e.prt[b][p].state = d.prt[b][p].state
    ELSE e.told[p] = d.told[p]

\* The members of a daemon state, of a bridge and of a port.
LEMMA ViewFields ==
    /\ \A d \in Views : /\ d.br \in [Bridges -> BrRecs]
                        /\ d.prt \in [Bridges -> [Ports -> PrtRecs]]
                        /\ d.told \in [Ports -> States \cup {NotTold}]
    /\ \A B \in BrRecs : /\ B.known \in BOOLEAN /\ B.up \in BOOLEAN
                         /\ B.stp_enabled \in BOOLEAN
                         /\ B.bridgeEnabled \in BOOLEAN
    /\ \A q \in PrtRecs : /\ q.known \in BOOLEAN /\ q.up \in BOOLEAN
                          /\ q.portEnabled \in BOOLEAN /\ q.state \in States
BY DEF Views, BrRecs, PrtRecs

\* Assignments to the members of a port.
LEMMA PortFields ==
    ASSUME NEW q \in PrtRecs
    PROVE  /\ \A s \in States :
                LET r == [q EXCEPT !.state = s]
                IN  /\ r \in PrtRecs /\ r.state = s /\ r.known = q.known
                    /\ r.up = q.up /\ r.portEnabled = q.portEnabled
           /\ \A v \in BOOLEAN :
                LET r == [q EXCEPT !.portEnabled = v]
                IN  /\ r \in PrtRecs /\ r.portEnabled = v /\ r.known = q.known
                    /\ r.up = q.up /\ r.state = q.state
           /\ \A v \in BOOLEAN :
                LET r == [q EXCEPT !.up = v]
                IN  /\ r \in PrtRecs /\ r.up = v /\ r.known = q.known
                    /\ r.portEnabled = q.portEnabled /\ r.state = q.state
BY DEF PrtRecs

\* Assignments to the record of a bridge.
LEMMA ChangeBr ==
    ASSUME NEW d \in Views, NEW b \in Bridges, NEW B \in BrRecs
    PROVE  LET e == [d EXCEPT !.br[b] = B]
           IN  /\ e \in Views /\ OnlyAt(d, e, b) /\ e.br[b] = B
               /\ e.prt = d.prt /\ e.told = d.told
<1> DEFINE e == [d EXCEPT !.br[b] = B]
<1>1. /\ e.br = [d.br EXCEPT ![b] = B] /\ e.prt = d.prt
      /\ e.told = d.told
   BY DEF Views
<1>2. e \in Views BY DEF Views
<1>3. QED BY <1>1, <1>2, ViewFields DEF OnlyAt

\* Assignments to the records of the ports of a bridge.
LEMMA ChangePrt ==
    ASSUME NEW d \in Views, NEW b \in Bridges, NEW Q \in [Ports -> PrtRecs]
    PROVE  LET e == [d EXCEPT !.prt[b] = Q]
           IN  /\ e \in Views /\ OnlyAt(d, e, b) /\ e.prt[b] = Q
               /\ e.br = d.br /\ e.told = d.told
<1> DEFINE e == [d EXCEPT !.prt[b] = Q]
<1>1. /\ e.prt = [d.prt EXCEPT ![b] = Q] /\ e.br = d.br
      /\ e.told = d.told
   BY DEF Views
<1>2. e \in Views BY DEF Views
<1>3. QED BY <1>1, <1>2, ViewFields DEF OnlyAt

\* MSTP_OUT_set_state gives the ports of b the states in f, and changes
\* nothing else.
LEMMA SetStateEffect ==
    ASSUME NEW d \in Views, NEW b \in Bridges, NEW f \in [Ports -> States]
    PROVE  LET e == MSTP_OUT_set_state(d, b, f)
           IN  /\ e \in Views /\ OnlyAt(d, e, b) /\ e.br = d.br
               /\ TellsChanges(d, e, b)
               /\ \A p \in Ports :
                     LET q == d.prt[b][p]
                         r == e.prt[b][p]
                     IN  /\ r.known = q.known /\ r.up = q.up
                         /\ r.portEnabled = q.portEnabled
                         /\ r.state = f[p]
<1> DEFINE Q == [p \in Ports |-> [d.prt[b][p] EXCEPT !.state = f[p]]]
           T == [p \in Ports |-> IF d.prt[b][p].state # f[p] /\ d.prt[b][p].up
                                 THEN f[p] ELSE d.told[p]]
           e == MSTP_OUT_set_state(d, b, f)
<1>1. /\ e.br = d.br /\ e.prt = [d.prt EXCEPT ![b] = Q] /\ e.told = T
      /\ e = [d EXCEPT !.prt[b] = Q, !.told = T]
   BY DEF Views, MSTP_OUT_set_state
<1>2. Q \in [Ports -> PrtRecs] BY ViewFields, PortFields
<1>3. T \in [Ports -> States \cup {NotTold}] BY ViewFields
<1>4. e \in Views
  <2> HIDE DEF Q, T
  <2> QED BY <1>1, <1>2, <1>3 DEF Views
<1>5. ASSUME NEW p \in Ports
      PROVE  /\ Q[p].known = d.prt[b][p].known /\ Q[p].up = d.prt[b][p].up
             /\ Q[p].portEnabled = d.prt[b][p].portEnabled
             /\ Q[p].state = f[p]
  <2>1. d.prt[b][p] \in PrtRecs /\ f[p] \in States BY ViewFields
  <2>2. QED BY <2>1 DEF PrtRecs
<1> HIDE DEF Q
<1>6. e.prt[b] = Q /\ OnlyAt(d, e, b) BY <1>1, <1>2, ViewFields DEF OnlyAt
<1>7. TellsChanges(d, e, b)
  <2> SUFFICES ASSUME NEW p \in Ports
               PROVE  T[p] = IF Q[p].up /\ Q[p].state # d.prt[b][p].state
                             THEN Q[p].state ELSE d.told[p]
     BY <1>1, <1>6 DEF TellsChanges
  <2>1. QED BY <1>5
<1>8. QED BY <1>1, <1>4, <1>5, <1>6, <1>7

\* Only changes the state of the ports in P.
LEMMA OnlyType ==
    ASSUME NEW d \in Views, NEW b \in Bridges, NEW P, NEW s \in States
    PROVE  /\ Only(d, b, P, s) \in [Ports -> States]
           /\ \A p \in Ports : Only(d, b, P, s)[p] =
                                   IF p \in P THEN s ELSE d.prt[b][p].state
BY ViewFields DEF Only

\* MSTP_IN_set_port_enable: portEnabled of the ports in P is set; on a bridge
\* that runs, a port that is disabled is blocked.
LEMMA PortEnableEffect ==
    ASSUME NEW d \in Views, NEW b \in Bridges, NEW P, NEW up \in BOOLEAN
    PROVE  LET e == MSTP_IN_set_port_enable(d, b, P, up)
           IN  /\ e \in Views /\ OnlyAt(d, e, b) /\ e.br = d.br
               /\ TellsChanges(d, e, b)
               /\ \A p \in Ports :
                     LET q == d.prt[b][p]
                         r == e.prt[b][p]
                     IN  /\ r.known = q.known /\ r.up = q.up
                         /\ r.portEnabled = IF p \in P THEN up ELSE q.portEnabled
                         /\ r.state = IF p \in P /\ ~up /\ d.br[b].bridgeEnabled
                                      THEN "BLOCKING" ELSE q.state
<1> DEFINE Q == [p \in Ports |->
                    IF p \in P THEN [d.prt[b][p] EXCEPT !.portEnabled = up]
                    ELSE d.prt[b][p]]
           g == [d EXCEPT !.prt[b] = Q]
           e == MSTP_IN_set_port_enable(d, b, P, up)
           f == Only(g, b, P, "BLOCKING")
<1>1. Q \in [Ports -> PrtRecs] BY ViewFields, PortFields
<1>2. \A p \in Ports : /\ Q[p].known = d.prt[b][p].known
                       /\ Q[p].up = d.prt[b][p].up
                       /\ Q[p].state = d.prt[b][p].state
                       /\ Q[p].portEnabled = IF p \in P THEN up
                                             ELSE d.prt[b][p].portEnabled
   BY ViewFields, PortFields
<1>3. e = IF ~up /\ d.br[b].bridgeEnabled THEN MSTP_OUT_set_state(g, b, f)
          ELSE g
   BY DEF MSTP_IN_set_port_enable
<1> HIDE DEF Q
<1>4. /\ g \in Views /\ OnlyAt(d, g, b) /\ g.prt[b] = Q /\ g.br = d.br
      /\ g.told = d.told
   BY <1>1, ChangePrt
<1> HIDE DEF g
<1>5. CASE ~(~up /\ d.br[b].bridgeEnabled)
  <2>1. e = g BY <1>3, <1>5
  <2>2. TellsChanges(d, g, b) BY <1>2, <1>4 DEF TellsChanges
  <2>3. QED BY <2>1, <2>2, <1>2, <1>4, <1>5
<1>6. CASE ~up /\ d.br[b].bridgeEnabled
  <2>1. f \in [Ports -> States] BY <1>4, OnlyType DEF States
  <2>2. \A p \in Ports : f[p] = IF p \in P THEN "BLOCKING" ELSE Q[p].state
     BY <1>4, OnlyType DEF States
  <2> HIDE DEF f
  <2>3. /\ e \in Views /\ OnlyAt(g, e, b) /\ e.br = g.br
        /\ TellsChanges(g, e, b)
        /\ \A p \in Ports :
              /\ e.prt[b][p].known = Q[p].known /\ e.prt[b][p].up = Q[p].up
              /\ e.prt[b][p].portEnabled = Q[p].portEnabled
              /\ e.prt[b][p].state = f[p]
     BY <2>1, <1>3, <1>4, <1>6, SetStateEffect
  <2>4. OnlyAt(d, e, b) /\ e.br = d.br BY <2>3, <1>4 DEF OnlyAt
  <2>5. TellsChanges(d, e, b) BY <2>3, <1>2, <1>4 DEF TellsChanges
  <2>6. QED BY <2>2, <2>3, <2>4, <2>5, <1>2, <1>6
<1>7. QED BY <1>5, <1>6

\* MSTP_IN_set_bridge_enable: the ports of a bridge that is enabled or
\* disabled are BLOCKING or DISABLED afterwards, whatever they were.
LEMMA BridgeEnableEffect ==
    ASSUME NEW d \in Views, NEW b \in Bridges, NEW up \in BOOLEAN
    PROVE  LET e == MSTP_IN_set_bridge_enable(d, b, up)
               B == d.br[b]
               C == e.br[b]
           IN  /\ e \in Views /\ OnlyAt(d, e, b)
               /\ TellsLast(d, e, b)
               /\ C.known = B.known /\ C.up = B.up
               /\ C.stp_enabled = B.stp_enabled /\ C.bridgeEnabled = up
               /\ \A p \in Ports :
                     LET q == d.prt[b][p]
                         r == e.prt[b][p]
                     IN  /\ r.known = q.known /\ r.up = q.up
                         /\ r.portEnabled = q.portEnabled
                         /\ r.state = IF q.known /\ B.bridgeEnabled # up
                                      THEN IF up THEN "BLOCKING" ELSE "DISABLED"
                                      ELSE q.state
<1> DEFINE all == KnownPorts(d, b)
           B == [d.br[b] EXCEPT !.bridgeEnabled = up]
           g == [d EXCEPT !.br[b] = B]
           f == Only(d, b, all, "DISABLED")
           off == MSTP_OUT_set_state(g, b, f)
           h == Only(off, b, all, "BLOCKING")
           e == MSTP_IN_set_bridge_enable(d, b, up)
<1>1. /\ B \in BrRecs /\ B.bridgeEnabled = up /\ B.known = d.br[b].known
      /\ B.up = d.br[b].up /\ B.stp_enabled = d.br[b].stp_enabled
   BY ViewFields DEF BrRecs
<1>2. e = IF d.br[b].bridgeEnabled = up THEN d
          ELSE IF up THEN MSTP_OUT_set_state(off, b, h) ELSE off
   BY DEF MSTP_IN_set_bridge_enable
<1>3. CASE d.br[b].bridgeEnabled = up BY <1>2, <1>3 DEF OnlyAt, TellsLast
<1>4. CASE d.br[b].bridgeEnabled # up
  <2> HIDE DEF B
  <2>1. /\ g \in Views /\ OnlyAt(d, g, b) /\ g.br[b] = B /\ g.prt = d.prt
        /\ g.told = d.told
     BY <1>1, ChangeBr
  <2> HIDE DEF g
  <2>2. /\ f \in [Ports -> States]
        /\ \A p \in Ports : f[p] = IF d.prt[b][p].known THEN "DISABLED"
                                   ELSE d.prt[b][p].state
     BY OnlyType DEF States, KnownPorts
  <2> HIDE DEF f
  <2>3. /\ off \in Views /\ OnlyAt(g, off, b) /\ off.br = g.br
        /\ TellsChanges(g, off, b)
        /\ \A p \in Ports :
              /\ off.prt[b][p].known = d.prt[b][p].known
              /\ off.prt[b][p].up = d.prt[b][p].up
              /\ off.prt[b][p].portEnabled = d.prt[b][p].portEnabled
              /\ off.prt[b][p].state = f[p]
     BY <2>1, <2>2, SetStateEffect
  <2> HIDE DEF off
  <2>4. /\ h \in [Ports -> States]
        /\ \A p \in Ports : h[p] = IF d.prt[b][p].known THEN "BLOCKING"
                                   ELSE off.prt[b][p].state
     BY <2>3, OnlyType DEF States, KnownPorts
  <2> HIDE DEF h
  <2>5. CASE ~up
    <3>1. e = off BY <2>5, <1>2, <1>4
    <3>2. TellsLast(d, off, b) BY <2>1, <2>3 DEF TellsChanges, TellsLast
    <3>3. QED BY <3>1, <3>2, <2>1, <2>2, <2>3, <2>5, <1>1, <1>4 DEF OnlyAt
  <2>6. CASE up
    <3>1. e = MSTP_OUT_set_state(off, b, h) BY <2>6, <1>2, <1>4
    <3>2. /\ e \in Views /\ OnlyAt(off, e, b) /\ e.br = off.br
          /\ TellsChanges(off, e, b)
          /\ \A p \in Ports :
                /\ e.prt[b][p].known = off.prt[b][p].known
                /\ e.prt[b][p].up = off.prt[b][p].up
                /\ e.prt[b][p].portEnabled = off.prt[b][p].portEnabled
                /\ e.prt[b][p].state = h[p]
       BY <3>1, <2>3, <2>4, SetStateEffect
    <3>3. OnlyAt(d, e, b) BY <3>2, <2>1, <2>3 DEF OnlyAt
    <3>4. e.br[b] = B BY <3>2, <2>1, <2>3
    <3>5. ASSUME NEW p \in Ports
          PROVE  /\ e.prt[b][p].known = d.prt[b][p].known
                 /\ e.prt[b][p].up = d.prt[b][p].up
                 /\ e.prt[b][p].portEnabled = d.prt[b][p].portEnabled
                 /\ e.prt[b][p].state = IF d.prt[b][p].known THEN "BLOCKING"
                                        ELSE d.prt[b][p].state
       BY <3>2, <2>2, <2>3, <2>4
    <3>6. TellsLast(d, e, b)
      <4> SUFFICES ASSUME NEW p \in Ports
                   PROVE  IF e.prt[b][p].up
                          THEN \/ e.told[p] = e.prt[b][p].state
                               \/ /\ e.told[p] = d.told[p]
                                  /\ e.prt[b][p].state = d.prt[b][p].state
                          ELSE e.told[p] = d.told[p]
         BY DEF TellsLast
      <4>1. IF off.prt[b][p].up
            THEN \/ off.told[p] = off.prt[b][p].state
                 \/ /\ off.told[p] = d.told[p]
                    /\ off.prt[b][p].state = d.prt[b][p].state
            ELSE off.told[p] = d.told[p]
         BY <2>1, <2>3 DEF TellsChanges
      <4>2. IF e.prt[b][p].up
            THEN \/ e.told[p] = e.prt[b][p].state
                 \/ /\ e.told[p] = off.told[p]
                    /\ e.prt[b][p].state = off.prt[b][p].state
            ELSE e.told[p] = off.told[p]
         BY <3>2 DEF TellsChanges
      <4>3. QED BY <4>1, <4>2, <3>2
    <3>7. QED BY <3>2, <3>3, <3>4, <3>5, <3>6, <2>6, <1>1, <1>4
  <2>7. QED BY <2>5, <2>6
<1>5. QED BY <1>3, <1>4

-----------------------------------------------------------------------------
(* The operators of bridge_track.c keep the daemon state good. *)

\* A change of one bridge that keeps its rules and adds no port to it.
LEMMA GoodKept ==
    ASSUME NEW d, Good(d), NEW e \in Views, NEW b \in Bridges,
           OnlyAt(d, e, b), Follows(e, b),
           \A p \in Ports : e.prt[b][p].known => d.prt[b][p].known
    PROVE  Good(e)
<1>1. FollowsLinks(e) BY DEF Good, FollowsLinks, Follows, OnlyAt
<1>2. OneBridge(e)
  <2>1. \A c \in Bridges, p \in Ports :
            e.prt[c][p].known => d.prt[c][p].known
     BY DEF OnlyAt
  <2>2. QED BY <2>1 DEF Good, OneBridge
<1>3. QED BY <1>1, <1>2 DEF Good

\* The rules of bridge b and of a port of it.
LEMMA RulesOf ==
    ASSUME NEW d, Good(d), NEW b \in Bridges
    PROVE  /\ d \in Views /\ d.br[b] \in BrRecs /\ BridgeRule(d.br[b])
           /\ \A p \in Ports : /\ d.prt[b][p] \in PrtRecs
                               /\ PortRule(d.br[b], d.prt[b][p])
BY ViewFields DEF Good, FollowsLinks, Follows

\* create_br of a bridge mstpd does not have.
LEMMA CreateBrGood ==
    ASSUME NEW d, Good(d), NEW b \in Bridges, ~d.br[b].known
    PROVE  LET e == create_br(d, b)
           IN  /\ Good(e) /\ OnlyAt(d, e, b) /\ e.br[b].known
               /\ ~e.br[b].stp_enabled /\ ~e.br[b].bridgeEnabled
               /\ e.prt = d.prt /\ e.told = d.told
<1> DEFINE B == [NoBr EXCEPT !.known = TRUE]
           e == create_br(d, b)
<1>1. /\ B \in BrRecs /\ B.known = TRUE /\ B.up = FALSE
      /\ B.stp_enabled = FALSE /\ B.bridgeEnabled = FALSE
   BY DEF NoBr, BrRecs
<1>2. e = [d EXCEPT !.br[b] = B] BY DEF create_br
<1> HIDE DEF B
<1>3. /\ e \in Views /\ OnlyAt(d, e, b) /\ e.br[b] = B /\ e.prt = d.prt
      /\ e.told = d.told
   BY <1>1, <1>2, RulesOf, ChangeBr
<1>4. ASSUME NEW p \in Ports PROVE PortRule(e.br[b], e.prt[b][p])
  <2> DEFINE q == d.prt[b][p]
  <2>1. PortRule(d.br[b], q) /\ q \in PrtRecs BY RulesOf
  <2>2. /\ q.known = FALSE /\ q.up = FALSE /\ q.portEnabled = FALSE
        /\ q.state = "DISABLED"
     BY <2>1, ViewFields DEF PortRule
  <2>3. PortRule(B, q) BY <2>2, <1>1 DEF PortRule
  <2>4. QED BY <2>3, <1>3
<1>5. Follows(e, b) BY <1>1, <1>3, <1>4 DEF Follows, BridgeRule
<1>6. Good(e) BY <1>3, <1>5, GoodKept
<1>7. QED BY <1>1, <1>3, <1>6

\* delete_br leaves nothing of the bridge.
LEMMA DeleteBrGood ==
    ASSUME NEW d, Good(d), NEW b \in Bridges
    PROVE  LET e == delete_br(d, b)
           IN  /\ Good(e) /\ OnlyAt(d, e, b) /\ ~e.br[b].known
               /\ \A p \in Ports : ~e.prt[b][p].known
               /\ e.told = d.told
<1> DEFINE Q == [p \in Ports |-> NoPrt]
           e == delete_br(d, b)
<1>1. d \in Views BY RulesOf
<1>2. NoBr \in BrRecs /\ Q \in [Ports -> PrtRecs]
   BY DEF NoBr, NoPrt, BrRecs, PrtRecs, States
<1>3. /\ e.br = [d.br EXCEPT ![b] = NoBr] /\ e.prt = [d.prt EXCEPT ![b] = Q]
      /\ e \in Views /\ e.told = d.told
   BY <1>1, <1>2 DEF delete_br, Views
<1>4. OnlyAt(d, e, b) /\ e.br[b] = NoBr /\ e.prt[b] = Q
   BY <1>1, <1>3, ViewFields DEF OnlyAt
<1>5. \A p \in Ports : e.prt[b][p] = NoPrt BY <1>4
<1>6. Follows(e, b)
  <2>1. BridgeRule(NoBr) /\ PortRule(NoBr, NoPrt)
     BY DEF BridgeRule, PortRule, NoBr, NoPrt
  <2>2. QED BY <2>1, <1>4, <1>5 DEF Follows
<1>7. \A p \in Ports : ~e.prt[b][p].known BY <1>5 DEF NoPrt
<1>8. ~e.br[b].known BY <1>4 DEF NoBr
<1>9. QED BY <1>3, <1>4, <1>6, <1>7, <1>8, GoodKept

\* set_br_up of a bridge mstpd has: when the bridge begins to run, the kernel
\* is told the states of its ports.
BrUpIs(d, e, b, up) ==
    /\ Good(e) /\ OnlyAt(d, e, b) /\ e.br[b].known
    /\ e.br[b].up = up /\ e.br[b].stp_enabled = d.br[b].stp_enabled
    /\ \A p \in Ports : /\ e.prt[b][p].known = d.prt[b][p].known
                        /\ e.prt[b][p].up = d.prt[b][p].up
    /\ TellsLast(d, e, b)
    /\ e.br[b].bridgeEnabled /\ ~d.br[b].bridgeEnabled =>
          \A p \in Ports : e.prt[b][p].up => e.told[p] = e.prt[b][p].state

\* set_br_up does that.
LEMMA SetBrUpGood ==
    ASSUME NEW d, Good(d), NEW b \in Bridges, d.br[b].known, NEW up \in BOOLEAN
    PROVE  BrUpIs(d, set_br_up(d, b, up), b, up)
<1> DEFINE B == [d.br[b] EXCEPT !.up = up]
           g == [d EXCEPT !.br[b] = B]
           e == set_br_up(d, b, up)
<1> SUFFICES /\ Good(e) /\ OnlyAt(d, e, b) /\ e.br[b].known
             /\ e.br[b].up = up /\ e.br[b].stp_enabled = d.br[b].stp_enabled
             /\ \A p \in Ports : /\ e.prt[b][p].known = d.prt[b][p].known
                                 /\ e.prt[b][p].up = d.prt[b][p].up
             /\ TellsLast(d, e, b)
             /\ e.br[b].bridgeEnabled /\ ~d.br[b].bridgeEnabled =>
                   \A p \in Ports : e.prt[b][p].up =>
                                        e.told[p] = e.prt[b][p].state
   BY DEF BrUpIs
<1>1. /\ B \in BrRecs /\ B.up = up /\ B.known = d.br[b].known
      /\ B.stp_enabled = d.br[b].stp_enabled
      /\ B.bridgeEnabled = d.br[b].bridgeEnabled
   BY RulesOf DEF BrRecs
<1>2. e = IF d.br[b].up # up /\ d.br[b].stp_enabled
          THEN MSTP_IN_set_bridge_enable(g, b, up) ELSE g
   BY DEF set_br_up
<1> HIDE DEF B
<1>3. /\ g \in Views /\ OnlyAt(d, g, b) /\ g.br[b] = B /\ g.prt = d.prt
      /\ g.told = d.told
   BY <1>1, RulesOf, ChangeBr
<1> HIDE DEF g
<1>4. BridgeRule(d.br[b]) /\ d.br[b] \in BrRecs BY RulesOf
<1>5. CASE ~(d.br[b].up # up /\ d.br[b].stp_enabled)
  <2>1. e = g BY <1>2, <1>5
  <2>2. B.bridgeEnabled = (B.known /\ B.stp_enabled /\ B.up)
     BY <1>1, <1>4, <1>5, ViewFields DEF BridgeRule
  <2>3. BridgeRule(B) BY <2>2, <1>1 DEF BridgeRule
  <2>4. \A p \in Ports : PortRule(B, d.prt[b][p])
     BY <1>1, RulesOf DEF PortRule
  <2>5. Follows(e, b) BY <2>1, <2>3, <2>4, <1>3 DEF Follows
  <2>6. TellsLast(d, e, b) BY <2>1, <1>3 DEF TellsLast
  <2>7. Good(e) BY <2>1, <2>5, <1>3, GoodKept
  <2>8. QED BY <2>1, <2>6, <2>7, <1>1, <1>3
<1>6. CASE d.br[b].up # up /\ d.br[b].stp_enabled
  <2> DEFINE C == e.br[b]
  <2>0. B.bridgeEnabled # up BY <1>1, <1>4, <1>6, ViewFields DEF BridgeRule
  <2>1. e = MSTP_IN_set_bridge_enable(g, b, up) BY <1>2, <1>6
  <2>2. /\ e \in Views /\ OnlyAt(g, e, b)
        /\ C.known = B.known /\ C.up = B.up
        /\ C.stp_enabled = B.stp_enabled /\ C.bridgeEnabled = up
        /\ TellsLast(g, e, b)
     BY <2>1, <1>3, BridgeEnableEffect
  <2>3. \A p \in Ports :
           LET q == d.prt[b][p]
               r == e.prt[b][p]
           IN  /\ r.known = q.known /\ r.up = q.up
               /\ r.portEnabled = q.portEnabled
               /\ r.state = IF q.known /\ B.bridgeEnabled # up
                            THEN IF up THEN "BLOCKING" ELSE "DISABLED"
                            ELSE q.state
     BY <2>1, <1>3, BridgeEnableEffect
  <2>4. BridgeRule(C) BY <2>2, <1>1, <1>6 DEF BridgeRule
  <2>5. ASSUME NEW p \in Ports PROVE PortRule(C, e.prt[b][p])
    <3> DEFINE q == d.prt[b][p]
               r == e.prt[b][p]
    <3>1. PortRule(d.br[b], q) /\ q \in PrtRecs BY RulesOf
    <3>2. r.portEnabled = (C.known /\ C.stp_enabled /\ r.known /\ r.up)
       BY <3>1, <2>2, <2>3, <1>1 DEF PortRule
    <3>3. /\ r.known => C.known
          /\ ~r.known => ~r.up
       BY <3>1, <2>2, <2>3, <1>1 DEF PortRule
    <3>4. r.state = IF q.known /\ up THEN "BLOCKING" ELSE "DISABLED"
      <4>1. CASE q.known BY <4>1, <2>0, <2>3
      <4>2. CASE ~q.known BY <4>2, <3>1, <2>3 DEF PortRule
      <4>3. QED BY <4>1, <4>2
    <3>5. QED BY <3>2, <3>3, <3>4, <2>2, <2>3 DEF PortRule
  <2>6. Follows(e, b) BY <2>4, <2>5 DEF Follows
  <2>7. OnlyAt(d, e, b) BY <2>2, <1>3 DEF OnlyAt
  <2>8. Good(e) BY <2>2, <2>3, <2>6, <2>7, GoodKept
  <2>9. TellsLast(d, e, b) BY <2>2, <1>3 DEF TellsLast
  <2>10. ASSUME up, NEW p \in Ports, e.prt[b][p].up
         PROVE  e.told[p] = e.prt[b][p].state
    <3> DEFINE q == d.prt[b][p]
    <3>1. PortRule(d.br[b], q) /\ q \in PrtRecs BY RulesOf
    <3>2. q.known /\ q.state = "DISABLED"
       BY <3>1, <2>0, <2>3, <2>10, <1>1 DEF PortRule
    <3>3. e.prt[b][p].state = "BLOCKING" BY <3>2, <2>0, <2>3, <2>10
    <3>4. QED BY <3>2, <3>3, <2>9, <2>10 DEF TellsLast
  <2>11. QED BY <2>2, <2>3, <2>7, <2>8, <2>9, <2>10, <1>1
<1>7. QED BY <1>5, <1>6

\* set_if_up of a port mstpd has.
LEMMA SetIfUpGood ==
    ASSUME NEW d, Good(d), NEW b \in Bridges, NEW p \in Ports,
           d.prt[b][p].known, NEW up \in BOOLEAN
    PROVE  LET e == set_if_up(d, b, p, up)
           IN  /\ Good(e) /\ OnlyAt(d, e, b) /\ e.br = d.br
               /\ \A r \in Ports \ {p} : Alike(d, e, b, r)
               /\ e.prt[b][p].known /\ e.prt[b][p].up = up
               /\ up => e.prt[b][p].state = d.prt[b][p].state
               /\ e.told = d.told
<1> DEFINE q == [d.prt[b][p] EXCEPT !.up = up]
           Q == [d.prt[b] EXCEPT ![p] = q]
           g == [d EXCEPT !.prt[b] = Q]
           e == set_if_up(d, b, p, up)
           B == d.br[b]
<1>1. /\ q \in PrtRecs /\ q.up = up /\ q.known = d.prt[b][p].known
      /\ q.portEnabled = d.prt[b][p].portEnabled
      /\ q.state = d.prt[b][p].state
   BY RulesOf DEF PrtRecs
<1>2. e = IF d.prt[b][p].up # up /\ B.stp_enabled
          THEN MSTP_IN_set_port_enable(g, b, {p}, up) ELSE g
   BY DEF set_if_up
<1> HIDE DEF q
<1>3. Q \in [Ports -> PrtRecs] BY <1>1, RulesOf, ViewFields
<1>4. /\ Q[p] = q
      /\ \A r \in Ports \ {p} : Q[r] = d.prt[b][r]
   BY RulesOf, ViewFields
<1> HIDE DEF Q
<1>5. /\ g \in Views /\ OnlyAt(d, g, b) /\ g.prt[b] = Q /\ g.br = d.br
      /\ g.told = d.told
   BY <1>3, RulesOf, ChangePrt
<1> HIDE DEF g
<1>6. BridgeRule(B) /\ B \in BrRecs /\ PortRule(B, d.prt[b][p])
   BY RulesOf
<1>7. B.known = TRUE BY <1>6, ViewFields DEF PortRule
<1>8. q.known = TRUE BY <1>1, RulesOf, ViewFields
<1> HIDE DEF B
<1>9. CASE ~(d.prt[b][p].up # up /\ B.stp_enabled)
  <2>1. e = g BY <1>2, <1>9
  <2>2. q.portEnabled = (B.known /\ B.stp_enabled /\ q.known /\ q.up)
     BY <1>1, <1>6, <1>9, ViewFields DEF PortRule
  <2>3. /\ q.state \in {"LEARNING", "FORWARDING"}
              => q.portEnabled /\ B.bridgeEnabled
        /\ ~B.bridgeEnabled => q.state = "DISABLED"
        /\ B.bridgeEnabled /\ ~q.up => q.state = "BLOCKING"
     BY <1>1, <1>6, <1>9, ViewFields, RulesOf DEF PortRule, BridgeRule
  <2>4. PortRule(B, Q[p]) BY <2>2, <2>3, <1>4, <1>7, <1>8 DEF PortRule
  <2>5. \A r \in Ports : PortRule(B, Q[r]) BY <2>4, <1>4, RulesOf DEF B
  <2>6. Follows(e, b) BY <2>1, <2>5, <1>5, <1>6 DEF Follows, B
  <2>7. Good(e) BY <2>1, <2>6, <1>1, <1>4, <1>5, GoodKept
  <2>8. QED BY <2>1, <2>7, <1>1, <1>4, <1>5, <1>8 DEF Alike
<1>10. CASE d.prt[b][p].up # up /\ B.stp_enabled
  <2>1. e = MSTP_IN_set_port_enable(g, b, {p}, up) BY <1>2, <1>10
  <2>2. /\ e \in Views /\ OnlyAt(g, e, b) /\ e.br = g.br
        /\ TellsChanges(g, e, b)
        /\ \A r \in Ports :
              /\ e.prt[b][r].known = Q[r].known /\ e.prt[b][r].up = Q[r].up
              /\ e.prt[b][r].portEnabled = IF r \in {p} THEN up
                                           ELSE Q[r].portEnabled
              /\ e.prt[b][r].state = IF r \in {p} /\ ~up /\ g.br[b].bridgeEnabled
                                     THEN "BLOCKING" ELSE Q[r].state
     BY <2>1, <1>5, PortEnableEffect
  <2>3. e.br[b] = B BY <2>2, <1>5 DEF B
  <2>4. PortRule(B, e.prt[b][p])
    <3> DEFINE r == e.prt[b][p]
    <3>1. r.known = TRUE /\ r.up = up /\ r.portEnabled = up
       BY <2>2, <1>1, <1>4, <1>8
    <3>2. B.stp_enabled = TRUE BY <1>6, <1>10, ViewFields
    <3>3. r.state = IF B.bridgeEnabled THEN "BLOCKING" ELSE "DISABLED"
      <4>1. CASE ~up /\ B.bridgeEnabled BY <4>1, <2>2, <2>3, <1>5 DEF B
      <4>2. CASE ~B.bridgeEnabled
        <5>1. r.state = d.prt[b][p].state
           BY <4>2, <2>2, <1>1, <1>4, <1>5 DEF B
        <5>2. QED BY <5>1, <4>2, <1>6 DEF PortRule
      <4>3. CASE up /\ B.bridgeEnabled
        <5>1. r.state = d.prt[b][p].state
           BY <4>3, <2>2, <1>1, <1>4
        <5>2. ~d.prt[b][p].up BY <4>3, <1>10
        <5>3. QED BY <5>1, <5>2, <4>3, <1>6 DEF PortRule
      <4>4. QED BY <4>1, <4>2, <4>3
    <3>4. QED BY <3>1, <3>2, <3>3, <1>7 DEF PortRule
  <2>5. ASSUME NEW r \in Ports \ {p} PROVE PortRule(B, e.prt[b][r])
    <3>1. PortRule(B, Q[r]) BY <1>4, RulesOf DEF B
    <3>2. /\ e.prt[b][r].known = Q[r].known /\ e.prt[b][r].up = Q[r].up
          /\ e.prt[b][r].portEnabled = Q[r].portEnabled
          /\ e.prt[b][r].state = Q[r].state
       BY <2>2
    <3>3. QED BY <3>1, <3>2 DEF PortRule
  <2>6. Follows(e, b) BY <2>3, <2>4, <2>5, <1>6 DEF Follows
  <2>7. OnlyAt(d, e, b) BY <2>2, <1>5 DEF OnlyAt
  <2>8. \A r \in Ports : e.prt[b][r].known => d.prt[b][r].known
     BY <2>2, <1>4
  <2>9. Good(e) BY <2>2, <2>6, <2>7, <2>8, GoodKept
  <2>10. \A r \in Ports \ {p} : Alike(d, e, b, r)
     BY <2>2, <1>4 DEF Alike
  <2>11. /\ e.prt[b][p].known /\ e.prt[b][p].up = up
         /\ up => e.prt[b][p].state = d.prt[b][p].state
     BY <2>2, <1>1, <1>4, <1>8
  <2>12. e.told = d.told
    <3>1. /\ e.told \in [Ports -> States \cup {NotTold}]
          /\ d.told \in [Ports -> States \cup {NotTold}]
       BY <2>2, RulesOf, ViewFields
    <3>2. ASSUME NEW r \in Ports PROVE e.told[r] = g.told[r]
      <4>1. CASE r = p
        <5>1. CASE up BY <5>1, <4>1, <2>2, <1>5 DEF TellsChanges
        <5>2. CASE ~up BY <5>2, <4>1, <2>11, <2>2, <1>5 DEF TellsChanges
        <5>3. QED BY <5>1, <5>2
      <4>2. CASE r # p BY <4>2, <2>2, <1>5 DEF TellsChanges
      <4>3. QED BY <4>1, <4>2
    <3>3. QED BY <3>1, <3>2, <1>5
  <2>13. QED BY <2>2, <2>7, <2>9, <2>10, <2>11, <2>12, <1>5
<1>11. QED BY <1>9, <1>10

\* delete_if of a port: the bridge is otherwise as it was.
IfGone(d, e, b, p) ==
    /\ Good(e) /\ OnlyAt(d, e, b) /\ e.br = d.br
    /\ ~e.prt[b][p].known
    /\ \A r \in Ports \ {p} : Alike(d, e, b, r) /\ e.told[r] = d.told[r]
    /\ e.told[p] \in {d.told[p], "BLOCKING"}

\* delete_if does that.
LEMMA DeleteIfGood ==
    ASSUME NEW d, Good(d), NEW b \in Bridges, NEW p \in Ports
    PROVE  IfGone(d, delete_if(d, b, p), b, p)
<1> DEFINE off == IF d.prt[b][p].portEnabled
                  THEN MSTP_IN_set_port_enable(d, b, {p}, FALSE) ELSE d
           Q == [off.prt[b] EXCEPT ![p] = NoPrt]
           e == delete_if(d, b, p)
<1>1. d \in Views BY RulesOf
<1>2. e = [off EXCEPT !.prt[b] = Q] BY DEF delete_if
<1>3. /\ off \in Views /\ OnlyAt(d, off, b) /\ off.br = d.br
      /\ off.told[p] \in {d.told[p], "BLOCKING"}
      /\ \A r \in Ports \ {p} :
            /\ off.told[r] = d.told[r]
            /\ off.prt[b][r].known = d.prt[b][r].known
            /\ off.prt[b][r].up = d.prt[b][r].up
            /\ off.prt[b][r].portEnabled = d.prt[b][r].portEnabled
            /\ off.prt[b][r].state = d.prt[b][r].state
  <2>1. CASE ~d.prt[b][p].portEnabled BY <2>1, <1>1 DEF OnlyAt
  <2>2. CASE d.prt[b][p].portEnabled
    <3>1. PICK no \in BOOLEAN : no = FALSE OBVIOUS
    <3>2. off = MSTP_IN_set_port_enable(d, b, {p}, no) BY <3>1, <2>2
    <3> HIDE DEF off
    <3>3. /\ off \in Views /\ OnlyAt(d, off, b) /\ off.br = d.br
          /\ TellsChanges(d, off, b)
          /\ \A r \in Ports :
                /\ off.prt[b][r].known = d.prt[b][r].known
                /\ off.prt[b][r].up = d.prt[b][r].up
                /\ off.prt[b][r].portEnabled = IF r \in {p} THEN no
                                               ELSE d.prt[b][r].portEnabled
                /\ off.prt[b][r].state =
                      IF r \in {p} /\ ~no /\ d.br[b].bridgeEnabled
                      THEN "BLOCKING" ELSE d.prt[b][r].state
       BY <3>2, <1>1, PortEnableEffect
    <3>4. \A r \in Ports \ {p} : off.told[r] = d.told[r]
       BY <3>3 DEF TellsChanges
    <3>5. off.told[p] \in {d.told[p], "BLOCKING"}
       BY <3>1, <3>3 DEF TellsChanges
    <3>6. QED BY <3>3, <3>4, <3>5
  <2>3. QED BY <2>1, <2>2
<1> HIDE DEF off
<1>4. NoPrt \in PrtRecs BY DEF NoPrt, PrtRecs, States
<1>5. Q \in [Ports -> PrtRecs] BY <1>3, <1>4, ViewFields
<1>6. Q[p] = NoPrt /\ \A r \in Ports \ {p} : Q[r] = off.prt[b][r]
   BY <1>3, ViewFields
<1> HIDE DEF Q
<1>7. /\ e \in Views /\ OnlyAt(off, e, b) /\ e.prt[b] = Q /\ e.br = off.br
      /\ e.told = off.told
   BY <1>2, <1>3, <1>5, ChangePrt
<1>8. OnlyAt(d, e, b) /\ e.br = d.br BY <1>3, <1>7 DEF OnlyAt
<1>9. NoPrt.known = FALSE /\ PortRule(d.br[b], NoPrt)
   BY DEF NoPrt, PortRule
<1>10. ASSUME NEW r \in Ports \ {p} PROVE PortRule(d.br[b], Q[r])
  <2>1. PortRule(d.br[b], d.prt[b][r]) BY RulesOf
  <2>2. QED BY <2>1, <1>3, <1>6 DEF PortRule
<1>11. Follows(e, b)
   BY <1>6, <1>7, <1>8, <1>9, <1>10, RulesOf DEF Follows
<1>12. \A r \in Ports : e.prt[b][r].known => d.prt[b][r].known
   BY <1>3, <1>6, <1>7, <1>9
<1>13. Good(e) BY <1>7, <1>8, <1>11, <1>12, GoodKept
<1>14. \A r \in Ports \ {p} : Alike(d, e, b, r) /\ e.told[r] = d.told[r]
   BY <1>3, <1>6, <1>7 DEF Alike
<1>15. ~e.prt[b][p].known /\ e.told[p] \in {d.told[p], "BLOCKING"}
   BY <1>3, <1>6, <1>7, <1>9
<1>16. QED BY <1>8, <1>13, <1>14, <1>15 DEF IfGone

\* delete_if_byindex on some bridges takes the port out of all of them: only
\* one can have it.
LEMMA DeleteFromGood ==
    ASSUME NEW d, Good(d), NEW C, NEW p \in Ports,
           \A c \in C : c \in Bridges
    PROVE  LET e == DeleteFrom(d, C, p)
           IN  /\ Good(e) /\ e.br = d.br
               /\ \A c \in C : ~e.prt[c][p].known
               /\ \A b \in Bridges \ C : e.prt[b] = d.prt[b]
               /\ \A r \in Ports \ {p} :
                     /\ \A b \in Bridges : Alike(d, e, b, r)
                     /\ e.told[r] = d.told[r]
               /\ e.told[p] \in {d.told[p], "BLOCKING"}
               /\ (\A c \in C : ~d.prt[c][p].known) => e.told[p] = d.told[p]
<1> DEFINE having == {c \in C : d.prt[c][p].known}
           e == DeleteFrom(d, C, p)
<1>1. CASE having = {}
  <2>1. e = d BY <1>1 DEF DeleteFrom
  <2>2. QED BY <2>1, <1>1 DEF Alike
<1>2. CASE having # {}
  <2>1. PICK b \in having : e = delete_if(d, b, p)
    <3>1. e = delete_if(d, CHOOSE c \in having : TRUE, p)
       BY <1>2 DEF DeleteFrom
    <3>2. (CHOOSE c \in having : TRUE) \in having BY <1>2
    <3>3. QED BY <3>1, <3>2
  <2>2. /\ Good(e) /\ OnlyAt(d, e, b) /\ e.br = d.br /\ ~e.prt[b][p].known
        /\ \A r \in Ports \ {p} : Alike(d, e, b, r) /\ e.told[r] = d.told[r]
        /\ e.told[p] \in {d.told[p], "BLOCKING"}
    <3>1. b \in Bridges BY <2>1
    <3>2. IfGone(d, e, b, p) BY <3>1, <2>1, DeleteIfGood
    <3>3. QED BY <3>2 DEF IfGone
  <2>3. \A c \in Bridges \ {b} : ~d.prt[c][p].known
     BY <2>1 DEF Good, OneBridge
  <2>4. \A c \in C : ~e.prt[c][p].known BY <2>2, <2>3 DEF OnlyAt
  <2>5. \A c \in Bridges \ C : e.prt[c] = d.prt[c] BY <2>1, <2>2 DEF OnlyAt
  <2>6. \A r \in Ports \ {p} : \A c \in Bridges : Alike(d, e, c, r)
     BY <2>2 DEF OnlyAt, Alike
  <2>7. QED BY <2>1, <2>2, <2>4, <2>5, <2>6
<1>3. QED BY <1>1, <1>2

\* create_if of a port that is in no bridge, on a bridge mstpd has.
LEMMA CreateIfGood ==
    ASSUME NEW d, Good(d), NEW b \in Bridges, NEW p \in Ports,
           d.br[b].known, \A c \in Bridges : ~d.prt[c][p].known
    PROVE  LET e == create_if(d, b, p)
           IN  /\ Good(e) /\ OnlyAt(d, e, b) /\ e.br = d.br
               /\ e.prt[b][p].known /\ ~e.prt[b][p].up
               /\ \A r \in Ports \ {p} : Alike(d, e, b, r)
               /\ e.told = d.told
<1> DEFINE q == [NoPrt EXCEPT !.known = TRUE]
           Q == [d.prt[b] EXCEPT ![p] = q]
           g == [d EXCEPT !.prt[b] = Q]
           f == Only(g, b, {p}, "BLOCKING")
           e == create_if(d, b, p)
           B == d.br[b]
<1>1. /\ q \in PrtRecs /\ q.known = TRUE /\ q.up = FALSE
      /\ q.portEnabled = FALSE /\ q.state = "DISABLED"
   BY DEF NoPrt, PrtRecs, States
<1>2. e = IF B.bridgeEnabled THEN MSTP_OUT_set_state(g, b, f) ELSE g
   BY DEF create_if
<1> HIDE DEF q
<1>3. Q \in [Ports -> PrtRecs] BY <1>1, RulesOf, ViewFields
<1>4. /\ Q[p] = q
      /\ \A r \in Ports \ {p} : Q[r] = d.prt[b][r]
   BY RulesOf, ViewFields
<1> HIDE DEF Q
<1>5. /\ g \in Views /\ OnlyAt(d, g, b) /\ g.prt[b] = Q /\ g.br = d.br
      /\ g.told = d.told
   BY <1>3, RulesOf, ChangePrt
<1> HIDE DEF g
<1>6. B.known = TRUE BY RulesOf, ViewFields
<1>7. /\ e \in Views /\ OnlyAt(g, e, b) /\ e.br = g.br
      /\ \A r \in Ports :
            /\ e.prt[b][r].known = Q[r].known /\ e.prt[b][r].up = Q[r].up
            /\ e.prt[b][r].portEnabled = Q[r].portEnabled
            /\ e.prt[b][r].state = IF r = p /\ B.bridgeEnabled THEN "BLOCKING"
                                   ELSE Q[r].state
      /\ \A r \in Ports : e.told[r] = g.told[r]
  <2>1. CASE ~B.bridgeEnabled
    <3>1. e = g BY <2>1, <1>2
    <3> HIDE DEF e
    <3>2. e.prt[b] = Q /\ e \in Views /\ OnlyAt(g, e, b)
       BY <3>1, <1>5 DEF OnlyAt
    <3>3. QED BY <3>1, <3>2, <2>1
  <2>2. CASE B.bridgeEnabled
    <3>1. e = MSTP_OUT_set_state(g, b, f) BY <2>2, <1>2
    <3>2. /\ f \in [Ports -> States]
          /\ \A r \in Ports : f[r] = IF r \in {p} THEN "BLOCKING"
                                     ELSE Q[r].state
       BY <1>5, OnlyType DEF States
    <3> HIDE DEF f
    <3> HIDE DEF e
    <3>3. /\ e \in Views /\ OnlyAt(g, e, b) /\ e.br = g.br
          /\ TellsChanges(g, e, b)
          /\ \A r \in Ports :
                /\ e.prt[b][r].known = g.prt[b][r].known
                /\ e.prt[b][r].up = g.prt[b][r].up
                /\ e.prt[b][r].portEnabled = g.prt[b][r].portEnabled
                /\ e.prt[b][r].state = f[r]
       BY <3>1, <3>2, <1>5, SetStateEffect
    <3>4. \A r \in Ports : e.told[r] = g.told[r]
       BY <3>2, <3>3, <1>1, <1>4, <1>5 DEF TellsChanges
    <3>5. QED BY <3>2, <3>3, <3>4, <2>2, <1>5
  <2>3. QED BY <2>1, <2>2
<1>8. e.br[b] = B /\ OnlyAt(d, e, b) BY <1>5, <1>7 DEF OnlyAt
<1>9. PortRule(B, e.prt[b][p])
  <2>1. /\ e.prt[b][p].known = TRUE /\ e.prt[b][p].up = FALSE
        /\ e.prt[b][p].portEnabled = FALSE
        /\ e.prt[b][p].state = IF B.bridgeEnabled THEN "BLOCKING"
                               ELSE "DISABLED"
     BY <1>1, <1>4, <1>7
  <2>2. QED BY <2>1, <1>6 DEF PortRule
<1>10. ASSUME NEW r \in Ports \ {p} PROVE PortRule(B, e.prt[b][r])
  <2>1. PortRule(B, Q[r]) BY <1>4, RulesOf
  <2>2. QED BY <2>1, <1>7 DEF PortRule
<1>11. Follows(e, b) BY <1>8, <1>9, <1>10, RulesOf DEF Follows
<1>12. FollowsLinks(e)
   BY <1>8, <1>11 DEF Good, FollowsLinks, Follows, OnlyAt
<1>13. OneBridge(e)
  <2>1. \A c \in Bridges : \A r \in Ports :
            e.prt[c][r].known => d.prt[c][r].known \/ (c = b /\ r = p)
     BY <1>4, <1>7, <1>8 DEF OnlyAt
  <2>2. QED BY <2>1 DEF Good, OneBridge
<1>14. e.prt[b][p].known /\ ~e.prt[b][p].up BY <1>1, <1>4, <1>7
<1>15. \A r \in Ports \ {p} : Alike(d, e, b, r) BY <1>4, <1>7 DEF Alike
<1>16. e.told = d.told
  <2>1. /\ e.told \in [Ports -> States \cup {NotTold}]
        /\ d.told \in [Ports -> States \cup {NotTold}]
     BY <1>7, RulesOf, ViewFields
  <2>2. QED BY <2>1, <1>5, <1>7
<1>17. Good(e) BY <1>7, <1>12, <1>13 DEF Good
<1>18. QED BY <1>5, <1>7, <1>8, <1>14, <1>15, <1>16, <1>17

-----------------------------------------------------------------------------
(* Notifications and requests. *)

\* What mstpd makes of message m about port p of bridge b.  The bridge is made
\* known, and as it is now, if it still exists; the port is made known if it
\* is still a port.
SameLink(d, e, b, p) == /\ e.prt[b][p].known = d.prt[b][p].known
                        /\ e.prt[b][p].up = d.prt[b][p].up

HeardPort(d, e, m) ==
    LET b == m.master
        p == m.if
    IN  /\ \A c \in Bridges \ {b} : e.br[c] = d.br[c]
        /\ IF kbr[b].exists = "yes"
           THEN e.br[b].known /\ e.br[b].up = kbr[b].up
           ELSE e.br[b].known = d.br[b].known /\ e.br[b].up = d.br[b].up
        /\ e.br[b].stp_enabled = d.br[b].stp_enabled
        /\ \A c \in Bridges : \A r \in Ports \ {p} : SameLink(d, e, c, r)
        /\ \A c \in Bridges \ {b} : e.prt[c][p].known => SameLink(d, e, c, p)
        /\ m.newlink => /\ e.prt[b][p].known => e.prt[b][p].up = m.up
                        /\ kbr[b].exists = "yes" /\ CanCreateIf(p)
                               => e.prt[b][p].known
        /\ ~m.newlink => ~e.prt[b][p].known

\* What it makes of message m about an interface that is unregistered or
\* about a bridge.
HeardGone(d, e, m) ==
    /\ e.br = d.br
    /\ \A c \in Bridges : /\ ~e.prt[c][m.if].known
                          /\ \A r \in Ports \ {m.if} : SameLink(d, e, c, r)

HeardBridge(d, e, m) ==
    LET b == m.if
    IN  /\ \A c \in Bridges \ {b} : e.br[c] = d.br[c]
        /\ \A c \in Bridges : \A r \in Ports :
              IF c = b /\ ~m.newlink THEN ~e.prt[c][r].known
              ELSE SameLink(d, e, c, r)
        /\ ~m.newlink => ~e.br[b].known
        /\ m.newlink =>
              /\ e.br[b].known => e.br[b].up = m.up
              /\ kbr[b].exists = "yes" => e.br[b].known
              /\ e.br[b].stp_enabled = d.br[b].stp_enabled

\* Heard gathers the three.
Heard(d, e, m) ==
    IF m.if \in Bridges THEN HeardBridge(d, e, m)
    ELSE IF m.master = None THEN HeardGone(d, e, m)
    ELSE HeardPort(d, e, m)

\* The kernel was told the state of each port that is up on a bridge that
\* runs, unless that state is an old one, or it is the state of a port that
\* has just come up.
Reported(d, e) == \A b \in Bridges : \A r \in Ports :
    e.br[b].bridgeEnabled /\ e.prt[b][r].up =>
        \/ e.told[r] = e.prt[b][r].state
        \/ /\ e.told[r] = d.told[r]
           /\ \/ /\ d.br[b].bridgeEnabled /\ d.prt[b][r].up
                 /\ e.prt[b][r].state = d.prt[b][r].state
              \/ ~d.prt[b][r].up /\ e.prt[b][r].state = "BLOCKING"

\* A port that is up in a bridge is up in no other.
LEMMA UpInOne ==
    ASSUME NEW d, Good(d), NEW p \in Ports, NEW b \in Bridges, NEW c \in Bridges,
           d.prt[b][p].up, b # c
    PROVE  ~d.prt[c][p].up /\ ~d.prt[c][p].known
<1>1. PortRule(d.br[b], d.prt[b][p]) /\ PortRule(d.br[c], d.prt[c][p])
   BY RulesOf
<1>2. d.prt[b][p].known BY <1>1 DEF PortRule
<1>3. ~d.prt[c][p].known BY <1>2 DEF Good, OneBridge
<1>4. QED BY <1>1, <1>3 DEF PortRule

\* A change of bridge b that tells the kernel the states of its ports.
LEMMA TellsReported ==
    ASSUME NEW d, Good(d), NEW e, Good(e), NEW b \in Bridges, OnlyAt(d, e, b),
           TellsLast(d, e, b),
           \A p \in Ports : e.prt[b][p].up = d.prt[b][p].up,
           e.br[b].bridgeEnabled /\ ~d.br[b].bridgeEnabled =>
               \A p \in Ports : e.prt[b][p].up => e.told[p] = e.prt[b][p].state
    PROVE  Reported(d, e)
<1> SUFFICES ASSUME NEW c \in Bridges, NEW r \in Ports,
                    e.br[c].bridgeEnabled, e.prt[c][r].up
             PROVE  \/ e.told[r] = e.prt[c][r].state
                    \/ /\ e.told[r] = d.told[r]
                       /\ d.br[c].bridgeEnabled /\ d.prt[c][r].up
                       /\ e.prt[c][r].state = d.prt[c][r].state
   BY DEF Reported
<1>1. CASE c = b BY <1>1 DEF TellsLast
<1>2. CASE c # b
  <2>1. ~e.prt[b][r].up BY <1>2, UpInOne
  <2>2. e.told[r] = d.told[r] BY <2>1 DEF TellsLast
  <2>3. QED BY <2>2, <1>2 DEF OnlyAt
<1>3. QED BY <1>1, <1>2

\* bridge_notify about a port of a bridge.
LEMMA NotifyPortGood ==
    ASSUME TrackTypeOK, NEW d, Good(d), NEW m \in Messages,
           m.master \in Bridges, m.if \in Ports
    PROVE  LET x == NotifyPort(d, m)
           IN  Good(x) /\ HeardPort(d, x, m) /\ Reported(d, x)
<1> DEFINE b == m.master
           p == m.if
           e == IF d.br[b].known THEN d ELSE create_br(d, b)
           g == IF kbr[b].exists = "yes" THEN set_br_up(e, b, kbr[b].up) ELSE e
           h == DeleteElsewhere(g, b, p)
           x == NotifyPort(d, m)
<1>1. m.up \in BOOLEAN /\ m.newlink \in BOOLEAN BY DEF Messages
<1>2. kbr[b].up \in BOOLEAN BY DEF TrackTypeOK, KBrRecs
<1>3. /\ Good(e) /\ e.br[b].known /\ OnlyAt(d, e, b)
      /\ e.prt = d.prt /\ e.told = d.told
      /\ d.br[b].known => e = d
      /\ ~d.br[b].known => ~e.br[b].stp_enabled /\ ~e.br[b].bridgeEnabled
  <2>1. CASE d.br[b].known BY <2>1 DEF OnlyAt
  <2>2. CASE ~d.br[b].known BY <2>2, CreateBrGood
  <2>3. QED BY <2>1, <2>2
<1>4. NotifyPort(d, m) =
        CASE ~d.br[b].known /\ ~CanCreateBr(b) -> d
          [] (d.br[b].known \/ CanCreateBr(b)) /\ g.prt[b][p].known ->
                IF m.newlink THEN set_if_up(g, b, p, m.up)
                ELSE delete_if(g, b, p)
          [] (d.br[b].known \/ CanCreateBr(b)) /\ ~g.prt[b][p].known ->
                IF ~m.newlink THEN g
                ELSE IF CanCreateIf(p)
                     THEN set_if_up(create_if(h, b, p), b, p, m.up)
                     ELSE h
   BY DEF NotifyPort
<1>b. BridgeRule(d.br[b]) /\ d.br[b] \in BrRecs BY RulesOf
<1> HIDE DEF e
<1>5. /\ Good(g) /\ g.br[b].known /\ OnlyAt(e, g, b)
      /\ kbr[b].exists = "yes" => g.br[b].up = kbr[b].up
      /\ kbr[b].exists # "yes" => g = e
      /\ g.br[b].stp_enabled = e.br[b].stp_enabled
      /\ \A r \in Ports : SameLink(e, g, b, r)
      /\ TellsLast(e, g, b)
      /\ g.br[b].bridgeEnabled /\ ~e.br[b].bridgeEnabled =>
            \A r \in Ports : g.prt[b][r].up => g.told[r] = g.prt[b][r].state
  <2>1. CASE kbr[b].exists = "yes"
    <3>1. g = set_br_up(e, b, kbr[b].up) BY <2>1
    <3> HIDE DEF g
    <3>2. BrUpIs(e, g, b, kbr[b].up) BY <3>1, <1>2, <1>3, SetBrUpGood
    <3>3. QED BY <3>2, <2>1 DEF BrUpIs, SameLink
  <2>2. CASE kbr[b].exists # "yes"
     BY <2>2, <1>3 DEF SameLink, OnlyAt, TellsLast
  <2>3. QED BY <2>1, <2>2
<1> HIDE DEF g, b, p
<1>6. b \in Bridges /\ p \in Ports BY DEF b, p
<1>7. /\ OnlyAt(d, g, b) /\ TellsLast(d, g, b)
      /\ \A r \in Ports : SameLink(d, g, b, r)
      /\ g.br[b].stp_enabled = d.br[b].stp_enabled
      /\ g.br[b].bridgeEnabled /\ ~d.br[b].bridgeEnabled =>
            \A r \in Ports : g.prt[b][r].up => g.told[r] = g.prt[b][r].state
  <2>1. OnlyAt(d, g, b) BY <1>3, <1>5 DEF OnlyAt
  <2>2. TellsLast(d, g, b) BY <1>3, <1>5 DEF TellsLast
  <2>3. \A r \in Ports : SameLink(d, g, b, r) BY <1>3, <1>5 DEF SameLink
  <2>4. ~d.br[b].known => ~d.br[b].stp_enabled /\ ~d.br[b].bridgeEnabled
     BY <1>b DEF BridgeRule, b
  <2>5. e.br[b] \in BrRecs /\ d.br[b] \in BrRecs BY <1>3, <1>6, RulesOf
  <2>6. /\ e.br[b].stp_enabled = d.br[b].stp_enabled
        /\ e.br[b].bridgeEnabled = d.br[b].bridgeEnabled
    <3>1. CASE d.br[b].known BY <3>1, <1>3
    <3>2. CASE ~d.br[b].known
      <4>1. /\ e.br[b].stp_enabled = FALSE /\ d.br[b].stp_enabled = FALSE
            /\ e.br[b].bridgeEnabled = FALSE /\ d.br[b].bridgeEnabled = FALSE
         BY <3>2, <2>4, <2>5, <1>3, ViewFields
      <4>2. QED BY <4>1
    <3>3. QED BY <3>1, <3>2
  <2>7. QED BY <2>1, <2>2, <2>3, <2>6, <1>5
<1>8. Reported(d, g) BY <1>5, <1>6, <1>7, TellsReported DEF SameLink
<1>9. CASE ~d.br[b].known /\ ~CanCreateBr(b)
  <2>1. x = d BY <1>4, <1>9
  <2>2. ~d.prt[b][p].known BY <1>6, <1>9, RulesOf DEF PortRule
  <2>3. HeardPort(d, d, m)
     BY <2>2, <1>9 DEF HeardPort, SameLink, CanCreateBr, b, p
  <2>4. QED BY <2>1, <2>3 DEF Reported
<1>o. /\ \A c \in Bridges : \A r \in Ports : SameLink(d, g, c, r)
      /\ \A c \in Bridges \ {b} : g.br[c] = d.br[c]
   BY <1>6, <1>7 DEF OnlyAt, SameLink
\* What is the same whatever happens to the port.
<1>h. ASSUME NEW y, d.br[b].known \/ CanCreateBr(b), y.br = g.br,
             \A c \in Bridges : \A r \in Ports \ {p} : SameLink(g, y, c, r),
             \A c \in Bridges \ {b} : y.prt[c][p].known => SameLink(g, y, c, p),
             m.newlink => /\ y.prt[b][p].known => y.prt[b][p].up = m.up
                          /\ CanCreateIf(p) => y.prt[b][p].known,
             ~m.newlink => ~y.prt[b][p].known
      PROVE  HeardPort(d, y, m)
  <2>1. \A c \in Bridges : \A r \in Ports \ {p} : SameLink(d, y, c, r)
     BY <1>h, <1>o DEF SameLink
  <2>2. \A c \in Bridges \ {b} : y.prt[c][p].known => SameLink(d, y, c, p)
     BY <1>h, <1>o, <1>6 DEF SameLink
  <2>3. IF kbr[b].exists = "yes"
        THEN y.br[b].known /\ y.br[b].up = kbr[b].up
        ELSE y.br[b].known = d.br[b].known /\ y.br[b].up = d.br[b].up
    <3>1. CASE kbr[b].exists = "yes" BY <3>1, <1>h, <1>5
    <3>2. CASE kbr[b].exists # "yes"
       BY <3>2, <1>h, <1>3, <1>5 DEF CanCreateBr
    <3>3. QED BY <3>1, <3>2
  <2>4. QED BY <2>1, <2>2, <2>3, <1>h, <1>7, <1>o DEF HeardPort, b, p
\* The ports other than p are reported as they were.
<1>r. ASSUME NEW y, y.br = g.br,
             \A c \in Bridges : \A r \in Ports \ {p} : Alike(g, y, c, r),
             \A r \in Ports \ {p} : y.told[r] = g.told[r],
             \A c \in Bridges \ {b} : ~y.prt[c][p].up,
             y.prt[b][p].up =>
                \/ y.br[b].bridgeEnabled => y.told[p] = y.prt[b][p].state
                \/ g.prt[b][p].up /\ y.told[p] = g.told[p]
                      /\ y.prt[b][p].state = g.prt[b][p].state
                \/ /\ y.told[p] = d.told[p] /\ ~d.prt[b][p].up
                   /\ y.br[b].bridgeEnabled => y.prt[b][p].state = "BLOCKING"
      PROVE  Reported(d, y)
  <2> SUFFICES ASSUME NEW c \in Bridges, NEW r \in Ports,
                      y.br[c].bridgeEnabled, y.prt[c][r].up
               PROVE  \/ y.told[r] = y.prt[c][r].state
                      \/ /\ y.told[r] = d.told[r]
                         /\ \/ /\ d.br[c].bridgeEnabled /\ d.prt[c][r].up
                               /\ y.prt[c][r].state = d.prt[c][r].state
                            \/ ~d.prt[c][r].up /\ y.prt[c][r].state = "BLOCKING"
     BY DEF Reported
  <2>1. ASSUME g.prt[c][r].up, y.told[r] = g.told[r],
               y.prt[c][r].state = g.prt[c][r].state
        PROVE  \/ y.told[r] = y.prt[c][r].state
               \/ /\ y.told[r] = d.told[r]
                  /\ \/ /\ d.br[c].bridgeEnabled /\ d.prt[c][r].up
                        /\ y.prt[c][r].state = d.prt[c][r].state
                     \/ ~d.prt[c][r].up /\ y.prt[c][r].state = "BLOCKING"
     BY <2>1, <1>r, <1>8 DEF Reported
  <2>2. CASE r # p BY <2>1, <2>2, <1>r DEF Alike
  <2>3. CASE r = p BY <2>1, <2>3, <1>r, <1>6
  <2>4. QED BY <2>2, <2>3
<1>10. CASE (d.br[b].known \/ CanCreateBr(b)) /\ g.prt[b][p].known
  <2>1. \A c \in Bridges \ {b} : ~g.prt[c][p].known /\ ~g.prt[c][p].up
    <3>1. \A c \in Bridges \ {b} : ~g.prt[c][p].known
       BY <1>5, <1>6, <1>10 DEF Good, OneBridge
    <3>2. QED BY <3>1, <1>5, <1>6, RulesOf DEF PortRule
  <2>2. CASE m.newlink
    <3>1. x = set_if_up(g, b, p, m.up) BY <2>2, <1>4, <1>10
    <3> HIDE DEF x
    <3>2. /\ Good(x) /\ OnlyAt(g, x, b) /\ x.br = g.br
          /\ \A r \in Ports \ {p} : Alike(g, x, b, r)
          /\ x.prt[b][p].known /\ x.prt[b][p].up = m.up
          /\ m.up => x.prt[b][p].state = g.prt[b][p].state
          /\ x.told = g.told
       BY <3>1, <1>1, <1>5, <1>6, <1>10, SetIfUpGood
    <3>3. /\ \A c \in Bridges : \A r \in Ports \ {p} :
                Alike(g, x, c, r) /\ SameLink(g, x, c, r)
          /\ \A c \in Bridges \ {b} : ~x.prt[c][p].known /\ ~x.prt[c][p].up
       BY <3>2, <2>1 DEF OnlyAt, Alike, SameLink
    <3>4. HeardPort(d, x, m) BY <3>2, <3>3, <2>2, <1>h, <1>10
    <3>5. ASSUME x.prt[b][p].up, ~g.prt[b][p].up
          PROVE  /\ x.told[p] = d.told[p] /\ ~d.prt[b][p].up
                 /\ x.br[b].bridgeEnabled => x.prt[b][p].state = "BLOCKING"
      <4>1. ~d.prt[b][p].up BY <3>5, <1>6, <1>7 DEF SameLink
      <4>2. g.told[p] = d.told[p] BY <3>5, <1>6, <1>7 DEF TellsLast
      <4>3. PortRule(g.br[b], g.prt[b][p]) BY <1>5, <1>6, RulesOf
      <4>4. QED BY <4>1, <4>2, <4>3, <3>2, <3>5, <1>10 DEF PortRule
    <3>6. Reported(d, x) BY <3>2, <3>3, <3>5, <1>r
    <3>7. QED BY <3>2, <3>4, <3>6 DEF x
  <2>3. CASE ~m.newlink
    <3>1. x = delete_if(g, b, p) BY <2>3, <1>4, <1>10
    <3> HIDE DEF x
    <3>2. /\ Good(x) /\ OnlyAt(g, x, b) /\ x.br = g.br
          /\ ~x.prt[b][p].known
          /\ \A r \in Ports \ {p} : Alike(g, x, b, r) /\ x.told[r] = g.told[r]
      <4>1. IfGone(g, x, b, p) BY <3>1, <1>5, <1>6, DeleteIfGood
      <4>2. QED BY <4>1 DEF IfGone
    <3>3. /\ \A c \in Bridges : \A r \in Ports \ {p} :
                Alike(g, x, c, r) /\ SameLink(g, x, c, r)
          /\ \A c \in Bridges \ {b} : ~x.prt[c][p].known /\ ~x.prt[c][p].up
       BY <3>2, <2>1 DEF OnlyAt, Alike, SameLink
    <3>4. HeardPort(d, x, m) BY <3>2, <3>3, <2>3, <1>h, <1>10
    <3>5. ~x.prt[b][p].up BY <3>2, <1>6, RulesOf DEF PortRule
    <3>6. Reported(d, x) BY <3>2, <3>3, <3>5, <1>r
    <3>7. QED BY <3>2, <3>4, <3>6 DEF x
  <2>4. QED BY <2>2, <2>3
<1>11. CASE (d.br[b].known \/ CanCreateBr(b)) /\ ~g.prt[b][p].known
  <2>1. /\ Good(h) /\ h.br = g.br
        /\ \A c \in Bridges \ {b} : ~h.prt[c][p].known
        /\ h.prt[b] = g.prt[b]
        /\ \A r \in Ports \ {p} : /\ \A c \in Bridges : Alike(g, h, c, r)
                                  /\ h.told[r] = g.told[r]
        /\ h.told[p] \in {g.told[p], "BLOCKING"}
    <3> DEFINE C == Bridges \ {b}
    <3>1. b \in Bridges \ C /\ \A c \in C : c \in Bridges BY <1>6
    <3>2. h = DeleteFrom(g, C, p) BY DEF DeleteElsewhere
    <3>3. \A c \in Bridges \ {b} : c \in C OBVIOUS
    <3> HIDE DEF C, h
    <3>4. /\ Good(h) /\ h.br = g.br
          /\ \A c \in C : ~h.prt[c][p].known
          /\ \A c \in Bridges \ C : h.prt[c] = g.prt[c]
          /\ \A r \in Ports \ {p} : /\ \A c \in Bridges : Alike(g, h, c, r)
                                    /\ h.told[r] = g.told[r]
          /\ h.told[p] \in {g.told[p], "BLOCKING"}
       BY <3>1, <3>2, <1>5, <1>6, DeleteFromGood
    <3>5. QED BY <3>1, <3>3, <3>4
  <2> HIDE DEF h
  <2>2. \A c \in Bridges : ~h.prt[c][p].known /\ ~h.prt[c][p].up
    <3>1. \A c \in Bridges : ~h.prt[c][p].known BY <2>1, <1>6, <1>11
    <3>2. QED BY <3>1, <2>1, <1>6, RulesOf DEF PortRule
  <2>3. CASE ~m.newlink
    <3>1. x = g BY <2>3, <1>4, <1>11
    <3>2. HeardPort(d, g, m) BY <2>3, <1>h, <1>11 DEF SameLink
    <3>3. QED BY <3>1, <3>2, <1>5, <1>8
  <2>4. CASE m.newlink /\ ~CanCreateIf(p)
    <3>1. x = h BY <2>4, <1>4, <1>11
    <3>2. HeardPort(d, h, m)
       BY <2>1, <2>2, <2>4, <1>6, <1>h, <1>11 DEF SameLink, Alike
    <3>3. Reported(d, h) BY <2>1, <2>2, <1>6, <1>r
    <3>4. QED BY <3>1, <3>2, <3>3, <2>1
  <2>5. CASE m.newlink /\ CanCreateIf(p)
    <3> DEFINE f == create_if(h, b, p)
    <3>1. x = set_if_up(f, b, p, m.up) BY <2>5, <1>4, <1>11
    <3>2. /\ Good(f) /\ OnlyAt(h, f, b) /\ f.br = h.br
          /\ f.prt[b][p].known /\ ~f.prt[b][p].up
          /\ \A r \in Ports \ {p} : Alike(h, f, b, r)
          /\ f.told = h.told
       BY <2>1, <2>2, <1>5, <1>6, CreateIfGood
    <3> HIDE DEF f, x
    <3>3. /\ Good(x) /\ OnlyAt(f, x, b) /\ x.br = f.br
          /\ \A r \in Ports \ {p} : Alike(f, x, b, r)
          /\ x.prt[b][p].known /\ x.prt[b][p].up = m.up
          /\ m.up => x.prt[b][p].state = f.prt[b][p].state
          /\ x.told = f.told
       BY <3>1, <3>2, <1>1, <1>6, SetIfUpGood
    <3>4. /\ \A c \in Bridges : \A r \in Ports \ {p} :
                Alike(g, x, c, r) /\ SameLink(g, x, c, r)
          /\ \A c \in Bridges \ {b} : ~x.prt[c][p].known /\ ~x.prt[c][p].up
      <4>1. \A c \in Bridges \ {b} : x.prt[c] = h.prt[c]
         BY <3>2, <3>3 DEF OnlyAt
      <4>2. \A r \in Ports \ {p} : Alike(h, x, b, r) BY <3>2, <3>3 DEF Alike
      <4>3. QED BY <4>1, <4>2, <2>1, <2>2 DEF Alike, SameLink
    <3>5. x.br = g.br BY <3>2, <3>3, <2>1
    <3>6. HeardPort(d, x, m) BY <3>3, <3>4, <3>5, <2>5, <1>h, <1>11
    <3>7. ASSUME x.prt[b][p].up
          PROVE  \/ x.br[b].bridgeEnabled => x.told[p] = x.prt[b][p].state
                 \/ /\ x.told[p] = d.told[p] /\ ~d.prt[b][p].up
                    /\ x.br[b].bridgeEnabled => x.prt[b][p].state = "BLOCKING"
      <4>1. PortRule(f.br[b], f.prt[b][p]) BY <3>2, <1>6, RulesOf
      <4>2. x.br[b].bridgeEnabled => x.prt[b][p].state = "BLOCKING"
         BY <4>1, <3>2, <3>3, <3>7 DEF PortRule
      <4>3. ~g.prt[b][p].up BY <1>5, <1>6, <1>11, RulesOf DEF PortRule
      <4>4. ~d.prt[b][p].up BY <4>3, <1>6, <1>7 DEF SameLink
      <4>5. g.told[p] = d.told[p] BY <4>3, <1>6, <1>7 DEF TellsLast
      <4>6. x.told[p] \in {d.told[p], "BLOCKING"} BY <4>5, <3>2, <3>3, <2>1
      <4>7. QED BY <4>2, <4>4, <4>6
    <3>8. \A r \in Ports \ {p} : x.told[r] = g.told[r] BY <3>2, <3>3, <2>1
    <3>9. Reported(d, x) BY <3>4, <3>5, <3>7, <3>8, <1>r
    <3>10. QED BY <3>3, <3>6, <3>9 DEF x
  <2>6. QED BY <2>3, <2>4, <2>5
<1>12. QED BY <1>9, <1>10, <1>11

\* bridge_notify about a bridge, or about an interface that is gone.
LEMMA NotifyOtherGood ==
    ASSUME TrackTypeOK, NEW d, Good(d), NEW m \in Messages,
           m.if \in Ports => ~m.newlink
    PROVE  LET x == NotifyOther(d, m)
           IN  /\ Good(x) /\ Reported(d, x)
               /\ m.if \in Ports => HeardGone(d, x, m)
               /\ m.if \in Bridges => HeardBridge(d, x, m)
<1> DEFINE x == NotifyOther(d, m)
<1>1. /\ m.up \in BOOLEAN /\ m.newlink \in BOOLEAN
      /\ m.if \in Bridges \cup Ports
   BY DEF Messages
<1>2. CASE m.if \in Ports
  <2> DEFINE p == m.if
  <2>1. x = DeleteFrom(d, Bridges, p)
     BY <1>2 DEF NotifyOther
  <2> HIDE DEF x
  <2>2. p \in Ports /\ \A c \in Bridges : c \in Bridges BY <1>2
  <2>3. /\ Good(x) /\ x.br = d.br
        /\ \A c \in Bridges : ~x.prt[c][p].known
        /\ \A r \in Ports \ {p} : /\ \A b \in Bridges : Alike(d, x, b, r)
                                  /\ x.told[r] = d.told[r]
    <3> HIDE DEF p
    <3>1. QED BY <2>1, <2>2, DeleteFromGood
  <2>4. HeardGone(d, x, m) BY <2>3 DEF HeardGone, Alike, SameLink
  <2>5. ASSUME NEW c \in Bridges PROVE ~x.prt[c][p].up
     BY <2>2, <2>3, RulesOf DEF PortRule
  <2>6. Reported(d, x)
    <3> SUFFICES ASSUME NEW c \in Bridges, NEW r \in Ports,
                        x.br[c].bridgeEnabled, x.prt[c][r].up
                 PROVE  /\ x.told[r] = d.told[r]
                        /\ d.br[c].bridgeEnabled /\ d.prt[c][r].up
                        /\ x.prt[c][r].state = d.prt[c][r].state
       BY DEF Reported
    <3>1. r # p BY <2>5
    <3>2. QED BY <3>1, <2>3 DEF Alike
  <2>7. m.if \notin Bridges BY <1>2, TrackAssumption
  <2>8. QED BY <2>3, <2>4, <2>6, <2>7 DEF x
<1>3. CASE m.if \in Bridges
  <2> DEFINE b == m.if
  <2>1. m.if \notin Ports BY <1>3, TrackAssumption
  <2>2. b \in Bridges BY <1>3
  <2>3. BridgeRule(d.br[b]) /\ d.br[b] \in BrRecs BY <1>3, RulesOf
  <2>4. CASE ~m.newlink
    <3>1. CASE ~d.br[b].known
      <4>1. x = d BY <3>1, <2>1, <2>4 DEF NotifyOther
      <4>2. \A r \in Ports : ~d.prt[b][r].known
         BY <3>1, <2>2, RulesOf DEF PortRule
      <4>3. HeardBridge(d, d, m)
         BY <4>2, <3>1, <2>4 DEF HeardBridge, SameLink
      <4>4. Reported(d, d) BY DEF Reported
      <4>5. QED BY <4>1, <4>3, <4>4, <2>1
    <3>2. CASE d.br[b].known
      <4>1. x = delete_br(d, b) BY <3>2, <2>1, <2>4 DEF NotifyOther
      <4> HIDE DEF x
      <4>2. /\ Good(x) /\ OnlyAt(d, x, b) /\ ~x.br[b].known
            /\ \A p \in Ports : ~x.prt[b][p].known
            /\ x.told = d.told
         BY <4>1, <2>2, DeleteBrGood
      <4>3. HeardBridge(d, x, m)
         BY <4>2, <2>4 DEF HeardBridge, SameLink, OnlyAt
      <4>4. ~x.br[b].bridgeEnabled BY <4>2, <2>2, RulesOf DEF BridgeRule
      <4>5. Reported(d, x) BY <4>2, <4>4, <2>2 DEF Reported, OnlyAt
      <4>6. QED BY <4>2, <4>3, <4>5, <2>1 DEF x
    <3>3. QED BY <3>1, <3>2
  <2>5. CASE m.newlink
    <3> DEFINE e == IF d.br[b].known THEN d ELSE create_br(d, b)
    <3>1. CASE ~d.br[b].known /\ ~CanCreateBr(b)
      <4>1. x = d BY <3>1, <2>5 DEF NotifyOther
      <4>2. HeardBridge(d, d, m)
         BY <3>1, <2>5 DEF HeardBridge, SameLink, CanCreateBr
      <4>3. Reported(d, d) BY DEF Reported
      <4>4. QED BY <4>1, <4>2, <4>3, <2>1
    <3>2. CASE d.br[b].known \/ CanCreateBr(b)
      <4>1. x = set_br_up(e, b, m.up) BY <3>2, <2>5 DEF NotifyOther
      <4>2. /\ Good(e) /\ e.br[b].known /\ OnlyAt(d, e, b)
            /\ e.prt = d.prt /\ e.told = d.told
            /\ e.br[b].stp_enabled = d.br[b].stp_enabled
            /\ e.br[b].bridgeEnabled = d.br[b].bridgeEnabled
        <5>1. CASE d.br[b].known BY <5>1 DEF OnlyAt
        <5>2. CASE ~d.br[b].known
          <6>1. e = create_br(d, b) BY <5>2
          <6> HIDE DEF e
          <6>2. /\ Good(e) /\ OnlyAt(d, e, b) /\ e.br[b].known
                /\ ~e.br[b].stp_enabled /\ ~e.br[b].bridgeEnabled
                /\ e.prt = d.prt /\ e.told = d.told
             BY <6>1, <5>2, <2>2, CreateBrGood
          <6>3. e.br[b] \in BrRecs BY <6>2, <2>2, RulesOf
          <6>4. /\ e.br[b].stp_enabled = FALSE /\ d.br[b].stp_enabled = FALSE
                /\ e.br[b].bridgeEnabled = FALSE
                /\ d.br[b].bridgeEnabled = FALSE
             BY <6>2, <6>3, <5>2, <2>3, ViewFields DEF BridgeRule
          <6>5. QED BY <6>2, <6>4
        <5>3. QED BY <5>1, <5>2
      <4> HIDE DEF e, x
      <4>3. /\ Good(x) /\ OnlyAt(e, x, b) /\ x.br[b].known
            /\ x.br[b].up = m.up /\ x.br[b].stp_enabled = e.br[b].stp_enabled
            /\ \A p \in Ports : /\ x.prt[b][p].known = e.prt[b][p].known
                                /\ x.prt[b][p].up = e.prt[b][p].up
            /\ TellsLast(e, x, b)
            /\ x.br[b].bridgeEnabled /\ ~e.br[b].bridgeEnabled =>
                  \A p \in Ports : x.prt[b][p].up =>
                                       x.told[p] = x.prt[b][p].state
        <5>1. BrUpIs(e, x, b, m.up) BY <4>1, <4>2, <2>2, <1>1, SetBrUpGood
        <5>2. QED BY <5>1 DEF BrUpIs
      <4>4. OnlyAt(d, x, b) BY <4>2, <4>3 DEF OnlyAt
      <4>5. TellsLast(d, x, b) BY <4>2, <4>3 DEF TellsLast
      <4>6. Reported(d, x)
         BY <4>2, <4>3, <4>4, <4>5, <2>2, TellsReported
      <4>7. HeardBridge(d, x, m)
         BY <4>2, <4>3, <4>4, <2>5 DEF HeardBridge, SameLink, OnlyAt
      <4>8. QED BY <4>3, <4>6, <4>7, <2>1 DEF x
    <3>3. QED BY <3>1, <3>2
  <2>6. QED BY <2>4, <2>5, <1>1
<1>4. QED BY <1>1, <1>2, <1>3

\* bridge_notify.
LEMMA NotifyGood ==
    ASSUME TrackTypeOK, NEW d, Good(d), NEW m \in Messages
    PROVE  LET x == bridge_notify(d, m)
           IN  Good(x) /\ Heard(d, x, m) /\ Reported(d, x)
<1>1. CASE m.master # None /\ m.master # m.if
  <2>1. m.master \in Bridges /\ m.if \in Ports /\ m.if \notin Bridges
     BY <1>1, TrackAssumption DEF Messages
  <2>2. bridge_notify(d, m) = NotifyPort(d, m) BY <1>1 DEF bridge_notify
  <2>3. QED BY <2>1, <2>2, <1>1, NotifyPortGood DEF Heard
<1>2. CASE ~(m.master # None /\ m.master # m.if)
  <2>1. /\ m.if \in Ports => ~m.newlink /\ m.master = None /\ m.if \notin Bridges
        /\ m.if \in Bridges \cup Ports
     BY <1>2, TrackAssumption DEF Messages
  <2>2. bridge_notify(d, m) = NotifyOther(d, m) BY <1>2 DEF bridge_notify
  <2>3. QED BY <2>1, <2>2, NotifyOtherGood DEF Heard
<1>3. QED BY <1>1, <1>2

\* A request about bridge b leaves the links as mstpd has seen them, and tells
\* the kernel the states of the ports of a bridge that begins to run.
Requested(d, e, b) ==
    /\ Good(e) /\ OnlyAt(d, e, b)
    /\ \A p \in Ports : SameLink(d, e, b, p)
    /\ Reported(d, e)
    /\ IF d.br[b].known \/ kbr[b].exists = "yes" THEN e.br[b].known ELSE e = d
    /\ d.br[b].known => e.br[b].up = d.br[b].up

\* CTL_add_bridges of a bridge that was only monitored: stp_enabled is set,
\* and the engine is told of the bridge and of each of its ports.
LEMMA EnableBridgeGood ==
    ASSUME NEW d, Good(d), NEW b \in Bridges, d.br[b].known,
           ~d.br[b].stp_enabled
    PROVE  LET e == EnableBridge(d, b)
           IN  Requested(d, e, b) /\ e.br[b].stp_enabled
<1> DEFINE B == [d.br[b] EXCEPT !.stp_enabled = TRUE]
           s == [d EXCEPT !.br[b] = B]
           g == MSTP_IN_set_bridge_enable(s, b, s.br[b].up)
           on == {p \in KnownPorts(g, b) : g.prt[b][p].up}
           h == MSTP_IN_set_port_enable(g, b, on, TRUE)
           off == KnownPorts(g, b) \ on
           e == MSTP_IN_set_port_enable(h, b, off, FALSE)
           up == d.br[b].up
<1>1. /\ B \in BrRecs /\ B.stp_enabled = TRUE /\ B.known = TRUE
      /\ B.up = up /\ B.bridgeEnabled = FALSE /\ up \in BOOLEAN
   BY RulesOf DEF BrRecs, BridgeRule
<1>2. EnableBridge(d, b) = e BY DEF EnableBridge
<1> HIDE DEF B
<1>3. /\ s \in Views /\ OnlyAt(d, s, b) /\ s.br[b] = B /\ s.prt = d.prt
      /\ s.told = d.told
   BY <1>1, RulesOf, ChangeBr
<1> HIDE DEF s
<1>4. g = MSTP_IN_set_bridge_enable(s, b, up) BY <1>1, <1>3
<1> HIDE DEF g, up
<1>5. /\ g \in Views /\ OnlyAt(s, g, b) /\ TellsLast(s, g, b)
      /\ g.br[b].known = TRUE /\ g.br[b].up = up
      /\ g.br[b].stp_enabled = TRUE /\ g.br[b].bridgeEnabled = up
   BY <1>1, <1>3, <1>4, BridgeEnableEffect
<1>6. ASSUME NEW p \in Ports
      PROVE  LET q == d.prt[b][p]
                 r == g.prt[b][p]
             IN  /\ r.known = q.known /\ r.up = q.up
                 /\ r.portEnabled = FALSE
                 /\ q.known /\ up => r.state = "BLOCKING"
                 /\ ~q.known \/ ~up => r.state = "DISABLED"
                 /\ q.state = "DISABLED"
                 /\ ~q.known => ~q.up
  <2> DEFINE q == d.prt[b][p]
             r == g.prt[b][p]
  <2>1. /\ r.known = q.known /\ r.up = q.up
        /\ r.portEnabled = q.portEnabled
        /\ r.state = IF q.known /\ B.bridgeEnabled # up
                     THEN IF up THEN "BLOCKING" ELSE "DISABLED"
                     ELSE q.state
     BY <1>1, <1>3, <1>4, BridgeEnableEffect
  <2>2. PortRule(d.br[b], q) /\ q \in PrtRecs BY RulesOf
  <2>3. ~d.br[b].bridgeEnabled BY RulesOf DEF BridgeRule
  <2>4. /\ q.portEnabled = FALSE /\ q.state = "DISABLED"
        /\ ~q.known => ~q.up
     BY <2>2, <2>3, ViewFields DEF PortRule
  <2>5. /\ q.known /\ up => r.state = "BLOCKING"
        /\ ~q.known \/ ~up => r.state = "DISABLED"
    <3>1. CASE up BY <3>1, <2>1, <2>4, <1>1
    <3>2. CASE ~up BY <3>2, <2>1, <2>4
    <3>3. QED BY <3>1, <3>2
  <2>6. QED BY <2>1, <2>4, <2>5
<1>7. PICK yes \in BOOLEAN, no \in BOOLEAN : yes = TRUE /\ no = FALSE
   OBVIOUS
<1>8. /\ h = MSTP_IN_set_port_enable(g, b, on, yes)
      /\ e = MSTP_IN_set_port_enable(h, b, off, no)
   BY <1>7
<1>9. \A p \in Ports : /\ p \in on <=> g.prt[b][p].known /\ g.prt[b][p].up
                       /\ p \in off <=> g.prt[b][p].known /\ ~g.prt[b][p].up
   BY DEF KnownPorts
<1> HIDE DEF h, e, on, off
<1>10. /\ h \in Views /\ OnlyAt(g, h, b) /\ h.br = g.br
       /\ TellsChanges(g, h, b)
       /\ \A p \in Ports :
             LET q == g.prt[b][p]
                 r == h.prt[b][p]
             IN  /\ r.known = q.known /\ r.up = q.up
                 /\ r.portEnabled = IF p \in on THEN yes ELSE q.portEnabled
                 /\ r.state = IF p \in on /\ ~yes /\ g.br[b].bridgeEnabled
                              THEN "BLOCKING" ELSE q.state
   BY <1>5, <1>8, PortEnableEffect
<1>11. /\ e \in Views /\ OnlyAt(h, e, b) /\ e.br = h.br
       /\ TellsChanges(h, e, b)
       /\ \A p \in Ports :
             LET q == h.prt[b][p]
                 r == e.prt[b][p]
             IN  /\ r.known = q.known /\ r.up = q.up
                 /\ r.portEnabled = IF p \in off THEN no ELSE q.portEnabled
                 /\ r.state = IF p \in off /\ ~no /\ h.br[b].bridgeEnabled
                              THEN "BLOCKING" ELSE q.state
   BY <1>8, <1>10, PortEnableEffect
<1>12. /\ e.br[b].known = TRUE /\ e.br[b].up = up
       /\ e.br[b].stp_enabled = TRUE /\ e.br[b].bridgeEnabled = up
   BY <1>5, <1>10, <1>11
<1>13. ASSUME NEW p \in Ports
       PROVE  LET q == d.prt[b][p]
                  r == e.prt[b][p]
              IN  /\ r.known = q.known /\ r.up = q.up
                  /\ r.portEnabled = (q.known /\ q.up)
                  /\ h.prt[b][p].state = g.prt[b][p].state
                  /\ r.state = g.prt[b][p].state
                  /\ PortRule(e.br[b], r)
  <2> DEFINE q == d.prt[b][p]
             r == e.prt[b][p]
             t == h.prt[b][p]
  <2>1. q \in PrtRecs BY RulesOf
  <2>2. q.known \in BOOLEAN /\ q.up \in BOOLEAN BY <2>1, ViewFields
  <2>3. /\ t.known = q.known /\ t.up = q.up /\ t.state = g.prt[b][p].state
        /\ t.portEnabled = IF p \in on THEN TRUE ELSE FALSE
     BY <1>6, <1>7, <1>10
  <2>4. /\ r.known = q.known /\ r.up = q.up
        /\ r.portEnabled = IF p \in off THEN FALSE ELSE t.portEnabled
        /\ r.state = IF p \in off /\ h.br[b].bridgeEnabled THEN "BLOCKING"
                     ELSE t.state
     BY <2>3, <1>7, <1>11
  <2>5. /\ p \in on <=> q.known /\ q.up
        /\ p \in off <=> q.known /\ ~q.up
     BY <1>6, <1>9
  <2>6. r.portEnabled = (q.known /\ q.up)
     BY <2>2, <2>3, <2>4, <2>5
  <2>7. r.state = g.prt[b][p].state
    <3>1. CASE p \in off /\ h.br[b].bridgeEnabled
      <4>1. q.known /\ up BY <3>1, <2>5, <1>5, <1>10
      <4>2. g.prt[b][p].state = "BLOCKING" BY <4>1, <1>6
      <4>3. QED BY <4>2, <3>1, <2>4
    <3>2. CASE ~(p \in off /\ h.br[b].bridgeEnabled) BY <3>2, <2>3, <2>4
    <3>3. QED BY <3>1, <3>2
  <2>8. /\ q.known /\ up => r.state = "BLOCKING"
        /\ ~q.known \/ ~up => r.state = "DISABLED"
        /\ ~q.known => ~q.up
     BY <2>7, <1>6
  <2> HIDE DEF q, r
  <2>9. PortRule(e.br[b], r)
     BY <2>2, <2>4, <2>6, <2>8, <1>12 DEF PortRule
  <2>10. QED BY <2>3, <2>4, <2>6, <2>7, <2>9 DEF q, r
<1>14. Follows(e, b)
  <2>1. BridgeRule(e.br[b]) BY <1>1, <1>12 DEF BridgeRule
  <2>2. QED BY <2>1, <1>13 DEF Follows
<1>15. OnlyAt(d, e, b) BY <1>3, <1>5, <1>10, <1>11 DEF OnlyAt
<1>16. \A p \in Ports : /\ e.prt[b][p].known = d.prt[b][p].known
                        /\ e.prt[b][p].up = d.prt[b][p].up
   BY <1>13
<1>17. Good(e) BY <1>11, <1>14, <1>15, <1>16, GoodKept
<1>18. ASSUME NEW p \in Ports
       PROVE  e.told[p] = IF d.prt[b][p].up /\ up THEN "BLOCKING"
                          ELSE d.told[p]
  <2>1. h.told[p] = g.told[p] BY <1>10, <1>13 DEF TellsChanges
  <2>2. e.told[p] = h.told[p] BY <1>11, <1>13 DEF TellsChanges
  <2>3. e.told[p] = g.told[p] BY <2>1, <2>2
  <2>4. IF g.prt[b][p].up
        THEN \/ g.told[p] = g.prt[b][p].state
             \/ /\ g.told[p] = d.told[p]
                /\ g.prt[b][p].state = d.prt[b][p].state
        ELSE g.told[p] = d.told[p]
     BY <1>3, <1>5 DEF TellsLast
  <2>5. CASE ~d.prt[b][p].up BY <2>3, <2>4, <2>5, <1>6
  <2>6. CASE d.prt[b][p].up /\ up BY <2>3, <2>4, <2>6, <1>6
  <2>7. CASE d.prt[b][p].up /\ ~up
    <3>1. g = s BY <2>7, <1>1, <1>3, <1>4 DEF MSTP_IN_set_bridge_enable
    <3>2. QED BY <3>1, <2>3, <2>7, <1>3
  <2>8. QED BY <2>5, <2>6, <2>7
<1>19. ASSUME NEW p \in Ports
       PROVE  /\ d.prt[b][p].up /\ up => e.prt[b][p].state = "BLOCKING"
              /\ ~up => e.prt[b][p].state = d.prt[b][p].state
   BY <1>6, <1>13
<1>20. TellsLast(d, e, b) BY <1>16, <1>18, <1>19 DEF TellsLast
<1>21. e.br[b].bridgeEnabled =>
          \A p \in Ports : e.prt[b][p].up => e.told[p] = e.prt[b][p].state
   BY <1>12, <1>16, <1>18, <1>19
<1>22. Reported(d, e)
   BY <1>15, <1>16, <1>17, <1>20, <1>21, TellsReported
<1>23. \A p \in Ports : SameLink(d, e, b, p) BY <1>16 DEF SameLink
<1>24. Requested(d, e, b)
   BY <1>12, <1>15, <1>17, <1>22, <1>23 DEF Requested, up
<1>25. QED BY <1>2, <1>12, <1>24

\* CTL_add_bridges.
LEMMA AddBridgeGood ==
    ASSUME NEW d, Good(d), NEW b \in Bridges
    PROVE  LET e == CTL_add_bridges(d, b)
           IN  /\ Requested(d, e, b)
               /\ e.br[b].known => e.br[b].stp_enabled
<1> DEFINE e == CTL_add_bridges(d, b)
<1>0. ASSUME d.br[b].known \/ kbr[b].exists # "yes"
      PROVE  Requested(d, d, b)
  <2>1. OnlyAt(d, d, b) /\ \A p \in Ports : SameLink(d, d, b, p)
     BY DEF OnlyAt, SameLink
  <2>2. Reported(d, d) BY DEF Reported
  <2>3. QED BY <2>1, <2>2, <1>0 DEF Requested
<1>1. CASE d.br[b].known
  <2>1. CASE d.br[b].stp_enabled
    <3>1. e = d BY <2>1, <1>1 DEF CTL_add_bridges
    <3>2. QED BY <3>1, <2>1, <1>0, <1>1
  <2>2. CASE ~d.br[b].stp_enabled
    <3>1. e = EnableBridge(d, b) BY <2>2, <1>1 DEF CTL_add_bridges
    <3>2. QED BY <3>1, <2>2, <1>1, EnableBridgeGood
  <2>3. QED BY <2>1, <2>2
<1>2. CASE ~d.br[b].known /\ CanCreateBr(b)
  <2> DEFINE g == create_br(d, b)
  <2>1. /\ Good(g) /\ OnlyAt(d, g, b) /\ g.br[b].known
        /\ ~g.br[b].stp_enabled /\ ~g.br[b].bridgeEnabled
        /\ g.prt = d.prt /\ g.told = d.told
     BY <1>2, CreateBrGood
  <2>2. e = EnableBridge(g, b) BY <1>2 DEF CTL_add_bridges
  <2> HIDE DEF g, e
  <2>3. Requested(g, e, b) /\ e.br[b].stp_enabled
     BY <2>1, <2>2, EnableBridgeGood
  <2>4. /\ OnlyAt(d, e, b) /\ Good(e) /\ e.br[b].known
        /\ \A p \in Ports : SameLink(d, e, b, p)
     BY <2>1, <2>3 DEF Requested, OnlyAt, SameLink
  <2>5. Reported(d, e)
    <3>1. \A p \in Ports : ~e.prt[b][p].up
      <4>1. \A p \in Ports : ~d.prt[b][p].up BY <1>2, RulesOf DEF PortRule
      <4>2. QED BY <4>1, <2>4 DEF SameLink
    <3>2. \A c \in Bridges \ {b} : /\ e.br[c] = d.br[c] /\ e.prt[c] = d.prt[c]
                                   /\ g.br[c] = d.br[c] /\ g.prt[c] = d.prt[c]
       BY <2>1, <2>4 DEF OnlyAt
    <3>3. Reported(g, e) /\ g.told = d.told BY <2>1, <2>3 DEF Requested
    <3> SUFFICES ASSUME NEW c \in Bridges, NEW r \in Ports,
                        e.br[c].bridgeEnabled, e.prt[c][r].up
                 PROVE  \/ e.told[r] = e.prt[c][r].state
                        \/ /\ e.told[r] = d.told[r]
                           /\ \/ /\ d.br[c].bridgeEnabled /\ d.prt[c][r].up
                                 /\ e.prt[c][r].state = d.prt[c][r].state
                              \/ /\ ~d.prt[c][r].up
                                 /\ e.prt[c][r].state = "BLOCKING"
       BY DEF Reported
    <3>4. c # b BY <3>1
    <3>5. g.br[c] = d.br[c] /\ g.prt[c] = d.prt[c] BY <3>2, <3>4
    <3>6. QED BY <3>3, <3>5 DEF Reported
  <2>6. Requested(d, e, b)
     BY <2>4, <2>5, <1>2 DEF Requested, CanCreateBr
  <2>7. QED BY <2>3, <2>6 DEF e
<1>3. CASE ~d.br[b].known /\ ~CanCreateBr(b)
  <2>1. e = d BY <1>3 DEF CTL_add_bridges
  <2>2. QED BY <2>1, <1>0, <1>3 DEF CanCreateBr
<1>4. QED BY <1>1, <1>2, <1>3

\* CTL_del_bridges: the ports and the bridge are disabled in the engine
\* before stp_enabled is cleared.
LEMMA DelBridgeGood ==
    ASSUME NEW d, Good(d), NEW b \in Bridges
    PROVE  LET e == CTL_del_bridges(d, b)
           IN  /\ d.br[b].stp_enabled => Requested(d, e, b)
               /\ ~d.br[b].stp_enabled => e = d
               /\ ~e.br[b].stp_enabled
<1> DEFINE all == KnownPorts(d, b)
           g == MSTP_IN_set_port_enable(d, b, all, FALSE)
           h == MSTP_IN_set_bridge_enable(g, b, FALSE)
           B == [h.br[b] EXCEPT !.stp_enabled = FALSE]
           e == [h EXCEPT !.br[b] = B]
<1>1. CASE ~d.br[b].stp_enabled BY <1>1 DEF CTL_del_bridges
<1>2. CASE d.br[b].stp_enabled
  <2>1. CTL_del_bridges(d, b) = e BY <1>2 DEF CTL_del_bridges
  <2>2. PICK no \in BOOLEAN : no = FALSE OBVIOUS
  <2>3. /\ g = MSTP_IN_set_port_enable(d, b, all, no)
        /\ h = MSTP_IN_set_bridge_enable(g, b, no)
     BY <2>2
  <2>4. \A p \in Ports : p \in all <=> d.prt[b][p].known BY DEF KnownPorts
  <2> HIDE DEF g, h, all
  <2>5. /\ g \in Views /\ OnlyAt(d, g, b) /\ g.br = d.br
        /\ TellsChanges(d, g, b)
        /\ \A p \in Ports :
              LET q == d.prt[b][p]
                  r == g.prt[b][p]
              IN  /\ r.known = q.known /\ r.up = q.up
                  /\ r.portEnabled = IF p \in all THEN no ELSE q.portEnabled
                  /\ r.state = IF p \in all /\ ~no /\ d.br[b].bridgeEnabled
                               THEN "BLOCKING" ELSE q.state
     BY <2>3, RulesOf, PortEnableEffect
  <2>6. /\ h \in Views /\ OnlyAt(g, h, b) /\ TellsLast(g, h, b)
        /\ h.br[b].known = g.br[b].known /\ h.br[b].bridgeEnabled = no
        /\ h.br[b].up = g.br[b].up
        /\ \A p \in Ports :
              LET q == g.prt[b][p]
                  r == h.prt[b][p]
              IN  /\ r.known = q.known /\ r.up = q.up
                  /\ r.portEnabled = q.portEnabled
                  /\ r.state = IF q.known /\ g.br[b].bridgeEnabled # no
                               THEN IF no THEN "BLOCKING" ELSE "DISABLED"
                               ELSE q.state
     BY <2>3, <2>5, BridgeEnableEffect
  <2>7. /\ B \in BrRecs /\ B.stp_enabled = FALSE /\ B.known = d.br[b].known
        /\ B.bridgeEnabled = FALSE /\ B.up = d.br[b].up
    <3>1. h.br[b] \in BrRecs BY <2>6, ViewFields
    <3>2. /\ h.br[b].known = d.br[b].known /\ h.br[b].up = d.br[b].up
          /\ h.br[b].bridgeEnabled = FALSE
       BY <2>2, <2>5, <2>6
    <3>3. QED BY <3>1, <3>2 DEF BrRecs
  <2> HIDE DEF B
  <2>8. /\ e \in Views /\ OnlyAt(h, e, b) /\ e.br[b] = B /\ e.prt = h.prt
        /\ e.told = h.told
     BY <2>6, <2>7, ChangeBr
  <2>9. B.known = TRUE
    <3>1. BridgeRule(d.br[b]) /\ d.br[b] \in BrRecs BY RulesOf
    <3>2. QED BY <3>1, <2>7, <1>2, ViewFields DEF BridgeRule
  <2>10. ASSUME NEW p \in Ports
         PROVE  PortRule(B, h.prt[b][p])
    <3> DEFINE q == d.prt[b][p]
               r == h.prt[b][p]
    <3>1. PortRule(d.br[b], q) /\ q \in PrtRecs BY RulesOf
    <3>2. r.known = q.known /\ r.up = q.up BY <2>5, <2>6
    <3>3. r.portEnabled = FALSE
      <4>1. CASE q.known BY <4>1, <2>2, <2>4, <2>5, <2>6
      <4>2. CASE ~q.known
        <5>1. q.portEnabled = FALSE BY <4>2, <3>1, ViewFields DEF PortRule
        <5>2. QED BY <5>1, <4>2, <2>4, <2>5, <2>6
      <4>3. QED BY <4>1, <4>2
    <3>4. r.state = "DISABLED"
      <4>1. CASE q.known /\ d.br[b].bridgeEnabled
        <5>1. g.br[b].bridgeEnabled # no /\ g.prt[b][p].known
           BY <4>1, <2>2, <2>5
        <5>2. QED BY <5>1, <2>2, <2>6
      <4>2. CASE ~(q.known /\ d.br[b].bridgeEnabled)
        <5>1. q.state = "DISABLED" BY <4>2, <3>1 DEF PortRule
        <5>2. g.prt[b][p].state = q.state BY <4>2, <2>4, <2>5
        <5>3. h.prt[b][p].state \in {"DISABLED", g.prt[b][p].state}
           BY <2>2, <2>6
        <5>4. QED BY <5>1, <5>2, <5>3
      <4>3. QED BY <4>1, <4>2
    <3>5. ~r.known => ~r.up BY <3>1, <3>2 DEF PortRule
    <3>6. QED BY <3>2, <3>3, <3>4, <3>5, <2>7, <2>9 DEF PortRule
  <2>11. Follows(e, b)
    <3>1. BridgeRule(B) BY <2>7, <2>9 DEF BridgeRule
    <3>2. QED BY <3>1, <2>8, <2>10 DEF Follows
  <2>12. OnlyAt(d, e, b) BY <2>5, <2>6, <2>8 DEF OnlyAt
  <2>13. \A p \in Ports : /\ e.prt[b][p].known = d.prt[b][p].known
                          /\ e.prt[b][p].up = d.prt[b][p].up
     BY <2>5, <2>6, <2>8
  <2>14. Good(e)
    <3>1. \A p \in Ports : e.prt[b][p].known => d.prt[b][p].known BY <2>13
    <3> HIDE DEF e
    <3>2. QED BY <3>1, <2>8, <2>11, <2>12, GoodKept
  <2>15. TellsLast(d, e, b)
    <3> SUFFICES ASSUME NEW p \in Ports
                 PROVE  IF h.prt[b][p].up
                        THEN \/ h.told[p] = h.prt[b][p].state
                             \/ /\ h.told[p] = d.told[p]
                                /\ h.prt[b][p].state = d.prt[b][p].state
                        ELSE h.told[p] = d.told[p]
       BY <2>8 DEF TellsLast
    <3>1. IF g.prt[b][p].up
          THEN \/ g.told[p] = g.prt[b][p].state
               \/ /\ g.told[p] = d.told[p]
                  /\ g.prt[b][p].state = d.prt[b][p].state
          ELSE g.told[p] = d.told[p]
       BY <2>5 DEF TellsChanges
    <3>2. IF h.prt[b][p].up
          THEN \/ h.told[p] = h.prt[b][p].state
               \/ /\ h.told[p] = g.told[p]
                  /\ h.prt[b][p].state = g.prt[b][p].state
          ELSE h.told[p] = g.told[p]
       BY <2>6 DEF TellsLast
    <3>3. QED BY <3>1, <3>2, <2>6
  <2>16. Reported(d, e)
     BY <2>7, <2>8, <2>12, <2>13, <2>14, <2>15, TellsReported
  <2>17. \A p \in Ports : SameLink(d, e, b, p) BY <2>13 DEF SameLink
  <2>18. Requested(d, e, b)
     BY <2>7, <2>8, <2>9, <2>12, <2>14, <2>16, <2>17 DEF Requested
  <2>19. QED BY <2>1, <2>7, <2>8, <2>18, <1>2
<1>3. QED BY <1>1, <1>2

-----------------------------------------------------------------------------
(* The steps. *)

\* A view with the br and prt of a good one is good.
LEMMA GoodOf ==
    ASSUME NEW d, Good(d), br' = d.br, prt' = d.prt
    PROVE  Good(Daemon)' /\ br' \in [Bridges -> BrRecs]
           /\ prt' \in [Bridges -> [Ports -> PrtRecs]]
<1> DEFINE T == [p \in Ports |-> NotTold]
           e == [br |-> br', prt |-> prt', told |-> T]
<1>1. T \in [Ports -> States \cup {NotTold}] OBVIOUS
<1>2. /\ br' \in [Bridges -> BrRecs]
      /\ prt' \in [Bridges -> [Ports -> PrtRecs]]
   BY ViewFields DEF Good
<1>3. e \in Views BY <1>1, <1>2 DEF Views
<1>4. FollowsLinks(e) /\ OneBridge(e)
   BY DEF Good, FollowsLinks, Follows, OneBridge
<1>5. Daemon' = e BY DEF Daemon
<1>6. QED BY <1>2, <1>3, <1>4, <1>5 DEF Good

\* Messages of the kernel.
LEMMA MessageTypes ==
    /\ \A b \in Bridges : Message(b, b, TRUE, FALSE) \in Messages
    /\ \A b \in Bridges : \A v \in BOOLEAN : Message(b, b, TRUE, v) \in Messages
    /\ \A b \in Bridges : \A p \in Ports : \A v \in BOOLEAN :
           /\ Message(b, p, TRUE, v) \in Messages
           /\ Message(b, p, FALSE, v) \in Messages
    /\ \A i \in Bridges \cup Ports : Message(None, i, FALSE, FALSE) \in Messages
BY TrackAssumption DEF Message, Messages

\* Sequences of messages.
LEMMA MessageSequences ==
    /\ \A m \in Messages : <<m>> \in Seq(Messages)
    /\ \A m, n \in Messages : <<m, n>> \in Seq(Messages)
    /\ \A n \in Nat : \A f \in [1..n -> Messages] : f \in Seq(Messages)
BY SeqDef

\* Notify queues the messages, or they are not heard.
LEMMA NotifyTypes ==
    ASSUME TrackTypeOK, NEW msgs \in Seq(Messages), Notify(msgs)
    PROVE  pending' \in Seq(Messages)
<1>1. CASE Listening
  <2>1. phase # "dump" /\ phase # "off" BY <1>1 DEF Listening
  <2>2. pending' = pending \o msgs BY <2>1, <1>1 DEF Notify
  <2>3. QED BY <2>2 DEF TrackTypeOK
<1>2. CASE phase = "dump"
  <2>1. ~Listening BY <1>2 DEF Listening
  <2>2. pending' = pending BY <2>1, <1>2 DEF Notify
  <2>3. QED BY <2>2 DEF TrackTypeOK
<1>3. CASE phase = "off"
  <2>1. ~Listening BY <1>3 DEF Listening
  <2>2. pending' = pending BY <2>1, <1>3 DEF Notify
  <2>3. QED BY <2>2 DEF TrackTypeOK
<1>4. QED BY <1>1, <1>2, <1>3 DEF TrackTypeOK, Listening

\* The states the kernel may give a port.
LEMMA GivenStates == \A b, up : StatesGiven(b, up) \subseteq States
BY DEF StatesGiven, States

\* What mstpd tells the kernel changes only the state of ports.
LEMMA ToldTypes ==
    ASSUME TrackTypeOK, NEW told \in [Ports -> States \cup {NotTold}]
    PROVE  Told(told) \in [Ports -> KPortRecs]
BY DEF TrackTypeOK, KPortRecs, Told

\* Steps that leave mstpd's view alone.
LEMMA SameView ==
    ASSUME TrackInv, UNCHANGED daemon
    PROVE  Good(Daemon)' /\ br' \in [Bridges -> BrRecs]
           /\ prt' \in [Bridges -> [Ports -> PrtRecs]]
<1>1. Daemon.br = br /\ Daemon.prt = prt BY DEF Daemon
<1>2. br' = Daemon.br /\ prt' = Daemon.prt BY <1>1 DEF daemon
<1>3. Good(Daemon) BY DEF TrackInv
<1> HIDE DEF Daemon
<1>4. QED BY <1>2, <1>3, GoodOf

\* Enumerations of a set of interfaces.
LEMMA OrderLength ==
    ASSUME NEW S \in SUBSET (Bridges \cup Ports)
    PROVE  Cardinality(S) \in Nat
<1>1. IsFiniteSet(Bridges \cup Ports) BY TrackAssumption, FS_Union
<1>2. IsFiniteSet(S) BY <1>1, FS_Subset
<1>3. QED BY <1>2, FS_CardinalityType

\* Changes of the kernel's bridges and ports.
LEMMA KernelInv ==
    ASSUME TrackInv,
           \/ \E b \in Bridges : NewBridge(b) \/ FlipBridge(b) \/ DelBridge(b)
           \/ \E p \in Ports : \/ DelPort(p) \/ Unregister(p) \/ FlipLink(p)
                               \/ \E b \in Bridges : AddPort(p, b)
    PROVE  TrackInv'
<1>t. TrackTypeOK BY DEF TrackInv
<1>k. /\ \A b \in Bridges : /\ kbr[b] \in KBrRecs /\ kbr[b].up \in BOOLEAN
                            /\ kbr[b].stp \in BOOLEAN
      /\ \A p \in Ports : /\ kport[p] \in KPortRecs
                          /\ kport[p].running \in BOOLEAN
                          /\ kport[p].master \in Bridges \cup {None}
                          /\ kport[p].state \in States
   BY <1>t DEF TrackTypeOK, KBrRecs, KPortRecs
<1> DEFINE Kernel == /\ kbr' \in [Bridges -> KBrRecs]
                     /\ kport' \in [Ports -> KPortRecs]
                     /\ pending' \in Seq(Messages)
<1>1. ASSUME Kernel, UNCHANGED <<request, phase, daemon>> PROVE TrackInv'
   BY <1>1, <1>t, SameView DEF TrackInv, TrackTypeOK
<1>2. ASSUME NEW b \in Bridges, NewBridge(b) PROVE TrackInv'
  <2>1. kbr' \in [Bridges -> KBrRecs] /\ kport' \in [Ports -> KPortRecs]
     BY <1>2, <1>t DEF NewBridge, TrackTypeOK, KBrRecs
  <2>2. <<Message(b, b, TRUE, FALSE)>> \in Seq(Messages)
     BY MessageTypes, MessageSequences
  <2>3. Kernel BY <2>1, <2>2, <1>2, <1>t, NotifyTypes DEF NewBridge
  <2>4. QED BY <2>3, <1>1, <1>2 DEF NewBridge
<1>3. ASSUME NEW b \in Bridges, FlipBridge(b) PROVE TrackInv'
  <2>1. kbr' \in [Bridges -> KBrRecs]
    <3>1. PICK v \in BOOLEAN : v = ~kbr[b].up OBVIOUS
    <3>2. kbr' = [kbr EXCEPT ![b].up = v] BY <3>1, <1>3 DEF FlipBridge
    <3>3. QED BY <3>2, <1>t DEF TrackTypeOK, KBrRecs
  <2>2. PICK f \in [Ports -> States] :
            kport' = [p \in Ports |-> [kport[p] EXCEPT !.state = f[p]]]
     BY <1>3 DEF FlipBridge
  <2>3. kport' \in [Ports -> KPortRecs] BY <2>2, <1>k DEF KPortRecs
  <2>4. kbr'[b].up \in BOOLEAN BY <2>1 DEF KBrRecs
  <2>5. <<Message(b, b, TRUE, kbr'[b].up)>> \in Seq(Messages)
     BY <2>4, MessageTypes, MessageSequences
  <2>6. Kernel BY <2>1, <2>3, <2>5, <1>3, <1>t, NotifyTypes DEF FlipBridge
  <2>7. QED BY <2>6, <1>1, <1>3 DEF FlipBridge
<1>4. ASSUME NEW b \in Bridges, DelBridge(b) PROVE TrackInv'
  <2> DEFINE slaves == {p \in Ports : kport[p].master = b}
  <2>1. kbr' \in [Bridges -> KBrRecs]
     BY <1>4, <1>t DEF DelBridge, TrackTypeOK, KBrRecs
  <2>2. kport' \in [Ports -> KPortRecs]
     BY <1>4, <1>k DEF DelBridge, KPortRecs, States
  <2>3. PICK order \in [1..Cardinality(slaves) -> slaves] :
            Notify([i \in DOMAIN order |->
                       Message(b, order[i], FALSE, kport[order[i]].running)]
                   \o <<Message(None, b, FALSE, FALSE)>>)
     BY <1>4 DEF DelBridge
  <2> DEFINE first == [i \in DOMAIN order |->
                       Message(b, order[i], FALSE, kport[order[i]].running)]
             last == <<Message(None, b, FALSE, FALSE)>>
  <2>4. Cardinality(slaves) \in Nat
    <3>1. slaves \in SUBSET (Bridges \cup Ports) OBVIOUS
    <3>2. QED BY <3>1, OrderLength
  <2>5. \A i \in 1..Cardinality(slaves) : order[i] \in Ports OBVIOUS
  <2>6. \A i \in DOMAIN order :
            Message(b, order[i], FALSE, kport[order[i]].running) \in Messages
     BY <2>5, <1>k, MessageTypes
  <2>7. first \in Seq(Messages)
    <3> HIDE DEF slaves
    <3>1. first \in [1..Cardinality(slaves) -> Messages] BY <2>6
    <3>2. QED BY <3>1, <2>4, MessageSequences
  <2>8. last \in Seq(Messages) BY MessageTypes, MessageSequences
  <2> HIDE DEF first, last
  <2>9. first \o last \in Seq(Messages) BY <2>7, <2>8
  <2>10. Notify(first \o last) BY <2>3 DEF first, last
  <2>11. Kernel BY <2>1, <2>2, <2>9, <2>10, <1>t, NotifyTypes
  <2>12. QED BY <2>11, <1>1, <1>4 DEF DelBridge
<1>5. ASSUME NEW p \in Ports, DelPort(p) PROVE TrackInv'
  <2>1. kbr' \in [Bridges -> KBrRecs] /\ kport' \in [Ports -> KPortRecs]
     BY <1>5, <1>t DEF DelPort, TrackTypeOK, KPortRecs, States
  <2>2. <<Message(kport[p].master, p, FALSE, kport[p].running)>>
            \in Seq(Messages)
     BY <1>5, <1>k, MessageTypes, MessageSequences DEF DelPort
  <2>3. Kernel BY <2>1, <2>2, <1>5, <1>t, NotifyTypes DEF DelPort
  <2>4. QED BY <2>3, <1>1, <1>5 DEF DelPort
<1>6. ASSUME NEW p \in Ports, Unregister(p) PROVE TrackInv'
  <2>1. kbr' \in [Bridges -> KBrRecs] /\ kport' \in [Ports -> KPortRecs]
     BY <1>6, <1>t DEF Unregister, TrackTypeOK, KPortRecs, States
  <2>2. /\ Message(kport[p].master, p, FALSE, kport[p].running) \in Messages
        /\ Message(None, p, FALSE, FALSE) \in Messages
     BY <1>6, <1>k, MessageTypes DEF Unregister
  <2>3. <<Message(kport[p].master, p, FALSE, kport[p].running),
          Message(None, p, FALSE, FALSE)>> \in Seq(Messages)
     BY <2>2, MessageSequences
  <2>4. Kernel BY <2>1, <2>3, <1>6, <1>t, NotifyTypes DEF Unregister
  <2>5. QED BY <2>4, <1>1, <1>6 DEF Unregister
<1>7. ASSUME NEW p \in Ports, FlipLink(p) PROVE TrackInv'
  <2> DEFINE b == kport[p].master
             running == ~kport[p].running
  <2>1. kbr' \in [Bridges -> KBrRecs] BY <1>7, <1>t DEF FlipLink, TrackTypeOK
  <2>2. CASE b = None
    <3>1. kport' = [kport EXCEPT ![p].running = running] /\ pending' = pending
       BY <2>2, <1>7 DEF FlipLink
    <3>2. Kernel BY <3>1, <2>1, <1>t DEF TrackTypeOK, KPortRecs
    <3>3. QED BY <3>2, <1>1, <1>7 DEF FlipLink
  <2>3. CASE b # None
    <3>1. PICK s \in States :
              kport' = [kport EXCEPT ![p].running = running, ![p].state = s]
       BY <2>3, <1>7, GivenStates DEF FlipLink
    <3>2. kport' \in [Ports -> KPortRecs]
       BY <3>1, <1>t DEF TrackTypeOK, KPortRecs
    <3>3. Notify(<<Message(b, p, TRUE, running)>>) BY <2>3, <1>7 DEF FlipLink
    <3>4. <<Message(b, p, TRUE, running)>> \in Seq(Messages)
       BY <2>3, <1>k, MessageTypes, MessageSequences
    <3>5. Kernel BY <3>2, <3>3, <3>4, <2>1, <1>t, NotifyTypes
    <3>6. QED BY <3>5, <1>1, <1>7 DEF FlipLink
  <2>4. QED BY <2>2, <2>3
<1>8. ASSUME NEW p \in Ports, NEW b \in Bridges, AddPort(p, b) PROVE TrackInv'
  <2>1. kbr' \in [Bridges -> KBrRecs] BY <1>8, <1>t DEF AddPort, TrackTypeOK
  <2>2. PICK s \in States :
            kport' = [kport EXCEPT ![p].master = b, ![p].state = s]
     BY <1>8, GivenStates DEF AddPort
  <2>3. kport' \in [Ports -> KPortRecs]
     BY <2>2, <1>t DEF TrackTypeOK, KPortRecs
  <2>4. <<Message(b, p, TRUE, kport[p].running)>> \in Seq(Messages)
     BY <1>k, MessageTypes, MessageSequences
  <2>5. Kernel BY <2>1, <2>3, <2>4, <1>8, <1>t, NotifyTypes DEF AddPort
  <2>6. QED BY <2>5, <1>1, <1>8 DEF AddPort
<1>9. QED BY <1>2, <1>3, <1>4, <1>5, <1>6, <1>7, <1>8

\* Reading the socket takes the first message.
LEMMA ReadTypes ==
    ASSUME TrackTypeOK, pending # <<>>
    PROVE  /\ Head(pending) \in Messages
           /\ Tail(pending) \in Seq(Messages)
           /\ \A left : AfterRead(left) \in {"run", "dump", "read"}
BY DEF TrackTypeOK, AfterRead

\* The daemon state after an operator that keeps it good.
LEMMA BecomesGood ==
    ASSUME TrackTypeOK, NEW d, Good(d), Becomes(d)
    PROVE  /\ Good(Daemon)' /\ br' \in [Bridges -> BrRecs]
           /\ prt' \in [Bridges -> [Ports -> PrtRecs]]
           /\ kport' \in [Ports -> KPortRecs]
<1>1. br' = d.br /\ prt' = d.prt /\ kport' = Told(d.told) BY DEF Becomes
<1>2. d.told \in [Ports -> States \cup {NotTold}] BY ViewFields DEF Good
<1>3. kport' \in [Ports -> KPortRecs] BY <1>1, <1>2, ToldTypes
<1>4. QED BY <1>1, <1>3, GoodOf

\* A notification is handled.
LEMMA HandleNotificationInv ==
    ASSUME TrackInv, HandleNotification
    PROVE  TrackInv'
<1> DEFINE m == Head(pending)
           d == bridge_notify(Daemon, m)
<1>1. TrackTypeOK /\ Good(Daemon) BY DEF TrackInv
<1>2. m \in Messages /\ pending' \in Seq(Messages)
   BY <1>1, ReadTypes DEF HandleNotification
<1>3. Good(d) BY <1>1, <1>2, NotifyGood
<1>4. Becomes(d) BY DEF HandleNotification
<1> HIDE DEF d
<1>5. /\ Good(Daemon)' /\ br' \in [Bridges -> BrRecs]
      /\ prt' \in [Bridges -> [Ports -> PrtRecs]]
      /\ kport' \in [Ports -> KPortRecs]
   BY <1>1, <1>3, <1>4, BecomesGood
<1>6. /\ request' \in Requests \cup {NoRequest}
      /\ phase' \in {"off", "dump", "run", "read"}
   BY <1>1, ReadTypes DEF HandleNotification, TrackTypeOK
<1>7. kbr' \in [Bridges -> KBrRecs]
   BY <1>1 DEF HandleNotification, TrackTypeOK
<1>8. QED BY <1>2, <1>5, <1>6, <1>7 DEF TrackInv, TrackTypeOK

\* A notification is lost, or found lost.
LEMMA LossInv ==
    ASSUME TrackInv, LoseNotification \/ ReadOverflow
    PROVE  TrackInv'
<1>1. TrackTypeOK BY DEF TrackInv
<1>2. CASE LoseNotification
  <2>1. pending' \in Seq(Messages)
    <3>1. Len(pending) \in 1..Len(pending) /\ pending[Len(pending)] \in Messages
       BY <1>1, <1>2 DEF LoseNotification, TrackTypeOK
    <3>2. [pending[Len(pending)] EXCEPT !.lost = TRUE] \in Messages
       BY <3>1 DEF Messages
    <3>3. pending' = [pending EXCEPT ![Len(pending)] =
                          [pending[Len(pending)] EXCEPT !.lost = TRUE]]
       BY <1>2 DEF LoseNotification
    <3>4. QED BY <3>1, <3>2, <3>3, <1>1 DEF TrackTypeOK
  <2>2. UNCHANGED <<kbr, kport, request, phase, daemon>>
     BY <1>2 DEF LoseNotification, kernel
  <2>3. QED BY <2>1, <2>2, <1>1, SameView DEF TrackInv, TrackTypeOK
<1>3. CASE ReadOverflow
  <2>1. /\ pending' \in Seq(Messages)
        /\ request' \in Requests \cup {NoRequest}
        /\ phase' \in {"off", "dump", "run", "read"}
     BY <1>1, <1>3, ReadTypes DEF ReadOverflow, TrackTypeOK
  <2>2. UNCHANGED <<kbr, kport, daemon>> BY <1>3 DEF ReadOverflow, kernel
  <2>3. QED BY <2>1, <2>2, <1>1, SameView DEF TrackInv, TrackTypeOK
<1>4. QED BY <1>2, <1>3

\* A state for a port the protocol engine runs.
LEMMA EngineGood ==
    ASSUME NEW d, Good(d), NEW b \in Bridges, NEW p \in Ports, NEW s \in States,
           d.br[b].bridgeEnabled, d.prt[b][p].portEnabled
    PROVE  LET e == MSTP_OUT_set_state(d, b, Only(d, b, {p}, s))
           IN  /\ Good(e) /\ OnlyAt(d, e, b) /\ e.br = d.br
               /\ TellsChanges(d, e, b)
               /\ \A r \in Ports : /\ e.prt[b][r].known = d.prt[b][r].known
                                   /\ e.prt[b][r].up = d.prt[b][r].up
<1> DEFINE f == Only(d, b, {p}, s)
           e == MSTP_OUT_set_state(d, b, f)
<1>1. d \in Views BY DEF Good
<1>2. /\ f \in [Ports -> States]
      /\ \A r \in Ports : f[r] = IF r \in {p} THEN s ELSE d.prt[b][r].state
   BY <1>1, OnlyType
<1> HIDE DEF f
<1>3. /\ e \in Views /\ OnlyAt(d, e, b) /\ e.br = d.br /\ TellsChanges(d, e, b)
      /\ \A r \in Ports :
            /\ e.prt[b][r].known = d.prt[b][r].known
            /\ e.prt[b][r].up = d.prt[b][r].up
            /\ e.prt[b][r].portEnabled = d.prt[b][r].portEnabled
            /\ e.prt[b][r].state = f[r]
   BY <1>1, <1>2, SetStateEffect
<1> HIDE DEF e
<1>4. ASSUME NEW r \in Ports PROVE PortRule(e.br[b], e.prt[b][r])
  <2>1. PortRule(d.br[b], d.prt[b][r]) BY RulesOf
  <2>2. CASE r = p
    <3>1. d.prt[b][r].known /\ d.prt[b][r].up BY <2>1, <2>2 DEF PortRule
    <3>2. QED BY <3>1, <2>1, <2>2, <1>3 DEF PortRule
  <2>3. CASE r # p
    <3>1. e.prt[b][r].state = d.prt[b][r].state BY <2>3, <1>2, <1>3
    <3>2. QED BY <3>1, <2>1, <1>3 DEF PortRule
  <2>4. QED BY <2>2, <2>3
<1>5. Follows(e, b) BY <1>3, <1>4, RulesOf DEF Follows
<1>6. Good(e) BY <1>3, <1>5, GoodKept
<1>7. QED BY <1>3, <1>6 DEF e, f

\* The protocol engine asks for a state of a port it runs.
LEMMA EngineInv ==
    ASSUME TrackInv, NEW b \in Bridges, NEW p \in Ports,
           NEW s \in EngineStates, EngineSetsState(b, p, s)
    PROVE  TrackInv'
<1> DEFINE d == Daemon
           e == MSTP_OUT_set_state(d, b, Only(d, b, {p}, s))
<1>1. TrackTypeOK /\ Good(d) BY DEF TrackInv
<1>2. s \in States BY TrackAssumption DEF States
<1>3. d.br[b].bridgeEnabled /\ d.prt[b][p].portEnabled
   BY DEF EngineSetsState, Daemon
<1>4. Becomes(e) BY DEF EngineSetsState
<1> HIDE DEF d
<1>5. Good(e) BY <1>1, <1>2, <1>3, EngineGood
<1> HIDE DEF e
<1>6. /\ Good(Daemon)' /\ br' \in [Bridges -> BrRecs]
      /\ prt' \in [Bridges -> [Ports -> PrtRecs]]
      /\ kport' \in [Ports -> KPortRecs]
   BY <1>1, <1>4, <1>5, BecomesGood
<1>7. QED BY <1>1, <1>6 DEF EngineSetsState, TrackInv, TrackTypeOK

\* A request is sent and handled.
LEMMA RequestInv ==
    ASSUME TrackInv,
           \/ \E b \in Bridges : \/ \E op \in {"add", "del"} : SendRequest(op, b)
                                 \/ AddAgain(b)
           \/ HandleRequest
    PROVE  TrackInv'
<1>1. TrackTypeOK /\ Good(Daemon) BY DEF TrackInv
<1>2. Len(pending) \in Nat BY <1>1 DEF TrackTypeOK
<1>3. ASSUME NEW b \in Bridges, NEW op \in {"add", "del"}, SendRequest(op, b)
      PROVE  TrackInv'
  <2>1. request' \in Requests BY <1>2, <1>3 DEF SendRequest, Requests
  <2>2. kbr' \in [Bridges -> KBrRecs]
    <3>1. PICK v \in BOOLEAN : v = (op = "add") OBVIOUS
    <3>2. kbr' = [kbr EXCEPT ![b].stp = v] BY <3>1, <1>3 DEF SendRequest
    <3>3. QED BY <3>2, <1>1 DEF TrackTypeOK, KBrRecs
  <2>3. UNCHANGED <<kport, pending, phase, daemon>> BY <1>3 DEF SendRequest
  <2>4. QED BY <2>1, <2>2, <2>3, <1>1, SameView DEF TrackInv, TrackTypeOK
<1>4. ASSUME NEW b \in Bridges, AddAgain(b) PROVE TrackInv'
  <2>1. request' \in Requests BY <1>2, <1>4 DEF AddAgain, Requests
  <2>2. UNCHANGED <<kbr, kport, pending, phase, daemon>>
     BY <1>4 DEF AddAgain, kernel
  <2>3. QED BY <2>1, <2>2, <1>1, SameView DEF TrackInv, TrackTypeOK
<1>5. CASE HandleRequest
  <2> DEFINE d == IF request.op = "add" THEN CTL_add_bridges(Daemon, request.br)
                  ELSE CTL_del_bridges(Daemon, request.br)
  <2>1. request.br \in Bridges
     BY <1>1, <1>5 DEF HandleRequest, TrackTypeOK, Requests
  <2>2. Good(CTL_add_bridges(Daemon, request.br))
     BY <2>1, <1>1, AddBridgeGood DEF Requested
  <2>3. Good(CTL_del_bridges(Daemon, request.br))
     BY <2>1, <1>1, DelBridgeGood DEF Requested
  <2>4. Good(d) BY <2>2, <2>3
  <2>5. Becomes(d) BY <1>5 DEF HandleRequest
  <2> HIDE DEF d
  <2>6. /\ Good(Daemon)' /\ br' \in [Bridges -> BrRecs]
        /\ prt' \in [Bridges -> [Ports -> PrtRecs]]
        /\ kport' \in [Ports -> KPortRecs]
     BY <2>4, <2>5, <1>1, BecomesGood
  <2>7. QED BY <2>6, <1>1, <1>5 DEF HandleRequest, TrackInv, TrackTypeOK
<1>6. QED BY <1>3, <1>4, <1>5

\* mstpd without any bridge or port.
LEMMA EmptyGood ==
    LET d == [ br |-> [b \in Bridges |-> NoBr],
               prt |-> [b \in Bridges |-> [p \in Ports |-> NoPrt]],
               told |-> [p \in Ports |-> NotTold] ]
    IN  Good(d)
<1> DEFINE B == [b \in Bridges |-> NoBr]
           Q == [b \in Bridges |-> [p \in Ports |-> NoPrt]]
           T == [p \in Ports |-> NotTold]
           d == [br |-> B, prt |-> Q, told |-> T]
<1>1. NoBr \in BrRecs /\ NoPrt \in PrtRecs
   BY DEF NoBr, NoPrt, BrRecs, PrtRecs, States
<1>2. d \in Views
  <2>1. B \in [Bridges -> BrRecs] BY <1>1
  <2>2. Q \in [Bridges -> [Ports -> PrtRecs]] BY <1>1
  <2>3. T \in [Ports -> States \cup {NotTold}] OBVIOUS
  <2> HIDE DEF B, Q, T
  <2>4. QED BY <2>1, <2>2, <2>3 DEF Views
<1>3. /\ \A b \in Bridges : d.br[b] = NoBr
      /\ \A b \in Bridges : \A p \in Ports : d.prt[b][p] = NoPrt
   OBVIOUS
<1>4. BridgeRule(NoBr) /\ PortRule(NoBr, NoPrt) /\ NoPrt.known = FALSE
   BY DEF BridgeRule, PortRule, NoBr, NoPrt
<1> HIDE DEF d
<1>5. QED BY <1>2, <1>3, <1>4 DEF Good, FollowsLinks, Follows, OneBridge, d, B, Q, T

\* mstpd crashes or is told to end.
LEMMA StopInv ==
    ASSUME TrackInv, Crash \/ Terminate
    PROVE  TrackInv'
<1>1. TrackTypeOK BY DEF TrackInv
<1>2. Stopped BY DEF Crash, Terminate
<1>3. kport' \in [Ports -> KPortRecs]
  <2>1. CASE Crash BY <2>1, <1>1 DEF Crash, TrackTypeOK
  <2>2. CASE Terminate
    <3>1. ToldLast \in [Ports -> States \cup {NotTold}]
       BY DEF ToldLast, States
    <3>2. QED BY <3>1, <2>2, <1>1, ToldTypes DEF Terminate
  <2>3. QED BY <2>1, <2>2
<1>4. /\ Good(Daemon)' /\ br' \in [Bridges -> BrRecs]
      /\ prt' \in [Bridges -> [Ports -> PrtRecs]]
  <2> DEFINE d == [ br |-> [b \in Bridges |-> NoBr],
                    prt |-> [b \in Bridges |-> [p \in Ports |-> NoPrt]],
                    told |-> [p \in Ports |-> NotTold] ]
  <2>1. br' = d.br /\ prt' = d.prt BY <1>2 DEF Stopped
  <2>2. Good(d) BY EmptyGood
  <2> HIDE DEF d
  <2>3. QED BY <2>1, <2>2, GoodOf
<1>5. /\ kbr' = kbr /\ phase' = "off" /\ pending' = <<>>
      /\ request' = NoRequest
   BY <1>2 DEF Stopped
<1>6. QED BY <1>1, <1>3, <1>4, <1>5 DEF TrackInv, TrackTypeOK

\* mstpd starts and asks for a dump.
LEMMA StartInv ==
    ASSUME TrackInv, Start
    PROVE  TrackInv'
<1> DEFINE here == {b \in Bridges : kbr[b].exists = "yes"}
                        \cup {p \in Ports : kport[p].master # None}
           Entry(i) == IF i \in Bridges THEN Message(i, i, TRUE, kbr[i].up)
                       ELSE Message(kport[i].master, i, TRUE, kport[i].running)
<1>1. TrackTypeOK BY DEF TrackInv
<1>2. PICK order \in [1..Cardinality(here) -> here] :
          pending' = [i \in DOMAIN order |-> Entry(order[i])]
   BY DEF Start
<1>3. Cardinality(here) \in Nat
  <2>1. here \in SUBSET (Bridges \cup Ports) OBVIOUS
  <2> HIDE DEF here
  <2>2. QED BY <2>1, OrderLength
<1>4. ASSUME NEW i \in here PROVE Entry(i) \in Messages
  <2>1. CASE i \in Bridges
    <3>1. kbr[i].up \in BOOLEAN BY <2>1, <1>1 DEF TrackTypeOK, KBrRecs
    <3>2. QED BY <3>1, <2>1, MessageTypes
  <2>2. CASE i \notin Bridges
    <3>1. /\ i \in Ports /\ kport[i].master \in Bridges
          /\ kport[i].running \in BOOLEAN
       BY <2>2, <1>1, <1>4 DEF TrackTypeOK, KPortRecs
    <3>2. QED BY <3>1, <2>2, MessageTypes
  <2>3. QED BY <2>1, <2>2
<1>5. pending' \in Seq(Messages)
  <2> HIDE DEF here, Entry
  <2>1. pending' \in [1..Cardinality(here) -> Messages] BY <1>2, <1>4
  <2>2. QED BY <2>1, <1>3, MessageSequences
<1>6. /\ phase' \in {"off", "dump", "run", "read"}
      /\ UNCHANGED <<kbr, kport, request, daemon>>
   BY DEF Start, kernel
<1>7. QED BY <1>1, <1>5, <1>6, SameView DEF TrackInv, TrackTypeOK

\* mstpd and the kernel at the start.
LEMMA TrackInitInv ==
    ASSUME TrackInit
    PROVE  TrackInv
<1>1. Good(Daemon) BY EmptyGood DEF TrackInit, Daemon
<1>2. br \in [Bridges -> BrRecs] /\ prt \in [Bridges -> [Ports -> PrtRecs]]
   BY DEF TrackInit, NoBr, NoPrt, BrRecs, PrtRecs, States
<1>3. kbr \in [Bridges -> KBrRecs] /\ kport \in [Ports -> KPortRecs]
   BY DEF TrackInit, KBrRecs, KPortRecs, States
<1>4. pending = <<>> /\ request = NoRequest /\ phase = "run"
   BY DEF TrackInit
<1>5. QED BY <1>1, <1>2, <1>3, <1>4 DEF TrackInv, TrackTypeOK

\* Every step of the kernel and of mstpd keeps the invariant.
LEMMA TrackInvAlways == TrackSpec => []TrackInv
<1>1. TrackInit => TrackInv BY TrackInitInv
<1>2. TrackInv /\ [TrackNext]_trackVars => TrackInv'
  <2> SUFFICES ASSUME TrackInv, [TrackNext]_trackVars PROVE TrackInv'
     OBVIOUS
  <2>1. CASE TrackNext
     BY <2>1, KernelInv, RequestInv, EngineInv, LossInv, HandleNotificationInv,
        StopInv, StartInv
     DEF TrackNext
  <2>2. CASE UNCHANGED trackVars
    <3>1. UNCHANGED <<kbr, kport, pending, request, phase, daemon>>
       BY <2>2 DEF trackVars, daemon
    <3>2. QED BY <3>1, SameView DEF TrackInv, TrackTypeOK
  <2>3. QED BY <2>1, <2>2
<1>3. QED BY <1>1, <1>2, PTL DEF TrackSpec

\* For any number of bridges and ports, whatever the kernel announces, loses or
\* announces late, and across crashes and restarts: the protocol engine runs a
\* bridge or a port exactly when it is managed and up, and only such a port
\* learns or forwards.
THEOREM EngineAlwaysFollowsLinks == TrackSpec => []EngineFollowsLinks
<1>1. TrackInv => EngineFollowsLinks
  <2> SUFFICES ASSUME TrackInv PROVE EngineFollowsLinks OBVIOUS
  <2>1. Daemon.br = br /\ Daemon.prt = prt BY DEF Daemon
  <2>2. FollowsLinks(Daemon) BY DEF TrackInv, Good
  <2>3. \A b \in Bridges : /\ BridgeRule(br[b])
                           /\ \A p \in Ports : PortRule(br[b], prt[b][p])
     BY <2>1, <2>2 DEF FollowsLinks, Follows
  <2>4. QED
     BY <2>3 DEF EngineFollowsLinks, Managed, BridgeRule, PortRule
<1>2. QED BY <1>1, TrackInvAlways, PTL

\* Under the same conditions a port is never in two of mstpd's bridges.
THEOREM NeverInTwoBridges == TrackSpec => []OneBridgePerPort
<1>1. TrackInv => OneBridgePerPort
  <2> SUFFICES ASSUME TrackInv PROVE OneBridgePerPort OBVIOUS
  <2>1. Daemon.prt = prt BY DEF Daemon
  <2>2. OneBridge(Daemon) BY DEF TrackInv, Good
  <2>3. QED BY <2>1, <2>2 DEF OneBridge, OneBridgePerPort
<1>2. QED BY <1>1, TrackInvAlways, PTL
=============================================================================
