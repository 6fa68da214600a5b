----------------------------- MODULE BridgeTrack ----------------------------
(***************************************************************************)
(* How mstpd follows the kernel's bridges: bridge_track.c and brmon.c.     *)
(* The kernel announces every change on a netlink socket; mstpd handles    *)
(* the notifications later, keeps its own bridges and ports, tells the     *)
(* protocol engine which are enabled, and tells the kernel the CIST state  *)
(* of each port.                                                           *)
(*                                                                         *)
(* The kernel is external.  It is modelled as the code relies on it: a     *)
(* port gets the state DISABLED when its link or its bridge goes down and  *)
(* BLOCKING when it comes up under user space STP, and only the state of a *)
(* port that is up may be set.  The protocol engine appears as the port    *)
(* states it may ask for, see PortRolesAndStates in MstpProperties.        *)
(***************************************************************************)
EXTENDS Integers, Sequences, FiniteSets

CONSTANTS
    Bridges, Ports,     \* network interfaces
    None,               \* no bridge
    MaxPending,         \* notifications the kernel may queue before mstpd reads
    EngineStates,       \* states the protocol asks for; LEARNING is treated
                        \* here like FORWARDING and may be left out
    MaxFaults           \* times a notification is lost or mstpd stops

VARIABLES
    kbr,        \* kernel bridges: exists, up, stp (user space STP)
    kport,      \* kernel ports: master, running, state
    pending,    \* notifications in the netlink socket, oldest first
    request,    \* the addbridge or delbridge request in the control socket
    phase,      \* mstpd: "off", "dump" (init_bridge_ops), "run" (the main
                \* loop), "read" (in rtnl_listen)
    br,         \* mstpd's bridges: known, up, stp_enabled, bridgeEnabled
    prt,        \* mstpd's ports, per bridge: known, up, portEnabled, state
    missed,     \* interfaces with a notification mstpd never read, and none
                \* since that settles them
    raced,      \* ports whose kernel state mstpd last set, or whose bridge it
                \* has taken over since, while a notification about them was
                \* on its way, and interfaces with a lost one
    faults      \* faults that may still happen

trackVars == <<kbr, kport, pending, request, phase, br, prt, missed, raced,
               faults>>
kernel == <<kbr, kport>>
daemon == <<br, prt>>

ASSUME TrackAssumption ==
    /\ EngineStates \subseteq {"BLOCKING", "LEARNING", "FORWARDING"}
    /\ None \notin Bridges /\ Bridges \cap Ports = {}
    /\ IsFiniteSet(Bridges) /\ IsFiniteSet(Ports)
    /\ MaxPending \in Nat /\ MaxFaults \in Nat

States == {"DISABLED", "BLOCKING", "LEARNING", "FORWARDING"}
NotTold == "not told"
NoRequest == [op |-> "none", br |-> None]
NoBr == [known |-> FALSE, up |-> FALSE, stp_enabled |-> FALSE,
         bridgeEnabled |-> FALSE]
NoPrt == [known |-> FALSE, up |-> FALSE, portEnabled |-> FALSE,
          state |-> "DISABLED"]

-----------------------------------------------------------------------------
(* The kernel (external) *)

\* A notification as listen_msg hands it to bridge_notify: master is the
\* bridge of a port, the interface itself for a bridge, or None.
Message(master, if, newlink, up) ==
    [master |-> master, if |-> if, newlink |-> newlink, up |-> up,
     lost |-> FALSE]

\* The states a port of bridge b may have when its link and its bridge are up
\* or not.  Without user space STP, the kernel decides.
StatesGiven(b, up) ==
    IF ~up THEN {"DISABLED"}
    ELSE IF kbr'[b].stp THEN {"BLOCKING"} ELSE {"BLOCKING", "FORWARDING"}

Listening == phase \in {"run", "read"}

\* Messages reach mstpd when it reads its socket.  During the start-up dump
\* rtnl_dump_filter_l skips them, as they do not answer the dump.
Notify(msgs) ==
    CASE Listening -> pending' = pending \o msgs /\ UNCHANGED <<missed, raced>>
      [] phase = "dump" -> /\ missed' = missed \cup {msgs[i].if : i \in 1..Len(msgs)}
                           /\ raced' = raced \cup missed'
                           /\ UNCHANGED pending
      [] phase = "off" -> UNCHANGED <<pending, missed, raced>>

KernelMay == Len(pending) < MaxPending \/ ~Listening

NewBridge(b) ==
    /\ KernelMay
    /\ kbr[b].exists = "never"
    /\ kbr' = [kbr EXCEPT ![b].exists = "yes"]
    /\ Notify(<<Message(b, b, TRUE, FALSE)>>)
    /\ UNCHANGED <<kport, request, phase, daemon, faults>>

\* The bridge interface is set up or down, and its ports with it.
FlipBridge(b) ==
    /\ KernelMay
    /\ kbr[b].exists = "yes"
    /\ kbr' = [kbr EXCEPT ![b].up = ~@]
    /\ \E f \in [Ports -> States] :
          /\ \A p \in Ports :
                f[p] \in IF kport[p].master = b
                         THEN StatesGiven(b, kbr'[b].up /\ kport[p].running)
                         ELSE {kport[p].state}
          /\ kport' = [p \in Ports |-> [kport[p] EXCEPT !.state = f[p]]]
    /\ Notify(<<Message(b, b, TRUE, kbr'[b].up)>>)
    /\ UNCHANGED <<request, phase, daemon, faults>>

AddPort(p, b) ==
    /\ KernelMay
    /\ kport[p].master = None
    /\ kbr[b].exists = "yes"
    /\ UNCHANGED kbr
    /\ \E s \in StatesGiven(b, kbr[b].up /\ kport[p].running) :
          kport' = [kport EXCEPT ![p].master = b, ![p].state = s]
    /\ Notify(<<Message(b, p, TRUE, kport[p].running)>>)
    /\ UNCHANGED <<request, phase, daemon, faults>>

DelPort(p) ==
    /\ KernelMay
    /\ kport[p].master # None
    /\ kport' = [kport EXCEPT ![p].master = None, ![p].state = "DISABLED"]
    /\ Notify(<<Message(kport[p].master, p, FALSE, kport[p].running)>>)
    /\ UNCHANGED <<kbr, request, phase, daemon, faults>>

\* The interface of a port is unregistered: it leaves its bridge first.
Unregister(p) ==
    /\ KernelMay
    /\ kport[p].master # None
    /\ kport' = [kport EXCEPT ![p] = [master |-> None, running |-> FALSE,
                                      state |-> "DISABLED"]]
    /\ Notify(<<Message(kport[p].master, p, FALSE, kport[p].running),
                Message(None, p, FALSE, FALSE)>>)
    /\ UNCHANGED <<kbr, request, phase, daemon, faults>>

\* The link of a port comes or goes.  mstpd ignores those outside a bridge.
FlipLink(p) ==
    /\ KernelMay
    /\ UNCHANGED kbr
    /\ LET b == kport[p].master
           running == ~kport[p].running
       IN  IF b = None
           THEN /\ kport' = [kport EXCEPT ![p].running = running]
                /\ UNCHANGED <<pending, missed, raced>>
           ELSE /\ \E s \in StatesGiven(b, kbr[b].up /\ running) :
                      kport' = [kport EXCEPT ![p].running = running,
                                             ![p].state = s]
                /\ Notify(<<Message(b, p, TRUE, running)>>)
    /\ UNCHANGED <<request, phase, daemon, faults>>

\* The bridge is removed; its ports are released first.
DelBridge(b) ==
    /\ KernelMay
    /\ kbr[b].exists = "yes"
    /\ kbr' = [kbr EXCEPT ![b] = [exists |-> "gone", up |-> FALSE, stp |-> FALSE]]
    /\ kport' = [p \in Ports |->
                    IF kport[p].master = b
                    THEN [kport[p] EXCEPT !.master = None, !.state = "DISABLED"]
                    ELSE kport[p]]
    /\ LET slaves == {p \in Ports : kport[p].master = b}
       IN  \E order \in {f \in [1..Cardinality(slaves) -> slaves] :
                           \A i, j \in DOMAIN f : f[i] = f[j] => i = j} :
              Notify([i \in DOMAIN order |->
                         Message(b, order[i], FALSE, kport[order[i]].running)]
                     \o <<Message(None, b, FALSE, FALSE)>>)
    /\ UNCHANGED <<request, phase, daemon, faults>>

\* The receive buffer is full and the newest message is lost; recvmsg fails
\* with ENOBUFS when mstpd gets there.
LoseNotification ==
    /\ Listening
    /\ faults > 0
    /\ pending # <<>>
    /\ faults' = faults - 1
    /\ pending' = [pending EXCEPT ![Len(pending)].lost = TRUE]
    /\ UNCHANGED <<kernel, request, phase, daemon, missed, raced>>

-----------------------------------------------------------------------------
(* What mstpd tells the kernel.  The operators below take and return a     *)
(* daemon state; its told is the last state sent to the kernel per port.   *)

Daemon == [br |-> br, prt |-> prt, told |-> [p \in Ports |-> NotTold]]

\* Mutant: BLOCKING is not told, as the kernel blocks a new port by itself.
MSTP_OUT_set_state_blocksItself(d, b, f) ==
    [ d EXCEPT !.prt[b] = [p \in Ports |-> [@[p] EXCEPT !.state = f[p]]],
               !.told = [p \in Ports |->
                            IF /\ d.prt[b][p].state # f[p] /\ d.prt[b][p].up
                               /\ f[p] # "BLOCKING"
                            THEN f[p] ELSE @[p]] ]

\* MSTP_OUT_set_state, for every port of b that f gives another state.  A port
\* that is not up keeps the state here, but the kernel is not told.
MSTP_OUT_set_state(d, b, f) ==
    [ d EXCEPT !.prt[b] = [p \in Ports |-> [@[p] EXCEPT !.state = f[p]]],
               !.told = [p \in Ports |->
                            IF d.prt[b][p].state # f[p] /\ d.prt[b][p].up
                            THEN f[p] ELSE @[p]] ]

\* State s for the ports in P, the others as they are.
Only(d, b, P, s) == [p \in Ports |-> IF p \in P THEN s ELSE d.prt[b][p].state]

\* The kernel ports after what they are told.  The kernel refuses to set the
\* state of a port whose link is down or that is in no bridge.
Told(told) ==
    [p \in Ports |->
        IF told[p] # NotTold /\ kport[p].running /\ kport[p].master # None
        THEN [kport[p] EXCEPT !.state = told[p]] ELSE kport[p]]

\* What the notifications in left, not read yet, are about.
Coming(left) == {left[i].if : i \in 1..Len(left)}

RacedBy(told, left) ==
    LET set == {p \in Ports : told[p] # NotTold}
    IN  (raced \ (set \ missed)) \cup (set \cap Coming(left))

\* Ports of bridge b with a notification that mstpd has not read yet.
TakenOver(b) == {p \in Ports : kport[p].master = b} \cap Coming(pending)

Becomes(d) ==
    /\ br' = d.br
    /\ prt' = d.prt
    /\ kport' = Told(d.told)

-----------------------------------------------------------------------------
(* The protocol engine, as bridge_track.c sees it *)

KnownPorts(d, b) == {p \in Ports : d.prt[b][p].known}

\* MSTP_IN_set_bridge_enable: the ports become DISABLED, and BLOCKING again
\* when the state machines begin on a bridge that is now enabled.
MSTP_IN_set_bridge_enable(d, b, up) ==
    LET all == KnownPorts(d, b)
        off == MSTP_OUT_set_state([d EXCEPT !.br[b].bridgeEnabled = up], b,
                                  Only(d, b, all, "DISABLED"))
    IN  IF d.br[b].bridgeEnabled = up THEN d
        ELSE IF up THEN MSTP_OUT_set_state(off, b, Only(off, b, all, "BLOCKING"))
        ELSE off

\* MSTP_IN_set_port_enable, for the ports in P: one that is disabled goes to
\* discarding before the call returns, when the state machines run.
MSTP_IN_set_port_enable(d, b, P, up) ==
    LET e == [d EXCEPT !.prt[b] = [p \in Ports |->
                 IF p \in P THEN [@[p] EXCEPT !.portEnabled = up] ELSE @[p]]]
    IN  IF ~up /\ d.br[b].bridgeEnabled
        THEN MSTP_OUT_set_state(e, b, Only(e, b, P, "BLOCKING")) ELSE e

-----------------------------------------------------------------------------
(* bridge_track.c *)

\* create_br: the interface must still exist to have a name and an address.
CanCreateBr(b) == kbr[b].exists = "yes"
create_br(d, b) == [d EXCEPT !.br[b] = [NoBr EXCEPT !.known = TRUE]]

\* create_if: the port number is read from sysfs, so the interface must be a
\* port of some bridge when the notification is handled.  The state machines
\* of a new port of an enabled bridge begin at once.
CanCreateIf(p) == kport[p].master # None
create_if(d, b, p) ==
    LET e == [d EXCEPT !.prt[b][p] = [NoPrt EXCEPT !.known = TRUE]]
    IN  IF d.br[b].bridgeEnabled
        THEN MSTP_OUT_set_state(e, b, Only(e, b, {p}, "BLOCKING")) ELSE e

\* delete_if: MSTP_IN_delete_port disables the port before it is freed.
delete_if(d, b, p) ==
    LET off == IF d.prt[b][p].portEnabled
               THEN MSTP_IN_set_port_enable(d, b, {p}, FALSE) ELSE d
    IN  [off EXCEPT !.prt[b][p] = NoPrt]

\* MSTP_IN_delete_bridge clears bridgeEnabled first, so no state is set.
delete_br(d, b) ==
    [d EXCEPT !.br[b] = NoBr, !.prt[b] = [p \in Ports |-> NoPrt]]

set_br_up(d, b, up) ==
    LET e == [d EXCEPT !.br[b].up = up]
    IN  IF d.br[b].up # up /\ d.br[b].stp_enabled
        THEN MSTP_IN_set_bridge_enable(e, b, up) ELSE e

\* Mutant: a bridge that is only monitored does not record its links.
set_if_up_managedOnly(d, b, p, up) ==
    IF ~d.br[b].stp_enabled THEN d
    ELSE LET e == [d EXCEPT !.prt[b][p].up = up]
         IN  IF d.prt[b][p].up # up
             THEN MSTP_IN_set_port_enable(e, b, {p}, up) ELSE e

set_if_up(d, b, p, up) ==
    LET e == [d EXCEPT !.prt[b][p].up = up]
    IN  IF d.prt[b][p].up # up /\ d.br[b].stp_enabled
        THEN MSTP_IN_set_port_enable(e, b, {p}, up) ELSE e

\* Mutant: a missed removal is not made up for.
DeleteElsewhere_never(d, b, p) == d

\* delete_if_byindex on bridges C, up to the first that has the port.
DeleteFrom(d, C, p) ==
    LET having == {c \in C : d.prt[c][p].known}
    IN  IF having = {} THEN d ELSE delete_if(d, CHOOSE c \in having : TRUE, p)

\* A port that comes to bridge b is taken out of another that still has it.
DeleteElsewhere(d, b, p) == DeleteFrom(d, Bridges \ {b}, p)

\* bridge_notify for a port of bridge m.master.
NotifyPort(d, m) ==
    LET b == m.master
        p == m.if
        e == IF d.br[b].known THEN d ELSE create_br(d, b)
        \* get_flags fails when the bridge is gone
        g == IF kbr[b].exists = "yes" THEN set_br_up(e, b, kbr[b].up) ELSE e
    IN  CASE ~d.br[b].known /\ ~CanCreateBr(b) -> d
          [] (d.br[b].known \/ CanCreateBr(b)) /\ g.prt[b][p].known ->
                IF m.newlink THEN set_if_up(g, b, p, m.up)
                ELSE delete_if(g, b, p)
          [] (d.br[b].known \/ CanCreateBr(b)) /\ ~g.prt[b][p].known ->
                IF ~m.newlink THEN g
                ELSE LET h == DeleteElsewhere(g, b, p)
                     IN  IF CanCreateIf(p)
                         THEN set_if_up(create_if(h, b, p), b, p, m.up)
                         ELSE h

\* bridge_notify for a bridge, or for an interface that is unregistered.
NotifyOther(d, m) ==
    IF ~m.newlink
    THEN IF m.if \in Ports THEN DeleteFrom(d, Bridges, m.if)
         ELSE IF d.br[m.if].known THEN delete_br(d, m.if) ELSE d
    ELSE IF d.br[m.if].known THEN set_br_up(d, m.if, m.up)
    ELSE IF CanCreateBr(m.if) THEN set_br_up(create_br(d, m.if), m.if, m.up)
    ELSE d

bridge_notify(d, m) ==
    IF m.master # None /\ m.master # m.if THEN NotifyPort(d, m)
    ELSE NotifyOther(d, m)

\* Mutant: the bridge is enabled through set_br_up, which sees no change of
\* its link and leaves the ports alone.
EnableBridge_setUp(d, b) ==
    set_br_up([d EXCEPT !.br[b].stp_enabled = TRUE], b, d.br[b].up)

\* CTL_add_bridges: an enabled bridge is left alone.
EnableBridge(d, b) ==
    LET e == [d EXCEPT !.br[b].stp_enabled = TRUE]
        g == MSTP_IN_set_bridge_enable(e, b, e.br[b].up)
        up == {p \in KnownPorts(g, b) : g.prt[b][p].up}
    IN  MSTP_IN_set_port_enable(
            MSTP_IN_set_port_enable(g, b, up, TRUE),
            b, KnownPorts(g, b) \ up, FALSE)

CTL_add_bridges(d, b) ==
    CASE d.br[b].known /\ d.br[b].stp_enabled -> d
      [] d.br[b].known /\ ~d.br[b].stp_enabled -> EnableBridge(d, b)
      [] ~d.br[b].known /\ CanCreateBr(b) -> EnableBridge(create_br(d, b), b)
      [] ~d.br[b].known /\ ~CanCreateBr(b) -> d

CTL_del_bridges(d, b) ==
    IF ~d.br[b].stp_enabled THEN d
    ELSE [ MSTP_IN_set_bridge_enable(
               MSTP_IN_set_port_enable(d, b, KnownPorts(d, b), FALSE), b, FALSE)
             EXCEPT !.br[b].stp_enabled = FALSE ]

-----------------------------------------------------------------------------
(* Steps of mstpd *)

\* Message m left mstpd with the interface it is about, or without one that
\* is gone.
Settles(d, m) ==
    CASE m.if \in Ports -> IF m.newlink THEN d.prt[m.master][m.if].known
                           ELSE m.master = None
      [] m.if \in Bridges -> m.newlink = d.br[m.if].known

\* mstpd reads a notification, of the dump or of the main loop.  rtnl_listen
\* goes on until nothing is left to read; no other handler runs in between.
AfterRead(left) == IF left = <<>> THEN "run"
                   ELSE IF phase = "dump" THEN "dump" ELSE "read"

HandleNotification ==
    /\ pending # <<>>
    /\ ~Head(pending).lost
    /\ LET m == Head(pending)
           d == bridge_notify(Daemon, m)
       IN  /\ Becomes(d)
           /\ raced' = RacedBy(d.told, Tail(pending))
           /\ missed' = IF phase # "dump" /\ Settles(d, m) THEN missed \ {m.if}
                        ELSE missed
    /\ pending' = Tail(pending)
    /\ phase' = AfterRead(pending')
    /\ UNCHANGED <<kbr, request, faults>>

\* rtnl_listen reports ENOBUFS and goes on reading; nothing asks the kernel
\* for a new dump.
ReadOverflow ==
    /\ Listening
    /\ pending # <<>>
    /\ Head(pending).lost
    /\ missed' = missed \cup {Head(pending).if}
    /\ raced' = raced \cup {Head(pending).if}
    /\ pending' = Tail(pending)
    /\ phase' = AfterRead(pending')
    /\ UNCHANGED <<kernel, request, daemon, faults>>

\* A timer or a BPDU makes the engine ask for another state of a port.  The
\* machines also run inside bridge_notify and the requests, and may then set
\* other ports as well: here that is a step of its own, before or after them.
EngineSetsState(b, p, s) ==
    /\ phase = "run"
    /\ br[b].stp_enabled /\ br[b].bridgeEnabled
    /\ prt[b][p].known /\ prt[b][p].portEnabled
    /\ s # prt[b][p].state
    /\ LET d == MSTP_OUT_set_state(Daemon, b, Only(Daemon, b, {p}, s))
       IN  Becomes(d) /\ raced' = RacedBy(d.told, pending)
    /\ UNCHANGED <<kbr, pending, request, phase, missed, faults>>

\* STP is turned on or off in the kernel, which has mstpctl send a request.
SendRequest(op, b) ==
    /\ request = NoRequest
    /\ Listening
    /\ kbr[b].exists = "yes"
    /\ kbr[b].stp # (op = "add")
    /\ kbr' = [kbr EXCEPT ![b].stp = (op = "add")]
    /\ request' = [op |-> op, br |-> b]
    /\ UNCHANGED <<kport, pending, phase, daemon, missed, raced, faults>>

\* After a restart of mstpd the bridges that use it are added again.
AddAgain(b) ==
    /\ request = NoRequest
    /\ Listening
    /\ kbr[b].stp
    /\ ~br[b].stp_enabled
    /\ request' = [op |-> "add", br |-> b]
    /\ UNCHANGED <<kernel, pending, phase, daemon, missed, raced, faults>>

\* The control socket is served when epoll_wait reports it, also before
\* notifications that were sent earlier.  A bridge that is not managed yet is
\* taken over as mstpd knows it, without what those notifications say.
HandleRequest ==
    /\ phase = "run"
    /\ request # NoRequest
    /\ LET b == request.br
           d == IF request.op = "add" THEN CTL_add_bridges(Daemon, b)
                ELSE CTL_del_bridges(Daemon, b)
       IN  /\ Becomes(d)
           /\ raced' = RacedBy(d.told, pending)
                          \cup IF request.op = "add" /\ ~br[b].stp_enabled
                               THEN TakenOver(b) ELSE {}
    /\ request' = NoRequest
    /\ UNCHANGED <<kbr, pending, phase, missed, faults>>

Stopped ==
    /\ phase' = "off"
    /\ pending' = <<>>
    /\ request' = NoRequest
    /\ br' = [b \in Bridges |-> NoBr]
    /\ prt' = [b \in Bridges |-> [p \in Ports |-> NoPrt]]
    /\ missed' = {}
    /\ raced' = {}
    /\ faults' = faults - 1
    /\ UNCHANGED kbr

Crash == /\ phase # "off"
         /\ faults > 0
         /\ Stopped
         /\ UNCHANGED kport

\* SIGTERM: bridge_track_fini takes every bridge down before mstpd exits.
ToldLast == [p \in Ports |->
                IF \E b \in Bridges :
                      set_br_up(Daemon, b, FALSE).told[p] # NotTold
                THEN "DISABLED" ELSE NotTold]

Terminate == /\ phase = "run"
             /\ faults > 0
             /\ Stopped
             /\ kport' = Told(ToldLast)

\* init_bridge_ops: the kernel answers the dump request with the bridges and
\* the ports there are at that moment.
Start ==
    /\ phase = "off"
    /\ LET here == {b \in Bridges : kbr[b].exists = "yes"}
                        \cup {p \in Ports : kport[p].master # None}
           Entry(i) == IF i \in Bridges THEN Message(i, i, TRUE, kbr[i].up)
                       ELSE Message(kport[i].master, i, TRUE, kport[i].running)
       IN  \E order \in {f \in [1..Cardinality(here) -> here] :
                           \A i, j \in DOMAIN f : f[i] = f[j] => i = j} :
              pending' = [i \in DOMAIN order |-> Entry(order[i])]
    /\ phase' = IF pending' = <<>> THEN "run" ELSE "dump"
    /\ UNCHANGED <<kernel, request, daemon, missed, raced, faults>>

\* mstpd has been started before the first bridge is made.
TrackInit ==
    /\ kbr = [b \in Bridges |-> [exists |-> "never", up |-> FALSE, stp |-> FALSE]]
    /\ kport = [p \in Ports |-> [master |-> None, running |-> FALSE,
                                 state |-> "DISABLED"]]
    /\ pending = <<>>
    /\ request = NoRequest
    /\ phase = "run"
    /\ br = [b \in Bridges |-> NoBr]
    /\ prt = [b \in Bridges |-> [p \in Ports |-> NoPrt]]
    /\ missed = {}
    /\ raced = {}
    /\ faults = MaxFaults

TrackNext ==
    \/ \E b \in Bridges : \/ NewBridge(b) \/ FlipBridge(b) \/ DelBridge(b)
                          \/ \E op \in {"add", "del"} : SendRequest(op, b)
                          \/ AddAgain(b)
    \/ \E p \in Ports : \/ DelPort(p) \/ Unregister(p) \/ FlipLink(p)
                        \/ \E b \in Bridges :
                              \/ AddPort(p, b)
                              \/ \E s \in EngineStates : EngineSetsState(b, p, s)
    \/ LoseNotification
    \/ HandleNotification \/ ReadOverflow
    \/ HandleRequest
    \/ Crash \/ Terminate \/ Start

TrackSpec == TrackInit /\ [][TrackNext]_trackVars

-----------------------------------------------------------------------------
(* Properties *)

Quiet == phase = "run" /\ pending = <<>>
Managed(b) == br[b].known /\ br[b].stp_enabled

\* The protocol engine runs a bridge or a port exactly when it is managed and
\* up, in whatever order it was created, set up, added and removed; so it
\* never learns or forwards on a port that is down (the error "trying to set a
\* down port"), and a port it does not run is not forwarding.
EngineFollowsLinks ==
    \A b \in Bridges :
        /\ br[b].bridgeEnabled = (Managed(b) /\ br[b].up)
        /\ \A p \in Ports :
              /\ prt[b][p].portEnabled
                     = (Managed(b) /\ prt[b][p].known /\ prt[b][p].up)
              /\ prt[b][p].state \in {"LEARNING", "FORWARDING"}
                     => prt[b][p].portEnabled /\ br[b].bridgeEnabled

\* Notifications that were lost do not leave a port in two bridges: a port
\* that appears in a bridge is taken out of the one it was in before.
OneBridgePerPort ==
    \A p \in Ports : \A b, c \in Bridges :
        prt[b][p].known /\ prt[c][p].known => b = c

\* When everything has been read, mstpd has the kernel's bridges, ports and
\* links, restarts and late notifications included; a later RTM_NEWLINK of
\* the same interface makes up for a notification that was lost, when its
\* bridge still exists by the time it is handled.
ViewIsCurrent ==
    Quiet =>
        /\ \A b \in Bridges \ missed :
              /\ br[b].known => kbr[b].exists = "yes"
              /\ kbr[b].exists = "yes" => br[b].known
              /\ br[b].known => br[b].up = kbr[b].up
        /\ \A p \in Ports \ missed : \A b \in Bridges :
              /\ prt[b][p].known = (kport[p].master = b)
              /\ prt[b][p].known => prt[b][p].up = kport[p].running

\* A port that mstpd manages and sees up.
Driven(b, p) == Managed(b) /\ br[b].up /\ prt[b][p].known /\ prt[b][p].up

\* The kernel's state of a managed port is the one the protocol asked for,
\* after crashes and restarts too, unless mstpd has lost a notification, or one
\* about the port was on its way when mstpd set its state or took over its
\* bridge: requests and notifications come in any order.
KernelFollowsUnlessRaced ==
    Quiet => \A b \in Bridges \ raced, p \in Ports \ raced :
        Driven(b, p) /\ kbr[b].stp => kport[p].state = prt[b][p].state

\* README: the daemon "translates CIST states to the kernel bridge slaves".
\* When no notification is lost, and none is left to read, the kernel's state
\* of a managed port is the one the protocol asked for.
KernelFollows ==
    Quiet /\ missed = {} => \A b \in Bridges, p \in Ports :
        Driven(b, p) /\ kbr[b].stp => kport[p].state = prt[b][p].state
=============================================================================
