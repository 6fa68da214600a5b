# A TLA+ model of mstpd

mstpd is a user-space daemon that runs the Spanning Tree Protocols (STP, RSTP
and MSTP, IEEE 802.1D and 802.1Q) for the bridges of the Linux kernel. This
directory models it from four sides, checks small instances with TLC, and proves
with TLAPS what holds in every instance:

- the state machines of `mstp.c`, as a *network of bridges* each of which runs
  mstpd (`Mstp` and the modules below it);
- the MST configuration of one bridge, as tables, lists and BPDUs (`MstConfig`),
  shown to implement an abstract assignment of VLANs to instances
  (`VlanAssignment`);
- how mstpd follows the kernel's bridges through netlink (`BridgeTrack`);
- mstpd as a process among the kernel, `bridge-stp` and `mstpctl` (`Daemon`).

## The system

| Part | State it keeps | Operations | Hard because |
|---|---|---|---|
| State machines (`mstp.c`) | `bridge_t`, `tree_t`, `port_t`, `per_tree_port_t` | ten machines per port or tree, `br_state_machines_begin`, `br_state_machines_run` | the machines read each other's variables in the middle of a pass, and the neighbours' machines run at the same time |
| External events (`MSTP_IN_*` in `mstp.c`) | the same | enable, link up and down, one second, received BPDU, some twenty configuration parameters | each may come at any point of the protocol, and each must cause what depends on it to be computed again |
| Kernel tracking (`bridge_track.c`, `brmon.c`, `driver_deps.c`) | mstpd's bridges and ports with their `sysdeps` | `bridge_notify`, `addbridge`, `delbridge`, `MSTP_OUT_*`, start-up dump | notifications are read late, lost or skipped; states are cached; mstpd crashes and restarts |
| Event loop (`epoll_loop.c`, `main.c`) | next timeout, ready sockets | one tick and one round of handlers per turn | late ticks are made up for while BPDUs wait |
| Control socket (`ctl_socket_*.c`), `mstpctl` (`ctl_main.c`), `bridge-stp` | requests under way | one command per request, answered before or after it is executed | the client gives up after five seconds; `bridge-stp` runs with the kernel's RTNL lock held |
| MST configuration (`mstp.c`, `list.h`, `ctl_main.c`) | VID/FID/MSTID tables, lists of trees and ports, digest | create and delete MSTIs and ports, map VIDs and FIDs | tables, lists, digest and BPDUs must agree, after failed allocations too |
| Packet and netlink I/O (`packet.c`, `libnetlink.c`, `netif_utils.c`) | sockets | receive, send | one socket for the BPDUs of all ports; parsing |

How they interact: the event loop calls a handler (packet, netlink, control
socket or timer); the handler calls one `MSTP_IN_` function; that changes the
structures and calls `br_state_machines_run`, which moves the machines of *that
bridge* until none can move, calling `MSTP_OUT_` functions on its way to send
BPDUs, set kernel port states, flush addresses and set the ageing time. mstpd is
single threaded, so within one daemon a run is atomic with respect to events;
between bridges everything interleaves.

What makes each part correct: the kernel never forwards round a loop; a port
past the blocking states is blocked in the kernel; after a run the roles follow
from what the bridge knows, and what it announces follows from the roles; no
BPDU is left behind; a run ends; a network left alone settles on a connected
tree; topology-change flags and rapid ageing end; every BPDU counts against the
transmit hold count; a silent network port is blocked. Around the state machines:
every VLAN has a tree and the digest tells which; a BPDU that one mstpd builds is
the BPDU another one reads; what mstpd believes of the kernel becomes true once it
has read everything, and the kernel has the port states the protocol asked for;
making up for lost time ages out only what waits to be renewed; kernel and mstpd agree on who runs STP;
and nobody waits for the RTNL lock for ever.

## Modules

Down to `MstpProperties` each module extends the one above it; `BridgeTrack` and
`Daemon` stand alone, and `MstConfig` extends `BpduFormat`.

| Module | Models |
|---|---|
| `PriorityVector` | `port_priority_vector_t`, `times_t`, the two comparisons |
| `MstpState` | the structures, as one record-valued variable per machine; types; shared conditions |
| `PortMachines` | bridge assurance, Port Receive, Protocol Migration, Bridge Detection, Port Transmit and its BPDUs |
| `PortInformation` | Port Information with `rcvInfo` and the `record*` functions |
| `RoleSelection` | Port Role Selection: `updtRolesTree` |
| `RoleTransitions` | Port Role Transitions |
| `PortStates` | Port State Transition, Topology Change, flushing and rapid ageing |
| `StateMachines` | `br_state_machines_begin` and `br_state_machines_run` |
| `Mstp` | the `MSTP_IN_` events, the links, `Init`, `Next`, `Spec` |
| `MstpProperties` | the properties |
| `BpduFormat` | sizes, headers and validation of a BPDU, from `txConfig`, `txTcn` and `txMstp` to `bridge_bpdu_rcv` and `MSTP_IN_rx_bpdu` |
| `MstConfig` | the tables, lists and digest of one bridge, `list.h`, and the `mstpctl` commands that build a table |
| `VlanAssignment` | abstract: instances, the instance of each VLAN, the assignment that is advertised |
| `BridgeTrack` | bridges, ports, links and port states, in the kernel and in mstpd |
| `Daemon` | main loop, packet and control sockets, `bridge-stp`, RTNL lock, start, end and crash |
| `MCBase`, `MCLinks`, ... `MCMstConfig`, `MCTrack`, `MCDaemon` | instances for TLC |
| `MstpTypes`, `MstpSafety`, `MstpRuns`, `MstpQuiet` | proofs about a network of bridges, each extending the one before: types and the order of priority vectors; roles and states; what holds between the steps of a run; what a run leaves behind, and the times behind a topology change |
| `MstConfigTheorems`, `BridgeTrackTheorems`, `DaemonTheorems` | proofs about the module they are named after |
| `TrackViewTheorems` | proofs about `BridgeTrack` that follow the notifications in the socket, on top of `BridgeTrackTheorems` |

### The network of bridges

**State.** A port is a positive number, a tree is its MSTID with 0 for the
CIST, and a per-tree port is a pair `<<port, MSTID>>`. The members of `port_t`
are spread over `adm` (configuration), `prt` (link, assurance, ageing), `rcv`,
`mig`, `edge`, `xmt`, those of `per_tree_port_t` over `info`, `vec`, `role`,
`pst`, `tc`: one variable for each machine that owns them. Members keep their
names. Identifiers are numbers with the order of the bytes on the wire. Members
that are functions of others (`BridgePriority`, `msgPriority`) are operators.
`master` is always FALSE in the code and appears only in the message.

**Machines.** For each machine M of the code, `M_run` is the state M would
enter now, or `None` (what `M_run(..., dry_run = true)` tells), and `M_to_S` is
the transition into S with everything it calls. Transitions of several roles
with the same effect share an action (`PRTSM_to_SYNCED` is MASTER_SYNCED,
ROOT_SYNCED and DESIGNATED_SYNCED); the state they enter is that of `PRTSM_run`.

**Runs.** `RunMachine` does one transition of the run in progress on `active`.
`pos` is the rank, in the order of the loops of `__br_state_machines_run`, of the
machine the pass has reached. A transition that calls `M_run` again in the code
leaves `pos` at its machine, the others (`RunsOnce`) go on to the next one; when
no machine from `pos` on can move, the pass is over and the next begins. So the
model takes the transitions in the order of the code, one per step, and the
properties are checked between any two. `RunDone` is the dry run that finds
nothing, `RunTimeout` the run given up after a second at the end of a pass.

**Network.** `chan[p]` holds the BPDUs on their way to port p, in order.
`MSTP_OUT_tx_bpdu` appends to the channel of the peer if that is up; a link that
goes down loses what was on its way. `Lose` is a lost BPDU. `due` makes the
bridges tick in any order but once each per second. Since runs of different
bridges share nothing but the channels, one run at a time is enough: a run
neither reads what another writes, nor is a BPDU looked at before it ends.

**Budgets.** Flaps, losses, given-up runs and commands are bounded by
`BootBudget`; `MaxBacklog` bounds the BPDUs that may wait when a second passes.
These are the only bounds in the specification; the theorems hold for all their
values.

### The MST configuration

A linked list is a sequence with the operations of `list.h`; a tree is its MSTID.
`trees` is `br->trees`, `ports` is `br->ports`, `portTrees[p]` is `prt->trees` and
`treePorts[t]` is `tree->ports`, so a per-tree port that is unlinked from one list
and not from the other shows. A digest is the VID to MSTID mapping it is computed
of (equality of MD5 digests is equality of what is hashed), and `region` is the
identifier with which the state machines last began. There is one action for
creating the bridge, enabling it, creating and deleting ports and MSTIs (with an
action for an allocation that fails after k per-tree ports), each function that
maps VIDs or FIDs, the configuration identifier, and the three steps of a
`mstpctl` command that starts from an array of unset entries (0xFF), fills it
argument by argument and sends it, between which other commands may come. `Remap` is `RecalcConfigDigest` with
the restart of the machines. `MstiLimit` joins the lists with `BpduFormat`: the
BPDU built from the list of trees is put into a frame, padded, unpacked and
validated.

### Following the kernel

The kernel is external and modelled as the code relies on it (the comment at the
head of `BridgeTrack`). `pending` is the netlink socket; the kernel may be two
changes ahead of mstpd. `rtnl_listen` reads until the socket is empty (phase
"read"), the control socket and the protocol get their turn in phase "run", in
which new notifications may already wait: the two sockets are served in the order
`epoll_wait` reports them, so a request may overtake notifications sent before it. A
notification is handled by `bridge_notify` as a whole, with every call it makes:
`Daemon` in that module is the state it threads through `create_if`,
`delete_if`, `set_br_up`, `set_if_up` and the `MSTP_IN_` functions, and `told` are
the states the kernel is asked for on the way. Of the protocol engine only the
port states it may ask for are kept (`EngineSetsState`, a step of its own, also for
what the machines do to other ports when a notification or a request runs them); that it asks for learning
or forwarding only on an enabled port of an enabled bridge is `PortRolesAndStates`
of the network model. Faults are a notification lost to a full buffer, a crash and
an orderly end; after either `Start` reads a dump. `missed` and `raced` are history
variables: interfaces of which a notification was lost, and ports whose kernel
state was set, or whose bridge was taken over, against one that was on its way.

### The process

`loop` is the place in the main loop; `timeout` is the time to the next tick,
negative when mstpd is late, and the rule that drops a backlog of more than four
seconds is `After`. mstpd blocks wherever it sets a kernel port state while
`bridge-stp` runs, as the kernel then holds the RTNL lock. Each neighbour sends
a BPDU per hello time into one shared socket, of which a turn of the loop reads
one. `bridge-stp` starts mstpd if none runs, asks it to take or leave the bridge,
and its exit tells the kernel who runs STP; a job it leaves in the background
does the same after a new mstpd is up. Requests are answered before they
are executed, and a client gives up after `ClientTimeout`.

## What TLC checks

The networks have scaled timers: hello time 1, forward delay 2, max age 2,
transmit hold count 2, 3 hops, and the migrate time is 1 (2 in `MCHost`, where
it must be longer than the hello time, as 3 s is longer than 2 s in mstpd).
What matters of the timers is their order and which ones reach zero in the same
second, and these values keep both. `MaxBacklog = 0` delivers every BPDU within
the second it was sent. The start-up is in a fixed order (`MCBase`); after it
everything is up to TLC. Mac, port and tree spaces only have to be larger than
the numbers used.

| Run | Instance and events | Checks |
|---|---|---|
| `links` | two RSTP bridges, two parallel links; at any time one flap of any link or bridge, one lost BPDU or one run given up | `TypeOK`, `QuietSettled`, `RootSelectionCurrent`, `AnnouncesCurrentRoot`, `NoForwardingLoop`, `QuietDrained`, `NoNeedToRun`, `Converges` |
| `config` | the same bridges, one of 15 commands at any time, changes of the protocol version included | `RootSelectionCurrent`, `NoForwardingLoop`, `RapidAgeingEnds`, `TransmissionsCounted` |
| `region` | two MSTP bridges in a region, CIST and MSTI rooted at different bridges, one flap | `QuietDrained`, `NoMstiLoop`, `RunsEnd`, `Converges` |
| `boundary` | an MSTP bridge with an MSTI next to an RSTP root; the root or the boundary moves, or the neighbour is forced to STP | `PortRolesAndStates`, `QuietSettled`, `NoForwardingLoop`, `TopologyChangeReported`, `TopologyChangeHasTimer` |
| `ring` | three bridges in a row; a better link closes the ring | `NoForwardingLoop`, `RetiredRootFirst`, `Converges` |
| `host` | one bridge, an end station, a cable between two of its own network ports; edge detection, BPDU guard, filter and transmission switched | `NoForwardingLoop`, `SilentNetworkPortBlocked`, `HostsServed` |
| `mstconfig` | two VLANs, two FIDs, room for two of three MSTIs, two ports, one failed allocation, every order of commands | `CfgTypeOK`, `DigestCurrent`, `EveryFidHasTree`, `Mesh`, `MstiLimit`, `ImplementsVlanAssignment` |
| `track` | two kernel bridges and a port that moves between them; requests that overtake notifications; one lost notification, crash or restart | `EngineFollowsLinks`, `OneBridgePerPort`, `ViewIsCurrent`, `KernelFollowsUnlessRaced` |
| `daemon` | three neighbours, STP switched three times, four seconds of stalls, one crash | `InfoLapsesOnlyUnread`, `ModesAgree`, `RtnlReleased` |
| `region_stp` | a region with an STP bridge behind it | violates `TopologyChangeHasTimer` |
| `stp_ageing` | a bridge forced to STP before it is enabled | violates `RapidAgeingEnds` |
| `flap_race` | `track` without faults, every request after the notifications sent before it (`InOrderSpec`) | violates `KernelFollows` |

Two bridges with two links are the smallest network with a loop, an alternate
port and a handshake in both directions; the ring adds a proposal that travels
and an old root port that must be retired; `boundary` is the smallest network
with master ports; `host` has backup and edge ports. Deadlock is checked in
every run: seconds always pass.

In `mstconfig` three MSTIs with room for two reach the limit and the middle of the
sorted list; what holds there is proved for all sizes. In `track` two bridges are
needed for a port that moves, and two queued notifications for one that is out of
date when it is read; at most one interface at a time waits for a notification to
make up for a lost one (`MaxMissed`); the bridges are interchangeable, hence the symmetry (the
properties are invariants). `LEARNING` is treated like `FORWARDING` by this code
and is left out of `EngineStates`. In `daemon` the client timeout (5) is that of the
code, and the neighbours have the shortest hello time, 1, with which three of them
are enough for a late mstpd to age their information out; four stalls reach the
rule for a late tick together with a wait for the lock.

`TransmissionsCounted` is an action property. Its content is a bound on the rate:
every BPDU is sent below the hold count and adds one to `txCount`, and `txCount`
goes down by one a second or is cleared, so that between two points at which it is
cleared a port sends no more than the hold count and one BPDU per second. It is
cleared by begin, by a port that goes down and by a changed hold count
(`CountsAgain`), and a port may then send the new count right after the old one.

`Mesh` is what `test_ports_trees_mesh` of `main.c` prints for inspection on one
sequence of calls; the run checks it on all of them. `NoNeedToRun` is about the
comments in `mstp.c` that say why a transition does not run its machine again.

**Fairness.** `MCFairSpec` is weak fairness of the next-state relation as a
whole: mstpd goes on finishing runs, handling BPDUs and ticking. Nothing more
is needed, since a second cannot pass while a BPDU waits, every bridge must
tick before one ticks again, and the bounded events are used up or not taken.
The code justifies it: the event loop returns to `epoll_wait` after each
handler, and the timer is checked on each turn. `DaemonSpec` has weak fairness of
the steps of the loop (a process that can run is scheduled), of the clients
together (each step ends one of finitely many waits) and of time; nothing forces
the administrator to toggle or mstpd to crash. `RtnlReleased` rests on the
timeout of `mstpctl` alone, as mstpd itself cannot go on without the lock.

**Refinement.** `MstConfig` implements `VlanAssignment` under the mapping
`instances <- Elements(trees)`, `instanceOf <- Vid2Mstid(vid2fid, fid2mstid)`,
`advertised <- digest`: the run checks `Va!VaSpec` as a property, and
`ConfigurationRefines` proves it for every size. Its content is that only an
instance without VLANs is deleted (the code tests FIDs), that a VLAN is never put
on an instance that does not exist, and that a step which changes the assignment
changes the advertised one in the same step.

**Findings.** `region_stp`: `newTcWhile` starts an MSTI's topology change on a
port that speaks STP with the sum of the root times of the MSTI, which are zero
unless the bridge itself is the root; the flag is then set without a timer,
while the comment of `set_TopologyChange` says that some `tcWhile` is not zero.
The flag lasts until another `tcWhile` of that tree runs out. `stp_ageing`: on a
bridge forced to STP before it is first enabled, `br_state_machines_begin`
starts rapid ageing with the forward delay of `designatedTimes` before roles
were selected for the first time, that is zero. The kernel's ageing time becomes
0 and no timer is left to restore it. `flap_race`: the repository's README says
that the daemon "translates CIST states to the kernel bridge slaves". A link goes
down and up while mstpd is busy; the kernel makes the port blocking, and before
mstpd reads of either change the protocol sets it forwarding. The down
notification then makes the port blocking in `ptp->state` without telling the
kernel, since the port is not up, and after the up notification nothing is sent
because the state has not changed: the kernel forwards where the protocol blocks,
until the port's next transition. The same comes of an `addbridge` that is handled
while a notification about a port of the bridge waits: mstpd still sees the port
down and records it blocking without telling the kernel, which may forward on it.
`KernelAlwaysFollowsUnlessRaced` proves that these two races, and a lost
notification, are the only ways.

Also seen, without a statement in the repository that it contradicts: an MSTI
port at a region boundary keeps `agreed` when the CIST makes it designated and
forwards at once, so the MSTI (not the CIST, which is what the kernel gets) may
loop for a moment; a run given up after a second may leave `updtInfo` set on a
port that then goes down; a change of `restrictedRole` does not select the roles
again, and neither does a change of speed or duplex of a port that stays up, which
changes its costs (`set_if_up`, `MSTP_IN_set_port_enable`). Network ports use up the hold count, so with a count of 2 or 3 the
announcement of a new root may wait up to a second on one of two links and the
CIST loops for that time. With BPDU transmission switched off at one end of a
cable and edge detection at both, the cable loops; without edge detection bridge
assurance prevents it. A late mstpd ages out information of live neighbours: ticks
are made up for at one per turn and BPDUs are read at one per turn, whatever the
number of ports. Three ports with a hello time of 1 and a stall of two seconds are
enough; with a hello time of 2 it takes six ports and a stall of five seconds.
`InfoLapsesOnlyUnread` says how far this goes: information is never aged out
without at least two BPDUs of the neighbour waiting in the socket. When `bridge-stp`
stops mstpd and is started again before the process has gone, the new bridge is
left without mstpd. A tick that waits for the lock while `bridge-stp` waits for
mstpd costs the five seconds of the client and leaves the bridge to the kernel's
STP, and mstpd executes the request afterwards all the same. The hazards in `PROJECT.json` list these with their lines.

## What is proved

The theorems about `Mstp` hold for every set of bridges, ports and MSTIs, every topology,
timer, configuration, set of commands and budget that satisfies the assumptions
`SpaceAssumption`, `TopologyAssumption`, `LinkAssumption`, `BootAssumption`,
`TreeSpaceAssumption`, `EventAssumption` and `MaxAgeAssumption`: port numbers fit
`PortSpace`, every port has a bridge, a link has two ends, times and costs are naturals, bridges start disabled, commands have
operands of their type, and no bridge is created with or given a maximum age of
zero (the code starts with 20 seconds and accepts 6 to 40).

- `MstpTypes!PriorityTotal`, `PriorityTransitive` and `PriorityAntisymmetric`. `betterorsamePriority` with port identifiers is a
  total order on the components compared, which is why the loop of
  `updtRolesTree` finds a best root path, and only one.
- `MstpTypes!TypeCorrect`: `Spec => []TypeOK`. The first lemmas show that the
  operators that build records build records of their type, the next ones that
  each transition keeps `MachineTypeOK`, the last that each event does, one
  lemma per action.
- `MstpSafety!RolesAndStatesAgree`: `Spec => []PortRolesAndStates`. Role, PRTSM
  state, `learn`/`forward`, PSTSM state and the state given to the kernel agree
  at every step, however runs are cut short, BPDUs lost, bridges and links
  flapped and commands given. The inductive invariant is
  `RoleInv == TypeOK /\ ActiveEnabled /\ PortRolesAndStates`. `ActiveEnabled`
  (the bridge whose run is in progress is enabled) is needed because the state
  given to the kernel is that of PSTSM only on an enabled bridge: a transition
  of PSTSM on a disabled one would break the invariant. The events that touch
  none of the variables involved are dispatched by the lemma `RolesKept`.

- `MstpRuns!TransmissionsAlwaysCounted`: `Spec => TransmissionsCounted`, for network
  ports too, which `config` does not have. Only Port Transmit puts a BPDU on a link
  (`VecSteps`), on that of its own port (`TxChan`, from `LinkAssumption`) and below
  the limit (`TransmitCount`); every other step leaves the count alone, or clears it
  where the port starts to count again (`CountKept`), or is a tick (`TickCount`).
- `MstpRuns!TopologyChangeAlwaysReported`: `Spec => []TopologyChangeReported`. A
  step that starts a timer sets the flag of the tree, and the flag is only cleared
  by a tick after which no timer of the tree runs.
- `MstpRuns!NeverNeedsToRun`: `Spec => NoNeedToRun`, the comments "No need to run,
  no one condition will be met". For the port timers this rests on `Migrate_Time`
  not being zero (`BootAssumption`; the code sets it to 3). For Bridge Detection
  the invariant `EdgeInv` is needed: between Port Receive and Bridge Detection of
  one pass the edge delay of a port that is down has just been restarted, and only
  there may Bridge Detection still be in `EDGE` although Port Receive has cleared
  `operEdge`; the port is then up and its edge delay has just been restarted too.
  It depends on the order of the machines in a pass (the lemmas about `Rank`).
- `MstpQuiet!SettledUnlessGivenUp`: `Spec => [](NoStall => QuietSettled)`. The
  inductive invariant `QuietInv` says of every per-tree port of an enabled bridge
  that one without a selected role waits for role selection, that the state of
  Port Information, the origin of the information and the selected role agree
  (`InfoAgrees`), that a pass which has left Port Information of a port that is
  down behind has taken its information away (`DownSeen`), and that a port which
  is down, or whose bridge is at rest, has nothing left to announce (`NothingLeft`);
  and of every bridge that the CIST's roles are chosen before those of the MSTIs
  (`CistFirst`), without which an MSTI at the region boundary could take over an
  outdated role. `NoStall`, no run has been given up yet, is the hypothesis of
  `NothingLeft`: a run given up may leave `updtInfo` on a port that then goes down,
  where nothing clears it.
- `MstpQuiet!CistAlwaysDrained`: with any number of MSTIs, after given-up runs too,
  a run that ends by itself leaves no message for the CIST, and a message or BPDU
  it does leave waits for an MSTI whose information has aged out and that has
  nothing to announce. `AlwaysDrainedWithoutMstis`: `Spec => []QuietDrained` when
  there are no MSTIs. Whether the exception of the MSTIs can happen is left to TLC,
  which finds `QuietDrained` true in the runs with an MSTI.
- `MstpQuiet!SilentPortAlwaysBlocked`: the part of `SilentNetworkPortBlocked` that
  holds for all timers and topologies. Bridge assurance stops a port that is not
  the way to the root; a silent root port is stopped by the ageing of its
  information, after three hello times of the sender rather than of the receiver.
- `MstpQuiet!CistChangeAlwaysTimed`: `Spec => []CistChangeHasTimer`, and
  `TopologyChangeAlwaysTimed`: `Spec => []TopologyChangeHasTimer` when there are no
  MSTIs. That the flag of the CIST is set only while one of its timers runs depends
  on `newTcWhile` never giving zero. On a port that speaks STP the time is the sum
  of two root times, which are zero until the roles are selected for the first time,
  and afterwards come from the bridge itself or from the neighbour whose BPDU won.
  The inductive invariant `TimesInv` follows the maximum age on its way: none of
  the BPDUs held by a port or on a cable has one of zero (`TimedBpdu`), and neither
  have the bridge and its tree (`BridgeTimed`), the information a port holds, or the
  times chosen for a port that is selected, is told to learn or takes part in a
  topology change (`PortTimed`). A TCN carries no times; it is never taken for
  superior information, but the classification (`rcvdInfo`) is kept from one
  transition of Port Information to the next. `Classified` says that it is used in
  the pass that made it, so that no other BPDU can have come in between. As in all
  of `Mstp`, every bridge in the network runs mstpd.

`MstConfigTheorems` is about `MstConfig` with any numbers of VIDs, FIDs, MSTIDs and
ports, any limit of MSTIs up to the standard's and any number of failed
allocations (`StandardAssumption`, `MstConfigAssumption`):

- `CfgTypeCorrect`, `DigestAlwaysCurrent`, `FidsKeepTrees`, `MeshAlways`:
  `CfgSpec => []P` for `CfgTypeOK`, `DigestCurrent`, `EveryFidHasTree`, `Mesh`.
- `MstiLimitAlways`: the list given to `mstpctl` is complete and every BPDU is
  read as it was sent, up to the limit of 64 MSTIs. `BpduRoundTrip` is the
  arithmetic of the sizes.
- `ConfigurationRefines`: `CfgSpec => ImplementsVlanAssignment`.

The inductive invariant is `CfgInv == ListInv /\ LinkInv /\ TableInv /\ DigestInv
/\ RestInv`. `Mesh` and `EveryFidHasTree` are not inductive by themselves: that a
new tree finds its place needs the order of the list and the CIST at its head
(`ListInv`), that a failed creation leaves the lists as they were needs that the
MSTI was in none of them (`LinkInv`, with the lemma `AddThenDel`), and that a
table sent by `mstpctl` (unset entries keep what they were) names only existing
trees needs `TableInv` when it arrives, whatever happened since the command was
started. Lemmas about `list.h`
(`ListAdd`, `ListDel`, `SortedAdd`, `SortedDel`) are stated once; the entry after
which a tree is inserted exists by `GreatestExists`, from the well-foundedness of
the naturals.

`BridgeTrackTheorems` is about any finite sets of bridges and ports, any number of
notifications in flight and any number of faults (`TrackAssumption`):
`EngineAlwaysFollowsLinks` and `NeverInTwoBridges`, `TrackSpec => []P` for
`EngineFollowsLinks` and `OneBridgePerPort`. The inductive invariant is
`TrackInv == TrackTypeOK /\ Good(Daemon)`: `Good` is stated of a daemon state as a
value, so that one lemma per function of `bridge_track.c` shows that it returns a
good state for a good one, in whatever order the handlers call them; to the two
properties it adds that a bridge mstpd does not have is down and off, that a port
it does not have is down, and that a port it has belongs to a bridge it has. The
lemmas also say what a handler makes of its message (`Heard`) and that the kernel
was told the state of a port that is up on a bridge that runs, unless that state is
an old one or the port has just come up and is blocking (`Reported`).

`TrackViewTheorems` proves, under the same assumption, what mstpd knows once it has
read its socket:

- `ViewAlwaysCurrent`: `TrackSpec => []ViewIsCurrent`. The property speaks of an
  empty socket only; the inductive invariant `ViewInv` follows the messages in it.
  For each interface the last message says what the kernel has now (`Matches`),
  two messages with none between them fit together (`Fits`: a port changes its
  bridge only after it left, and comes up only after it went down), and the first
  fits what mstpd has (`Awaited`); an interface without a message in the socket is
  as the kernel has it (`Seen`). `Fits` and `Awaited` are needed because
  `bridge_notify` ignores a removal from another bridge than the one it has the
  port in. Interfaces in `missed` are excepted from `Seen` and `Awaited`, and during
  the start-up dump, when the kernel may have gone on, also from `Matches`. The
  handler reads more than its message (whether the bridge exists, whether the port
  still has a bridge): `OtherAfter` shows that what it then learns early is right.
- `KernelAlwaysFollowsUnlessRaced`: `TrackSpec => []KernelFollowsUnlessRaced`. To
  `ViewInv` the inductive invariant `FollowInv` adds: a port that was not raced and
  about which a message is in the socket has the state the kernel itself gave it,
  if its bridge is managed (`Fresh`), so that what mstpd assumes of it when it reads
  the message, blocking and not told, is right; a request that takes a bridge over
  makes this true of its ports by putting those with a message into `raced`; a port about
  which none is in the socket has the state mstpd has (`Agrees`), unless the bridge
  is about to be seen down; and the bridges that mstpd manages are those with user
  space STP but for the request on its way (`Asks`). `Asks` is what makes the
  kernel block a port of a managed bridge that comes up.

`DaemonTheorems` is about any number of ports, jobs, stalls, calls of `bridge-stp`
and crashes (`DaemonAssumption`): `ModesAlwaysAgree`, `DaemonSpec => []ModesAgree`.
`ModesAgree` speaks of rest only; the inductive invariant `DaemonInv` follows the
requests while they are under way. A request of the calling `bridge-stp` is in the
control socket only while it waits and nothing but `addbridge` comes after it
(`Queue`); once the kernel leaves the bridge to user space no `delbridge` is left to
be executed (`NoLateRemoval`), and mstpd manages the bridge, has a request left, or
a job will send one or turn STP off again (`WillManage`). For the converse, mstpd
ends by itself only when no other bridge needs it (`Killed`), so that without
failures it either serves this bridge alone and is killed when that is removed
(`Alone`: a job of an earlier start may still add the bridge to the dying process)
or executes the requests one after the other (`InTurn`). TLC checked each part on a
small instance before it was proved.

Left to TLC:

- liveness (`RtnlReleased`, `Converges`, `RunsEnd`, `HostsServed`), which TLAPS
  cannot prove under fairness;
- what depends on several bridges: `NoForwardingLoop`, `NoMstiLoop`,
  `RetiredRootFirst`;
- `RootSelectionCurrent` and `AnnouncesCurrentRoot`, which hold for the commands
  and neighbours of their runs and not for all: a change of `restrictedRole`, of the
  protocol a neighbour speaks, or of speed or duplex of a port that stays up does not
  select the roles again;
- `RapidAgeingEnds`, which holds for the commands of its runs and not for all: a
  changed ageing time reaches the kernel only when rapid ageing ends, and on the
  bridge of `stp_ageing` it never does;
- `TopologyChangeHasTimer` with MSTIs, where `region_stp` violates it;
- `QuietDrained` with MSTIs, `QuietSettled` after a run was given up,
  `SilentNetworkPortBlocked` for root ports, all discussed above;
- `InfoLapsesOnlyUnread`, which was also checked with six ports, a hello time of 2 and
  stalls of five seconds;
- the values the comparison-heavy operators compute.

## What is not modelled

- Creation and deletion of bridges, ports and MSTIs in the middle of the protocol
  of a network: `MstConfig` and `BridgeTrack` have them, with the engine reduced to
  what it was told; in `Mstp` bridges, ports and MSTIs are constant and the digest
  is an abstract number.
- A change of speed, duplex or address of a port that stays up; a hello time
  changed at run time; statistics and status queries; the checks of operands.
- Driver hooks other than the default ones, which do nothing. A flush of addresses
  completes at once and leaves no state.
- Credentials and message lengths of the control socket, most of `mstpctl`
  (commands that pass one value on, or print), netlink message and attribute
  parsing, the packet filter: parsing and I/O without state of their own.
- `remove_epoll` while events are dispatched: no handler of mstpd removes another.
- MD5 (third party), the configuration file and ifupdown scripts, the WebAssembly
  demonstration and the vendor example of the driver hooks.

In `Mstp`, `ptp->state` is what `MSTP_OUT_set_state` was told; how it gets to the
kernel is `BridgeTrack`.

## Plan

1. Done: `PriorityVector` ... `Mstp` and their networks, type correctness and
   agreement of roles and states for every network.
2. Done: `MstConfig` with `BpduFormat` and its refinement of `VlanAssignment`,
   checked and proved; `BridgeTrack`; `Daemon`.
3. Done: proofs of `EngineFollowsLinks`, `OneBridgePerPort`, `TransmissionsCounted`,
   `TopologyChangeReported`, `NoNeedToRun`, `ModesAgree` and of what a run leaves
   behind.
4. Done: proofs of `ViewIsCurrent` and `KernelFollowsUnlessRaced`.
5. Proof that `rcvInfo` answers SuperiorDesignatedInfo to every message of the same
   designated port.
6. An abstract `SpanningTree` (the tree each bridge should have, from topology and
   configuration alone) that the settled network matches, and an abstract port
   (blocked, learning, forwarding) that roles and states refine.
