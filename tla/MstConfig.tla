------------------------------ MODULE MstConfig -----------------------------
(***************************************************************************)
(* The MST configuration of one bridge: the VID to FID and FID to MSTID    *)
(* tables, the configuration digest, the lists that link trees, ports and  *)
(* per-tree ports, and the mstpctl commands that change them.              *)
(*                                                                         *)
(* A linked list is a sequence, a tree is its MSTID, a port its number.    *)
(* trees is br->trees, ports is br->ports, portTrees[p] is prt->trees and  *)
(* treePorts[t] is tree->ports.  A digest is the table it is computed of.  *)
(* An allocation may fail; MaxFailures bounds how often.                   *)
(***************************************************************************)
EXTENDS BpduFormat, FiniteSets

CONSTANTS
    MAX_VID, MAX_FID, MAX_MSTID,
    MAX_IMPLEMENTATION_MSTIS,
    PortNumbers,        \* ports that may be added to the bridge
    Names,              \* configuration names and revisions, in one value
    FirstName,          \* the one a new bridge gets from its MAC address
    Arguments,          \* the arguments mstpctl may be given, see ParseList
    MaxArguments,       \* arguments of one command
    MaxFailures

VARIABLES
    bridgeEnabled,
    trees, ports, portTrees, treePorts,
    vid2fid, fid2mstid,
    digest, name,       \* the MST configuration identifier
    begun,              \* per-tree ports whose state machines have begun
    region,             \* the identifier the state machines last began with
    command,            \* the command mstpctl is building
    failures

cfgVars == <<bridgeEnabled, trees, ports, portTrees, treePorts, vid2fid,
             fid2mstid, digest, name, begun, region, command, failures>>
lists == <<trees, ports, portTrees, treePorts>>

Vids == 1..MAX_VID
Fids == 0..MAX_FID
Mstids == 1..MAX_MSTID
CIST == 0
Unset == 65535              \* memset 0xFF

ASSUME MstConfigAssumption ==
    /\ MAX_VID \in Nat /\ MAX_FID \in 0..(Unset - 1)
    /\ MAX_MSTID \in 0..(Unset - 1)
    /\ MAX_IMPLEMENTATION_MSTIS \in 0..MAX_STANDARD_MSTIS
    /\ FirstName \in Names
    /\ MaxFailures \in Nat /\ MaxArguments \in Nat
    /\ \A a \in Arguments :
          /\ a.value \in Nat /\ a.star \in BOOLEAN
          /\ a.ranges \subseteq Nat \X Nat

-----------------------------------------------------------------------------
(* list.h *)

Elements(s) == {s[i] : i \in 1..Len(s)}
Position(s, x) == CHOOSE i \in 1..Len(s) : s[i] = x

\* list_add(new, after): x becomes the entry that follows the entry y.
list_add(x, y, s) ==
    LET k == Position(s, y)
    IN  [i \in 1..(Len(s) + 1) |-> IF i <= k THEN s[i]
                                   ELSE IF i = k + 1 THEN x ELSE s[i - 1]]

list_add_tail(x, s) == Append(s, x)

list_del(x, s) ==
    LET k == Position(s, x)
    IN  [i \in 1..(Len(s) - 1) |-> IF i < k THEN s[i] ELSE s[i + 1]]

-----------------------------------------------------------------------------
(* State machines and digest *)

\* The per-tree ports of ports P with trees T.
PerTreePorts(P, T) == Elements(P) \X Elements(T)

Identifier(d, n) == [digest |-> d, name |-> n]

Vid2Mstid(v2f, f2m) == [v \in Vids |-> f2m[v2f[v]]]

\* What region is while no state machine has begun.
NoRegion == Identifier([v \in Vids |-> CIST], FirstName)

\* br_state_machines_begin, which a disabled bridge ignores.
br_state_machines_begin(d, n) ==
    IF bridgeEnabled
    THEN begun' = PerTreePorts(ports, trees) /\ region' = Identifier(d, n)
    ELSE UNCHANGED <<begun, region>>

\* The end of every change of a table: RecalcConfigDigest and a restart, when
\* the VID to MSTID mapping has changed.
Remap(changed, v2f, f2m) ==
    /\ vid2fid' = v2f
    /\ fid2mstid' = f2m
    /\ IF changed
       THEN /\ digest' = Vid2Mstid(v2f, f2m)
            /\ br_state_machines_begin(digest', name)
       ELSE UNCHANGED <<digest, begun, region>>
    /\ UNCHANGED <<bridgeEnabled, lists, name, failures>>

NoCommand == [table |-> "none", array |-> <<>>, left |-> 0]

-----------------------------------------------------------------------------
(* Creation and removal *)

\* MSTP_IN_bridge_create: the tables are zero and there is only the CIST.
BridgeCreate(en, ts, ps, pt, tp, v2f, f2m, d, n, bg, rg) ==
    /\ en = FALSE
    /\ ts = <<CIST>>
    /\ ps = <<>>
    /\ pt = [p \in PortNumbers |-> <<>>]
    /\ tp = [t \in {CIST} \cup Mstids |-> <<>>]
    /\ v2f = [v \in Vids |-> 0]
    /\ f2m = [f \in Fids |-> CIST]
    /\ d = Vid2Mstid(v2f, f2m)
    /\ n = FirstName
    /\ bg = {}
    /\ rg = NoRegion

CfgInit == /\ BridgeCreate(bridgeEnabled, trees, ports, portTrees, treePorts,
                           vid2fid, fid2mstid, digest, name, begun, region)
           /\ command = NoCommand
           /\ failures = MaxFailures

\* The bridge interface goes and a new one comes: MSTP_IN_delete_bridge and
\* MSTP_IN_bridge_create.
Recreate ==
    /\ BridgeCreate(bridgeEnabled', trees', ports', portTrees', treePorts',
                    vid2fid', fid2mstid', digest', name', begun', region')
    /\ UNCHANGED <<command, failures>>

\* MSTP_IN_set_bridge_enable resets every per-tree port before it begins.
SetBridgeEnable(up) ==
    /\ bridgeEnabled # up
    /\ bridgeEnabled' = up
    /\ begun' = IF up THEN PerTreePorts(ports, trees) ELSE {}
    /\ region' = IF up THEN Identifier(digest, name) ELSE NoRegion
    /\ UNCHANGED <<lists, vid2fid, fid2mstid, digest, name, command, failures>>

\* The lists while MSTP_IN_port_create_and_add_tail has made the per-tree
\* ports of p for the first k trees.
PortTreesMade(p, k) ==
    [portTrees EXCEPT ![p] = SubSeq(trees, 1, k)]
TreePortsMade(p, k) ==
    [t \in DOMAIN treePorts |->
        IF t \in Elements(SubSeq(trees, 1, k))
        THEN list_add_tail(p, treePorts[t]) ELSE treePorts[t]]

PortCreate(p) ==
    /\ p \notin Elements(ports)
    /\ portTrees' = PortTreesMade(p, Len(trees))
    /\ treePorts' = TreePortsMade(p, Len(trees))
    /\ ports' = list_add_tail(p, ports)
    /\ begun' = IF bridgeEnabled THEN begun \cup ({p} \X Elements(trees))
                ELSE begun
    /\ UNCHANGED <<bridgeEnabled, trees, vid2fid, fid2mstid, digest, name,
                   region, command, failures>>

\* The allocation for tree k + 1 fails and the k made so far are undone.
PortCreateFails(p, k) ==
    /\ p \notin Elements(ports)
    /\ failures > 0
    /\ k < Len(trees)
    /\ failures' = failures - 1
    /\ treePorts' = [t \in DOMAIN treePorts |->
                        IF t \in Elements(PortTreesMade(p, k)[p])
                        THEN list_del(p, TreePortsMade(p, k)[t])
                        ELSE TreePortsMade(p, k)[t]]
    /\ portTrees' = [PortTreesMade(p, k) EXCEPT ![p] = <<>>]
    /\ UNCHANGED <<bridgeEnabled, trees, ports, vid2fid, fid2mstid, digest,
                   name, begun, region, command>>

\* MSTP_IN_delete_port
DeletePort(p) ==
    /\ p \in Elements(ports)
    /\ treePorts' = [t \in DOMAIN treePorts |->
                        IF t \in Elements(portTrees[p])
                        THEN list_del(p, treePorts[t]) ELSE treePorts[t]]
    /\ portTrees' = [portTrees EXCEPT ![p] = <<>>]
    /\ ports' = list_del(p, ports)
    /\ begun' = {x \in begun : x[1] # p}
    /\ UNCHANGED <<bridgeEnabled, trees, vid2fid, fid2mstid, digest, name,
                   region, command, failures>>

-----------------------------------------------------------------------------
(* MSTIs *)

\* The last tree of the list with a smaller MSTID.
TreeAfter(mstid) ==
    LET smaller == {i \in 1..Len(trees) : trees[i] < mstid}
    IN  trees[CHOOSE i \in smaller : \A j \in smaller : j <= i]

\* Mutants of MayCreateMsti: the last MSTID is off by one; the limit counts
\* the MSTIs without the CIST.
MayCreateMsti_pastLast(mstid) ==
    /\ mstid \in 1..(MAX_MSTID + 1)
    /\ mstid \notin Elements(trees)
    /\ ~(MAX_IMPLEMENTATION_MSTIS < Len(trees))

MayCreateMsti_noCist(mstid) ==
    /\ mstid \in 1..MAX_MSTID
    /\ mstid \notin Elements(trees)
    /\ ~(MAX_IMPLEMENTATION_MSTIS < Len(trees) - 1)

\* The tests of MSTP_IN_create_msti; the list it counts includes the CIST.
MayCreateMsti(mstid) ==
    /\ mstid \in 1..MAX_MSTID
    /\ mstid \notin Elements(trees)
    /\ ~(MAX_IMPLEMENTATION_MSTIS < Len(trees))

\* The lists of the ports while the first k per-tree ports are made.
MstiLinked(mstid, k) ==
    LET after == TreeAfter(mstid)
        made == {treePorts[after][i] : i \in 1..k}
    IN  [p \in DOMAIN portTrees |->
            IF p \in made THEN list_add(mstid, after, portTrees[p])
            ELSE portTrees[p]]

CreateMsti(mstid) ==
    /\ MayCreateMsti(mstid)
    /\ LET after == TreeAfter(mstid)
       IN  /\ portTrees' = MstiLinked(mstid, Len(treePorts[after]))
           /\ treePorts' = [treePorts EXCEPT ![mstid] = treePorts[after]]
           /\ trees' = list_add(mstid, after, trees)
           \* tree_state_machines_begin
           /\ begun' = IF bridgeEnabled
                       THEN begun \cup (Elements(treePorts[after]) \X {mstid})
                       ELSE begun
    /\ UNCHANGED <<bridgeEnabled, ports, vid2fid, fid2mstid, digest, name,
                   region, command, failures>>

\* Mutant: the new tree's per-tree ports are freed but stay in the lists.
CreateMstiFails_keepLinks(mstid, k) ==
    /\ MayCreateMsti(mstid)
    /\ failures > 0
    /\ k < Len(treePorts[TreeAfter(mstid)])
    /\ failures' = failures - 1
    /\ portTrees' = MstiLinked(mstid, k)
    /\ UNCHANGED <<bridgeEnabled, trees, ports, treePorts, vid2fid, fid2mstid,
                   digest, name, begun, region, command>>

\* The allocation of per-tree port k + 1 fails: those of the new tree's list
\* are taken out of the lists of the ports.
CreateMstiFails(mstid, k) ==
    /\ MayCreateMsti(mstid)
    /\ failures > 0
    /\ k < Len(treePorts[TreeAfter(mstid)])
    /\ failures' = failures - 1
    /\ LET made == {treePorts[TreeAfter(mstid)][i] : i \in 1..k}
       IN  portTrees' = [p \in DOMAIN portTrees |->
                            IF p \in made
                            THEN list_del(mstid, MstiLinked(mstid, k)[p])
                            ELSE MstiLinked(mstid, k)[p]]
    /\ UNCHANGED <<bridgeEnabled, trees, ports, treePorts, vid2fid, fid2mstid,
                   digest, name, begun, region, command>>

\* Mutant: only FIDs with VLANs keep an MSTI.
DeleteMsti_usedOnly(mstid) ==
    /\ mstid \in 1..MAX_MSTID
    /\ \A v \in Vids : fid2mstid[vid2fid[v]] # mstid
    /\ mstid \in Elements(trees)
    /\ trees' = list_del(mstid, trees)
    /\ portTrees' = [p \in DOMAIN portTrees |->
                        IF p \in Elements(treePorts[mstid])
                        THEN list_del(mstid, portTrees[p]) ELSE portTrees[p]]
    /\ treePorts' = [treePorts EXCEPT ![mstid] = <<>>]
    /\ begun' = {x \in begun : x[2] # mstid}
    /\ UNCHANGED <<bridgeEnabled, ports, vid2fid, fid2mstid, digest, name,
                   region, command, failures>>

DeleteMsti(mstid) ==
    /\ mstid \in 1..MAX_MSTID
    /\ \A f \in Fids : fid2mstid[f] # mstid
    /\ mstid \in Elements(trees)
    /\ trees' = list_del(mstid, trees)
    /\ portTrees' = [p \in DOMAIN portTrees |->
                        IF p \in Elements(treePorts[mstid])
                        THEN list_del(mstid, portTrees[p]) ELSE portTrees[p]]
    /\ treePorts' = [treePorts EXCEPT ![mstid] = <<>>]
    /\ begun' = {x \in begun : x[2] # mstid}
    /\ UNCHANGED <<bridgeEnabled, ports, vid2fid, fid2mstid, digest, name,
                   region, command, failures>>

\* MSTP_IN_get_mstilist stops once the count exceeds the limit.
GetMstilist ==
    IF Len(trees) > MAX_IMPLEMENTATION_MSTIS + 1
    THEN SubSeq(trees, 1, MAX_IMPLEMENTATION_MSTIS + 1) ELSE trees

-----------------------------------------------------------------------------
(* Tables *)

SetVid2fid(vid, fid) ==
    /\ vid \in Vids /\ fid \in Fids
    /\ Remap(fid2mstid[fid] # fid2mstid[vid2fid[vid]],
             [vid2fid EXCEPT ![vid] = fid], fid2mstid)
    /\ UNCHANGED command

\* MSTP_IN_set_all_vids2fids: a value that is no FID keeps the previous one.
SetAllVids2fids(array) ==
    LET v2f == [v \in Vids |-> IF array[v] > MAX_FID THEN vid2fid[v]
                               ELSE array[v]]
    IN  Remap(\E v \in Vids : fid2mstid[v2f[v]] # fid2mstid[vid2fid[v]],
              v2f, fid2mstid)

\* Mutant: the digest is not recomputed when a FID moves.
SetFid2mstid_noRecalc(fid, mstid) ==
    /\ fid \in Fids
    /\ mstid \in Elements(trees)
    /\ Remap(FALSE, vid2fid, [fid2mstid EXCEPT ![fid] = mstid])
    /\ UNCHANGED command

SetFid2mstid(fid, mstid) ==
    /\ fid \in Fids
    /\ mstid \in Elements(trees)
    /\ Remap(fid2mstid[fid] # mstid /\ \E v \in Vids : vid2fid[v] = fid,
             vid2fid, [fid2mstid EXCEPT ![fid] = mstid])
    /\ UNCHANGED command

\* Mutant: the tables are stored before the trees are looked up.
SetAllFids2mstids_unchecked(array) ==
    LET f2m == [f \in Fids |-> IF array[f] > MAX_MSTID THEN fid2mstid[f]
                               ELSE array[f]]
    IN  Remap(\E v \in Vids : fid2mstid[vid2fid[v]] # f2m[vid2fid[v]],
              vid2fid, f2m)

\* MSTP_IN_set_all_fids2mstids changes nothing unless every FID has a tree.
SetAllFids2mstids(array) ==
    LET f2m == [f \in Fids |-> IF array[f] > MAX_MSTID THEN fid2mstid[f]
                               ELSE array[f]]
    IN  IF \A f \in Fids : f2m[f] \in Elements(trees)
        THEN Remap(\E v \in Vids : fid2mstid[vid2fid[v]] # f2m[vid2fid[v]],
                   vid2fid, f2m)
        ELSE UNCHANGED <<bridgeEnabled, lists, vid2fid, fid2mstid, digest,
                         name, begun, region, failures>>

\* MSTP_IN_set_mst_config_id
SetMstConfigId(n) ==
    /\ n # name
    /\ name' = n
    /\ br_state_machines_begin(digest, n)
    /\ UNCHANGED <<bridgeEnabled, lists, vid2fid, fid2mstid, digest, command,
                   failures>>

-----------------------------------------------------------------------------
(* mstpctl setvid2fid and setfid2mstid.  An argument "<value>:<list>" is a *)
(* record with the value, the ranges of the list and whether it has a '*'. *)

Indices(table) == IF table = "vid2fid" THEN Vids ELSE Fids
MaxIndex(table) == IF table = "vid2fid" THEN MAX_VID ELSE MAX_FID
MaxValue(table) == IF table = "vid2fid" THEN MAX_FID ELSE MAX_MSTID

\* The argument is refused: the value or an index is out of range, or index 0
\* is given where there is none.
BadArgument(table, arg) ==
    \/ arg.value > MaxValue(table)
    \/ \E r \in arg.ranges :
          \/ r[1] > MaxIndex(table) \/ r[2] > MaxIndex(table)
          \/ table = "vid2fid" /\ (r[1] = 0 \/ r[2] = 0)

\* A range may be given backwards; '*' stands for what is still unset.
ParseList(table, arg, array) ==
    [i \in Indices(table) |->
        IF \/ \E r \in arg.ranges : r[1] <= i /\ i <= r[2]
           \/ \E r \in arg.ranges : r[2] <= i /\ i <= r[1]
           \/ arg.star /\ array[i] > MaxValue(table)
        THEN arg.value ELSE array[i]]

\* cmd_setvid2fid and cmd_setfid2mstid, up to the first argument.
CommandStart(table) ==
    /\ command = NoCommand
    /\ command' = [ table |-> table, array |-> [i \in Indices(table) |-> Unset],
                    left |-> MaxArguments ]
    /\ UNCHANGED <<bridgeEnabled, lists, vid2fid, fid2mstid, digest, name,
                   begun, region, failures>>

\* One argument; a bad one ends the command, and nothing has been sent.
CommandArgument(arg) ==
    /\ command.left > 0
    /\ command' = IF BadArgument(command.table, arg) THEN NoCommand
                  ELSE [ command EXCEPT
                           !.array = ParseList(command.table, arg, @),
                           !.left = @ - 1 ]
    /\ UNCHANGED <<bridgeEnabled, lists, vid2fid, fid2mstid, digest, name,
                   begun, region, failures>>

\* The array is sent and CTL_set_vids2fids or CTL_set_fids2mstids runs.
CommandSend ==
    /\ command # NoCommand
    /\ command' = NoCommand
    /\ IF command.table = "vid2fid" THEN SetAllVids2fids(command.array)
       ELSE SetAllFids2mstids(command.array)

-----------------------------------------------------------------------------

CfgNext ==
    \/ Recreate
    \/ \E up \in BOOLEAN : SetBridgeEnable(up)
    \/ \E p \in PortNumbers : \/ PortCreate(p)
                              \/ \E k \in 0..Len(trees) : PortCreateFails(p, k)
                              \/ DeletePort(p)
    \/ \E m \in 0..(MAX_MSTID + 1) :
          \/ CreateMsti(m)
          \/ \E k \in 0..Len(ports) : CreateMstiFails(m, k)
          \/ DeleteMsti(m)
    \/ \E v \in 0..(MAX_VID + 1), f \in 0..(MAX_FID + 1) : SetVid2fid(v, f)
    \/ \E f \in 0..(MAX_FID + 1), m \in 0..(MAX_MSTID + 1) : SetFid2mstid(f, m)
    \/ \E n \in Names : SetMstConfigId(n)
    \/ \E t \in {"vid2fid", "fid2mstid"} : CommandStart(t)
    \/ \E a \in Arguments : CommandArgument(a)
    \/ CommandSend

CfgSpec == CfgInit /\ [][CfgNext]_cfgVars

-----------------------------------------------------------------------------
(* Properties *)

ListType == Seq({CIST} \cup Mstids)

\* The tables hold FIDs and MSTIDs, the lists trees and ports (type
\* correctness of bridge_t).
CfgTypeOK ==
    /\ bridgeEnabled \in BOOLEAN
    /\ trees \in ListType
    /\ ports \in Seq(PortNumbers)
    /\ portTrees \in [PortNumbers -> ListType]
    /\ treePorts \in [{CIST} \cup Mstids -> Seq(PortNumbers)]
    /\ vid2fid \in [Vids -> Fids]
    /\ fid2mstid \in [Fids -> {CIST} \cup Mstids]
    /\ digest \in [Vids -> {CIST} \cup Mstids]
    /\ name \in Names
    /\ begun \subseteq PortNumbers \X ({CIST} \cup Mstids)
    /\ region \in [digest : [Vids -> {CIST} \cup Mstids], name : Names]
    /\ \/ command = NoCommand
       \/ /\ command.table \in {"vid2fid", "fid2mstid"}
          /\ command = [ table |-> command.table, array |-> command.array,
                         left |-> command.left ]
          /\ command.left \in 0..MaxArguments
          /\ command.array \in [Indices(command.table) -> Nat]
    /\ failures \in 0..MaxFailures

\* The digest in the BPDUs is the one of the VID to MSTID mapping in force,
\* although most operations skip RecalcConfigDigest, and the state machines
\* of an enabled bridge have been restarted since the identifier last changed.
DigestCurrent == /\ digest = Vid2Mstid(vid2fid, fid2mstid)
                 /\ bridgeEnabled => region = Identifier(digest, name)

\* Every FID, and so every VLAN, belongs to a tree that exists, whatever was
\* created, deleted and remapped before.
EveryFidHasTree == \A f \in Fids : fid2mstid[f] \in Elements(trees)

\* The lists are one mesh, after failed allocations too: every port has a
\* per-tree port for each tree, in the order of the trees, every tree one for
\* each port, in the order of the ports, the trees are in increasing order
\* from the CIST on (txMstp relies on it), and every per-tree port of an
\* enabled bridge has had its state machines begun.
Mesh == /\ trees[1] = CIST
        /\ \A i, j \in 1..Len(trees) : i < j => trees[i] < trees[j]
        /\ \A i, j \in 1..Len(ports) : i # j => ports[i] # ports[j]
        /\ \A p \in PortNumbers : portTrees[p] = IF p \in Elements(ports)
                                                 THEN trees ELSE <<>>
        /\ \A t \in {CIST} \cup Mstids : treePorts[t] = IF t \in Elements(trees)
                                                        THEN ports ELSE <<>>
        /\ begun = IF bridgeEnabled THEN PerTreePorts(ports, trees) ELSE {}

\* At the limit of MSTIs too: the list given to mstpctl is complete, the
\* BPDU of every port fits in bpdu_t, and another mstpd that receives it takes
\* it for an MST BPDU and reads as many MSTI messages as were sent.  The BPDUs
\* of a port that talks RSTP or STP are taken for what they are.
MstiLimit ==
    /\ GetMstilist = trees
    /\ Received(txConfig) = Valid(protoSTP, 0)
    /\ Received(txTcn) = Valid(protoSTP, 0)
    /\ \A p \in Elements(ports) :
          LET b == txMstp(portTrees[p], protoMSTP)
          IN  /\ Len(b.mstis) <= MAX_STANDARD_MSTIS
              /\ Received(b) = Valid(protoMSTP, Len(trees) - 1)
              /\ Received(txMstp(portTrees[p], protoRSTP)) = Valid(protoRSTP, 0)

\* The tables, lists and digest implement the assignment of VLANs to
\* spanning tree instances.
Va == INSTANCE VlanAssignment
        WITH Vlans <- Vids, Instances <- Mstids, Cist <- CIST,
             instances <- Elements(trees),
             instanceOf <- Vid2Mstid(vid2fid, fid2mstid),
             advertised <- digest
ImplementsVlanAssignment == Va!VaSpec
=============================================================================
