------------------------- MODULE MstConfigTheorems --------------------------
(***************************************************************************)
(* The MST configuration of a bridge stays consistent for every number of  *)
(* VLANs, FIDs, MSTIs and ports: the lists form one mesh, every FID has a  *)
(* tree, the digest is current, and the whole implements VlanAssignment.   *)
(***************************************************************************)
EXTENDS MstConfig, SequenceTheorems, WellFoundedInduction, TLAPS

-----------------------------------------------------------------------------
(* list.h *)

\* An entry of a list has a position, and the entry is found there.
LEMMA PositionOf ==
    ASSUME NEW s, NEW x \in Elements(s)
    PROVE  Position(s, x) \in 1..Len(s) /\ s[Position(s, x)] = x
<1>1. PICK i \in 1..Len(s) : s[i] = x
   BY DEF Elements
<1>2. QED BY <1>1 DEF Position

\* list_add makes a list that has one entry more, the new one behind the
\* given one and the others in their order.
LEMMA ListAdd ==
    ASSUME NEW S, NEW s \in Seq(S), NEW x \in S, NEW y \in Elements(s)
    PROVE  /\ list_add(x, y, s) \in Seq(S)
           /\ Len(list_add(x, y, s)) = Len(s) + 1
           /\ \A i \in 1..(Len(s) + 1) :
                 list_add(x, y, s)[i] =
                    IF i <= Position(s, y) THEN s[i]
                    ELSE IF i = Position(s, y) + 1 THEN x ELSE s[i - 1]
           /\ Elements(list_add(x, y, s)) = Elements(s) \cup {x}
<1> DEFINE k == Position(s, y)
           l == list_add(x, y, s)
<1>1. k \in 1..Len(s)
   BY PositionOf
<1>2. Len(s) \in Nat /\ \A i \in 1..Len(s) : s[i] \in S
   BY LenProperties, ElementOfSeq
<1>3. l = [i \in 1..(Len(s) + 1) |-> IF i <= k THEN s[i]
                                     ELSE IF i = k + 1 THEN x ELSE s[i - 1]]
   BY DEF list_add
<1> HIDE DEF k, l
<1>4. l \in [1..(Len(s) + 1) -> S]
   BY <1>1, <1>2, <1>3
<1>5. l \in Seq(S)
   <2>1. Len(s) + 1 \in Nat
      BY <1>2
   <2>2. QED BY <1>4, <2>1, SeqDef
<1>6. Len(l) = Len(s) + 1
   <2>1. DOMAIN l = 1..(Len(s) + 1) /\ DOMAIN l = 1..Len(l) /\ Len(l) \in Nat
      BY <1>4, <1>5, LenProperties
   <2>2. QED BY <2>1, <1>2
<1>7. \A i \in 1..(Len(s) + 1) :
         l[i] = IF i <= k THEN s[i] ELSE IF i = k + 1 THEN x ELSE s[i - 1]
   BY <1>3
<1>8. Elements(l) = Elements(s) \cup {x}
   <2>1. ASSUME NEW e \in Elements(l) PROVE e \in Elements(s) \cup {x}
      <3>1. PICK i \in 1..(Len(s) + 1) : l[i] = e
         BY <1>6 DEF Elements
      <3>2. QED BY <3>1, <1>1, <1>2, <1>7 DEF Elements
   <2>2. x \in Elements(l)
      <3>1. k + 1 \in 1..(Len(s) + 1) /\ l[k + 1] = x
         BY <1>1, <1>2, <1>7
      <3>2. QED BY <3>1, <1>6 DEF Elements
   <2>3. ASSUME NEW e \in Elements(s) PROVE e \in Elements(l)
      <3>1. PICK i \in 1..Len(s) : s[i] = e
         BY DEF Elements
      <3>2. CASE i <= k
         <4>1. i \in 1..(Len(s) + 1) /\ l[i] = e
            BY <3>1, <3>2, <1>2, <1>7
         <4>2. QED BY <4>1, <1>6 DEF Elements
      <3>3. CASE i > k
         <4>1. i + 1 \in 1..(Len(s) + 1) /\ l[i + 1] = e
            BY <3>1, <3>3, <1>1, <1>2, <1>7
         <4>2. QED BY <4>1, <1>6 DEF Elements
      <3>4. QED BY <3>2, <3>3, <1>1, <1>2
   <2>4. QED BY <2>1, <2>2, <2>3
<1>9. QED BY <1>5, <1>6, <1>7, <1>8 DEF l, k

\* No entry occurs twice.
Distinct(s) == \A i, j \in 1..Len(s) : i # j => s[i] # s[j]

\* list_del makes a list that has one entry less, the others in their order.
LEMMA ListDel ==
    ASSUME NEW S, NEW s \in Seq(S), NEW x \in Elements(s)
    PROVE  /\ list_del(x, s) \in Seq(S)
           /\ Len(list_del(x, s)) = Len(s) - 1
           /\ \A i \in 1..(Len(s) - 1) :
                 list_del(x, s)[i] = IF i < Position(s, x) THEN s[i]
                                     ELSE s[i + 1]
           /\ Distinct(s) => Elements(list_del(x, s)) = Elements(s) \ {x}
<1> DEFINE k == Position(s, x)
           l == list_del(x, s)
<1>1. k \in 1..Len(s) /\ s[k] = x
   BY PositionOf
<1>2. Len(s) \in Nat /\ \A i \in 1..Len(s) : s[i] \in S
   BY LenProperties, ElementOfSeq
<1>3. l = [i \in 1..(Len(s) - 1) |-> IF i < k THEN s[i] ELSE s[i + 1]]
   BY DEF list_del
<1> HIDE DEF k, l
<1>4. l \in [1..(Len(s) - 1) -> S]
   BY <1>1, <1>2, <1>3
<1>5. l \in Seq(S)
   <2>1. Len(s) - 1 \in Nat
      BY <1>1, <1>2
   <2>2. QED BY <1>4, <2>1, SeqDef
<1>6. Len(l) = Len(s) - 1
   <2>1. DOMAIN l = 1..(Len(s) - 1) /\ DOMAIN l = 1..Len(l) /\ Len(l) \in Nat
      BY <1>4, <1>5, LenProperties
   <2>2. QED BY <2>1, <1>1, <1>2
<1>7. \A i \in 1..(Len(s) - 1) : l[i] = IF i < k THEN s[i] ELSE s[i + 1]
   BY <1>3
<1>8. ASSUME Distinct(s) PROVE Elements(l) = Elements(s) \ {x}
   <2>1. ASSUME NEW e \in Elements(l) PROVE e \in Elements(s) \ {x}
      <3>1. PICK i \in 1..(Len(s) - 1) : l[i] = e
         BY <1>6 DEF Elements
      <3>2. PICK j \in 1..Len(s) : j # k /\ s[j] = e
         BY <3>1, <1>1, <1>2, <1>7
      <3>3. QED BY <3>2, <1>1, <1>8 DEF Elements, Distinct
   <2>2. ASSUME NEW e \in Elements(s) \ {x} PROVE e \in Elements(l)
      <3>1. PICK i \in 1..Len(s) : s[i] = e
         BY DEF Elements
      <3>2. i # k
         BY <3>1, <1>1
      <3>3. CASE i < k
         <4>1. i \in 1..(Len(s) - 1) /\ l[i] = e
            BY <3>1, <3>3, <1>1, <1>2, <1>7
         <4>2. QED BY <4>1, <1>6 DEF Elements
      <3>4. CASE i > k
         <4>1. i - 1 \in 1..(Len(s) - 1) /\ l[i - 1] = e
            BY <3>1, <3>4, <1>1, <1>2, <1>7
         <4>2. QED BY <4>1, <1>6 DEF Elements
      <3>5. QED BY <3>2, <3>3, <3>4, <1>1, <1>2
   <2>3. QED BY <2>1, <2>2
<1>9. QED BY <1>5, <1>6, <1>7, <1>8 DEF l, k

\* Taking out the entry that was just put in restores the list.
LEMMA AddThenDel ==
    ASSUME NEW S, NEW s \in Seq(S), NEW x \in S, NEW y \in Elements(s),
           x \notin Elements(s)
    PROVE  list_del(x, list_add(x, y, s)) = s
<1> DEFINE k == Position(s, y)
           l == list_add(x, y, s)
           m == Position(l, x)
           d == list_del(x, l)
<1>1. Len(s) \in Nat /\ k \in 1..Len(s) /\ \A i \in 1..Len(s) : s[i] # x
   BY LenProperties, PositionOf DEF Elements
<1>2. /\ l \in Seq(S) /\ Len(l) = Len(s) + 1
      /\ \A i \in 1..(Len(s) + 1) :
            l[i] = IF i <= k THEN s[i] ELSE IF i = k + 1 THEN x ELSE s[i - 1]
      /\ x \in Elements(l)
   BY ListAdd
<1>3. m \in 1..Len(l) /\ l[m] = x
   BY <1>2, PositionOf
<1>4. /\ d \in Seq(S) /\ Len(d) = Len(l) - 1
      /\ \A i \in 1..(Len(l) - 1) : d[i] = IF i < m THEN l[i] ELSE l[i + 1]
   BY <1>2, ListDel
<1> HIDE DEF k, l, m, d
<1>5. m = k + 1
   <2>1. \A i \in 1..(Len(s) + 1) : i # k + 1 => l[i] # x
      BY <1>1, <1>2
   <2>2. QED BY <2>1, <1>1, <1>2, <1>3
<1>6. Len(d) = Len(s)
   BY <1>1, <1>2, <1>4
<1>7. ASSUME NEW i \in 1..Len(s) PROVE d[i] = s[i]
   <2>1. d[i] = IF i < k + 1 THEN l[i] ELSE l[i + 1]
      BY <1>1, <1>2, <1>4, <1>5
   <2>2. i \in 1..(Len(s) + 1) /\ i + 1 \in 1..(Len(s) + 1)
      BY <1>1
   <2>3. CASE i <= k
      BY <2>1, <2>2, <2>3, <1>1, <1>2
   <2>4. CASE i > k
      <3>1. l[i + 1] = s[(i + 1) - 1]
         BY <2>2, <2>4, <1>1, <1>2
      <3>2. QED BY <3>1, <2>1, <2>4, <1>1
   <2>5. QED BY <2>3, <2>4, <1>1
<1>8. d = s
   BY <1>4, <1>6, <1>7, SeqEqual
<1>9. QED BY <1>8 DEF d, l

\* list_add_tail appends; taking the entry out again restores the list.
LEMMA ListAddTail ==
    ASSUME NEW S, NEW s \in Seq(S), NEW x \in S
    PROVE  /\ list_add_tail(x, s) \in Seq(S)
           /\ Elements(list_add_tail(x, s)) = Elements(s) \cup {x}
           /\ Distinct(s) /\ x \notin Elements(s)
                 => Distinct(list_add_tail(x, s))
           /\ x \notin Elements(s) => list_del(x, list_add_tail(x, s)) = s
<1> DEFINE l == list_add_tail(x, s)
           m == Position(l, x)
           d == list_del(x, l)
<1>1. Len(s) \in Nat /\ \A i \in 1..Len(s) : s[i] \in S
   BY LenProperties, ElementOfSeq
<1>2. /\ l \in Seq(S) /\ Len(l) = Len(s) + 1
      /\ \A i \in 1..Len(s) : l[i] = s[i]
      /\ l[Len(s) + 1] = x
   BY <1>1 DEF list_add_tail
<1> HIDE DEF l
<1>3. Elements(l) = Elements(s) \cup {x}
   <2>1. Elements(l) = {l[i] : i \in 1..(Len(s) + 1)}
      BY <1>2 DEF Elements
   <2>2. 1..(Len(s) + 1) = (1..Len(s)) \cup {Len(s) + 1}
      BY <1>1
   <2>3. QED BY <2>1, <2>2, <1>2 DEF Elements
<1>4. ASSUME Distinct(s), x \notin Elements(s) PROVE Distinct(l)
   <2>1. \A i \in 1..Len(s) : s[i] # x
      BY <1>4 DEF Elements
   <2>2. QED BY <1>1, <1>2, <1>4, <2>1 DEF Distinct
<1>5. ASSUME x \notin Elements(s) PROVE d = s
   <2>1. \A i \in 1..Len(s) : s[i] # x
      BY <1>5 DEF Elements
   <2>2. m \in 1..Len(l) /\ l[m] = x
      BY <1>3, PositionOf
   <2>3. m = Len(s) + 1
      BY <1>1, <1>2, <2>1, <2>2
   <2>4. /\ d \in Seq(S) /\ Len(d) = Len(l) - 1
         /\ \A i \in 1..(Len(l) - 1) : d[i] = IF i < m THEN l[i] ELSE l[i + 1]
      BY <1>2, <1>3, ListDel
   <2> HIDE DEF d, m
   <2>5. Len(d) = Len(s) /\ \A i \in 1..Len(s) : d[i] = s[i]
      BY <1>1, <1>2, <2>3, <2>4
   <2>6. QED BY <2>4, <2>5, SeqEqual
<1>6. QED BY <1>2, <1>3, <1>4, <1>5 DEF l

-----------------------------------------------------------------------------
(* Lists in increasing order *)

Sorted(s) == \A i, j \in 1..Len(s) : i < j => s[i] < s[j]

LEMMA SortedIsDistinct ==
    ASSUME NEW S \in SUBSET Nat, NEW s \in Seq(S), Sorted(s)
    PROVE  Distinct(s)
<1>1. Len(s) \in Nat /\ \A i \in 1..Len(s) : s[i] \in Nat
   BY LenProperties, ElementOfSeq
<1>2. QED BY <1>1 DEF Sorted, Distinct

\* An entry that is put behind the greatest smaller one keeps the order.
LEMMA SortedAdd ==
    ASSUME NEW S \in SUBSET Nat, NEW s \in Seq(S), Sorted(s),
           NEW x \in S, x \notin Elements(s), NEW y \in Elements(s), y < x,
           \A z \in Elements(s) : z < x => z <= y
    PROVE  Sorted(list_add(x, y, s)) /\ list_add(x, y, s)[1] = s[1]
<1> DEFINE k == Position(s, y)
           l == list_add(x, y, s)
<1>1. Len(s) \in Nat /\ \A i \in 1..Len(s) : s[i] \in Nat
   BY LenProperties, ElementOfSeq
<1>2. k \in 1..Len(s) /\ s[k] = y
   BY PositionOf
<1>3. /\ Len(l) = Len(s) + 1
      /\ \A i \in 1..(Len(s) + 1) :
            l[i] = IF i <= k THEN s[i] ELSE IF i = k + 1 THEN x ELSE s[i - 1]
   BY ListAdd
<1>4. \A i \in 1..Len(s) : s[i] # x /\ (s[i] < x => s[i] <= y)
   BY DEF Elements
<1> HIDE DEF k, l
<1>5. \A i \in 1..Len(s) : i <= k => s[i] < x
   BY <1>1, <1>2 DEF Sorted
<1>6. \A i \in 1..Len(s) : i > k => x < s[i]
   BY <1>1, <1>2, <1>4 DEF Sorted
<1>7. ASSUME NEW i \in 1..Len(l), NEW j \in 1..Len(l), i < j
      PROVE  l[i] < l[j]
   <2>1. /\ l[i] = IF i <= k THEN s[i] ELSE IF i = k + 1 THEN x ELSE s[i - 1]
         /\ l[j] = IF j <= k THEN s[j] ELSE IF j = k + 1 THEN x ELSE s[j - 1]
      BY <1>3
   <2>2. i \in Nat /\ j \in Nat /\ 1 <= i /\ j <= Len(s) + 1 /\ k \in Nat
         /\ k <= Len(s)
      BY <1>1, <1>2, <1>3
   <2>3. CASE j <= k
      BY <2>1, <2>2, <2>3, <1>1, <1>7 DEF Sorted
   <2>4. CASE j = k + 1
      BY <2>1, <2>2, <2>4, <1>5, <1>7
   <2>5. CASE j > k + 1
      <3>1. j - 1 \in 1..Len(s) /\ l[j] = s[j - 1] /\ j - 1 > k
         BY <2>1, <2>2, <2>5
      <3>2. x < s[j - 1]
         BY <3>1, <1>6
      <3>3. CASE i <= k
         BY <2>1, <2>2, <3>1, <3>3, <1>1 DEF Sorted
      <3>4. CASE i = k + 1
         BY <2>1, <2>2, <3>1, <3>2, <3>4
      <3>5. CASE i > k + 1
         <4>1. i - 1 \in 1..Len(s) /\ l[i] = s[i - 1] /\ i - 1 < j - 1
            BY <2>1, <2>2, <3>5, <1>7
         <4>2. QED BY <4>1, <3>1 DEF Sorted
      <3>6. QED BY <3>3, <3>4, <3>5, <2>2
   <2>6. QED BY <2>3, <2>4, <2>5, <2>2
<1>8. l[1] = s[1]
   BY <1>1, <1>2, <1>3
<1>9. QED BY <1>7, <1>8 DEF Sorted, l

\* Taking out an entry keeps the order, and the first entry if it is another.
LEMMA SortedDel ==
    ASSUME NEW S \in SUBSET Nat, NEW s \in Seq(S), Sorted(s),
           NEW x \in Elements(s), s[1] # x
    PROVE  /\ Sorted(list_del(x, s))
           /\ Len(list_del(x, s)) >= 1
           /\ list_del(x, s)[1] = s[1]
<1> DEFINE k == Position(s, x)
           l == list_del(x, s)
<1>1. Len(s) \in Nat /\ \A i \in 1..Len(s) : s[i] \in Nat
   BY LenProperties, ElementOfSeq
<1>2. k \in 1..Len(s) /\ s[k] = x
   BY PositionOf
<1>3. /\ Len(l) = Len(s) - 1
      /\ \A i \in 1..(Len(s) - 1) : l[i] = IF i < k THEN s[i] ELSE s[i + 1]
   BY ListDel
<1> HIDE DEF k, l
<1>4. k > 1
   BY <1>1, <1>2
<1>5. Sorted(l)
   <2>1. ASSUME NEW i \in 1..Len(l), NEW j \in 1..Len(l), i < j
         PROVE  l[i] < l[j]
      <3>1. /\ l[i] = IF i < k THEN s[i] ELSE s[i + 1]
            /\ l[j] = IF j < k THEN s[j] ELSE s[j + 1]
         BY <1>3
      <3>2. /\ i \in 1..Len(s) /\ i + 1 \in 1..Len(s)
            /\ j \in 1..Len(s) /\ j + 1 \in 1..Len(s)
         BY <1>1, <1>3
      <3>3. QED BY <3>1, <3>2, <2>1, <1>1, <1>2 DEF Sorted
   <2>2. QED BY <2>1 DEF Sorted
<1>6. Len(l) >= 1 /\ l[1] = s[1]
   BY <1>1, <1>2, <1>3, <1>4
<1>7. QED BY <1>5, <1>6 DEF l

\* A set of list positions has a greatest one.
LEMMA GreatestExists ==
    ASSUME NEW n \in Nat, NEW T \in SUBSET (1..n), T # {}
    PROVE  \E i \in T : \A j \in T : j <= i
<1> DEFINE U == {n - i : i \in T}
           R == OpToRel(<, Nat)
<1>1. U \subseteq Nat /\ U # {}
   <2>1. PICK i \in T : TRUE
      OBVIOUS
   <2>2. n - i \in U
      BY <2>1
   <2>3. U \subseteq Nat
      OBVIOUS
   <2>4. QED BY <2>2, <2>3
<1>2. IsWellFoundedOn(R, Nat)
   BY NatLessThanWellFounded
<1> HIDE DEF U, R
<1>3. PICK u \in U : \A w \in U : ~(<<w, u>> \in R)
   BY <1>1, <1>2, WFMin
<1>4. \A w \in U : ~(w < u)
   BY <1>1, <1>3 DEF R, OpToRel
<1>5. PICK i \in T : u = n - i
   BY DEF U
<1>6. ASSUME NEW j \in T PROVE j <= i
   <2>1. ~(n - j < n - i)
      BY <1>4, <1>5 DEF U
   <2>2. QED BY <2>1
<1>7. QED BY <1>6

-----------------------------------------------------------------------------
(* The inductive invariant *)

TreeIds == {CIST} \cup Mstids

\* The lists of the per-tree ports, as the lists of trees and ports want them.
PortLinks(ts, ps) == [p \in PortNumbers |->
                        IF p \in Elements(ps) THEN ts ELSE <<>>]
TreeLinks(ts, ps) == [t \in TreeIds |->
                        IF t \in Elements(ts) THEN ps ELSE <<>>]

CommandOK ==
    \/ command = NoCommand
    \/ /\ command.table \in {"vid2fid", "fid2mstid"}
       /\ command = [ table |-> command.table, array |-> command.array,
                      left |-> command.left ]
       /\ command.left \in 0..MaxArguments
       /\ command.array \in [Indices(command.table) -> Nat]

\* The trees are in order, start with the CIST and are not too many.
ListInv == /\ trees \in Seq(TreeIds)
           /\ Len(trees) \in 1..(MAX_IMPLEMENTATION_MSTIS + 1)
           /\ trees[1] = CIST /\ Sorted(trees)
           /\ ports \in Seq(PortNumbers) /\ Distinct(ports)

LinkInv == /\ portTrees = PortLinks(trees, ports)
           /\ treePorts = TreeLinks(trees, ports)
           /\ begun = IF bridgeEnabled THEN PerTreePorts(ports, trees) ELSE {}

TableInv == /\ vid2fid \in [Vids -> Fids]
            /\ fid2mstid \in [Fids -> Elements(trees)]

DigestInv == /\ name \in Names
             /\ digest = Vid2Mstid(vid2fid, fid2mstid)
             /\ region \in [digest : [Vids -> TreeIds], name : Names]
             /\ bridgeEnabled => region = Identifier(digest, name)

RestInv == bridgeEnabled \in BOOLEAN /\ CommandOK /\ failures \in 0..MaxFailures

CfgInv == ListInv /\ LinkInv /\ TableInv /\ DigestInv /\ RestInv

LEMMA TreeIdsAreNat == TreeIds \subseteq Nat /\ CIST \in TreeIds
BY DEF TreeIds, CIST, Mstids

\* What follows from the order of the lists.
LEMMA ListFacts ==
    ASSUME ListInv
    PROVE  /\ Len(trees) \in Nat /\ Len(ports) \in Nat
           /\ \A i \in 1..Len(trees) : trees[i] \in Nat
           /\ Elements(trees) \subseteq TreeIds
           /\ Elements(ports) \subseteq PortNumbers
           /\ CIST \in Elements(trees)
           /\ Distinct(trees)
<1>1. Len(trees) \in Nat /\ Len(ports) \in Nat
   BY LenProperties DEF ListInv
<1>2. Elements(trees) \subseteq TreeIds /\ Elements(ports) \subseteq PortNumbers
   BY ElementOfSeq DEF ListInv, Elements
<1>3. \A i \in 1..Len(trees) : trees[i] \in Nat
   BY ElementOfSeq, TreeIdsAreNat DEF ListInv
<1>4. CIST \in Elements(trees)
   BY <1>1 DEF ListInv, Elements
<1>5. Distinct(trees)
   BY TreeIdsAreNat, SortedIsDistinct DEF ListInv
<1>6. QED BY <1>1, <1>2, <1>3, <1>4, <1>5

\* TreeAfter finds the tree with the greatest smaller MSTID.
LEMMA TreeAfterFound ==
    ASSUME ListInv, NEW m \in Mstids
    PROVE  /\ TreeAfter(m) \in Elements(trees)
           /\ TreeAfter(m) < m
           /\ \A z \in Elements(trees) : z < m => z <= TreeAfter(m)
<1> DEFINE smaller == {i \in 1..Len(trees) : trees[i] < m}
           k == CHOOSE i \in smaller : \A j \in smaller : j <= i
<1>1. Len(trees) \in Nat /\ \A i \in 1..Len(trees) : trees[i] \in Nat
   BY ListFacts
<1>2. 1 \in smaller
   BY DEF ListInv, CIST, Mstids
<1>3. \E i \in smaller : \A j \in smaller : j <= i
   <2>1. smaller \in SUBSET (1..Len(trees)) /\ smaller # {}
      BY <1>2
   <2> HIDE DEF smaller
   <2>2. QED BY <1>1, <2>1, GreatestExists
<1>4. k \in smaller /\ \A j \in smaller : j <= k
   BY <1>3
<1>5. TreeAfter(m) = trees[k]
   BY DEF TreeAfter
<1> HIDE DEF k
<1>6. TreeAfter(m) \in Elements(trees) /\ TreeAfter(m) < m
   BY <1>4, <1>5 DEF Elements
<1>7. ASSUME NEW z \in Elements(trees), z < m PROVE z <= TreeAfter(m)
   <2>1. PICK j \in 1..Len(trees) : trees[j] = z
      BY DEF Elements
   <2>2. j <= k
      BY <1>4, <1>7, <2>1
   <2>3. CASE j = k
      BY <2>1, <2>3, <1>1, <1>5
   <2>4. CASE j < k
      <3>1. trees[j] < trees[k]
         BY <2>4, <1>4 DEF ListInv, Sorted
      <3>2. QED BY <3>1, <2>1, <1>1, <1>4, <1>5
   <2>5. QED BY <2>2, <2>3, <2>4, <1>4
<1>8. QED BY <1>6, <1>7

\* The VID to MSTID mapping of tables of the right type.
LEMMA MappingType ==
    ASSUME ListInv, NEW v2f \in [Vids -> Fids],
           NEW f2m \in [Fids -> Elements(trees)]
    PROVE  Vid2Mstid(v2f, f2m) \in [Vids -> TreeIds]
BY ListFacts DEF Vid2Mstid

\* The invariant implies the properties that are checked.
LEMMA CfgInvImplies ==
    ASSUME CfgInv
    PROVE  CfgTypeOK /\ DigestCurrent /\ EveryFidHasTree /\ Mesh
<1> USE DEF CfgInv
<1>1. portTrees \in [PortNumbers -> Seq(TreeIds)]
   BY EmptySeq DEF LinkInv, PortLinks, ListInv
<1>2. treePorts \in [TreeIds -> Seq(PortNumbers)]
   BY EmptySeq DEF LinkInv, TreeLinks, ListInv
<1>3. begun \subseteq PortNumbers \X TreeIds
   BY ListFacts DEF LinkInv, PerTreePorts
<1>4. fid2mstid \in [Fids -> TreeIds] /\ digest \in [Vids -> TreeIds]
   BY ListFacts, MappingType DEF TableInv, DigestInv
<1>5. CfgTypeOK
   BY <1>1, <1>2, <1>3, <1>4
   DEF CfgTypeOK, ListInv, TableInv, DigestInv, RestInv, CommandOK, ListType,
       TreeIds
<1>6. Mesh
   BY DEF Mesh, ListInv, LinkInv, PortLinks, TreeLinks, Sorted, Distinct,
          TreeIds
<1>7. EveryFidHasTree
   BY DEF EveryFidHasTree, TableInv
<1>8. DigestCurrent
   BY DEF DigestCurrent, DigestInv
<1>9. QED BY <1>5, <1>6, <1>7, <1>8

-----------------------------------------------------------------------------
(* Every action preserves the invariant *)

\* A new bridge satisfies it.
LEMMA BridgeCreateInv ==
    /\ CfgInit => CfgInv
    /\ CfgInv /\ Recreate => CfgInv'
<1> DEFINE Made(en, ts, ps, pt, tp, v2f, f2m, d, n, bg, rg) ==
             /\ ts \in Seq(TreeIds) /\ Len(ts) = 1 /\ Elements(ts) = {CIST}
             /\ ts[1] = CIST /\ Sorted(ts)
             /\ ps \in Seq(PortNumbers) /\ Distinct(ps) /\ Elements(ps) = {}
             /\ pt = PortLinks(ts, ps) /\ tp = TreeLinks(ts, ps)
             /\ v2f \in [Vids -> Fids] /\ f2m \in [Fids -> {CIST}]
             /\ d = Vid2Mstid(v2f, f2m) /\ n \in Names
             /\ rg \in [digest : [Vids -> TreeIds], name : Names]
             /\ en = FALSE /\ bg = {}
<1>1. ASSUME NEW en, NEW ts, NEW ps, NEW pt, NEW tp, NEW v2f, NEW f2m, NEW d,
             NEW n, NEW bg, NEW rg,
             BridgeCreate(en, ts, ps, pt, tp, v2f, f2m, d, n, bg, rg)
      PROVE  Made(en, ts, ps, pt, tp, v2f, f2m, d, n, bg, rg)
   <2> USE <1>1 DEF BridgeCreate
   <2>1. /\ ts \in Seq(TreeIds) /\ Len(ts) = 1 /\ ts[1] = CIST
         /\ ps \in Seq(PortNumbers) /\ Len(ps) = 0
      BY TreeIdsAreNat
   <2>2. Elements(ts) = {CIST} /\ Elements(ps) = {}
      BY <2>1 DEF Elements
   <2>3. Sorted(ts) /\ Distinct(ps)
      BY <2>1 DEF Sorted, Distinct
   <2>4. pt = PortLinks(ts, ps) /\ tp = TreeLinks(ts, ps)
      BY <2>2 DEF PortLinks, TreeLinks, TreeIds
   <2>5. v2f \in [Vids -> Fids] /\ f2m \in [Fids -> {CIST}]
      BY MstConfigAssumption DEF Fids
   <2>6. rg \in [digest : [Vids -> TreeIds], name : Names]
      BY MstConfigAssumption, TreeIdsAreNat DEF NoRegion, Identifier
   <2>7. QED BY <2>1, <2>2, <2>3, <2>4, <2>5, <2>6, MstConfigAssumption
<1> HIDE DEF Made
<1>2. MAX_IMPLEMENTATION_MSTIS \in Nat /\ MaxFailures \in Nat
   BY MstConfigAssumption, StandardAssumption
<1>3. ASSUME CfgInit PROVE CfgInv
   <2>1. Made(bridgeEnabled, trees, ports, portTrees, treePorts, vid2fid,
              fid2mstid, digest, name, begun, region)
      BY <1>1, <1>3 DEF CfgInit
   <2>2. RestInv
      <3>1. bridgeEnabled \in BOOLEAN
         BY <2>1 DEF Made
      <3>2. CommandOK
         BY <1>3 DEF CfgInit, CommandOK
      <3>3. failures \in 0..MaxFailures
         BY <1>2, <1>3 DEF CfgInit
      <3>4. QED BY <3>1, <3>2, <3>3 DEF RestInv
   <2>3. QED BY <1>2, <2>1, <2>2
         DEF Made, CfgInv, ListInv, LinkInv, TableInv, DigestInv
<1>4. ASSUME CfgInv, Recreate PROVE CfgInv'
   <2>1. Made(bridgeEnabled', trees', ports', portTrees', treePorts', vid2fid',
              fid2mstid', digest', name', begun', region')
      BY <1>1, <1>4 DEF Recreate
   <2>2. RestInv'
      BY <1>4, <2>1 DEF Recreate, Made, CfgInv, RestInv, CommandOK
   <2>3. QED BY <1>2, <2>1, <2>2
         DEF Made, CfgInv, ListInv, LinkInv, TableInv, DigestInv
<1>5. QED BY <1>3, <1>4

\* A change of the tables, with the digest recomputed when it must be.
LEMMA RemapInv ==
    ASSUME CfgInv, NEW changed,
           NEW v2f \in [Vids -> Fids], NEW f2m \in [Fids -> Elements(trees)],
           ~changed => Vid2Mstid(v2f, f2m) = Vid2Mstid(vid2fid, fid2mstid),
           Remap(changed, v2f, f2m), CommandOK'
    PROVE  CfgInv'
<1> USE DEF CfgInv
<1>1. UNCHANGED <<bridgeEnabled, trees, ports, portTrees, treePorts, name,
                  failures>>
      /\ vid2fid' = v2f /\ fid2mstid' = f2m
   BY DEF Remap, lists
<1>2. ListInv' /\ TableInv' /\ RestInv'
   BY <1>1 DEF ListInv, TableInv, RestInv
<1>3. LinkInv' /\ DigestInv'
   <2>1. CASE changed
      <3>1. digest' = Vid2Mstid(v2f, f2m)
         BY <2>1 DEF Remap
      <3>2. digest' \in [Vids -> TreeIds]
         BY <3>1, MappingType
      <3>3. CASE bridgeEnabled
         <4>1. begun' = PerTreePorts(ports, trees)
               /\ region' = Identifier(digest', name)
            BY <2>1, <3>3 DEF Remap, br_state_machines_begin
         <4>2. QED BY <4>1, <3>1, <3>2, <3>3, <1>1
               DEF LinkInv, DigestInv, Identifier
      <3>4. CASE ~bridgeEnabled
         <4>1. UNCHANGED <<begun, region>>
            BY <2>1, <3>4 DEF Remap, br_state_machines_begin
         <4>2. QED BY <4>1, <3>1, <3>4, <1>1 DEF LinkInv, DigestInv
      <3>5. QED BY <3>3, <3>4
   <2>2. CASE ~changed
      <3>1. UNCHANGED <<digest, begun, region>>
         BY <2>2 DEF Remap
      <3>2. QED BY <3>1, <2>2, <1>1 DEF LinkInv, DigestInv
   <2>3. QED BY <2>1, <2>2
<1>4. QED BY <1>2, <1>3

LEMMA EnableInv ==
    ASSUME CfgInv, NEW up \in BOOLEAN, SetBridgeEnable(up)
    PROVE  CfgInv'
<1> USE DEF CfgInv, SetBridgeEnable
<1>1. UNCHANGED <<trees, ports, portTrees, treePorts, vid2fid, fid2mstid,
                  digest, name, command, failures>> /\ bridgeEnabled' = up
   BY DEF lists
<1>2. ListInv' /\ TableInv' /\ RestInv'
   BY <1>1 DEF ListInv, TableInv, RestInv, CommandOK
<1>3. LinkInv'
   BY <1>1 DEF LinkInv
<1>4. NoRegion \in [digest : [Vids -> TreeIds], name : Names]
   BY MstConfigAssumption, TreeIdsAreNat DEF NoRegion, Identifier
<1>5. digest \in [Vids -> TreeIds]
   BY MappingType DEF DigestInv, TableInv
<1>6. DigestInv'
   BY <1>1, <1>4, <1>5 DEF DigestInv, Identifier
<1>7. QED BY <1>2, <1>3, <1>6

\* All trees get a per-tree port for the new port.
LEMMA PortCreateInv ==
    ASSUME CfgInv, NEW p \in PortNumbers, PortCreate(p)
    PROVE  CfgInv'
<1> USE DEF CfgInv, PortCreate
<1>1. UNCHANGED <<bridgeEnabled, trees, vid2fid, fid2mstid, digest, name,
                  region, command, failures>>
   OBVIOUS
<1>2. TableInv' /\ DigestInv' /\ RestInv'
   BY <1>1 DEF TableInv, DigestInv, RestInv, CommandOK
<1>3. /\ ports' \in Seq(PortNumbers)
      /\ Elements(ports') = Elements(ports) \cup {p}
      /\ Distinct(ports')
   BY ListAddTail DEF ListInv
<1>4. ListInv'
   BY <1>1, <1>3 DEF ListInv
<1>5. SubSeq(trees, 1, Len(trees)) = trees
   BY SubSeqFull DEF ListInv
<1>6. portTrees' = PortLinks(trees, ports')
   <2>1. portTrees' = [portTrees EXCEPT ![p] = trees]
      BY <1>5 DEF PortTreesMade
   <2>2. QED BY <2>1, <1>3 DEF LinkInv, PortLinks
<1>7. treePorts' = TreeLinks(trees, ports')
   <2>1. treePorts' = [t \in TreeIds |-> IF t \in Elements(trees)
                                         THEN list_add_tail(p, treePorts[t])
                                         ELSE treePorts[t]]
      BY <1>5 DEF TreePortsMade, LinkInv, TreeLinks
   <2>2. QED BY <2>1 DEF LinkInv, TreeLinks
<1>8. begun' = IF bridgeEnabled THEN PerTreePorts(ports', trees) ELSE {}
   BY <1>3 DEF LinkInv, PerTreePorts
<1>9. QED BY <1>1, <1>2, <1>4, <1>6, <1>7, <1>8 DEF LinkInv

\* The per-tree ports made before the failure are all taken out again.
LEMMA PortCreateFailsInv ==
    ASSUME CfgInv, NEW p \in PortNumbers, NEW k \in 0..Len(trees),
           PortCreateFails(p, k)
    PROVE  CfgInv' /\ UNCHANGED <<trees, ports, portTrees, treePorts>>
<1> USE DEF CfgInv, PortCreateFails
<1>1. UNCHANGED <<bridgeEnabled, trees, ports, vid2fid, fid2mstid, digest, name,
                  begun, region, command>>
   OBVIOUS
<1>2. portTrees' = portTrees
   BY DEF PortTreesMade, LinkInv, PortLinks
<1>3. treePorts' = treePorts
   <2> DEFINE made == Elements(SubSeq(trees, 1, k))
   <2>1. PortTreesMade(p, k)[p] = SubSeq(trees, 1, k)
      BY DEF PortTreesMade, LinkInv, PortLinks
   <2>2. made \subseteq Elements(trees)
      <3>1. \A i \in 1..k : trees[i] \in Elements(trees)
         BY ListFacts DEF Elements
      <3>2. /\ Len(SubSeq(trees, 1, k)) = k
            /\ \A i \in 1..k : SubSeq(trees, 1, k)[i] = trees[i]
         <4>1. k \in Nat
            BY ListFacts
         <4>2. QED BY <4>1, <3>1, SubSeqProperties, EmptySeq
      <3>3. QED BY <3>1, <3>2 DEF Elements
   <2>3. DOMAIN treePorts = TreeIds
      BY DEF LinkInv, TreeLinks
   <2> HIDE DEF made
   <2>4. \A t \in TreeIds : t \in made =>
            list_del(p, list_add_tail(p, treePorts[t])) = treePorts[t]
      BY <2>2, ListAddTail DEF LinkInv, TreeLinks, ListInv
   <2>5. treePorts' = [t \in TreeIds |->
                         IF t \in made
                         THEN list_del(p, list_add_tail(p, treePorts[t]))
                         ELSE treePorts[t]]
      BY <2>1, <2>3 DEF TreePortsMade, made
   <2>6. QED BY <2>3, <2>4, <2>5 DEF LinkInv, TreeLinks
<1>4. RestInv'
   <2>1. failures' \in 0..MaxFailures
      BY MstConfigAssumption DEF RestInv
   <2>2. QED BY <1>1, <2>1 DEF RestInv, CommandOK
<1>5. QED BY <1>1, <1>2, <1>3, <1>4 DEF ListInv, LinkInv, TableInv, DigestInv

LEMMA DeletePortInv ==
    ASSUME CfgInv, NEW p \in PortNumbers, DeletePort(p)
    PROVE  CfgInv'
<1> USE DEF CfgInv, DeletePort
<1>1. UNCHANGED <<bridgeEnabled, trees, vid2fid, fid2mstid, digest, name,
                  region, command, failures>>
   OBVIOUS
<1>2. TableInv' /\ DigestInv' /\ RestInv'
   BY <1>1 DEF TableInv, DigestInv, RestInv, CommandOK
<1>3. /\ ports' \in Seq(PortNumbers)
      /\ Elements(ports') = Elements(ports) \ {p}
      /\ Len(ports') = Len(ports) - 1
      /\ \A i \in 1..(Len(ports) - 1) :
            ports'[i] = IF i < Position(ports, p) THEN ports[i]
                        ELSE ports[i + 1]
   BY ListDel DEF ListInv
<1>4. Distinct(ports')
   <2>1. Position(ports, p) \in 1..Len(ports) /\ Len(ports) \in Nat
      BY PositionOf, ListFacts
   <2>2. QED BY <1>3, <2>1 DEF ListInv, Distinct
<1>5. ListInv'
   BY <1>1, <1>3, <1>4 DEF ListInv
<1>6. portTrees' = PortLinks(trees, ports')
   BY <1>3 DEF LinkInv, PortLinks
<1>7. treePorts' = TreeLinks(trees, ports')
   BY DEF LinkInv, TreeLinks, PortLinks
<1>8. begun' = IF bridgeEnabled THEN PerTreePorts(ports', trees) ELSE {}
   BY <1>3 DEF LinkInv, PerTreePorts
<1>9. QED BY <1>1, <1>2, <1>5, <1>6, <1>7, <1>8 DEF LinkInv

\* A tree is created behind the one TreeAfter finds, on every port.
LEMMA CreateMstiInv ==
    ASSUME CfgInv, NEW m, CreateMsti(m)
    PROVE  CfgInv' /\ trees' \in Seq(TreeIds) /\ m \in Mstids
           /\ Elements(trees') = Elements(trees) \cup {m}
<1> DEFINE after == TreeAfter(m)
<1> USE DEF CfgInv
<1>1. UNCHANGED <<bridgeEnabled, ports, vid2fid, fid2mstid, digest, name,
                  region, command, failures>>
   BY DEF CreateMsti
<1>2. m \in Mstids /\ m \in TreeIds /\ m \notin Elements(trees)
      /\ ~(MAX_IMPLEMENTATION_MSTIS < Len(trees))
   BY DEF CreateMsti, MayCreateMsti, Mstids, TreeIds
<1>3. /\ after \in Elements(trees) /\ after < m
      /\ \A z \in Elements(trees) : z < m => z <= after
   BY <1>2, TreeAfterFound
<1>4. trees' = list_add(m, after, trees)
   BY DEF CreateMsti
<1> HIDE DEF after
<1>5. /\ trees' \in Seq(TreeIds)
      /\ Len(trees') = Len(trees) + 1
      /\ Elements(trees') = Elements(trees) \cup {m}
   <2>1. trees \in Seq(TreeIds)
      BY DEF ListInv
   <2>2. QED BY ONLY <2>1, <1>2, <1>3, <1>4, ListAdd
<1>6. Sorted(trees') /\ trees'[1] = CIST
   BY <1>2, <1>3, <1>4, TreeIdsAreNat, SortedAdd DEF ListInv
<1>7. ListInv'
   <2>1. Len(trees') \in 1..(MAX_IMPLEMENTATION_MSTIS + 1)
      <3>1. MAX_IMPLEMENTATION_MSTIS \in Nat
         BY MstConfigAssumption, StandardAssumption
      <3>2. QED BY <1>2, <1>5, <3>1 DEF ListInv
   <2>2. QED BY <1>1, <1>5, <1>6, <2>1 DEF ListInv
<1>8. treePorts[after] = ports /\ after \in TreeIds
   BY <1>3, ListFacts DEF LinkInv, TreeLinks
<1>9. portTrees' = PortLinks(trees', ports)
   <2>1. portTrees' = [q \in PortNumbers |->
                         IF q \in Elements(ports)
                         THEN list_add(m, after, portTrees[q])
                         ELSE portTrees[q]]
      BY <1>8 DEF CreateMsti, MstiLinked, after, Elements, LinkInv, PortLinks
   <2>2. QED BY <2>1, <1>4 DEF LinkInv, PortLinks
<1>10. treePorts' = TreeLinks(trees', ports)
   <2>1. treePorts' = [treePorts EXCEPT ![m] = ports]
      BY <1>8 DEF CreateMsti, after
   <2>2. QED BY <2>1, <1>2, <1>5 DEF LinkInv, TreeLinks
<1>11. begun' = IF bridgeEnabled THEN PerTreePorts(ports, trees') ELSE {}
   <2>1. begun' = IF bridgeEnabled THEN begun \cup (Elements(ports) \X {m})
                  ELSE begun
      BY <1>8 DEF CreateMsti, after
   <2>2. QED BY <2>1, <1>5 DEF LinkInv, PerTreePorts
<1>12. TableInv'
   BY <1>1, <1>5 DEF TableInv
<1>13. DigestInv' /\ RestInv'
   BY <1>1 DEF DigestInv, RestInv, CommandOK
<1>14. QED
   BY <1>1, <1>2, <1>5, <1>7, <1>9, <1>10, <1>11, <1>12, <1>13 DEF LinkInv

\* The per-tree ports of the tree that could not be created leave no trace.
LEMMA CreateMstiFailsInv ==
    ASSUME CfgInv, NEW m, NEW k \in Nat, CreateMstiFails(m, k)
    PROVE  CfgInv' /\ UNCHANGED <<trees, ports, portTrees, treePorts>>
<1> DEFINE after == TreeAfter(m)
           made == {treePorts[after][i] : i \in 1..k}
<1> USE DEF CfgInv
<1>1. UNCHANGED <<bridgeEnabled, trees, ports, treePorts, vid2fid, fid2mstid,
                  digest, name, begun, region, command>>
   BY DEF CreateMstiFails
<1>2. m \in Mstids /\ m \in TreeIds /\ m \notin Elements(trees)
   BY DEF CreateMstiFails, MayCreateMsti, Mstids, TreeIds
<1>3. after \in Elements(trees)
   BY <1>2, TreeAfterFound
<1>4. treePorts[after] = ports
   BY <1>3, ListFacts DEF LinkInv, TreeLinks
<1>5. made \subseteq Elements(ports)
   BY <1>4, ListFacts DEF CreateMstiFails, Elements
<1>6. portTrees' = [p \in PortNumbers |->
                      IF p \in made
                      THEN list_del(m, list_add(m, after, portTrees[p]))
                      ELSE portTrees[p]]
   BY DEF CreateMstiFails, MstiLinked, LinkInv, PortLinks
<1> HIDE DEF after, made
<1>7. list_del(m, list_add(m, after, trees)) = trees
   BY <1>2, <1>3, AddThenDel DEF ListInv
<1>8. portTrees' = portTrees
   BY <1>5, <1>6, <1>7 DEF LinkInv, PortLinks
<1>9. RestInv'
   <2>1. failures' \in 0..MaxFailures
      BY MstConfigAssumption DEF RestInv, CreateMstiFails
   <2>2. QED BY <1>1, <2>1 DEF RestInv, CommandOK
<1>10. QED BY <1>1, <1>8, <1>9 DEF ListInv, LinkInv, TableInv, DigestInv

\* Only a tree without FIDs is deleted, so the tables keep their trees.
LEMMA DeleteMstiInv ==
    ASSUME CfgInv, NEW m, DeleteMsti(m)
    PROVE  CfgInv' /\ m \in Mstids /\ Elements(trees') = Elements(trees) \ {m}
<1> USE DEF CfgInv, DeleteMsti
<1>1. UNCHANGED <<bridgeEnabled, ports, vid2fid, fid2mstid, digest, name,
                  region, command, failures>>
   OBVIOUS
<1>2. m \in Mstids /\ m \in TreeIds /\ m \in Elements(trees)
   BY DEF Mstids, TreeIds
<1>3. /\ trees' \in Seq(TreeIds)
      /\ Len(trees') = Len(trees) - 1
      /\ Elements(trees') = Elements(trees) \ {m}
   BY <1>2, ListDel, ListFacts DEF ListInv
<1>4. Sorted(trees') /\ Len(trees') >= 1 /\ trees'[1] = CIST
   <2>1. trees[1] # m
      BY <1>2 DEF ListInv, CIST, Mstids
   <2>2. QED BY <1>2, <2>1, TreeIdsAreNat, SortedDel DEF ListInv
<1>5. ListInv'
   <2>1. Len(trees') \in 1..(MAX_IMPLEMENTATION_MSTIS + 1)
      BY <1>3, <1>4, ListFacts, MstConfigAssumption, StandardAssumption
      DEF ListInv
   <2>2. QED BY <1>1, <1>3, <1>4, <2>1 DEF ListInv
<1>6. portTrees' = PortLinks(trees', ports)
   BY <1>2 DEF LinkInv, PortLinks, TreeLinks
<1>7. treePorts' = TreeLinks(trees', ports)
   BY <1>2, <1>3 DEF LinkInv, TreeLinks
<1>8. begun' = IF bridgeEnabled THEN PerTreePorts(ports, trees') ELSE {}
   BY <1>3 DEF LinkInv, PerTreePorts
<1>9. TableInv'
   BY <1>1, <1>3 DEF TableInv
<1>10. DigestInv' /\ RestInv'
   BY <1>1 DEF DigestInv, RestInv, CommandOK
<1>11. QED BY <1>1, <1>2, <1>3, <1>5, <1>6, <1>7, <1>8, <1>9, <1>10 DEF LinkInv

\* The commands for one VID or one FID.
LEMMA SetVid2fidInv ==
    ASSUME CfgInv, NEW v, NEW f, SetVid2fid(v, f)
    PROVE  CfgInv'
<1> DEFINE v2f == [vid2fid EXCEPT ![v] = f]
           changed == fid2mstid[f] # fid2mstid[vid2fid[v]]
<1>1. v \in Vids /\ f \in Fids /\ Remap(changed, v2f, fid2mstid)
   BY DEF SetVid2fid
<1>2. vid2fid \in [Vids -> Fids] /\ fid2mstid \in [Fids -> Elements(trees)]
   BY DEF CfgInv, TableInv
<1>3. v2f \in [Vids -> Fids]
   BY <1>1, <1>2
<1>4. ~changed => Vid2Mstid(v2f, fid2mstid) = Vid2Mstid(vid2fid, fid2mstid)
   BY <1>1, <1>2 DEF Vid2Mstid
<1>5. CommandOK'
   BY DEF SetVid2fid, CfgInv, RestInv, CommandOK
<1> HIDE DEF v2f, changed
<1>6. QED BY <1>1, <1>2, <1>3, <1>4, <1>5, RemapInv

LEMMA SetFid2mstidInv ==
    ASSUME CfgInv, NEW f, NEW m, SetFid2mstid(f, m)
    PROVE  CfgInv'
<1> DEFINE f2m == [fid2mstid EXCEPT ![f] = m]
           changed == fid2mstid[f] # m /\ \E v \in Vids : vid2fid[v] = f
<1>1. f \in Fids /\ m \in Elements(trees) /\ Remap(changed, vid2fid, f2m)
   BY DEF SetFid2mstid
<1>2. vid2fid \in [Vids -> Fids] /\ fid2mstid \in [Fids -> Elements(trees)]
   BY DEF CfgInv, TableInv
<1>3. f2m \in [Fids -> Elements(trees)]
   BY <1>1, <1>2
<1>4. ~changed => Vid2Mstid(vid2fid, f2m) = Vid2Mstid(vid2fid, fid2mstid)
   BY <1>1, <1>2 DEF Vid2Mstid
<1>5. CommandOK'
   BY DEF SetFid2mstid, CfgInv, RestInv, CommandOK
<1> HIDE DEF f2m, changed
<1>6. QED BY <1>1, <1>2, <1>3, <1>4, <1>5, RemapInv

\* The commands for a whole table.
LEMMA SetAllVids2fidsInv ==
    ASSUME CfgInv, NEW array \in [Vids -> Nat], SetAllVids2fids(array),
           CommandOK'
    PROVE  CfgInv'
<1> DEFINE v2f == [v \in Vids |-> IF array[v] > MAX_FID THEN vid2fid[v]
                                  ELSE array[v]]
           changed == \E v \in Vids : fid2mstid[v2f[v]] # fid2mstid[vid2fid[v]]
<1>1. Remap(changed, v2f, fid2mstid)
   BY DEF SetAllVids2fids
<1>2. vid2fid \in [Vids -> Fids] /\ fid2mstid \in [Fids -> Elements(trees)]
   BY DEF CfgInv, TableInv
<1>3. v2f \in [Vids -> Fids]
   <2>1. ASSUME NEW v \in Vids PROVE v2f[v] \in Fids
      <3>1. array[v] \in Nat /\ MAX_FID \in Nat
         BY MstConfigAssumption
      <3>2. QED BY <3>1, <1>2 DEF Fids
   <2>2. QED BY <2>1
<1>4. ~changed => Vid2Mstid(v2f, fid2mstid) = Vid2Mstid(vid2fid, fid2mstid)
   BY DEF Vid2Mstid
<1> HIDE DEF v2f, changed
<1>5. QED BY <1>1, <1>2, <1>3, <1>4, RemapInv

LEMMA SetAllFids2mstidsInv ==
    ASSUME CfgInv, NEW array \in [Fids -> Nat], SetAllFids2mstids(array),
           CommandOK'
    PROVE  CfgInv'
<1> DEFINE f2m == [f \in Fids |-> IF array[f] > MAX_MSTID THEN fid2mstid[f]
                                  ELSE array[f]]
           changed == \E v \in Vids :
                         fid2mstid[vid2fid[v]] # f2m[vid2fid[v]]
           known == \A f \in Fids : f2m[f] \in Elements(trees)
<1>1. CASE known
   <2>1. Remap(changed, vid2fid, f2m)
      BY <1>1 DEF SetAllFids2mstids
   <2>2. vid2fid \in [Vids -> Fids]
      BY DEF CfgInv, TableInv
   <2>3. f2m \in [Fids -> Elements(trees)]
      BY <1>1
   <2>4. ~changed => Vid2Mstid(vid2fid, f2m) = Vid2Mstid(vid2fid, fid2mstid)
      BY DEF Vid2Mstid
   <2> HIDE DEF f2m, changed
   <2>5. QED BY <2>1, <2>2, <2>3, <2>4, RemapInv
<1>2. CASE ~known
   <2>1. UNCHANGED <<bridgeEnabled, trees, ports, portTrees, treePorts, vid2fid,
                     fid2mstid, digest, name, begun, region, failures>>
      BY <1>2 DEF SetAllFids2mstids, lists
   <2>2. QED BY <2>1
         DEF CfgInv, ListInv, LinkInv, TableInv, DigestInv, RestInv
<1>3. QED BY <1>1, <1>2

LEMMA SetMstConfigIdInv ==
    ASSUME CfgInv, NEW n \in Names, SetMstConfigId(n)
    PROVE  CfgInv'
<1> USE DEF CfgInv
<1>1. UNCHANGED <<bridgeEnabled, trees, ports, portTrees, treePorts, vid2fid,
                  fid2mstid, digest, command, failures>> /\ name' = n
   BY DEF SetMstConfigId, lists
<1>2. ListInv' /\ TableInv' /\ RestInv'
   BY <1>1 DEF ListInv, TableInv, RestInv, CommandOK
<1>3. digest \in [Vids -> TreeIds]
   BY MappingType DEF DigestInv, TableInv
<1>4. CASE bridgeEnabled
   <2>1. begun' = PerTreePorts(ports, trees) /\ region' = Identifier(digest, n)
      BY <1>4 DEF SetMstConfigId, br_state_machines_begin
   <2>2. QED BY <1>1, <1>2, <1>3, <1>4, <2>1 DEF LinkInv, DigestInv, Identifier
<1>5. CASE ~bridgeEnabled
   <2>1. UNCHANGED <<begun, region>>
      BY <1>5 DEF SetMstConfigId, br_state_machines_begin
   <2>2. QED BY <1>1, <1>2, <1>5, <2>1 DEF LinkInv, DigestInv
<1>6. QED BY <1>4, <1>5

\* mstpctl builds the table it will send.
LEMMA CommandInv ==
    /\ \A t \in {"vid2fid", "fid2mstid"} : CfgInv /\ CommandStart(t) => CfgInv'
    /\ \A a \in Arguments : CfgInv /\ CommandArgument(a) => CfgInv'
    /\ CfgInv /\ CommandSend => CfgInv'
<1> DEFINE Rest == UNCHANGED <<bridgeEnabled, trees, ports, portTrees,
                               treePorts, vid2fid, fid2mstid, digest, name, begun, region,
                               failures>>
<1>1. ASSUME CfgInv, Rest, CommandOK' PROVE CfgInv'
   BY <1>1 DEF CfgInv, ListInv, LinkInv, TableInv, DigestInv, RestInv
<1>2. ASSUME NEW t \in {"vid2fid", "fid2mstid"}, CfgInv, CommandStart(t)
      PROVE  CfgInv'
   <2>1. Rest
      BY <1>2 DEF CommandStart, lists
   <2>2. command' = [ table |-> t, array |-> [i \in Indices(t) |-> Unset],
                      left |-> MaxArguments ]
      BY <1>2 DEF CommandStart
   <2>3. MaxArguments \in 0..MaxArguments
      BY MstConfigAssumption
   <2>4. [i \in Indices(t) |-> Unset] \in [Indices(t) -> Nat]
      BY DEF Unset
   <2>5. CommandOK'
      BY <2>2, <2>3, <2>4 DEF CommandOK
   <2>6. QED BY <1>1, <1>2, <2>1, <2>5
<1>3. ASSUME NEW a \in Arguments, CfgInv, CommandArgument(a)
      PROVE  CfgInv'
   <2>1. Rest
      BY <1>3 DEF CommandArgument, lists
   <2>2. CASE BadArgument(command.table, a)
      <3>1. CommandOK'
         BY <1>3, <2>2 DEF CommandArgument, CommandOK
      <3>2. QED BY <1>1, <1>3, <2>1, <3>1
   <2>3. CASE ~BadArgument(command.table, a)
      <3>1. command # NoCommand
         BY <1>3 DEF CommandArgument, NoCommand
      <3>2. /\ command.table \in {"vid2fid", "fid2mstid"}
            /\ command = [ table |-> command.table, array |-> command.array,
                           left |-> command.left ]
            /\ command.left \in 0..MaxArguments
            /\ command.array \in [Indices(command.table) -> Nat]
         BY <1>3, <3>1 DEF CfgInv, RestInv, CommandOK
      <3>3. command' = [command EXCEPT
                          !.array = ParseList(command.table, a, command.array),
                          !.left = command.left - 1]
            /\ command.left > 0
         BY <1>3, <2>3 DEF CommandArgument
      <3>4. command' = [ table |-> command.table,
                         array |-> ParseList(command.table, a, command.array),
                         left |-> command.left - 1 ]
         BY <3>2, <3>3
      <3>5. ParseList(command.table, a, command.array)
               \in [Indices(command.table) -> Nat]
         BY <3>2, MstConfigAssumption DEF ParseList
      <3>6. command.left - 1 \in 0..MaxArguments
         BY <3>2, <3>3, MstConfigAssumption
      <3>7. CommandOK'
         BY <3>2, <3>4, <3>5, <3>6 DEF CommandOK
      <3>8. QED BY <1>1, <1>3, <2>1, <3>7
   <2>4. QED BY <2>2, <2>3
<1>4. ASSUME CfgInv, CommandSend PROVE CfgInv'
   <2>1. CommandOK'
      BY <1>4 DEF CommandSend, CommandOK
   <2>2. /\ command.table \in {"vid2fid", "fid2mstid"}
         /\ command.array \in [Indices(command.table) -> Nat]
      BY <1>4 DEF CommandSend, CfgInv, RestInv, CommandOK
   <2>3. CASE command.table = "vid2fid"
      <3>1. SetAllVids2fids(command.array) /\ command.array \in [Vids -> Nat]
         BY <1>4, <2>2, <2>3 DEF CommandSend, Indices
      <3>2. QED BY <1>4, <2>1, <3>1, SetAllVids2fidsInv
   <2>4. CASE command.table = "fid2mstid"
      <3>1. SetAllFids2mstids(command.array) /\ command.array \in [Fids -> Nat]
         BY <1>4, <2>2, <2>4 DEF CommandSend, Indices
      <3>2. QED BY <1>4, <2>1, <3>1, SetAllFids2mstidsInv
   <2>5. QED BY <2>2, <2>3, <2>4
<1>5. QED BY <1>2, <1>3, <1>4

LEMMA CfgInvInductive == CfgInv /\ [CfgNext]_cfgVars => CfgInv'
<1> SUFFICES ASSUME CfgInv, [CfgNext]_cfgVars PROVE CfgInv'
   OBVIOUS
<1>1. CASE Recreate
   BY <1>1, BridgeCreateInv
<1>2. CASE \E up \in BOOLEAN : SetBridgeEnable(up)
   BY <1>2, EnableInv
<1>3. CASE \E p \in PortNumbers : PortCreate(p)
   BY <1>3, PortCreateInv
<1>4. CASE \E p \in PortNumbers : \E k \in 0..Len(trees) : PortCreateFails(p, k)
   BY <1>4, PortCreateFailsInv
<1>5. CASE \E p \in PortNumbers : DeletePort(p)
   BY <1>5, DeletePortInv
<1>6. CASE \E m \in 0..(MAX_MSTID + 1) : CreateMsti(m)
   BY <1>6, CreateMstiInv
<1>7. CASE \E m \in 0..(MAX_MSTID + 1) : \E k \in 0..Len(ports) :
              CreateMstiFails(m, k)
   <2>1. PICK m \in 0..(MAX_MSTID + 1), k \in 0..Len(ports) :
                 CreateMstiFails(m, k)
      BY <1>7
   <2>2. k \in Nat
      BY ListFacts DEF CfgInv
   <2>3. QED BY <2>1, <2>2, CreateMstiFailsInv
<1>8. CASE \E m \in 0..(MAX_MSTID + 1) : DeleteMsti(m)
   BY <1>8, DeleteMstiInv
<1>9. CASE \E v \in 0..(MAX_VID + 1), f \in 0..(MAX_FID + 1) : SetVid2fid(v, f)
   BY <1>9, SetVid2fidInv
<1>10. CASE \E f \in 0..(MAX_FID + 1), m \in 0..(MAX_MSTID + 1) :
               SetFid2mstid(f, m)
   BY <1>10, SetFid2mstidInv
<1>11. CASE \E n \in Names : SetMstConfigId(n)
   BY <1>11, SetMstConfigIdInv
<1>12. CASE \/ \E t \in {"vid2fid", "fid2mstid"} : CommandStart(t)
            \/ \E a \in Arguments : CommandArgument(a)
            \/ CommandSend
   BY <1>12, CommandInv
<1>13. CASE UNCHANGED cfgVars
   BY <1>13 DEF cfgVars, CfgInv, ListInv, LinkInv, TableInv, DigestInv, RestInv,
                CommandOK
<1>14. QED
   BY <1>1, <1>2, <1>3, <1>4, <1>5, <1>6, <1>7, <1>8, <1>9, <1>10, <1>11, <1>12,
      <1>13 DEF CfgNext

LEMMA CfgInvAlways == CfgSpec => []CfgInv
BY BridgeCreateInv, CfgInvInductive, PTL DEF CfgSpec

-----------------------------------------------------------------------------
(* The theorems *)

\* Whatever mstpctl sends, the tables hold FIDs and MSTIDs and the lists hold
\* trees and ports (the range checks of the MSTP_IN_set_ functions suffice).
THEOREM CfgTypeCorrect == CfgSpec => []CfgTypeOK
<1>1. CfgInv => CfgTypeOK
   BY CfgInvImplies
<1>2. QED BY <1>1, CfgInvAlways, PTL

\* The digest in the BPDUs is never stale, although RecalcConfigDigest is
\* skipped whenever a command leaves the VID to MSTID mapping alone, and the
\* state machines of an enabled bridge have begun anew since it changed.
THEOREM DigestAlwaysCurrent == CfgSpec => []DigestCurrent
<1>1. CfgInv => DigestCurrent
   BY CfgInvImplies
<1>2. QED BY <1>1, CfgInvAlways, PTL

\* No sequence of commands leaves a FID, and so a VLAN, without a tree: the
\* test of MSTP_IN_delete_msti is enough.
THEOREM FidsKeepTrees == CfgSpec => []EveryFidHasTree
<1>1. CfgInv => EveryFidHasTree
   BY CfgInvImplies
<1>2. QED BY <1>1, CfgInvAlways, PTL

\* Trees, ports and per-tree ports are always one mesh in the same order,
\* also after allocations that failed half way.
THEOREM MeshAlways == CfgSpec => []Mesh
<1>1. CfgInv => Mesh
   BY CfgInvImplies
<1>2. QED BY <1>1, CfgInvAlways, PTL

\* A BPDU that txMstp builds for n MSTIs is read by MSTP_IN_rx_bpdu with n.
LEMMA BpduRoundTrip ==
    ASSUME NEW ts, NEW n \in 0..MAX_STANDARD_MSTIS, Len(ts) = n + 1
    PROVE  /\ Received(txMstp(ts, protoMSTP)) = Valid(protoMSTP, n)
           /\ Received(txMstp(ts, protoRSTP)) = Valid(protoRSTP, 0)
<1>1. n \in Nat /\ n <= MAX_STANDARD_MSTIS /\ MAX_STANDARD_MSTIS \in Nat
      /\ MAX_STANDARD_MSTIS <= 64
   BY StandardAssumption
<1> DEFINE b == txMstp(ts, protoMSTP)
           r == txMstp(ts, protoRSTP)
<1>2. /\ b.type = "RST" /\ b.version = 3 /\ b.v1 = 0
      /\ b.v3 = 64 + n * 16 /\ b.size = 102 + n * 16
   BY <1>1 DEF txMstp, protoMSTP, MST_BPDU_VER3LEN_WO_MSTI_MSGS,
               MST_BPDU_SIZE_WO_MSTI_MSGS, MSTI_MSG_SIZE
<1>3. r.type = "RST" /\ r.version = 2 /\ r.size = 36
   BY DEF txMstp, txConfig, protoMSTP, protoRSTP, RST_BPDU_SIZE
<1> HIDE DEF b, r
<1>4. bridge_bpdu_rcv(Frame(b)) = 102 + n * 16
   BY <1>1, <1>2 DEF bridge_bpdu_rcv, Frame, LLC_PDU_LEN_U, ETH_HLEN, ETH_ZLEN,
                     ETH_DATA_LEN
<1>5. bridge_bpdu_rcv(Frame(r)) = 36
   BY <1>3 DEF bridge_bpdu_rcv, Frame, LLC_PDU_LEN_U, ETH_HLEN, ETH_ZLEN,
               ETH_DATA_LEN
<1>6. /\ (64 + n * 16) - 64 = n * 16
      /\ n * 16 >= 0 /\ n * 16 <= MAX_STANDARD_MSTIS * 16
      /\ (n * 16) % 16 = 0
      /\ (n * 16) \div 16 = n
   BY <1>1
<1>7. Received(b) = Valid(protoMSTP, n)
   <2>1. Received(b) = MSTP_IN_rx_bpdu(b, 102 + n * 16)
      BY <1>4 DEF Received
   <2>2. /\ ~(102 + n * 16 < TCN_BPDU_SIZE)
         /\ ~(102 + n * 16 < CONFIG_BPDU_SIZE)
         /\ ~(102 + n * 16 < MST_BPDU_SIZE_WO_MSTI_MSGS)
      BY <1>1 DEF TCN_BPDU_SIZE, CONFIG_BPDU_SIZE, MST_BPDU_SIZE_WO_MSTI_MSGS
   <2>3. /\ b.v3 - MST_BPDU_VER3LEN_WO_MSTI_MSGS = n * 16
         /\ (n * 16) % MSTI_MSG_SIZE = 0
         /\ (n * 16) \div MSTI_MSG_SIZE = n
         /\ ~(n * 16 < 0) /\ ~(n * 16 > MAX_STANDARD_MSTIS * MSTI_MSG_SIZE)
      BY <1>1, <1>2, <1>6 DEF MSTI_MSG_SIZE, MST_BPDU_VER3LEN_WO_MSTI_MSGS
   <2>4. /\ b.version # protoRSTP /\ ~(b.version < protoMSTP)
      BY <1>2 DEF protoMSTP, protoRSTP
   <2>5. MSTP_IN_rx_bpdu(b, 102 + n * 16) = Valid(protoMSTP, n)
      BY ONLY <2>2, <2>3, <2>4, <1>2, Zenon DEF MSTP_IN_rx_bpdu
   <2>6. QED BY <2>1, <2>5
<1>8. Received(r) = Valid(protoRSTP, 0)
   BY <1>3, <1>5 DEF Received, MSTP_IN_rx_bpdu, protoRSTP, protoMSTP,
                     TCN_BPDU_SIZE, RST_BPDU_SIZE
<1>9. QED BY <1>7, <1>8 DEF b, r

\* The limits of create_msti, get_mstilist, bpdu_t and the validation of
\* received BPDUs fit together for every number of MSTIs.
THEOREM MstiLimitAlways == CfgSpec => []MstiLimit
<1>1. ASSUME CfgInv PROVE MstiLimit
   <2>1. /\ Len(trees) \in 1..(MAX_IMPLEMENTATION_MSTIS + 1)
         /\ MAX_IMPLEMENTATION_MSTIS \in 0..MAX_STANDARD_MSTIS
         /\ MAX_STANDARD_MSTIS \in Nat
      BY <1>1, MstConfigAssumption, StandardAssumption DEF CfgInv, ListInv
   <2>2. GetMstilist = trees
      BY <2>1 DEF GetMstilist
   <2>3. Received(txConfig) = Valid(protoSTP, 0)
      BY DEF Received, txConfig, MSTP_IN_rx_bpdu, bridge_bpdu_rcv, Frame,
             TCN_BPDU_SIZE, CONFIG_BPDU_SIZE, LLC_PDU_LEN_U, ETH_HLEN, ETH_ZLEN,
             ETH_DATA_LEN
   <2>4. Received(txTcn) = Valid(protoSTP, 0)
      BY DEF Received, txTcn, txConfig, MSTP_IN_rx_bpdu, bridge_bpdu_rcv, Frame,
             TCN_BPDU_SIZE, LLC_PDU_LEN_U, ETH_HLEN, ETH_ZLEN, ETH_DATA_LEN
   <2>5. ASSUME NEW p \in Elements(ports)
         PROVE  LET b == txMstp(portTrees[p], protoMSTP)
                IN  /\ Len(b.mstis) <= MAX_STANDARD_MSTIS
                    /\ Received(b) = Valid(protoMSTP, Len(trees) - 1)
                    /\ Received(txMstp(portTrees[p], protoRSTP))
                          = Valid(protoRSTP, 0)
      <3>1. portTrees[p] = trees
         BY <1>1, ListFacts DEF CfgInv, LinkInv, PortLinks
      <3>2. Len(trees) - 1 \in 0..MAX_STANDARD_MSTIS
            /\ Len(trees) = (Len(trees) - 1) + 1
         BY <2>1
      <3>3. /\ Received(txMstp(trees, protoMSTP))
                  = Valid(protoMSTP, Len(trees) - 1)
            /\ Received(txMstp(trees, protoRSTP)) = Valid(protoRSTP, 0)
         BY ONLY <3>2, BpduRoundTrip
      <3>4. txMstp(trees, protoMSTP).mstis = Tail(trees)
         BY DEF txMstp, protoMSTP
      <3>5. Len(Tail(trees)) = Len(trees) - 1
         <4>1. trees \in Seq(TreeIds) /\ trees # <<>>
            BY <1>1, <2>1 DEF CfgInv, ListInv
         <4>2. QED BY <4>1, HeadTailProperties
      <3>6. QED BY <2>1, <3>1, <3>2, <3>3, <3>4, <3>5
   <2>6. QED BY <2>2, <2>3, <2>4, <2>5 DEF MstiLimit
<1>2. QED BY <1>1, CfgInvAlways, PTL

-----------------------------------------------------------------------------
(* The refinement *)

Mapping == Vid2Mstid(vid2fid, fid2mstid)

\* A step that keeps the trees reassigns VLANs or is a stuttering step.
LEMMA ReassignStep ==
    ASSUME CfgInv, CfgInv', trees' = trees
    PROVE  Va!Reassign \/ UNCHANGED Va!vaVars
<1>1. Mapping' \in [Vids -> Elements(trees)]
   <2>1. vid2fid' \in [Vids -> Fids] /\ fid2mstid' \in [Fids -> Elements(trees)]
      BY DEF CfgInv, TableInv
   <2>2. QED BY <2>1 DEF Mapping, Vid2Mstid
<1>2. digest' = Mapping'
   BY DEF CfgInv, DigestInv, Mapping
<1>3. QED BY <1>1, <1>2 DEF Va!Reassign, Mapping

LEMMA SameTables ==
    ASSUME UNCHANGED <<vid2fid, fid2mstid, digest>>
    PROVE  UNCHANGED <<Mapping, digest>>
BY DEF Mapping, Vid2Mstid

LEMMA ResetStep ==
    ASSUME Recreate
    PROVE  Va!Reset
<1>1. trees' = <<CIST>> /\ vid2fid' = [v \in Vids |-> 0]
      /\ fid2mstid' = [f \in Fids |-> CIST] /\ digest' = Mapping'
   BY DEF Recreate, BridgeCreate, Mapping
<1>2. Elements(trees') = {CIST}
   BY <1>1 DEF Elements
<1>3. Mapping' = [v \in Vids |-> CIST]
   BY <1>1, MstConfigAssumption DEF Mapping, Vid2Mstid, Fids
<1>4. QED BY <1>1, <1>2, <1>3 DEF Va!Reset, Va!AllOn, Mapping

\* The lists, tables and digest implement the abstract assignment of VLANs to
\* instances: every command of mstpctl, failed or not, is one abstract step
\* or none.
THEOREM ConfigurationRefines == CfgSpec => ImplementsVlanAssignment
<1>1. CfgInit => Va!VaInit
   <2> SUFFICES ASSUME CfgInit PROVE Va!VaInit
      OBVIOUS
   <2>1. trees = <<CIST>> /\ vid2fid = [v \in Vids |-> 0]
         /\ fid2mstid = [f \in Fids |-> CIST] /\ digest = Mapping
      BY DEF CfgInit, BridgeCreate, Mapping
   <2>2. Elements(trees) = {CIST}
      BY <2>1 DEF Elements
   <2>3. Mapping = [v \in Vids |-> CIST]
      BY <2>1, MstConfigAssumption DEF Mapping, Vid2Mstid, Fids
   <2>4. QED BY <2>1, <2>2, <2>3 DEF Va!VaInit, Va!AllOn, Mapping
<1>2. CfgInv /\ [CfgNext]_cfgVars => [Va!VaNext]_(Va!vaVars)
   <2> SUFFICES ASSUME CfgInv, [CfgNext]_cfgVars
                PROVE  Va!VaNext \/ UNCHANGED Va!vaVars
      OBVIOUS
   <2>1. CfgInv'
      BY CfgInvInductive
   <2>2. CASE Recreate
      BY <2>2, ResetStep DEF Va!VaNext
   <2>3. CASE \E m \in 0..(MAX_MSTID + 1) : CreateMsti(m)
      <3>1. PICK m : CreateMsti(m)
         BY <2>3
      <3>2. m \in Mstids /\ Elements(trees') = Elements(trees) \cup {m}
         BY <3>1, CreateMstiInv
      <3>3. UNCHANGED <<Mapping, digest>>
         BY <3>1, SameTables DEF CreateMsti
      <3>4. QED BY <3>2, <3>3 DEF Va!VaNext, Va!CreateInstance, Mapping
   <2>4. CASE \E m \in 0..(MAX_MSTID + 1) : DeleteMsti(m)
      <3>1. PICK m : DeleteMsti(m)
         BY <2>4
      <3>2. m \in Mstids /\ Elements(trees') = Elements(trees) \ {m}
         BY <3>1, DeleteMstiInv
      <3>3. UNCHANGED <<Mapping, digest>>
         BY <3>1, SameTables DEF DeleteMsti
      <3>4. \A v \in Vids : Mapping[v] # m
         BY <3>1 DEF DeleteMsti, Mapping, Vid2Mstid, CfgInv, TableInv
      <3>5. m # CIST
         BY <3>2 DEF CIST, Mstids
      <3>6. QED BY <3>2, <3>3, <3>4, <3>5
            DEF Va!VaNext, Va!DeleteInstance, Mapping
   <2>5. CASE trees' = trees
      BY <2>1, <2>5, ReassignStep DEF Va!VaNext
   <2>6. \/ Recreate
         \/ \E m \in 0..(MAX_MSTID + 1) : CreateMsti(m) \/ DeleteMsti(m)
         \/ trees' = trees
      BY DEF CfgNext, cfgVars, lists, SetBridgeEnable, PortCreate,
             PortCreateFails, DeletePort, CreateMstiFails, SetVid2fid,
             SetFid2mstid, SetMstConfigId, CommandStart, CommandArgument,
             CommandSend, SetAllVids2fids, SetAllFids2mstids, Remap
   <2>7. QED BY <2>2, <2>3, <2>4, <2>5, <2>6
<1>3. CfgSpec => Va!VaSpec
   BY <1>1, <1>2, CfgInvAlways, PTL DEF CfgSpec, Va!VaSpec
<1>4. QED BY <1>3 DEF ImplementsVlanAssignment
=============================================================================
