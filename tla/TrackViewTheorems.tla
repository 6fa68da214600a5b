------------------------- MODULE TrackViewTheorems --------------------------
(***************************************************************************)
(* ViewIsCurrent and KernelFollowsUnlessRaced hold of any number of        *)
(* bridges and ports, however many notifications are on their way: once    *)
(* everything has been read, mstpd has the kernel's bridges, ports and     *)
(* links, and the kernel has the port states mstpd asked for, but for the  *)
(* ports that were raced.                                                  *)
(*                                                                         *)
(* The argument is about the notifications in the socket.  For each        *)
(* interface the last one says what the kernel has now, two that follow    *)
(* each other fit together, and the first fits what mstpd has seen; an     *)
(* interface about which none is on its way is seen as it is.  A port      *)
(* about which one is on its way has the state the kernel gave it, which   *)
(* is the one mstpd will give it when it gets there; a port about which    *)
(* none is on its way has the state mstpd asked for.                       *)
(***************************************************************************)
EXTENDS BridgeTrackTheorems, WellFoundedInduction

\* The messages of sequence P about an interface.
Silent(P, i) == \A k \in 1..Len(P) : P[k].if # i
First(P, k) == \A j \in 1..Len(P) : P[j].if = P[k].if => k <= j
Last(P, k) == \A j \in 1..Len(P) : P[j].if = P[k].if => j <= k
Adjacent(P, j, k) == /\ j < k /\ P[j].if = P[k].if
                     /\ \A i \in 1..Len(P) : P[i].if = P[k].if => i <= j \/ k <= i

Up(m) == m.newlink /\ m.up

\* Message m says what the kernel, bridges kb and ports kp, has.
Matches(kb, kp, m) ==
    /\ m.if \in Bridges =>
          IF m.newlink THEN kb[m.if].exists = "yes" /\ kb[m.if].up = m.up
          ELSE kb[m.if].exists = "gone"
    /\ m.if \in Ports =>
          IF m.newlink THEN kp[m.if].master = m.master /\ kp[m.if].running = m.up
          ELSE kp[m.if].master = None

\* Message m can come next about a port for which the kernel has kp: a port
\* changes its bridge, and comes up again, only after it left or went down.
Continues(kp, m) ==
    m.if \in Ports =>
        /\ m.master # None => kp[m.if].master \in {None, m.master}
        /\ Up(m) => kp[m.if].master = None \/ ~kp[m.if].running

\* The same of two messages.
Fits(m, n) ==
    m.if \in Ports =>
        /\ n.master # None /\ m.newlink => m.master = n.master
        /\ ~(Up(m) /\ Up(n))

\* The messages in P against the kernel; those about interfaces in Y came from
\* a dump that is no longer right.
Queued(P, kb, kp, Y) ==
    /\ \A k \in 1..Len(P) : Last(P, k) /\ P[k].if \notin Y => Matches(kb, kp, P[k])
    /\ \A j, k \in 1..Len(P) : Adjacent(P, j, k) => Fits(P[j], P[k])
    /\ \A k \in 1..Len(P) : P[k].if \in Bridges /\ ~P[k].newlink =>
                                kb[P[k].if].exists = "gone"

\* mstpd has bridge b, or port p, as the kernel has it.
BridgeSeen(kb, d, b) == /\ d.br[b].known <=> kb[b].exists = "yes"
                        /\ d.br[b].known => d.br[b].up = kb[b].up
PortSeen(kp, d, p) == \A b \in Bridges :
                         /\ d.prt[b][p].known <=> kp[p].master = b
                         /\ d.prt[b][p].known => d.prt[b][p].up = kp[p].running

\* The view of mstpd against the kernel and the messages in P, for interfaces
\* not in X.
Seen(P, kb, kp, d, X) ==
    /\ \A b \in Bridges \ X : Silent(P, b) => BridgeSeen(kb, d, b)
    /\ \A p \in Ports \ X : Silent(P, p) => PortSeen(kp, d, p)

\* Message m can come next about a port that mstpd has as in d.
Awaited(d, m) == \A b \in Bridges :
                    /\ m.master # None /\ d.prt[b][m.if].known => b = m.master
                    /\ Up(m) => ~d.prt[b][m.if].up

Expected(P, d, X) ==
    \A k \in 1..Len(P) : First(P, k) /\ P[k].if \in Ports \ X => Awaited(d, P[k])

\* The kernel: the ports of a bridge leave it before it goes.
Kernels(kb, kp) ==
    /\ \A p \in Ports : kp[p].master # None => kb[kp[p].master].exists = "yes"
    /\ \A b \in Bridges : kb[b].exists # "yes" => ~kb[b].up

Stale == IF phase = "dump" THEN missed ELSE {}

\* The inductive invariant.
ViewInv ==
    /\ TrackInv
    /\ Kernels(kbr, kport)
    /\ Queued(pending, kbr, kport, Stale)
    /\ phase # "off" => /\ Seen(pending, kbr, kport, Daemon, missed)
                        /\ Expected(pending, Daemon, missed)
    /\ phase = "off" => /\ pending = <<>>
                        /\ Daemon.br = [b \in Bridges |-> NoBr]
                        /\ Daemon.prt = [b \in Bridges |-> [p \in Ports |-> NoPrt]]

-----------------------------------------------------------------------------
(* Messages come in and are read *)

KBrs == [Bridges -> KBrRecs]
KPorts == [Ports -> KPortRecs]

\* The kernel has interface i as before.
SameFor(kb, kp, kc, kq, i) ==
    /\ i \in Bridges => kc[i].exists = kb[i].exists /\ kc[i].up = kb[i].up
    /\ i \in Ports => /\ kq[i].master = kp[i].master
                      /\ kp[i].master # None => kq[i].running = kp[i].running

\* What the kernel says of an interface that is as before is still right.
LEMMA StillMatches ==
    ASSUME NEW kb, NEW kp, NEW kc, NEW kq, NEW m \in Messages,
           Matches(kb, kp, m), SameFor(kb, kp, kc, kq, m.if)
    PROVE  Matches(kc, kq, m)
<1>1. m.if \in Ports /\ m.newlink => m.master # None
   BY TrackAssumption DEF Messages
<1>2. QED BY <1>1 DEF Matches, SameFor

\* An interface that the kernel has as before is still seen.
LEMMA StillSeen ==
    ASSUME NEW kb, NEW kp, NEW kc, NEW kq, NEW d
    PROVE  /\ \A b \in Bridges : /\ BridgeSeen(kb, d, b)
                                 /\ SameFor(kb, kp, kc, kq, b)
                                 => BridgeSeen(kc, d, b)
           /\ \A p \in Ports : /\ PortSeen(kp, d, p)
                               /\ SameFor(kb, kp, kc, kq, p)
                               => PortSeen(kq, d, p)
<1>1. ASSUME NEW b \in Bridges, BridgeSeen(kb, d, b), SameFor(kb, kp, kc, kq, b)
      PROVE  BridgeSeen(kc, d, b)
   BY <1>1 DEF BridgeSeen, SameFor
<1>2. ASSUME NEW p \in Ports, PortSeen(kp, d, p), SameFor(kb, kp, kc, kq, p)
      PROVE  PortSeen(kq, d, p)
  <2>1. \A b \in Bridges : b # None BY TrackAssumption
  <2>2. QED BY <2>1, <1>2 DEF PortSeen, SameFor
<1>3. QED BY <1>1, <1>2

\* A message that matches the kernel fits one that can come next.
LEMMA MatchFits ==
    ASSUME NEW kb, NEW kp, NEW m \in Messages, NEW n \in Messages,
           m.if = n.if, Matches(kb, kp, m), Continues(kp, n)
    PROVE  Fits(m, n)
<1>1. m.if \in Ports /\ m.newlink => m.master # None
   BY TrackAssumption DEF Messages
<1>2. QED BY <1>1 DEF Matches, Continues, Fits, Up

\* A port that is seen awaits a message that can come next.
LEMMA SeenAwaits ==
    ASSUME NEW kp, NEW d, Good(d), NEW m \in Messages, m.if \in Ports,
           PortSeen(kp, d, m.if), Continues(kp, m)
    PROVE  Awaited(d, m)
<1>1. \A b \in Bridges : b # None BY TrackAssumption
<1>2. \A b \in Bridges : d.prt[b][m.if].up => d.prt[b][m.if].known
   BY RulesOf DEF PortRule
<1>3. QED BY <1>1, <1>2 DEF PortSeen, Continues, Awaited

\* The kernel goes from kb, kp to kc, kq and sends the messages M, each about
\* another interface.
LEMMA Sent ==
    ASSUME NEW P \in Seq(Messages), NEW M \in Seq(Messages),
           NEW kb, NEW kp, NEW kc, NEW kq, NEW d, Good(d), NEW X,
           Queued(P, kb, kp, {}), Seen(P, kb, kp, d, X), Expected(P, d, X),
           \A j, k \in 1..Len(M) : M[j].if = M[k].if => j = k,
           \A k \in 1..Len(M) : Matches(kc, kq, M[k]) /\ Continues(kp, M[k]),
           \A i \in Bridges \cup Ports : Silent(M, i) => SameFor(kb, kp, kc, kq, i),
           \A b \in Bridges : kb[b].exists = "gone" => kc[b].exists = "gone"
    PROVE  /\ Queued(P \o M, kc, kq, {})
           /\ Seen(P \o M, kc, kq, d, X)
           /\ Expected(P \o M, d, X)
<1> DEFINE Q == P \o M
           n == Len(P)
<1>1. /\ n \in Nat /\ Len(M) \in Nat /\ Len(Q) = n + Len(M)
      /\ \A k \in 1..n : k \in 1..Len(Q) /\ Q[k] = P[k] /\ P[k] \in Messages
      /\ \A k \in 1..Len(Q) : k \notin 1..n =>
             k - n \in 1..Len(M) /\ Q[k] = M[k - n] /\ Q[k] \in Messages
      /\ \A k \in 1..Len(M) : k + n \in 1..Len(Q) /\ Q[k + n] = M[k]
   OBVIOUS
<1>2. \A m \in Messages : m.if \in Bridges \cup Ports BY DEF Messages
<1> HIDE DEF Q
<1>3. ASSUME NEW k \in 1..Len(Q), Last(Q, k) PROVE Matches(kc, kq, Q[k])
  <2>1. CASE k \in 1..n
    <3>1. Last(P, k) BY <2>1, <1>1, <1>3 DEF Last
    <3>2. Matches(kb, kp, P[k]) BY <3>1, <2>1 DEF Queued
    <3>3. Silent(M, P[k].if)
      <4> SUFFICES ASSUME NEW j \in 1..Len(M), M[j].if = P[k].if PROVE FALSE
         BY DEF Silent
      <4>1. j + n <= k BY <2>1, <1>1, <1>3 DEF Last
      <4>2. QED BY <4>1, <2>1, <1>1
    <3>4. SameFor(kb, kp, kc, kq, P[k].if) BY <3>3, <2>1, <1>1, <1>2
    <3>5. QED BY <3>2, <3>4, <2>1, <1>1, StillMatches
  <2>2. CASE k \notin 1..n BY <2>2, <1>1
  <2>3. QED BY <2>1, <2>2
<1>4. ASSUME NEW j \in 1..Len(Q), NEW k \in 1..Len(Q), Adjacent(Q, j, k)
      PROVE  Fits(Q[j], Q[k])
  <2>1. CASE k \in 1..n
    <3>1. j \in 1..n BY <2>1, <1>1, <1>4 DEF Adjacent
    <3>2. Adjacent(P, j, k) BY <3>1, <2>1, <1>1, <1>4 DEF Adjacent
    <3>3. QED BY <3>1, <3>2, <2>1, <1>1 DEF Queued
  <2>2. CASE k \notin 1..n
    <3>1. j \in 1..n
      <4> SUFFICES ASSUME j \notin 1..n PROVE FALSE OBVIOUS
      <4>1. j - n \in 1..Len(M) /\ k - n \in 1..Len(M) /\ j < k
         BY <2>2, <1>1, <1>4 DEF Adjacent
      <4>2. M[j - n].if = M[k - n].if BY <2>2, <1>1, <1>4 DEF Adjacent
      <4>3. j - n = k - n BY <4>1, <4>2
      <4>4. QED BY <4>1, <4>3, <1>1
    <3>2. Last(P, j)
      <4> SUFFICES ASSUME NEW i \in 1..n, P[i].if = P[j].if PROVE i <= j
         BY DEF Last
      <4>1. Q[i].if = Q[k].if BY <3>1, <1>1, <1>4 DEF Adjacent
      <4>2. i <= j \/ k <= i BY <4>1, <1>1, <1>4 DEF Adjacent
      <4>3. QED BY <4>2, <2>2, <1>1
    <3>3. Matches(kb, kp, P[j]) BY <3>1, <3>2 DEF Queued
    <3>4. Q[k] = M[k - n] /\ k - n \in 1..Len(M) /\ Q[k] \in Messages
       BY <2>2, <1>1
    <3>5. Continues(kp, Q[k]) BY <3>4
    <3>6. P[j].if = Q[k].if /\ P[j] \in Messages BY <3>1, <1>1, <1>4 DEF Adjacent
    <3>7. Fits(P[j], Q[k]) BY <3>3, <3>4, <3>5, <3>6, MatchFits
    <3>8. QED BY <3>1, <3>7, <1>1
  <2>3. QED BY <2>1, <2>2
<1>5. ASSUME NEW k \in 1..Len(Q), Q[k].if \in Bridges, ~Q[k].newlink
      PROVE  kc[Q[k].if].exists = "gone"
  <2>1. CASE k \in 1..n BY <2>1, <1>1, <1>5 DEF Queued
  <2>2. CASE k \notin 1..n
    <3>1. Matches(kc, kq, Q[k]) BY <2>2, <1>1
    <3>2. QED BY <3>1, <1>5 DEF Matches
  <2>3. QED BY <2>1, <2>2
<1>6. Queued(Q, kc, kq, {}) BY <1>3, <1>4, <1>5 DEF Queued
<1>7. \A i : Silent(Q, i) => Silent(P, i) /\ Silent(M, i)
   BY <1>1 DEF Silent
<1>8. Seen(Q, kc, kq, d, X)
  <2>1. ASSUME NEW b \in Bridges \ X, Silent(Q, b) PROVE BridgeSeen(kc, d, b)
    <3>1. BridgeSeen(kb, d, b) BY <2>1, <1>7 DEF Seen
    <3>2. SameFor(kb, kp, kc, kq, b) BY <2>1, <1>7
    <3>3. QED BY <3>1, <3>2, StillSeen
  <2>2. ASSUME NEW p \in Ports \ X, Silent(Q, p) PROVE PortSeen(kq, d, p)
    <3>1. PortSeen(kp, d, p) BY <2>2, <1>7 DEF Seen
    <3>2. SameFor(kb, kp, kc, kq, p) BY <2>2, <1>7
    <3>3. QED BY <3>1, <3>2, StillSeen
  <2>3. QED BY <2>1, <2>2 DEF Seen
<1>9. ASSUME NEW k \in 1..Len(Q), First(Q, k), Q[k].if \in Ports \ X
      PROVE  Awaited(d, Q[k])
  <2>1. CASE k \in 1..n
    <3>1. First(P, k) BY <2>1, <1>1, <1>9 DEF First
    <3>2. QED BY <3>1, <2>1, <1>1, <1>9 DEF Expected
  <2>2. CASE k \notin 1..n
    <3>1. Silent(P, Q[k].if)
      <4> SUFFICES ASSUME NEW j \in 1..n, P[j].if = Q[k].if PROVE FALSE
         BY DEF Silent
      <4>1. k <= j BY <1>1, <1>9 DEF First
      <4>2. QED BY <4>1, <2>2, <1>1
    <3>2. PortSeen(kp, d, Q[k].if) BY <3>1, <1>9 DEF Seen
    <3>3. Q[k] \in Messages /\ Continues(kp, Q[k]) BY <2>2, <1>1
    <3>4. QED BY <3>2, <3>3, <1>9, SeenAwaits
  <2>3. QED BY <2>1, <2>2
<1>10. Expected(Q, d, X) BY <1>9 DEF Expected
<1>11. QED BY <1>6, <1>8, <1>10 DEF Q

\* The kernel changes only what concerns the interfaces in X, of which mstpd
\* will not hear.
LEMMA QueuedUnheard ==
    ASSUME NEW P \in Seq(Messages), NEW kb, NEW kp, NEW kc, NEW kq, NEW Y, NEW X,
           Queued(P, kb, kp, Y), \A i \in Y : i \in X,
           \A b \in Bridges : kb[b].exists = "gone" => kc[b].exists = "gone",
           \A i \in Bridges \cup Ports : SameFor(kb, kp, kc, kq, i) \/ i \in X
    PROVE  Queued(P, kc, kq, X)
<1>1. \A k \in 1..Len(P) : P[k] \in Messages /\ P[k].if \in Bridges \cup Ports
   BY DEF Messages
<1>2. ASSUME NEW k \in 1..Len(P), Last(P, k), P[k].if \notin X
      PROVE  Matches(kc, kq, P[k])
  <2>1. Matches(kb, kp, P[k]) BY <1>2 DEF Queued
  <2>2. SameFor(kb, kp, kc, kq, P[k].if) BY <1>1, <1>2
  <2>3. QED BY <2>1, <2>2, <1>1, StillMatches
<1>3. QED BY <1>2 DEF Queued

\* What was seen still is when only interfaces in doubt change.
LEMMA SeenUnheard ==
    ASSUME NEW P, NEW kb, NEW kp, NEW kc, NEW kq, NEW d, NEW Y, NEW X,
           Seen(P, kb, kp, d, Y), \A i \in Y : i \in X,
           \A i \in Bridges \cup Ports : SameFor(kb, kp, kc, kq, i) \/ i \in X
    PROVE  Seen(P, kc, kq, d, X)
<1>1. ASSUME NEW b \in Bridges \ X, Silent(P, b) PROVE BridgeSeen(kc, d, b)
  <2>1. BridgeSeen(kb, d, b) BY <1>1 DEF Seen
  <2>2. SameFor(kb, kp, kc, kq, b) BY <1>1
  <2>3. QED BY <2>1, <2>2, StillSeen
<1>2. ASSUME NEW p \in Ports \ X, Silent(P, p) PROVE PortSeen(kq, d, p)
  <2>1. PortSeen(kp, d, p) BY <1>2 DEF Seen
  <2>2. SameFor(kb, kp, kc, kq, p) BY <1>2
  <2>3. QED BY <2>1, <2>2, StillSeen
<1>3. QED BY <1>1, <1>2 DEF Seen

\* The links mstpd has seen are the same in d and in e.
LEMMA SameSeen ==
    ASSUME NEW P, NEW kb, NEW kp, NEW d, NEW e, NEW X,
           Seen(P, kb, kp, d, X), Expected(P, d, X),
           \A b \in Bridges \ X : Silent(P, b) =>
               e.br[b].known = d.br[b].known /\ e.br[b].up = d.br[b].up,
           \A b \in Bridges, p \in Ports : SameLink(d, e, b, p)
    PROVE  Seen(P, kb, kp, e, X) /\ Expected(P, e, X)
<1>1. ASSUME NEW b \in Bridges \ X, Silent(P, b) PROVE BridgeSeen(kb, e, b)
  <2>1. BridgeSeen(kb, d, b) BY <1>1 DEF Seen
  <2>2. QED BY <2>1, <1>1 DEF BridgeSeen
<1>2. ASSUME NEW p \in Ports \ X, Silent(P, p) PROVE PortSeen(kp, e, p)
  <2>1. PortSeen(kp, d, p) BY <1>2 DEF Seen
  <2>2. QED BY <2>1 DEF PortSeen, SameLink
<1>3. ASSUME NEW k \in 1..Len(P), First(P, k), P[k].if \in Ports \ X
      PROVE  Awaited(e, P[k])
  <2>1. Awaited(d, P[k]) BY <1>3 DEF Expected
  <2>2. \A b \in Bridges : SameLink(d, e, b, P[k].if) BY <1>3
  <2>3. QED BY <2>1, <2>2 DEF Awaited, SameLink
<1>4. QED BY <1>1, <1>2, <1>3 DEF Seen, Expected

\* What is left when the first message is taken.
LEMMA Taken ==
    ASSUME NEW P \in Seq(Messages), P # <<>>, NEW kb, NEW kp, NEW Y,
           Queued(P, kb, kp, Y)
    PROVE  LET T == Tail(P)
               m == Head(P)
           IN  /\ Queued(T, kb, kp, Y)
               /\ m \in Messages /\ m = P[1] /\ 1 \in 1..Len(P) /\ First(P, 1)
               /\ Silent(T, m.if) => Last(P, 1)
               /\ \A i : i # m.if /\ Silent(T, i) => Silent(P, i)
               /\ \A k \in 1..Len(T) :
                     /\ k + 1 \in 1..Len(P) /\ P[k + 1] = T[k]
                     /\ T[k] \in Messages
                     /\ First(T, k) =>
                           IF T[k].if = m.if THEN Adjacent(P, 1, k + 1)
                           ELSE First(P, k + 1)
<1> DEFINE T == Tail(P)
           m == Head(P)
<1>1. /\ Len(P) \in Nat /\ Len(P) >= 1 /\ Len(T) = Len(P) - 1
      /\ \A k \in 1..Len(T) : k + 1 \in 1..Len(P) /\ T[k] = P[k + 1]
                              /\ P[k + 1] \in Messages
      /\ \A k \in 1..Len(P) : k # 1 => k - 1 \in 1..Len(T) /\ T[k - 1] = P[k]
      /\ m = P[1] /\ P[1] \in Messages /\ 1 \in 1..Len(P)
   OBVIOUS
<1> HIDE DEF T, m
<1>2. First(P, 1) BY <1>1 DEF First
<1>3. Silent(T, m.if) => Last(P, 1)
  <2> SUFFICES ASSUME Silent(T, m.if), NEW j \in 1..Len(P), P[j].if = P[1].if
               PROVE  j <= 1
     BY DEF Last
  <2>1. j = 1 BY <1>1 DEF Silent
  <2>2. QED BY <2>1
<1>4. ASSUME NEW i, i # m.if, Silent(T, i) PROVE Silent(P, i)
   BY <1>1, <1>4 DEF Silent
<1>5. ASSUME NEW k \in 1..Len(T), First(T, k), T[k].if = m.if
      PROVE  Adjacent(P, 1, k + 1)
  <2> SUFFICES ASSUME NEW i \in 1..Len(P), P[i].if = P[k + 1].if
               PROVE  i <= 1 \/ k + 1 <= i
     BY <1>1, <1>5 DEF Adjacent
  <2>1. CASE i = 1 BY <2>1
  <2>2. CASE i # 1
    <3>1. i - 1 \in 1..Len(T) /\ T[i - 1].if = T[k].if BY <2>2, <1>1
    <3>2. k <= i - 1 BY <3>1, <1>5 DEF First
    <3>3. QED BY <3>1, <3>2, <1>1
  <2>3. QED BY <2>1, <2>2
<1>6. ASSUME NEW k \in 1..Len(T), First(T, k), T[k].if # m.if
      PROVE  First(P, k + 1)
  <2> SUFFICES ASSUME NEW i \in 1..Len(P), P[i].if = P[k + 1].if
               PROVE  k + 1 <= i
     BY DEF First
  <2>1. i # 1 BY <1>1, <1>6
  <2>2. i - 1 \in 1..Len(T) /\ T[i - 1].if = T[k].if BY <2>1, <1>1
  <2>3. k <= i - 1 BY <2>2, <1>6 DEF First
  <2>4. QED BY <2>2, <2>3, <1>1
<1>7. Queued(T, kb, kp, Y)
  <2>1. ASSUME NEW k \in 1..Len(T), Last(T, k), T[k].if \notin Y
        PROVE  Matches(kb, kp, T[k])
    <3>1. Last(P, k + 1)
      <4> SUFFICES ASSUME NEW i \in 1..Len(P), P[i].if = P[k + 1].if
                   PROVE  i <= k + 1
         BY DEF Last
      <4>1. CASE i = 1 BY <4>1, <1>1
      <4>2. CASE i # 1
        <5>1. i - 1 \in 1..Len(T) /\ T[i - 1].if = T[k].if BY <4>2, <1>1
        <5>2. i - 1 <= k BY <5>1, <2>1 DEF Last
        <5>3. QED BY <5>1, <5>2, <1>1
      <4>3. QED BY <4>1, <4>2
    <3>2. QED BY <3>1, <2>1, <1>1 DEF Queued
  <2>2. ASSUME NEW j \in 1..Len(T), NEW k \in 1..Len(T), Adjacent(T, j, k)
        PROVE  Fits(T[j], T[k])
    <3>1. Adjacent(P, j + 1, k + 1)
      <4> SUFFICES ASSUME NEW i \in 1..Len(P), P[i].if = P[k + 1].if
                   PROVE  i <= j + 1 \/ k + 1 <= i
         BY <2>2, <1>1 DEF Adjacent
      <4>1. CASE i = 1 BY <4>1, <1>1
      <4>2. CASE i # 1
        <5>1. i - 1 \in 1..Len(T) /\ T[i - 1].if = T[k].if BY <4>2, <1>1
        <5>2. i - 1 <= j \/ k <= i - 1 BY <5>1, <2>2 DEF Adjacent
        <5>3. QED BY <5>1, <5>2, <1>1
      <4>3. QED BY <4>1, <4>2
    <3>2. QED BY <3>1, <1>1 DEF Queued
  <2>3. ASSUME NEW k \in 1..Len(T), T[k].if \in Bridges, ~T[k].newlink
        PROVE  kb[T[k].if].exists = "gone"
     BY <2>3, <1>1 DEF Queued
  <2>4. QED BY <2>1, <2>2, <2>3 DEF Queued
<1>8. QED BY <1>1, <1>2, <1>3, <1>4, <1>5, <1>6, <1>7 DEF T, m

\* After message m about port p, and with p not left in doubt, mstpd has p at
\* most in the bridge of m; not at all when it left, and not up unless m says
\* so.
LEMMA PortAfter ==
    ASSUME NEW d, Good(d), NEW e, Good(e), NEW m \in Messages, m.if \in Ports,
           Heard(d, e, m), Awaited(d, m) \/ Settles(e, m)
    PROVE  /\ \A c \in Bridges : e.prt[c][m.if].known =>
                                     m.newlink /\ c = m.master
           /\ ~Up(m) => \A c \in Bridges : ~e.prt[c][m.if].up
<1> DEFINE p == m.if
<1>1. p \notin Bridges BY TrackAssumption
<1>2. ASSUME NEW c \in Bridges, e.prt[c][p].known
      PROVE  m.newlink /\ c = m.master
  <2>1. m.master # None
     BY <1>1, <1>2 DEF Heard, HeardGone
  <2>2. HeardPort(d, e, m) /\ m.master \in Bridges
     BY <2>1, <1>1 DEF Heard, Messages
  <2>3. CASE c = m.master BY <2>2, <2>3, <1>2 DEF HeardPort
  <2>4. CASE c # m.master
    <3>1. SameLink(d, e, c, p) BY <2>2, <2>4, <1>2 DEF HeardPort
    <3>2. d.prt[c][p].known BY <3>1, <1>2 DEF SameLink
    <3>3. ~Awaited(d, m) BY <3>2, <2>1, <2>4 DEF Awaited
    <3>4. Settles(e, m) BY <3>3
    <3>5. e.prt[m.master][p].known
      <4>1. IF m.newlink THEN e.prt[m.master][p].known ELSE m.master = None
         BY <3>4, <1>1 DEF Settles
      <4>2. QED BY <4>1, <2>1
    <3>6. QED BY <3>5, <2>2, <2>4, <1>2 DEF Good, OneBridge
  <2>5. QED BY <2>3, <2>4
<1>3. ASSUME ~Up(m), NEW c \in Bridges PROVE ~e.prt[c][p].up
  <2>1. CASE ~e.prt[c][p].known BY <2>1, RulesOf DEF PortRule
  <2>2. CASE e.prt[c][p].known
    <3>1. m.newlink /\ c = m.master BY <2>2, <1>2
    <3>2. HeardPort(d, e, m)
       BY <3>1, <1>1, TrackAssumption DEF Heard
    <3>3. e.prt[c][p].up = m.up BY <3>1, <3>2, <2>2 DEF HeardPort
    <3>4. QED BY <3>1, <3>3, <1>3 DEF Up
  <2>3. QED BY <2>1, <2>2
<1>4. QED BY <1>2, <1>3

\* What mstpd has of the interfaces that message m is not about: a bridge is
\* as it was or as it is now, a port is as it was or in a bridge that is gone.
LEMMA OtherAfter ==
    ASSUME NEW kp, Kernels(kbr, kp), NEW d, Good(d), NEW e, Good(e),
           NEW m \in Messages, Heard(d, e, m),
           m.if \in Bridges /\ ~m.newlink => kbr[m.if].exists = "gone"
    PROVE  /\ \A b \in Bridges : b # m.if /\ BridgeSeen(kbr, d, b) =>
                                     BridgeSeen(kbr, e, b)
           /\ \A p \in Ports : p # m.if =>
                 /\ PortSeen(kp, d, p) => PortSeen(kp, e, p)
                 /\ \A c \in Bridges : \/ SameLink(d, e, c, p)
                                       \/ ~e.prt[c][p].known /\ ~e.prt[c][p].up
<1>1. CASE m.if \in Bridges
  <2>1. HeardBridge(d, e, m) BY <1>1 DEF Heard
  <2>2. ASSUME NEW b \in Bridges, b # m.if, BridgeSeen(kbr, d, b)
        PROVE  BridgeSeen(kbr, e, b)
     BY <2>1, <2>2 DEF HeardBridge, BridgeSeen
  <2>3. ASSUME NEW p \in Ports, NEW c \in Bridges
        PROVE  \/ SameLink(d, e, c, p)
               \/ /\ ~e.prt[c][p].known /\ ~e.prt[c][p].up
                  /\ kbr[c].exists = "gone"
    <3>1. CASE c = m.if /\ ~m.newlink
      <4>1. ~e.prt[c][p].known BY <3>1, <2>1 DEF HeardBridge
      <4>2. ~e.prt[c][p].up BY <4>1, RulesOf DEF PortRule
      <4>3. QED BY <4>1, <4>2, <3>1, <1>1
    <3>2. CASE ~(c = m.if /\ ~m.newlink) BY <3>2, <2>1 DEF HeardBridge
    <3>3. QED BY <3>1, <3>2
  <2>4. ASSUME NEW p \in Ports, PortSeen(kp, d, p) PROVE PortSeen(kp, e, p)
    <3> SUFFICES ASSUME NEW b \in Bridges
                 PROVE  /\ e.prt[b][p].known <=> kp[p].master = b
                        /\ e.prt[b][p].known => e.prt[b][p].up = kp[p].running
       BY DEF PortSeen
    <3>1. CASE SameLink(d, e, b, p) BY <3>1, <2>4 DEF PortSeen, SameLink
    <3>2. CASE ~e.prt[b][p].known /\ kbr[b].exists = "gone"
      <4>1. kp[p].master # b BY <3>2, TrackAssumption DEF Kernels
      <4>2. QED BY <4>1, <3>2
    <3>3. QED BY <3>1, <3>2, <2>3
  <2>5. QED BY <2>2, <2>3, <2>4
<1>2. CASE m.if \notin Bridges /\ m.master = None
  <2>1. HeardGone(d, e, m) BY <1>2 DEF Heard
  <2>2. \A b \in Bridges : BridgeSeen(kbr, d, b) => BridgeSeen(kbr, e, b)
     BY <2>1 DEF HeardGone, BridgeSeen
  <2>3. \A p \in Ports \ {m.if} : \A c \in Bridges : SameLink(d, e, c, p)
     BY <2>1 DEF HeardGone
  <2>4. QED BY <2>2, <2>3 DEF PortSeen, SameLink
<1>3. CASE m.if \notin Bridges /\ m.master # None
  <2>1. HeardPort(d, e, m) BY <1>3 DEF Heard
  <2>2. ASSUME NEW b \in Bridges, BridgeSeen(kbr, d, b)
        PROVE  BridgeSeen(kbr, e, b)
    <3>1. CASE b # m.master BY <3>1, <2>1, <2>2 DEF HeardPort, BridgeSeen
    <3>2. CASE b = m.master BY <3>2, <2>1, <2>2 DEF HeardPort, BridgeSeen
    <3>3. QED BY <3>1, <3>2
  <2>3. \A p \in Ports \ {m.if} : \A c \in Bridges : SameLink(d, e, c, p)
     BY <2>1 DEF HeardPort
  <2>4. QED BY <2>2, <2>3 DEF PortSeen, SameLink
<1>4. QED BY <1>1, <1>2, <1>3

\* A message that matches the kernel leaves mstpd with the interface as the
\* kernel has it.
LEMMA SeenAfter ==
    ASSUME NEW kp \in KPorts, Kernels(kbr, kp), NEW d, Good(d), NEW e, Good(e),
           \A p \in Ports : CanCreateIf(p) <=> kp[p].master # None,
           NEW m \in Messages, Heard(d, e, m), Matches(kbr, kp, m)
    PROVE  /\ m.if \in Bridges => BridgeSeen(kbr, e, m.if)
           /\ m.if \in Ports /\ (Awaited(d, m) \/ Settles(e, m)) =>
                 PortSeen(kp, e, m.if)
<1>1. ASSUME m.if \in Bridges PROVE BridgeSeen(kbr, e, m.if)
  <2>1. HeardBridge(d, e, m) BY <1>1 DEF Heard
  <2>2. QED BY <2>1, <1>1 DEF HeardBridge, BridgeSeen, Matches
<1>2. ASSUME m.if \in Ports, Awaited(d, m) \/ Settles(e, m)
      PROVE  PortSeen(kp, e, m.if)
  <2> DEFINE p == m.if
  <2>1. \A c \in Bridges : e.prt[c][p].known => m.newlink /\ c = m.master
     BY <1>2, PortAfter
  <2>2. CASE ~m.newlink
    <3>1. kp[p].master = None BY <2>2, <1>2 DEF Matches
    <3>2. QED BY <3>1, <2>1, <2>2, TrackAssumption DEF PortSeen
  <2>3. CASE m.newlink
    <3>1. m.master \in Bridges /\ p \notin Bridges
       BY <2>3, <1>2, TrackAssumption DEF Messages
    <3>2. kp[p].master = m.master /\ kp[p].running = m.up
       BY <2>3, <1>2 DEF Matches
    <3>3. kbr[m.master].exists = "yes" /\ CanCreateIf(p)
       BY <3>1, <3>2, <1>2, TrackAssumption DEF Kernels
    <3>4. HeardPort(d, e, m) BY <3>1, TrackAssumption DEF Heard
    <3>5. e.prt[m.master][p].known /\ e.prt[m.master][p].up = m.up
       BY <3>3, <3>4, <2>3 DEF HeardPort
    <3>6. QED BY <3>1, <3>2, <3>5, <2>1 DEF PortSeen
  <2>4. QED BY <2>2, <2>3
<1>3. QED BY <1>1, <1>2

\* mstpd handles the first message of P.
LEMMA Handled ==
    ASSUME NEW P \in Seq(Messages), P # <<>>, NEW kp \in KPorts,
           Kernels(kbr, kp),
           \A p \in Ports : CanCreateIf(p) <=> kp[p].master # None,
           NEW X, NEW X2, NEW Y, NEW d, Good(d), NEW e, Good(e),
           Queued(P, kbr, kp, Y), Seen(P, kbr, kp, d, X), Expected(P, d, X),
           Heard(d, e, Head(P)),
           \A i \in X : i \in X2 \/ i = Head(P).if,
           Head(P).if \notin X2 => /\ Head(P).if \notin Y
                                   /\ Head(P).if \in X => Settles(e, Head(P))
    PROVE  Seen(Tail(P), kbr, kp, e, X2) /\ Expected(Tail(P), e, X2)
<1> DEFINE T == Tail(P)
           m == Head(P)
<1>1. /\ m \in Messages /\ m = P[1] /\ 1 \in 1..Len(P) /\ First(P, 1)
      /\ Silent(T, m.if) => Last(P, 1)
      /\ \A i : i # m.if /\ Silent(T, i) => Silent(P, i)
   BY Taken
<1>2. \A k \in 1..Len(T) :
         /\ k + 1 \in 1..Len(P) /\ P[k + 1] = T[k] /\ T[k] \in Messages
         /\ First(T, k) => IF T[k].if = m.if THEN Adjacent(P, 1, k + 1)
                           ELSE First(P, k + 1)
   BY Taken
<1> HIDE DEF T, m
<1>3. Heard(d, e, m) BY DEF m
<1>4. /\ \A i \in X : i \in X2 \/ i = m.if
      /\ m.if \notin X2 => m.if \notin Y /\ (m.if \in X => Settles(e, m))
   BY DEF m
<1>5. m.if \in Bridges /\ ~m.newlink => kbr[m.if].exists = "gone"
   BY <1>1 DEF Queued
<1>6. /\ \A b \in Bridges : b # m.if /\ BridgeSeen(kbr, d, b) =>
                                BridgeSeen(kbr, e, b)
      /\ \A p \in Ports : p # m.if =>
            /\ PortSeen(kp, d, p) => PortSeen(kp, e, p)
            /\ \A c \in Bridges : \/ SameLink(d, e, c, p)
                                  \/ ~e.prt[c][p].known /\ ~e.prt[c][p].up
   BY <1>1, <1>3, <1>5, OtherAfter
<1>7. m.if \in Ports /\ m.if \notin X2 => Awaited(d, m) \/ Settles(e, m)
   BY <1>1, <1>4 DEF Expected
<1>8. ASSUME m.if \notin X2, Silent(T, m.if) PROVE Matches(kbr, kp, m)
   BY <1>1, <1>4, <1>8 DEF Queued
<1>9. ASSUME NEW b \in Bridges \ X2, Silent(T, b) PROVE BridgeSeen(kbr, e, b)
  <2>1. CASE b = m.if BY <2>1, <1>1, <1>3, <1>8, <1>9, SeenAfter
  <2>2. CASE b # m.if
    <3>1. b \notin X /\ Silent(P, b) BY <2>2, <1>1, <1>4, <1>9
    <3>2. QED BY <3>1, <2>2, <1>6 DEF Seen
  <2>3. QED BY <2>1, <2>2
<1>10. ASSUME NEW p \in Ports \ X2, Silent(T, p) PROVE PortSeen(kp, e, p)
  <2>1. CASE p = m.if BY <2>1, <1>1, <1>3, <1>7, <1>8, <1>10, SeenAfter
  <2>2. CASE p # m.if
    <3>1. p \notin X /\ Silent(P, p) BY <2>2, <1>1, <1>4, <1>10
    <3>2. QED BY <3>1, <2>2, <1>6 DEF Seen
  <2>3. QED BY <2>1, <2>2
<1>11. ASSUME NEW k \in 1..Len(T), First(T, k), T[k].if \in Ports \ X2
       PROVE  Awaited(e, T[k])
  <2> DEFINE n == T[k]
             p == n.if
  <2>1. CASE p = m.if
    <3>1. Adjacent(P, 1, k + 1) BY <2>1, <1>2, <1>11
    <3>2. Fits(m, n) BY <3>1, <1>1, <1>2 DEF Queued
    <3>3. /\ \A c \in Bridges : e.prt[c][p].known => m.newlink /\ c = m.master
          /\ ~Up(m) => \A c \in Bridges : ~e.prt[c][p].up
       BY <2>1, <1>1, <1>3, <1>7, <1>11, PortAfter
    <3>4. QED BY <3>2, <3>3, <2>1, <1>11 DEF Fits, Awaited
  <2>2. CASE p # m.if
    <3>1. First(P, k + 1) /\ p \notin X BY <2>2, <1>2, <1>4, <1>11
    <3>2. Awaited(d, n) BY <3>1, <1>2, <1>11 DEF Expected
    <3>3. \A c \in Bridges : \/ SameLink(d, e, c, p)
                             \/ ~e.prt[c][p].known /\ ~e.prt[c][p].up
       BY <2>2, <1>6, <1>11
    <3>4. QED BY <3>2, <3>3 DEF Awaited, SameLink
  <2>3. QED BY <2>1, <2>2
<1>12. QED BY <1>9, <1>10, <1>11 DEF Seen, Expected, T

-----------------------------------------------------------------------------
(* The steps of the kernel *)

\* Who hears of the messages M.
LEMMA WhoHears ==
    ASSUME TrackTypeOK, NEW M, Notify(M)
    PROVE  \/ /\ Listening /\ phase # "dump" /\ phase # "off"
              /\ pending' = pending \o M /\ UNCHANGED <<missed, raced>>
           \/ /\ phase = "dump" /\ pending' = pending
              /\ missed' = missed \cup {M[i].if : i \in 1..Len(M)}
              /\ raced' = raced \cup missed'
           \/ /\ phase = "off" /\ UNCHANGED <<pending, missed, raced>>
<1>1. CASE Listening
  <2>1. phase # "dump" /\ phase # "off" BY <1>1 DEF Listening
  <2>2. QED BY <2>1, <1>1 DEF Notify
<1>2. CASE phase = "dump"
  <2>1. ~Listening BY <1>2 DEF Listening
  <2>2. QED BY <2>1, <1>2 DEF Notify
<1>3. CASE phase = "off"
  <2>1. ~Listening BY <1>3 DEF Listening
  <2>2. QED BY <2>1, <1>3 DEF Notify
<1>4. QED BY <1>1, <1>2, <1>3 DEF TrackTypeOK, Listening

\* mstpd's view does not change with the kernel.
LEMMA ViewUnchanged ==
    ASSUME UNCHANGED daemon
    PROVE  Daemon' = Daemon
BY DEF daemon, Daemon

\* Nothing is queued.
LEMMA NoneQueued ==
    ASSUME NEW kb, NEW kp, NEW Y
    PROVE  Queued(<<>>, kb, kp, Y)
BY DEF Queued

\* The kernel changes and sends the messages M.
LEMMA Announced ==
    ASSUME ViewInv, TrackInv', NEW M \in Seq(Messages), Notify(M),
           UNCHANGED <<phase, daemon>>, Kernels(kbr', kport'),
           Listening => /\ Queued(pending \o M, kbr', kport', {})
                        /\ Seen(pending \o M, kbr', kport', Daemon, missed)
                        /\ Expected(pending \o M, Daemon, missed),
           \A i \in Bridges \cup Ports :
               Silent(M, i) => SameFor(kbr, kport, kbr', kport', i),
           \A b \in Bridges : kbr[b].exists = "gone" => kbr'[b].exists = "gone"
    PROVE  ViewInv'
<1>1. TrackTypeOK BY DEF ViewInv, TrackInv
<1>2. Daemon' = Daemon BY ViewUnchanged
<1>3. CASE Listening /\ phase # "dump" /\ phase # "off"
           /\ pending' = pending \o M /\ UNCHANGED <<missed, raced>>
  <2>1. Stale' = {} BY <1>3 DEF Stale
  <2> HIDE DEF Daemon
  <2>2. QED BY <2>1, <1>2, <1>3 DEF ViewInv
<1>4. CASE phase = "dump" /\ pending' = pending
           /\ missed' = missed \cup {M[i].if : i \in 1..Len(M)}
  <2> DEFINE X2 == missed'
  <2>1. Stale = missed /\ Stale' = X2 BY <1>4 DEF Stale
  <2>2. pending \in Seq(Messages) BY <1>1 DEF TrackTypeOK
  <2>3. \A i \in Bridges \cup Ports :
            SameFor(kbr, kport, kbr', kport', i) \/ i \in X2
    <3>1. \A i : ~Silent(M, i) => i \in X2 BY <1>4 DEF Silent
    <3>2. QED BY <3>1
  <2>4. \A i \in missed : i \in X2 BY <1>4
  <2>5. /\ Queued(pending, kbr, kport, missed)
        /\ Seen(pending, kbr, kport, Daemon, missed)
        /\ Expected(pending, Daemon, missed)
     BY <2>1, <1>4 DEF ViewInv
  <2> HIDE DEF X2, Daemon
  <2>6. /\ Queued(pending, kbr', kport', X2)
        /\ Seen(pending, kbr', kport', Daemon, X2)
        /\ Expected(pending, Daemon, X2)
    <3>1. Queued(pending, kbr', kport', X2)
       BY <2>2, <2>3, <2>4, <2>5, QueuedUnheard
    <3>2. Seen(pending, kbr', kport', Daemon, X2)
       BY <2>3, <2>4, <2>5, SeenUnheard
    <3>3. Expected(pending, Daemon, X2) BY <2>4, <2>5 DEF Expected
    <3>4. QED BY <3>1, <3>2, <3>3
  <2>7. QED BY <2>1, <2>6, <1>2, <1>4 DEF ViewInv, X2
<1>5. CASE phase = "off" /\ UNCHANGED <<pending, missed, raced>>
  <2>1. pending = <<>> BY <1>5 DEF ViewInv
  <2>2. Queued(pending', kbr', kport', Stale') BY <2>1, <1>5, NoneQueued
  <2> HIDE DEF Daemon
  <2>3. QED BY <2>1, <2>2, <1>2, <1>5 DEF ViewInv
<1>6. QED BY <1>1, <1>3, <1>4, <1>5, WhoHears

\* The kernel changes one interface, or a bridge with its ports' states, and
\* sends message m.
LEMMA AnnouncedOne ==
    ASSUME ViewInv, TrackInv', NEW m \in Messages, Notify(<<m>>),
           UNCHANGED <<phase, daemon>>, Kernels(kbr', kport'),
           Matches(kbr', kport', m), Continues(kport, m),
           \A i \in Bridges \cup Ports :
               i # m.if => SameFor(kbr, kport, kbr', kport', i),
           \A b \in Bridges : kbr[b].exists = "gone" => kbr'[b].exists = "gone"
    PROVE  ViewInv'
<1> DEFINE M == <<m>>
<1>1. /\ M \in Seq(Messages) /\ Len(M) = 1 /\ M[1] = m
   BY MessageSequences
<1>2. pending \in Seq(Messages) /\ Good(Daemon)
   BY DEF ViewInv, TrackInv, TrackTypeOK
<1>3. Notify(M) OBVIOUS
<1> HIDE DEF M, Daemon
<1>4. \A i \in Bridges \cup Ports :
          Silent(M, i) => SameFor(kbr, kport, kbr', kport', i)
   BY <1>1 DEF Silent
<1>5. /\ \A j, k \in 1..Len(M) : M[j].if = M[k].if => j = k
      /\ \A k \in 1..Len(M) : /\ Matches(kbr', kport', M[k])
                              /\ Continues(kport, M[k])
   BY <1>1
<1>6. ASSUME Listening
      PROVE  /\ Queued(pending \o M, kbr', kport', {})
             /\ Seen(pending \o M, kbr', kport', Daemon, missed)
             /\ Expected(pending \o M, Daemon, missed)
  <2>1. Stale = {} /\ phase # "off" BY <1>6 DEF Stale, Listening
  <2>2. /\ Queued(pending, kbr, kport, {})
        /\ Seen(pending, kbr, kport, Daemon, missed)
        /\ Expected(pending, Daemon, missed)
     BY <2>1 DEF ViewInv
  <2>3. QED BY <2>2, <1>1, <1>2, <1>4, <1>5, Sent
<1>7. QED BY <1>1, <1>3, <1>4, <1>6, Announced

\* The kernel changes nothing that it announces.
LEMMA Unannounced ==
    ASSUME ViewInv, TrackInv', Kernels(kbr', kport'),
           UNCHANGED <<pending, phase, daemon, missed>>,
           \A i \in Bridges \cup Ports : SameFor(kbr, kport, kbr', kport', i),
           \A b \in Bridges : kbr[b].exists = "gone" => kbr'[b].exists = "gone"
    PROVE  ViewInv'
<1>1. pending \in Seq(Messages) /\ Stale' = Stale /\ Daemon' = Daemon
   BY ViewUnchanged DEF ViewInv, TrackInv, TrackTypeOK, Stale
<1> HIDE DEF Daemon
<1>2. Queued(pending, kbr', kport', Stale)
  <2>1. Queued(pending, kbr, kport, Stale) BY DEF ViewInv
  <2>2. QED BY <2>1, <1>1, QueuedUnheard
<1>3. phase # "off" => Seen(pending, kbr', kport', Daemon, missed)
  <2>1. phase # "off" => Seen(pending, kbr, kport, Daemon, missed)
     BY DEF ViewInv
  <2>2. QED BY <2>1, SeenUnheard
<1>4. QED BY <1>1, <1>2, <1>3 DEF ViewInv

\* An order of the interfaces in S names them all.
LEMMA OrderNamesAll ==
    ASSUME NEW S \in SUBSET (Bridges \cup Ports),
           NEW f \in [1..Cardinality(S) -> S],
           \A i, j \in DOMAIN f : f[i] = f[j] => i = j
    PROVE  /\ Cardinality(S) \in Nat
           /\ \A x \in S : \E k \in 1..Cardinality(S) : f[k] = x
<1> DEFINE n == Cardinality(S)
<1>1. n \in Nat BY OrderLength
<1>2. IsFiniteSet(S)
  <2>1. IsFiniteSet(Bridges \cup Ports) BY TrackAssumption, FS_Union
  <2>2. QED BY <2>1, FS_Subset
<1>3. Cardinality(1..n) = n
  <2> HIDE DEF n
  <2>1. 1 \in Int /\ n \in Int BY <1>1
  <2>2. Cardinality(1..n) = IF 1 > n THEN 0 ELSE n - 1 + 1
     BY <2>1, FS_Interval
  <2>3. QED BY <2>2, <1>1
<1>4. f \in Injection(1..n, S) BY DEF Injection, IsInjective
<1>5. f \in Surjection(1..n, S) BY <1>2, <1>3, <1>4, FS_Injection
<1>6. QED BY <1>1, <1>5 DEF Surjection

\* The members of the kernel's records.
LEMMA KernelFields ==
    ASSUME TrackTypeOK
    PROVE  /\ \A b \in Bridges : /\ kbr[b] \in KBrRecs /\ kbr[b].up \in BOOLEAN
                                 /\ kbr[b].stp \in BOOLEAN
           /\ \A p \in Ports : /\ kport[p] \in KPortRecs
                               /\ kport[p].running \in BOOLEAN
                               /\ kport[p].master \in Bridges \cup {None}
                               /\ kport[p].state \in States
BY DEF TrackTypeOK, KBrRecs, KPortRecs

\* A bridge is made.
LEMMA NewBridgeView ==
    ASSUME ViewInv, NEW b \in Bridges, NewBridge(b)
    PROVE  ViewInv'
<1> DEFINE m == Message(b, b, TRUE, FALSE)
<1>1. TrackTypeOK /\ TrackInv' BY KernelInv DEF ViewInv, TrackInv
<1>2. /\ kbr' = [kbr EXCEPT ![b].exists = "yes"] /\ kport' = kport
      /\ kbr[b].exists = "never" /\ Notify(<<m>>)
      /\ UNCHANGED <<phase, daemon>>
   BY DEF NewBridge
<1>3. /\ kbr'[b].exists = "yes" /\ kbr'[b].up = kbr[b].up
      /\ \A c \in Bridges \ {b} : kbr'[c] = kbr[c]
   BY <1>1, <1>2 DEF TrackTypeOK, KBrRecs
<1>4. /\ m \in Messages /\ m.if = b /\ m.newlink = TRUE /\ m.up = FALSE
      /\ b \notin Ports
  <2>1. m \in Messages BY MessageTypes
  <2>2. QED BY <2>1, TrackAssumption DEF Message
<1>5. kbr[b].up = FALSE BY <1>1, <1>2, KernelFields DEF ViewInv, Kernels
<1> HIDE DEF m
<1>6. Kernels(kbr', kport') BY <1>2, <1>3 DEF ViewInv, Kernels
<1>7. Matches(kbr', kport', m) /\ Continues(kport, m)
   BY <1>3, <1>4, <1>5 DEF Matches, Continues
<1>8. \A i \in Bridges \cup Ports :
          i # m.if => SameFor(kbr, kport, kbr', kport', i)
   BY <1>2, <1>3, <1>4 DEF SameFor
<1>9. \A c \in Bridges : kbr[c].exists = "gone" => kbr'[c].exists = "gone"
   BY <1>2, <1>3
<1>10. QED BY <1>1, <1>2, <1>4, <1>6, <1>7, <1>8, <1>9, AnnouncedOne

\* A bridge is set up or down.
LEMMA FlipBridgeView ==
    ASSUME ViewInv, NEW b \in Bridges, FlipBridge(b)
    PROVE  ViewInv'
<1> DEFINE m == Message(b, b, TRUE, kbr'[b].up)
<1>1. TrackTypeOK /\ TrackInv' BY KernelInv DEF ViewInv, TrackInv
<1>2. /\ kbr' = [kbr EXCEPT ![b].up = ~@] /\ kbr[b].exists = "yes"
      /\ Notify(<<m>>) /\ UNCHANGED <<phase, daemon>>
   BY DEF FlipBridge
<1>3. \A p \in Ports : /\ kport'[p].master = kport[p].master
                       /\ kport'[p].running = kport[p].running
  <2>1. PICK f \in [Ports -> States] :
            kport' = [p \in Ports |-> [kport[p] EXCEPT !.state = f[p]]]
     BY DEF FlipBridge
  <2>2. QED BY <2>1, <1>1 DEF TrackTypeOK, KPortRecs
<1>4. /\ kbr'[b].exists = "yes" /\ kbr'[b].up \in BOOLEAN
      /\ \A c \in Bridges \ {b} : kbr'[c] = kbr[c]
   BY <1>1, <1>2 DEF TrackTypeOK, KBrRecs
<1>5. /\ m \in Messages /\ m.if = b /\ m.newlink = TRUE
      /\ m.up = kbr'[b].up /\ b \notin Ports
  <2>1. m \in Messages BY <1>4, MessageTypes
  <2>2. QED BY <2>1, TrackAssumption DEF Message
<1> HIDE DEF m
<1>6. Kernels(kbr', kport')
  <2>1. \A c \in Bridges : kbr'[c].exists = kbr[c].exists BY <1>2, <1>4
  <2>2. \A p \in Ports : kport[p].master \in Bridges \cup {None}
     BY <1>1, KernelFields
  <2>3. QED BY <2>1, <2>2, <1>3, <1>4 DEF ViewInv, Kernels
<1>7. Matches(kbr', kport', m) /\ Continues(kport, m)
   BY <1>4, <1>5 DEF Matches, Continues
<1>8. \A i \in Bridges \cup Ports :
          i # m.if => SameFor(kbr, kport, kbr', kport', i)
   BY <1>3, <1>4, <1>5 DEF SameFor
<1>9. \A c \in Bridges : kbr[c].exists = "gone" => kbr'[c].exists = "gone"
   BY <1>2, <1>4
<1>10. QED BY <1>1, <1>2, <1>5, <1>6, <1>7, <1>8, <1>9, AnnouncedOne

\* The kernel changes port p and sends message m.
LEMMA PortAnnounced ==
    ASSUME ViewInv, TrackInv', NEW p \in Ports, NEW m \in Messages, m.if = p,
           Notify(<<m>>), kbr' = kbr, UNCHANGED <<phase, daemon>>,
           \A r \in Ports \ {p} : kport'[r] = kport[r],
           kport'[p].master # None => kbr[kport'[p].master].exists = "yes",
           Matches(kbr, kport', m), Continues(kport, m)
    PROVE  ViewInv'
<1>1. Kernels(kbr', kport') BY DEF ViewInv, Kernels
<1>2. \A i \in Bridges \cup Ports :
          i # m.if => SameFor(kbr, kport, kbr', kport', i)
   BY TrackAssumption DEF SameFor
<1>3. QED BY <1>1, <1>2, AnnouncedOne

\* A port comes to a bridge.
LEMMA AddPortView ==
    ASSUME ViewInv, NEW p \in Ports, NEW b \in Bridges, AddPort(p, b)
    PROVE  ViewInv'
<1> DEFINE m == Message(b, p, TRUE, kport[p].running)
<1>1. TrackTypeOK /\ TrackInv' BY KernelInv DEF ViewInv, TrackInv
<1>2. PICK s \in States : kport' = [kport EXCEPT ![p].master = b, ![p].state = s]
   BY GivenStates DEF AddPort
<1>3. /\ kport[p].master = None /\ kbr[b].exists = "yes" /\ kbr' = kbr
      /\ Notify(<<m>>) /\ UNCHANGED <<phase, daemon>>
   BY DEF AddPort
<1>4. /\ kport'[p].master = b /\ kport'[p].running = kport[p].running
      /\ \A r \in Ports \ {p} : kport'[r] = kport[r]
   BY <1>1, <1>2 DEF TrackTypeOK, KPortRecs
<1>5. kport[p].running \in BOOLEAN BY <1>1, KernelFields
<1>6. /\ m \in Messages /\ m.if = p /\ m.newlink = TRUE /\ m.master = b
      /\ m.up = kport[p].running /\ p \notin Bridges
  <2>1. m \in Messages BY <1>5, MessageTypes
  <2>2. QED BY <2>1, TrackAssumption DEF Message
<1> HIDE DEF m
<1>7. Matches(kbr, kport', m) /\ Continues(kport, m)
   BY <1>3, <1>4, <1>6 DEF Matches, Continues
<1>8. QED BY <1>1, <1>3, <1>4, <1>6, <1>7, PortAnnounced

\* A port leaves its bridge.
LEMMA DelPortView ==
    ASSUME ViewInv, NEW p \in Ports, DelPort(p)
    PROVE  ViewInv'
<1> DEFINE b == kport[p].master
           m == Message(b, p, FALSE, kport[p].running)
<1>1. TrackTypeOK /\ TrackInv' BY KernelInv DEF ViewInv, TrackInv
<1>2. /\ kport' = [kport EXCEPT ![p].master = None, ![p].state = "DISABLED"]
      /\ b # None /\ kbr' = kbr /\ Notify(<<m>>) /\ UNCHANGED <<phase, daemon>>
   BY DEF DelPort
<1>3. /\ kport'[p].master = None
      /\ \A r \in Ports \ {p} : kport'[r] = kport[r]
   BY <1>1, <1>2 DEF TrackTypeOK, KPortRecs
<1>4. kport[p].running \in BOOLEAN /\ b \in Bridges BY <1>1, <1>2, KernelFields
<1>5. /\ m \in Messages /\ m.if = p /\ m.newlink = FALSE /\ m.master = b
      /\ p \notin Bridges
  <2>1. m \in Messages BY <1>4, MessageTypes
  <2>2. QED BY <2>1, TrackAssumption DEF Message
<1>6. Matches(kbr, kport', m) /\ Continues(kport, m)
   BY <1>3, <1>5 DEF Matches, Continues, Up
<1> HIDE DEF m
<1>7. QED BY <1>1, <1>2, <1>3, <1>5, <1>6, PortAnnounced

\* The link of a port comes or goes.
LEMMA FlipLinkView ==
    ASSUME ViewInv, NEW p \in Ports, FlipLink(p)
    PROVE  ViewInv'
<1> DEFINE b == kport[p].master
           running == ~kport[p].running
           m == Message(b, p, TRUE, running)
<1>1. TrackTypeOK /\ TrackInv' BY KernelInv DEF ViewInv, TrackInv
<1>2. kport[p].running \in BOOLEAN /\ b \in Bridges \cup {None}
   BY <1>1, KernelFields
<1>3. kbr' = kbr /\ UNCHANGED <<phase, daemon>> BY DEF FlipLink
<1>4. CASE b = None
  <2>1. /\ kport' = [kport EXCEPT ![p].running = running]
        /\ UNCHANGED <<pending, missed, raced>>
     BY <1>4 DEF FlipLink
  <2>2. /\ \A r \in Ports : kport'[r].master = kport[r].master
        /\ \A r \in Ports \ {p} : kport'[r] = kport[r]
     BY <2>1, <1>1 DEF TrackTypeOK, KPortRecs
  <2>3. \A i \in Bridges \cup Ports : SameFor(kbr, kport, kbr', kport', i)
     BY <2>2, <1>3, <1>4 DEF SameFor
  <2>4. Kernels(kbr', kport') BY <2>2, <1>3 DEF ViewInv, Kernels
  <2>5. \A c \in Bridges : kbr[c].exists = "gone" => kbr'[c].exists = "gone"
     BY <1>3
  <2>6. QED BY <2>1, <2>3, <2>4, <2>5, <1>1, <1>3, Unannounced
<1>5. CASE b # None
  <2>1. PICK s \in States :
            kport' = [kport EXCEPT ![p].running = running, ![p].state = s]
     BY <1>5, GivenStates DEF FlipLink
  <2>2. Notify(<<m>>) BY <1>5 DEF FlipLink
  <2>3. /\ kport'[p].master = b /\ kport'[p].running = running
        /\ \A r \in Ports \ {p} : kport'[r] = kport[r]
     BY <2>1, <1>1 DEF TrackTypeOK, KPortRecs
  <2>4. /\ m \in Messages /\ m.if = p /\ m.newlink = TRUE /\ m.master = b
        /\ m.up = running /\ p \notin Bridges
    <3>1. m \in Messages BY <1>2, <1>5, MessageTypes
    <3>2. QED BY <3>1, TrackAssumption DEF Message
  <2>5. Matches(kbr, kport', m) /\ Continues(kport, m)
     BY <2>3, <2>4, <1>2 DEF Matches, Continues, Up
  <2>6. kbr[b].exists = "yes" BY <1>5 DEF ViewInv, Kernels
  <2> HIDE DEF m, b, running
  <2>7. QED BY <2>2, <2>3, <2>4, <2>5, <2>6, <1>1, <1>3, PortAnnounced
<1>6. QED BY <1>4, <1>5

\* A port is unregistered: it leaves its bridge, and then it is gone.
LEMMA UnregisterView ==
    ASSUME ViewInv, NEW p \in Ports, Unregister(p)
    PROVE  ViewInv'
<1> DEFINE b == kport[p].master
           m == Message(b, p, FALSE, kport[p].running)
           n == Message(None, p, FALSE, FALSE)
           K == <<m>>
           L == <<n>>
           M == <<m, n>>
<1>1. TrackTypeOK /\ TrackInv' BY KernelInv DEF ViewInv, TrackInv
<1>2. /\ kport' = [kport EXCEPT ![p] = [master |-> None, running |-> FALSE,
                                        state |-> "DISABLED"]]
      /\ b # None /\ kbr' = kbr /\ Notify(M) /\ UNCHANGED <<phase, daemon>>
   BY DEF Unregister
<1>3. /\ kport'[p].master = None
      /\ \A r \in Ports \ {p} : kport'[r] = kport[r]
   BY <1>1, <1>2 DEF TrackTypeOK
<1>4. kport[p].running \in BOOLEAN /\ b \in Bridges BY <1>1, <1>2, KernelFields
<1>5. /\ m \in Messages /\ n \in Messages
      /\ K \in Seq(Messages) /\ L \in Seq(Messages) /\ M \in Seq(Messages)
  <2>1. m \in Messages /\ n \in Messages BY <1>4, MessageTypes
  <2>2. QED BY <2>1, MessageSequences
<1>6. /\ m.if = p /\ m.newlink = FALSE /\ m.master = b
      /\ n.if = p /\ n.newlink = FALSE /\ n.master = None /\ p \notin Bridges
   BY TrackAssumption DEF Message
<1> HIDE DEF m, n
<1>7. /\ Matches(kbr', kport', m) /\ Continues(kport, m)
      /\ Matches(kbr', kport', n) /\ Continues(kport', n)
   BY <1>2, <1>3, <1>6 DEF Matches, Continues, Up
<1>8. /\ Len(K) = 1 /\ K[1] = m /\ Len(L) = 1 /\ L[1] = n
      /\ Len(M) = 2 /\ M[1] = m /\ M[2] = n
   OBVIOUS
<1>9. pending \in Seq(Messages) /\ Good(Daemon)
   BY DEF ViewInv, TrackInv, TrackTypeOK
<1>10. pending \o M = (pending \o K) \o L
  <2> HIDE DEF K, L, M
  <2>1. K \o L = M
    <3>1. K \o L \in Seq(Messages) /\ Len(K \o L) = 2
       BY <1>5, <1>8, ConcatProperties
    <3>2. (K \o L)[1] = m /\ (K \o L)[2] = n
      <4>1. \A i \in 1 .. 1 + 1 :
                (K \o L)[i] = IF i <= 1 THEN K[i] ELSE L[i - 1]
         BY <1>5, <1>8, ConcatProperties
      <4> DEFINE Q == K \o L
      <4>2. Q[1] = K[1] /\ Q[2] = L[1]
        <5> HIDE DEF Q
        <5>1. \A i \in 1 .. 1 + 1 : Q[i] = IF i <= 1 THEN K[i] ELSE L[i - 1]
           BY <4>1 DEF Q
        <5>2. QED BY <5>1
      <4>3. QED BY <4>2, <1>8
    <3>3. \A i \in 1..Len(M) : (K \o L)[i] = M[i] BY <3>2, <1>8
    <3>4. QED BY <3>1, <3>3, <1>5, <1>8, SeqEqual
  <2>2. (pending \o K) \o L = pending \o (K \o L)
     BY <1>5, <1>9, ConcatAssociative
  <2>3. QED BY <2>1, <2>2
<1> HIDE DEF K, L, M, Daemon
<1>11. Kernels(kbr', kport') BY <1>2, <1>3 DEF ViewInv, Kernels
<1>12. /\ \A i \in Bridges \cup Ports :
             Silent(K, i) \/ Silent(M, i) => SameFor(kbr, kport, kbr', kport', i)
       /\ \A i \in Bridges \cup Ports : SameFor(kbr', kport', kbr', kport', i)
  <2>1. \A i : Silent(K, i) \/ Silent(M, i) => i # p
     BY <1>6, <1>8 DEF Silent
  <2>2. \A i \in Bridges \cup Ports :
            i # p => SameFor(kbr, kport, kbr', kport', i)
     BY <1>2, <1>3 DEF SameFor
  <2>3. \A i \in Bridges \cup Ports : SameFor(kbr', kport', kbr', kport', i)
     BY DEF SameFor
  <2>4. QED BY <2>1, <2>2, <2>3
<1>13. /\ \A c \in Bridges : kbr[c].exists = "gone" => kbr'[c].exists = "gone"
       /\ \A c \in Bridges : kbr'[c].exists = "gone" => kbr'[c].exists = "gone"
   BY <1>2
<1>14. ASSUME Listening
       PROVE  /\ Queued(pending \o M, kbr', kport', {})
              /\ Seen(pending \o M, kbr', kport', Daemon, missed)
              /\ Expected(pending \o M, Daemon, missed)
  <2>1. Stale = {} /\ phase # "off" BY <1>14 DEF Stale, Listening
  <2>2. /\ Queued(pending, kbr, kport, {})
        /\ Seen(pending, kbr, kport, Daemon, missed)
        /\ Expected(pending, Daemon, missed)
     BY <2>1 DEF ViewInv
  <2>3. /\ \A j, k \in 1..Len(K) : K[j].if = K[k].if => j = k
        /\ \A k \in 1..Len(K) : /\ Matches(kbr', kport', K[k])
                                /\ Continues(kport, K[k])
        /\ \A j, k \in 1..Len(L) : L[j].if = L[k].if => j = k
        /\ \A k \in 1..Len(L) : /\ Matches(kbr', kport', L[k])
                                /\ Continues(kport', L[k])
     BY <1>7, <1>8
  <2>4. /\ Queued(pending \o K, kbr', kport', {})
        /\ Seen(pending \o K, kbr', kport', Daemon, missed)
        /\ Expected(pending \o K, Daemon, missed)
     BY <2>2, <2>3, <1>5, <1>9, <1>12, <1>13, Sent
  <2>5. pending \o K \in Seq(Messages) BY <1>5, <1>9
  <2> DEFINE P == pending \o K
  <2> HIDE DEF P
  <2>6. /\ Queued(P \o L, kbr', kport', {})
        /\ Seen(P \o L, kbr', kport', Daemon, missed)
        /\ Expected(P \o L, Daemon, missed)
    <3>1. /\ P \in Seq(Messages) /\ Queued(P, kbr', kport', {})
          /\ Seen(P, kbr', kport', Daemon, missed) /\ Expected(P, Daemon, missed)
       BY <2>4, <2>5 DEF P
    <3>2. QED BY <3>1, <2>3, <1>5, <1>9, <1>12, <1>13, Sent
  <2>7. QED BY <2>6, <1>10 DEF P
<1>15. QED BY <1>1, <1>2, <1>5, <1>11, <1>12, <1>13, <1>14, Announced

\* Equal intervals have equal ends.
LEMMA SameInterval ==
    ASSUME NEW a \in Nat, NEW b \in Nat, 1..a = 1..b
    PROVE  a = b
<1>1. CASE a = 0 \/ b = 0
  <2>1. 1 \in 1..a <=> 1 \in 1..b OBVIOUS
  <2>2. QED BY <2>1, <1>1
<1>2. CASE a > 0 /\ b > 0
  <2>1. a \in 1..b /\ b \in 1..a
    <3>1. a \in 1..a /\ b \in 1..b BY <1>2
    <3>2. QED BY <3>1
  <2>2. QED BY <2>1
<1>3. QED BY <1>1, <1>2

\* The messages M when bridge b is removed: one about each of its ports and
\* one about the bridge.
Removal(M, b) ==
    /\ \A j, k \in 1..Len(M) : M[j].if = M[k].if => j = k
    /\ \A k \in 1..Len(M) :
          /\ M[k].newlink = FALSE
          /\ M[k].if # b => /\ M[k].if \in Ports /\ kport[M[k].if].master = b
                            /\ M[k].master = b
    /\ ~Silent(M, b)
    /\ \A p \in Ports : kport[p].master = b => ~Silent(M, p)

\* They are the messages that DelBridge sends.
LEMMA RemovalSent ==
    ASSUME TrackTypeOK, NEW b \in Bridges, DelBridge(b)
    PROVE  \E M \in Seq(Messages) : Notify(M) /\ Removal(M, b)
<1> DEFINE slaves == {p \in Ports : kport[p].master = b}
           N == Cardinality(slaves)
           n == Message(None, b, FALSE, FALSE)
<1>1. PICK order \in [1..N -> slaves] :
          /\ \A i, j \in DOMAIN order : order[i] = order[j] => i = j
          /\ Notify([i \in DOMAIN order |->
                        Message(b, order[i], FALSE, kport[order[i]].running)]
                    \o <<n>>)
   BY DEF DelBridge
<1> DEFINE K == [i \in DOMAIN order |->
                    Message(b, order[i], FALSE, kport[order[i]].running)]
           L == <<n>>
           M == K \o L
<1>2. /\ N \in Nat /\ DOMAIN order = 1..N
      /\ \A p \in slaves : \E k \in 1..N : order[k] = p
      /\ \A k \in 1..N : order[k] \in slaves /\ order[k] \in Ports
      /\ \A j, k \in 1..N : order[j] = order[k] => j = k
  <2>1. slaves \in SUBSET (Bridges \cup Ports) OBVIOUS
  <2>2. slaves \subseteq Ports OBVIOUS
  <2> HIDE DEF slaves
  <2>3. /\ N \in Nat /\ \A p \in slaves : \E k \in 1..N : order[k] = p
     BY <2>1, <1>1, OrderNamesAll
  <2>4. QED BY <2>2, <2>3, <1>1
<1>3. \A p \in Ports : p \in slaves <=> kport[p].master = b OBVIOUS
<1> HIDE DEF slaves, N
<1>4. n \in Messages /\ n.if = b /\ n.newlink = FALSE
  <2>1. n \in Messages BY MessageTypes
  <2>2. QED BY <2>1 DEF Message
<1>5. ASSUME NEW k \in 1..N
      PROVE  /\ K[k] \in Messages /\ K[k].if = order[k]
             /\ K[k].newlink = FALSE /\ K[k].master = b
  <2>1. K[k] = Message(b, order[k], FALSE, kport[order[k]].running)
     BY <1>2
  <2>2. order[k] \in Ports BY <1>2
  <2>3. kport[order[k]].running \in BOOLEAN BY <2>2, KernelFields
  <2>4. K[k] \in Messages BY <2>1, <2>2, <2>3, MessageTypes
  <2>5. QED BY <2>1, <2>4 DEF Message
<1>6. K \in Seq(Messages) /\ Len(K) = N
  <2>1. K \in [1..N -> Messages] BY <1>2, <1>5
  <2>2. K \in Seq(Messages) BY <2>1, <1>2, MessageSequences
  <2> HIDE DEF K
  <2>3. Len(K) \in Nat /\ DOMAIN K = 1..Len(K) /\ DOMAIN K = 1..N
     BY <2>1, <2>2
  <2>4. Len(K) = N BY <2>3, <1>2, SameInterval
  <2>5. QED BY <2>2, <2>4
<1>7. L \in Seq(Messages) /\ Len(L) = 1 /\ L[1] = n
   BY <1>4, MessageSequences
<1>8. Notify(M) BY <1>1
<1> HIDE DEF n, K, L
<1>9. /\ M \in Seq(Messages) /\ Len(M) = N + 1 /\ M[N + 1] = n
      /\ \A k \in 1..N : k \in 1..Len(M) /\ M[k] = K[k]
      /\ N + 1 \in 1..Len(M)
      /\ \A k \in 1..Len(M) : k \in 1..N \/ k = N + 1
  <2>1. N \in Nat BY <1>2
  <2>2. /\ M \in Seq(Messages) /\ Len(M) = N + 1
        /\ \A i \in 1 .. N + 1 : M[i] = IF i <= N THEN K[i] ELSE L[i - N]
    <3>1. /\ M \in Seq(Messages) /\ Len(M) = Len(K) + Len(L)
          /\ \A i \in 1 .. Len(K) + Len(L) :
                M[i] = IF i <= Len(K) THEN K[i] ELSE L[i - Len(K)]
       BY <1>6, <1>7, ConcatProperties
    <3> HIDE DEF M
    <3>2. QED BY <3>1, <1>6, <1>7
  <2> HIDE DEF M
  <2>3. M[N + 1] = L[1]
    <3>1. N + 1 \in 1 .. N + 1 /\ ~(N + 1 <= N) /\ (N + 1) - N = 1 BY <2>1
    <3>2. QED BY <3>1, <2>2
  <2>4. QED BY <2>1, <2>2, <2>3, <1>7
<1> HIDE DEF M
<1>10. ASSUME NEW k \in 1..N
       PROVE  /\ M[k].if = order[k] /\ M[k].newlink = FALSE /\ M[k].master = b
              /\ order[k] \in Ports /\ kport[order[k]].master = b
              /\ order[k] # b
  <2>1. M[k] = K[k] BY <1>9
  <2>2. order[k] \in slaves /\ order[k] \in Ports BY <1>2
  <2>3. QED BY <2>1, <2>2, <1>3, <1>5, TrackAssumption
<1>11. M[N + 1].if = b /\ M[N + 1].newlink = FALSE BY <1>4, <1>9
<1>12. \A j, k \in 1..Len(M) : M[j].if = M[k].if => j = k
  <2> SUFFICES ASSUME NEW j \in 1..Len(M), NEW k \in 1..Len(M),
                      M[j].if = M[k].if
               PROVE  j = k
     OBVIOUS
  <2>1. CASE j \in 1..N /\ k \in 1..N
    <3>1. order[j] = order[k] BY <2>1, <1>10
    <3>2. QED BY <3>1, <2>1, <1>2
  <2>2. CASE j \in 1..N /\ k = N + 1 BY <2>2, <1>10, <1>11
  <2>3. CASE j = N + 1 /\ k \in 1..N BY <2>3, <1>10, <1>11
  <2>4. QED BY <2>1, <2>2, <2>3, <1>9
<1>13. ASSUME NEW k \in 1..Len(M)
       PROVE  /\ M[k].newlink = FALSE
              /\ M[k].if # b => /\ M[k].if \in Ports
                                /\ kport[M[k].if].master = b /\ M[k].master = b
   BY <1>9, <1>10, <1>11
<1>14. ~Silent(M, b) BY <1>9, <1>11 DEF Silent
<1>15. ASSUME NEW p \in Ports, kport[p].master = b PROVE ~Silent(M, p)
  <2>1. PICK k \in 1..N : order[k] = p BY <1>2, <1>3, <1>15
  <2>2. k \in 1..Len(M) /\ M[k].if = p BY <2>1, <1>9, <1>10
  <2>3. QED BY <2>2 DEF Silent
<1>16. Removal(M, b) BY <1>12, <1>13, <1>14, <1>15 DEF Removal
<1>17. QED BY <1>8, <1>9, <1>16

\* What is left of the kernel's bridges and ports without bridge b.
LEMMA RemovalEffect ==
    ASSUME TrackTypeOK, NEW b \in Bridges, DelBridge(b)
    PROVE  /\ kbr'[b].exists = "gone" /\ kbr'[b].up = FALSE
           /\ kbr'[b].stp = FALSE
           /\ \A c \in Bridges \ {b} : kbr'[c] = kbr[c]
           /\ \A p \in Ports : IF kport[p].master = b
                               THEN kport'[p].master = None
                               ELSE kport'[p] = kport[p]
<1>1. kbr' = [kbr EXCEPT ![b] = [exists |-> "gone", up |-> FALSE,
                                 stp |-> FALSE]]
   BY DEF DelBridge
<1>2. kport' = [p \in Ports |->
                   IF kport[p].master = b
                   THEN [kport[p] EXCEPT !.master = None, !.state = "DISABLED"]
                   ELSE kport[p]]
   BY DEF DelBridge
<1>3. /\ kbr'[b].exists = "gone" /\ kbr'[b].up = FALSE /\ kbr'[b].stp = FALSE
      /\ \A c \in Bridges \ {b} : kbr'[c] = kbr[c]
   BY <1>1 DEF TrackTypeOK
<1>4. \A p \in Ports : IF kport[p].master = b THEN kport'[p].master = None
                       ELSE kport'[p] = kport[p]
   BY <1>2 DEF TrackTypeOK, KPortRecs
<1>5. QED BY <1>3, <1>4

\* A bridge is removed, after its ports have left it.
LEMMA DelBridgeView ==
    ASSUME ViewInv, NEW b \in Bridges, DelBridge(b)
    PROVE  ViewInv'
<1>1. TrackTypeOK /\ TrackInv' BY KernelInv DEF ViewInv, TrackInv
<1>2. PICK M \in Seq(Messages) : Notify(M) /\ Removal(M, b)
   BY <1>1, RemovalSent
<1>3. /\ kbr'[b].exists = "gone" /\ kbr'[b].up = FALSE
      /\ \A c \in Bridges \ {b} : kbr'[c] = kbr[c]
      /\ \A p \in Ports : IF kport[p].master = b THEN kport'[p].master = None
                          ELSE kport'[p] = kport[p]
   BY <1>1, RemovalEffect
<1>4. ASSUME NEW k \in 1..Len(M)
      PROVE  Matches(kbr', kport', M[k]) /\ Continues(kport, M[k])
  <2>1. CASE M[k].if = b
    <3>1. ~M[k].newlink /\ b \notin Ports
       BY <1>2, TrackAssumption DEF Removal
    <3>2. QED BY <3>1, <2>1, <1>3 DEF Matches, Continues
  <2>2. CASE M[k].if # b
    <3>1. /\ M[k].if \in Ports /\ M[k].if \notin Bridges /\ ~M[k].newlink
          /\ kport[M[k].if].master = b /\ M[k].master = b
       BY <2>2, <1>2, TrackAssumption DEF Removal
    <3>2. kport'[M[k].if].master = None BY <3>1, <1>3
    <3>3. QED BY <3>1, <3>2 DEF Matches, Continues, Up
  <2>3. QED BY <2>1, <2>2
<1>5. ASSUME NEW i \in Bridges \cup Ports, Silent(M, i)
      PROVE  SameFor(kbr, kport, kbr', kport', i)
  <2>1. i # b BY <1>2, <1>5 DEF Removal
  <2>2. i \in Ports => kport[i].master # b BY <1>2, <1>5 DEF Removal
  <2>3. QED BY <2>1, <2>2, <1>3 DEF SameFor
<1>6. Kernels(kbr', kport')
  <2>1. ASSUME NEW p \in Ports, kport'[p].master # None
        PROVE  kbr'[kport'[p].master].exists = "yes"
    <3>1. kport[p].master # b /\ kport'[p] = kport[p] BY <2>1, <1>3
    <3>2. kport[p].master \in Bridges BY <3>1, <2>1, <1>1, KernelFields
    <3>3. kbr[kport[p].master].exists = "yes"
       BY <3>1, <2>1 DEF ViewInv, Kernels
    <3>4. QED BY <3>1, <3>2, <3>3, <1>3
  <2>2. \A c \in Bridges : kbr'[c].exists # "yes" => ~kbr'[c].up
     BY <1>3 DEF ViewInv, Kernels
  <2>3. QED BY <2>1, <2>2 DEF Kernels
<1>7. \A c \in Bridges : kbr[c].exists = "gone" => kbr'[c].exists = "gone"
   BY <1>3
<1>8. pending \in Seq(Messages) /\ Good(Daemon)
   BY DEF ViewInv, TrackInv, TrackTypeOK
<1>9. UNCHANGED <<phase, daemon>> BY DEF DelBridge
<1> HIDE DEF Daemon
<1>10. ASSUME Listening
       PROVE  /\ Queued(pending \o M, kbr', kport', {})
              /\ Seen(pending \o M, kbr', kport', Daemon, missed)
              /\ Expected(pending \o M, Daemon, missed)
  <2>1. Stale = {} /\ phase # "off" BY <1>10 DEF Stale, Listening
  <2>2. /\ Queued(pending, kbr, kport, {})
        /\ Seen(pending, kbr, kport, Daemon, missed)
        /\ Expected(pending, Daemon, missed)
     BY <2>1 DEF ViewInv
  <2>3. \A j, k \in 1..Len(M) : M[j].if = M[k].if => j = k
     BY <1>2 DEF Removal
  <2>4. QED BY <2>2, <2>3, <1>4, <1>5, <1>7, <1>8, Sent
<1>11. QED BY <1>1, <1>2, <1>5, <1>6, <1>7, <1>9, <1>10, Announced

-----------------------------------------------------------------------------
(* The steps of mstpd *)

\* What mstpd tells the kernel does not change links.
LEMMA ToldSame ==
    ASSUME TrackTypeOK, NEW T, kport' = Told(T), kbr' = kbr,
           Kernels(kbr, kport)
    PROVE  /\ \A i \in Bridges \cup Ports : SameFor(kbr, kport, kbr', kport', i)
           /\ \A b \in Bridges : kbr[b].exists = "gone" => kbr'[b].exists = "gone"
           /\ Kernels(kbr', kport')
<1>1. \A p \in Ports : /\ kport'[p].master = kport[p].master
                       /\ kport'[p].running = kport[p].running
   BY DEF Told, TrackTypeOK, KPortRecs
<1>2. QED BY <1>1 DEF SameFor, Kernels

\* Only what is in br and in prt is seen.
LEMMA SeenBy ==
    ASSUME NEW P, NEW kb, NEW kp, NEW X, NEW e, br' = e.br, prt' = e.prt,
           Seen(P, kb, kp, e, X), Expected(P, e, X)
    PROVE  Seen(P, kb, kp, Daemon', X) /\ Expected(P, Daemon', X)
<1> DEFINE d == Daemon'
<1>1. d.br = e.br /\ d.prt = e.prt BY DEF Daemon
<1> HIDE DEF d
<1>2. \A b \in Bridges, p \in Ports : SameLink(e, d, b, p)
   BY <1>1 DEF SameLink
<1>3. \A b \in Bridges \ X : Silent(P, b) =>
          d.br[b].known = e.br[b].known /\ d.br[b].up = e.br[b].up
   BY <1>1
<1>4. Seen(P, kb, kp, d, X) /\ Expected(P, d, X) BY <1>2, <1>3, SameSeen
<1>5. QED BY <1>4 DEF d

\* mstpd goes to view e and tells the kernel; nothing else changes.
LEMMA BecomesView ==
    ASSUME ViewInv, TrackInv', NEW e, Becomes(e), phase # "off",
           UNCHANGED <<kbr, pending, phase, missed>>,
           Seen(pending, kbr, kport, e, missed), Expected(pending, e, missed)
    PROVE  ViewInv'
<1>1. TrackTypeOK /\ pending \in Seq(Messages)
   BY DEF ViewInv, TrackInv, TrackTypeOK
<1>2. br' = e.br /\ prt' = e.prt /\ kport' = Told(e.told) /\ kbr' = kbr
   BY DEF Becomes
<1>3. /\ \A i \in Bridges \cup Ports : SameFor(kbr, kport, kbr', kport', i)
      /\ \A b \in Bridges : kbr[b].exists = "gone" => kbr'[b].exists = "gone"
      /\ Kernels(kbr', kport')
   BY <1>1, <1>2, ToldSame DEF ViewInv
<1>4. Queued(pending, kbr', kport', Stale)
  <2>1. Queued(pending, kbr, kport, Stale) BY DEF ViewInv
  <2>2. QED BY <2>1, <1>1, <1>3, QueuedUnheard
<1>5. Seen(pending, kbr', kport', e, missed) BY <1>3, SeenUnheard
<1>6. /\ Seen(pending, kbr', kport', Daemon', missed)
      /\ Expected(pending, Daemon', missed)
   BY <1>2, <1>5, SeenBy
<1>7. Stale' = Stale BY DEF Stale
<1>8. QED BY <1>3, <1>4, <1>6, <1>7 DEF ViewInv

\* A notification is handled.
LEMMA HandleNotificationView ==
    ASSUME ViewInv, HandleNotification
    PROVE  ViewInv'
<1> DEFINE P == pending
           T == Tail(pending)
           m == Head(pending)
           d == Daemon
           e == bridge_notify(d, m)
           X == missed
           Z == missed'
           Y == Stale
<1>1. TrackInv' BY HandleNotificationInv DEF ViewInv
<1>2. TrackTypeOK /\ P \in Seq(Messages) /\ Good(d) /\ kport \in KPorts
   BY DEF ViewInv, TrackInv, TrackTypeOK, KPorts
<1>3. /\ pending # <<>> /\ pending' = T /\ phase' = AfterRead(T) /\ kbr' = kbr
      /\ Z = IF phase # "dump" /\ Settles(e, m) THEN X \ {m.if} ELSE X
      /\ br' = e.br /\ prt' = e.prt /\ kport' = Told(e.told)
   BY DEF HandleNotification, Becomes
<1>4. phase # "off" BY <1>3 DEF ViewInv
<1>5. m \in Messages /\ T \in Seq(Messages) BY <1>2, <1>3, ReadTypes
<1>6. Good(e) /\ Heard(d, e, m) BY <1>2, <1>5, NotifyGood
<1>7. /\ Queued(P, kbr, kport, Y) /\ Seen(P, kbr, kport, d, X)
      /\ Expected(P, d, X) /\ Kernels(kbr, kport)
   BY <1>4 DEF ViewInv
<1>8. phase = "dump" => Y = X BY DEF Stale
<1>9. phase # "dump" => Y = {} BY DEF Stale
<1> HIDE DEF d, e, X, Y, Z, P
<1>10. /\ \A i \in X : i \in Z \/ i = m.if
       /\ m.if \notin Z => m.if \notin Y /\ (m.if \in X => Settles(e, m))
   BY <1>3, <1>8, <1>9
<1>11. \A p \in Ports : CanCreateIf(p) <=> kport[p].master # None
   BY DEF CanCreateIf
<1>12. Seen(T, kbr, kport, e, Z) /\ Expected(T, e, Z)
  <2>1. T = Tail(P) /\ m = Head(P) /\ P # <<>> BY <1>3 DEF P
  <2> HIDE DEF T, m
  <2>2. QED BY <2>1, <1>2, <1>6, <1>7, <1>10, <1>11, Handled
<1>13. Queued(T, kbr, kport, Y)
  <2>1. T = Tail(P) /\ P # <<>> BY <1>3 DEF P
  <2>2. QED BY <2>1, <1>2, <1>7, Taken
<1>14. /\ \A i \in Bridges \cup Ports : SameFor(kbr, kport, kbr', kport', i)
       /\ \A b \in Bridges : kbr[b].exists = "gone" => kbr'[b].exists = "gone"
       /\ Kernels(kbr', kport')
   BY <1>2, <1>3, <1>7, ToldSame
<1> HIDE DEF T, m
<1>15. Queued(T, kbr', kport', Y) BY <1>5, <1>13, <1>14, QueuedUnheard
<1>16. Seen(T, kbr', kport', e, Z) BY <1>12, <1>14, SeenUnheard
<1>17. Seen(T, kbr', kport', Daemon', Z) /\ Expected(T, Daemon', Z)
   BY <1>3, <1>12, <1>16, SeenBy
<1>18. Queued(T, kbr', kport', Stale')
  <2>1. CASE T = <<>> BY <2>1, NoneQueued
  <2>2. CASE T # <<>> /\ phase = "dump"
    <3>1. phase' = "dump" /\ Z = X BY <2>2, <1>3 DEF AfterRead
    <3>2. Stale' = Y BY <3>1, <2>2, <1>8 DEF Stale, Z
    <3>3. QED BY <3>2, <1>15
  <2>3. CASE T # <<>> /\ phase # "dump"
    <3>1. phase' = "read" BY <2>3, <1>3 DEF AfterRead
    <3>2. Stale' = Y BY <3>1, <2>3, <1>9 DEF Stale
    <3>3. QED BY <3>2, <1>15
  <2>4. QED BY <2>1, <2>2, <2>3
<1>19. phase' # "off" BY <1>3 DEF AfterRead
<1>20. QED BY <1>1, <1>3, <1>14, <1>17, <1>18, <1>19 DEF ViewInv, Z

\* A lost notification is found: the interface is in doubt from now on.
LEMMA ReadOverflowView ==
    ASSUME ViewInv, ReadOverflow
    PROVE  ViewInv'
<1> DEFINE P == pending
           T == Tail(pending)
           m == Head(pending)
           d == Daemon
           X == missed
           Z == missed'
<1>1. TrackInv' BY LossInv DEF ViewInv
<1>2. P \in Seq(Messages) /\ d = Daemon' /\ phase \in {"run", "read"}
   BY ViewUnchanged DEF ViewInv, TrackInv, TrackTypeOK, ReadOverflow, Listening
<1>3. /\ P # <<>> /\ pending' = T /\ phase' = AfterRead(T)
      /\ kbr' = kbr /\ kport' = kport /\ Z = X \cup {m.if}
   BY DEF ReadOverflow, kernel
<1>4. /\ Queued(P, kbr, kport, {}) /\ Seen(P, kbr, kport, d, X)
      /\ Expected(P, d, X) /\ Kernels(kbr, kport)
   BY <1>2 DEF ViewInv, Stale
<1>5. phase' \in {"run", "read"} /\ Stale' = {}
  <2>1. phase' \in {"run", "read"} BY <1>2, <1>3 DEF AfterRead
  <2>2. QED BY <2>1 DEF Stale
<1> HIDE DEF d, X, Z, P
<1>6. Queued(T, kbr, kport, {})
  <2>1. T = Tail(P) BY DEF P
  <2>2. QED BY <2>1, <1>2, <1>3, <1>4, Taken
<1>7. /\ \A i : i # m.if /\ Silent(T, i) => Silent(P, i)
      /\ \A k \in 1..Len(T) :
            /\ k + 1 \in 1..Len(P) /\ P[k + 1] = T[k]
            /\ First(T, k) => IF T[k].if = m.if THEN Adjacent(P, 1, k + 1)
                              ELSE First(P, k + 1)
  <2>1. T = Tail(P) /\ m = Head(P) BY DEF P
  <2> HIDE DEF T, m
  <2>2. QED BY <2>1, <1>2, <1>3, <1>4, Taken
<1> HIDE DEF T, m
<1>8. \A i : i \notin Z => i \notin X /\ i # m.if BY <1>3
<1>9. Seen(T, kbr, kport, d, Z) BY <1>4, <1>7, <1>8 DEF Seen
<1>10. Expected(T, d, Z)
  <2> SUFFICES ASSUME NEW k \in 1..Len(T), First(T, k), T[k].if \in Ports \ Z
               PROVE  Awaited(d, T[k])
     BY DEF Expected
  <2>1. First(P, k + 1) /\ P[k + 1].if \in Ports \ X BY <1>7, <1>8
  <2>2. QED BY <2>1, <1>4, <1>7 DEF Expected
<1>11. QED BY <1>1, <1>2, <1>3, <1>4, <1>5, <1>6, <1>9, <1>10 DEF ViewInv, Z

\* The messages of Q say the same as those of P.
LEMMA SameMessages ==
    ASSUME NEW P, NEW Q, Len(Q) = Len(P),
           \A k \in 1..Len(P) : /\ Q[k].if = P[k].if /\ Q[k].up = P[k].up
                                /\ Q[k].master = P[k].master
                                /\ Q[k].newlink = P[k].newlink,
           NEW kb, NEW kp, NEW d, NEW X, NEW Y
    PROVE  /\ Queued(P, kb, kp, Y) => Queued(Q, kb, kp, Y)
           /\ Seen(P, kb, kp, d, X) => Seen(Q, kb, kp, d, X)
           /\ Expected(P, d, X) => Expected(Q, d, X)
<1>1. ASSUME NEW k \in 1..Len(P)
      PROVE  /\ Last(Q, k) => Last(P, k)
             /\ First(Q, k) => First(P, k)
             /\ Matches(kb, kp, P[k]) => Matches(kb, kp, Q[k])
             /\ Awaited(d, P[k]) => Awaited(d, Q[k])
  <2>1. Last(Q, k) => Last(P, k) BY DEF Last
  <2>2. First(Q, k) => First(P, k) BY DEF First
  <2>3. Matches(kb, kp, P[k]) => Matches(kb, kp, Q[k]) BY DEF Matches
  <2>4. Awaited(d, P[k]) => Awaited(d, Q[k]) BY DEF Awaited, Up
  <2>5. QED BY <2>1, <2>2, <2>3, <2>4
<1>2. ASSUME NEW j \in 1..Len(P), NEW k \in 1..Len(P)
      PROVE  /\ Adjacent(Q, j, k) => Adjacent(P, j, k)
             /\ Fits(P[j], P[k]) => Fits(Q[j], Q[k])
  <2>1. Adjacent(Q, j, k) => Adjacent(P, j, k) BY DEF Adjacent
  <2>2. Fits(P[j], P[k]) => Fits(Q[j], Q[k]) BY DEF Fits, Up
  <2>3. QED BY <2>1, <2>2
<1>3. \A i : Silent(Q, i) => Silent(P, i) BY DEF Silent
<1>4. Queued(P, kb, kp, Y) => Queued(Q, kb, kp, Y)
   BY <1>1, <1>2 DEF Queued
<1>5. Seen(P, kb, kp, d, X) => Seen(Q, kb, kp, d, X) BY <1>3 DEF Seen
<1>6. Expected(P, d, X) => Expected(Q, d, X) BY <1>1 DEF Expected
<1>7. QED BY <1>4, <1>5, <1>6

\* A loss leaves what the messages say.
LEMMA LostOnly ==
    ASSUME pending \in Seq(Messages), LoseNotification
    PROVE  /\ Len(pending') = Len(pending)
           /\ \A k \in 1..Len(pending) :
                 /\ pending'[k].if = pending[k].if
                 /\ pending'[k].up = pending[k].up
                 /\ pending'[k].master = pending[k].master
                 /\ pending'[k].newlink = pending[k].newlink
<1> DEFINE n == Len(pending)
           x == [pending[n] EXCEPT !.lost = TRUE]
<1>1. pending # <<>> /\ pending' = [pending EXCEPT ![n].lost = TRUE]
   BY DEF LoseNotification
<1>2. n \in 1..n /\ \A k \in 1..n : pending[k] \in Messages BY <1>1
<1>3. pending' = [pending EXCEPT ![n] = x] BY <1>1
<1>4. x \in Messages /\ x.if = pending[n].if /\ x.up = pending[n].up
      /\ x.master = pending[n].master /\ x.newlink = pending[n].newlink
  <2>1. pending[n] \in Messages BY <1>2
  <2>2. QED BY <2>1 DEF Messages
<1>5. \A k \in 1..n : pending'[k] = IF k = n THEN x ELSE pending[k]
  <2> HIDE DEF x
  <2>1. QED BY <1>3
<1>6. Len(pending') = n
  <2> HIDE DEF x
  <2>1. QED BY <1>2, <1>3, <1>4
<1> HIDE DEF x
<1>7. QED BY <1>4, <1>5, <1>6

\* The newest notification is lost.
LEMMA LoseNotificationView ==
    ASSUME ViewInv, LoseNotification
    PROVE  ViewInv'
<1>1. TrackInv' BY LossInv DEF ViewInv
<1>2. UNCHANGED <<kbr, kport, phase, daemon, missed>> /\ phase # "off"
   BY DEF LoseNotification, kernel, Listening
<1>3. /\ Len(pending') = Len(pending)
      /\ \A k \in 1..Len(pending) :
            /\ pending'[k].if = pending[k].if
            /\ pending'[k].up = pending[k].up
            /\ pending'[k].master = pending[k].master
            /\ pending'[k].newlink = pending[k].newlink
   BY LostOnly DEF ViewInv, TrackInv, TrackTypeOK
<1>4. Daemon' = Daemon /\ Stale' = Stale BY <1>2, ViewUnchanged DEF Stale
<1>5. /\ Kernels(kbr, kport) /\ Queued(pending, kbr, kport, Stale)
      /\ Seen(pending, kbr, kport, Daemon, missed)
      /\ Expected(pending, Daemon, missed)
   BY <1>2 DEF ViewInv
<1> HIDE DEF Daemon
<1>6. /\ Queued(pending', kbr, kport, Stale)
      /\ Seen(pending', kbr, kport, Daemon, missed)
      /\ Expected(pending', Daemon, missed)
   BY <1>3, <1>5, SameMessages
<1>7. QED BY <1>1, <1>2, <1>4, <1>5, <1>6 DEF ViewInv

\* A request is sent.
LEMMA SendRequestView ==
    ASSUME ViewInv, NEW b \in Bridges,
           AddAgain(b) \/ \E op \in {"add", "del"} : SendRequest(op, b)
    PROVE  ViewInv'
<1>1. TrackTypeOK /\ TrackInv' BY RequestInv DEF ViewInv, TrackInv
<1>2. UNCHANGED <<kport, pending, phase, daemon, missed>>
   BY DEF AddAgain, SendRequest, kernel
<1>3. \A c \in Bridges : kbr'[c].exists = kbr[c].exists /\ kbr'[c].up = kbr[c].up
  <2>1. CASE AddAgain(b) BY <2>1 DEF AddAgain, kernel
  <2>2. ASSUME NEW op \in {"add", "del"}, SendRequest(op, b)
        PROVE  \A c \in Bridges : /\ kbr'[c].exists = kbr[c].exists
                                  /\ kbr'[c].up = kbr[c].up
    <3>1. PICK v : kbr' = [kbr EXCEPT ![b].stp = v] BY <2>2 DEF SendRequest
    <3>2. QED BY <3>1, <1>1 DEF TrackTypeOK, KBrRecs
  <2>3. QED BY <2>1, <2>2
<1>4. \A i \in Bridges \cup Ports : SameFor(kbr, kport, kbr', kport', i)
   BY <1>2, <1>3 DEF SameFor
<1>5. Kernels(kbr', kport')
  <2>1. \A p \in Ports : kport[p].master \in Bridges \cup {None}
     BY <1>1, KernelFields
  <2>2. QED BY <2>1, <1>2, <1>3 DEF ViewInv, Kernels
<1>6. QED BY <1>1, <1>2, <1>3, <1>4, <1>5, Unannounced

\* The protocol engine asks for a state.
LEMMA EngineView ==
    ASSUME ViewInv, NEW b \in Bridges, NEW p \in Ports,
           NEW s \in EngineStates, EngineSetsState(b, p, s)
    PROVE  ViewInv'
<1> DEFINE d == Daemon
           f == Only(d, b, {p}, s)
           e == MSTP_OUT_set_state(d, b, f)
<1>1. TrackInv' /\ Good(d) BY EngineInv DEF ViewInv, TrackInv
<1>2. Becomes(e) BY DEF EngineSetsState
<1>3. phase # "off" /\ UNCHANGED <<kbr, pending, phase, missed>>
   BY DEF EngineSetsState
<1>4. Seen(pending, kbr, kport, d, missed) /\ Expected(pending, d, missed)
   BY <1>3 DEF ViewInv
<1>5. d \in Views /\ s \in States BY <1>1, TrackAssumption DEF Good, States
<1> HIDE DEF d
<1>6. f \in [Ports -> States] BY <1>5, OnlyType
<1> HIDE DEF f
<1>7. /\ OnlyAt(d, e, b) /\ e.br = d.br
      /\ \A r \in Ports : /\ e.prt[b][r].known = d.prt[b][r].known
                          /\ e.prt[b][r].up = d.prt[b][r].up
   BY <1>5, <1>6, SetStateEffect
<1> HIDE DEF e
<1>8. \A c \in Bridges, r \in Ports : SameLink(d, e, c, r)
   BY <1>7 DEF OnlyAt, SameLink
<1>9. Seen(pending, kbr, kport, e, missed) /\ Expected(pending, e, missed)
   BY <1>4, <1>7, <1>8, SameSeen
<1>10. QED BY <1>1, <1>2, <1>3, <1>9, BecomesView

\* A request is handled.  A bridge that mstpd does not have yet is made known
\* only while its notification is still to come, or was missed.
LEMMA HandleRequestView ==
    ASSUME ViewInv, HandleRequest
    PROVE  ViewInv'
<1> DEFINE d == Daemon
           b == request.br
           e == IF request.op = "add" THEN CTL_add_bridges(d, b)
                ELSE CTL_del_bridges(d, b)
<1>1. TrackInv' /\ Good(d) BY RequestInv DEF ViewInv, TrackInv
<1>2. Becomes(e) BY DEF HandleRequest
<1>3. phase # "off" /\ UNCHANGED <<kbr, pending, phase, missed>>
   BY DEF HandleRequest
<1>4. Seen(pending, kbr, kport, d, missed) /\ Expected(pending, d, missed)
   BY <1>3 DEF ViewInv
<1>5. b \in Bridges
   BY DEF HandleRequest, ViewInv, TrackInv, TrackTypeOK, Requests
<1> HIDE DEF d, b
<1>6. Requested(d, e, b) \/ e = d BY <1>1, <1>5, AddBridgeGood, DelBridgeGood
<1> HIDE DEF e
<1>7. CASE e = d BY <1>7, <1>1, <1>2, <1>3, <1>4, BecomesView
<1>8. CASE Requested(d, e, b)
  <2>1. \A c \in Bridges, r \in Ports : SameLink(d, e, c, r)
     BY <1>8 DEF Requested, OnlyAt, SameLink
  <2>2. ASSUME NEW c \in Bridges \ missed, Silent(pending, c)
        PROVE  e.br[c].known = d.br[c].known /\ e.br[c].up = d.br[c].up
    <3>1. CASE c # b BY <3>1, <1>8 DEF Requested, OnlyAt
    <3>2. CASE c = b
      <4>1. d.br[b].known <=> kbr[b].exists = "yes"
         BY <3>2, <2>2, <1>4 DEF Seen, BridgeSeen
      <4>2. CASE d.br[b].known
        <5>1. e.br[b].known /\ e.br[b].up = d.br[b].up
           BY <4>2, <1>8 DEF Requested
        <5>2. e.br[b].known \in BOOLEAN /\ d.br[b].known \in BOOLEAN
           BY <1>1, <1>5, <1>8 DEF Requested, Good, Views, BrRecs
        <5>3. QED BY <5>1, <5>2, <4>2, <3>2
      <4>3. CASE ~d.br[b].known BY <4>1, <4>3, <3>2, <1>8 DEF Requested
      <4>4. QED BY <4>2, <4>3
    <3>3. QED BY <3>1, <3>2
  <2>3. Seen(pending, kbr, kport, e, missed) /\ Expected(pending, e, missed)
     BY <2>1, <2>2, <1>4, SameSeen
  <2>4. QED BY <2>3, <1>1, <1>2, <1>3, BecomesView
<1>9. QED BY <1>6, <1>7, <1>8

\* mstpd stops.
LEMMA StopView ==
    ASSUME ViewInv, Crash \/ Terminate
    PROVE  ViewInv'
<1>1. TrackTypeOK /\ TrackInv' BY StopInv DEF ViewInv, TrackInv
<1>2. Stopped BY DEF Crash, Terminate
<1>3. Kernels(kbr', kport')
  <2>1. Kernels(kbr, kport) /\ kbr' = kbr BY <1>2 DEF ViewInv, Stopped
  <2>2. CASE Crash BY <2>1, <2>2 DEF Crash
  <2>3. CASE Terminate
    <3>1. kport' = Told(ToldLast) BY <2>3 DEF Terminate
    <3>2. QED BY <3>1, <2>1, <1>1, ToldSame
  <2>4. QED BY <2>2, <2>3
<1>4. /\ phase' = "off" /\ pending' = <<>>
      /\ br' = [b \in Bridges |-> NoBr]
      /\ prt' = [b \in Bridges |-> [p \in Ports |-> NoPrt]]
   BY <1>2 DEF Stopped
<1>5. Daemon'.br = br' /\ Daemon'.prt = prt' BY DEF Daemon
<1>6. Queued(pending', kbr', kport', Stale') BY <1>4, NoneQueued
<1> HIDE DEF Daemon
<1>7. QED BY <1>1, <1>3, <1>4, <1>5, <1>6 DEF ViewInv

\* mstpd starts without any bridge or port; the dump has what the kernel has.
LEMMA StartView ==
    ASSUME ViewInv, Start
    PROVE  ViewInv'
<1> DEFINE here == {b \in Bridges : kbr[b].exists = "yes"}
                        \cup {p \in Ports : kport[p].master # None}
           Entry(i) == IF i \in Bridges THEN Message(i, i, TRUE, kbr[i].up)
                       ELSE Message(kport[i].master, i, TRUE, kport[i].running)
           N == Cardinality(here)
           P == pending'
           d == Daemon
<1>1. TrackTypeOK /\ TrackInv' BY StartInv DEF ViewInv, TrackInv
<1>2. PICK order \in [1..N -> here] :
          /\ \A i, j \in DOMAIN order : order[i] = order[j] => i = j
          /\ P = [i \in DOMAIN order |-> Entry(order[i])]
   BY DEF Start
<1>3. phase = "off" /\ phase' # "off" /\ UNCHANGED <<kbr, kport, daemon, missed>>
   BY DEF Start, kernel
<1>4. here \in SUBSET (Bridges \cup Ports) OBVIOUS
<1>5. \A i \in here : /\ i \in Bridges => kbr[i].exists = "yes"
                      /\ i \notin Bridges => i \in Ports
   BY TrackAssumption
<1>6. /\ \A b \in Bridges : kbr[b].exists = "yes" => b \in here
      /\ \A p \in Ports : kport[p].master # None => p \in here
   OBVIOUS
<1>7. ASSUME NEW i \in here
      PROVE  /\ Entry(i).if = i /\ Entry(i).newlink = TRUE
             /\ Matches(kbr, kport, Entry(i))
  <2>1. CASE i \in Bridges
    <3>1. /\ Entry(i).if = i /\ Entry(i).newlink = TRUE
          /\ Entry(i).up = kbr[i].up
       BY <2>1 DEF Message
    <3>2. i \notin Ports /\ kbr[i].exists = "yes"
       BY <2>1, <1>5, TrackAssumption
    <3> HIDE DEF Entry
    <3>3. QED BY <3>1, <3>2, <2>1 DEF Matches
  <2>2. CASE i \notin Bridges
    <3>1. /\ Entry(i).if = i /\ Entry(i).newlink = TRUE
          /\ Entry(i).up = kport[i].running
          /\ Entry(i).master = kport[i].master
       BY <2>2 DEF Message
    <3> HIDE DEF Entry
    <3>2. QED BY <3>1, <2>2 DEF Matches
  <2>3. QED BY <2>1, <2>2
<1>8. /\ d = Daemon' /\ \A b \in Bridges : d.br[b] = NoBr
      /\ \A b \in Bridges : \A p \in Ports : d.prt[b][p] = NoPrt
  <2>1. d = Daemon' BY <1>3, ViewUnchanged
  <2>2. /\ d.br = [b \in Bridges |-> NoBr]
        /\ d.prt = [b \in Bridges |-> [p \in Ports |-> NoPrt]]
     BY <1>3 DEF ViewInv
  <2> HIDE DEF d
  <2>3. QED BY <2>1, <2>2
<1> HIDE DEF here, Entry, d
<1>9. /\ N \in Nat /\ \A i \in here : \E k \in 1..N : order[k] = i
      /\ \A j, k \in 1..N : order[j] = order[k] => j = k
   BY <1>2, <1>4, OrderNamesAll
<1>10. P \in Seq(Messages) BY <1>1 DEF TrackInv, TrackTypeOK
<1> HIDE DEF N
<1>11. DOMAIN P = 1..N BY <1>2
<1>12. Len(P) = N
  <2>1. Len(P) \in Nat /\ DOMAIN P = 1..Len(P) BY <1>10
  <2> HIDE DEF P
  <2>2. QED BY <2>1, <1>9, <1>11, SameInterval
<1>13. ASSUME NEW k \in 1..N
       PROVE  /\ P[k].if = order[k] /\ P[k].newlink = TRUE
              /\ Matches(kbr, kport, P[k])
  <2>1. P[k] = Entry(order[k]) /\ order[k] \in here BY <1>2
  <2> HIDE DEF P
  <2>2. QED BY <2>1, <1>7
<1>14. \A i : Silent(P, i) => i \notin here
  <2> SUFFICES ASSUME NEW i \in here PROVE ~Silent(P, i) OBVIOUS
  <2>1. PICK k \in 1..N : order[k] = i BY <1>9
  <2>2. P[k].if = i BY <2>1, <1>13
  <2>3. QED BY <2>2, <1>12 DEF Silent
<1> HIDE DEF P
<1>15. Queued(P, kbr, kport, Stale')
  <2>1. \A k \in 1..Len(P) : Matches(kbr, kport, P[k]) /\ P[k].newlink = TRUE
     BY <1>12, <1>13
  <2>2. ASSUME NEW j \in 1..Len(P), NEW k \in 1..Len(P), Adjacent(P, j, k)
        PROVE  FALSE
    <3>1. order[j] = order[k] /\ j < k BY <2>2, <1>12, <1>13 DEF Adjacent
    <3>2. j = k BY <3>1, <1>9, <1>12
    <3>3. QED BY <3>1, <3>2
  <2>3. QED BY <2>1, <2>2 DEF Queued
<1>16. NoBr.known = FALSE /\ NoPrt.known = FALSE /\ NoPrt.up = FALSE
   BY DEF NoBr, NoPrt
<1>17. Seen(P, kbr, kport, d, missed)
  <2>1. ASSUME NEW b \in Bridges, Silent(P, b) PROVE BridgeSeen(kbr, d, b)
     BY <2>1, <1>6, <1>8, <1>14, <1>16 DEF BridgeSeen
  <2>2. ASSUME NEW p \in Ports, Silent(P, p) PROVE PortSeen(kport, d, p)
    <3>1. kport[p].master = None BY <2>2, <1>6, <1>14
    <3>2. QED BY <3>1, <1>8, <1>16, TrackAssumption DEF PortSeen
  <2>3. QED BY <2>1, <2>2 DEF Seen
<1>18. Expected(P, d, missed)
  <2> SUFFICES ASSUME NEW k \in 1..Len(P), P[k].if \in Ports
               PROVE  Awaited(d, P[k])
     BY DEF Expected
  <2>1. QED BY <1>8, <1>16 DEF Awaited
<1>19. Kernels(kbr, kport) BY DEF ViewInv
<1>20. QED BY <1>1, <1>3, <1>8, <1>15, <1>17, <1>18, <1>19 DEF ViewInv, P

\* Nothing happens.
LEMMA ViewKept ==
    ASSUME ViewInv, UNCHANGED trackVars
    PROVE  ViewInv'
<1>1. /\ UNCHANGED <<kbr, kport, pending, phase, daemon, missed>>
      /\ UNCHANGED <<request>>
   BY DEF trackVars, daemon
<1>2. TrackInv' BY <1>1, SameView DEF ViewInv, TrackInv, TrackTypeOK
<1>3. /\ \A i \in Bridges \cup Ports : SameFor(kbr, kport, kbr', kport', i)
      /\ Kernels(kbr', kport')
   BY <1>1 DEF SameFor, ViewInv
<1>4. QED BY <1>1, <1>2, <1>3, Unannounced

\* Every step keeps the invariant.
LEMMA ViewInvAlways == TrackSpec => []ViewInv
<1>1. TrackInit /\ TrackInv => ViewInv
  <2> SUFFICES ASSUME TrackInit, TrackInv PROVE ViewInv OBVIOUS
  <2> DEFINE d == Daemon
  <2>1. /\ pending = <<>> /\ phase = "run"
        /\ \A b \in Bridges : kbr[b].exists = "never" /\ kbr[b].up = FALSE
        /\ \A p \in Ports : kport[p].master = None
     BY DEF TrackInit
  <2>2. /\ d.br = br /\ d.prt = prt BY DEF Daemon
  <2>3. /\ \A b \in Bridges : d.br[b].known = FALSE
        /\ \A b \in Bridges : \A p \in Ports : d.prt[b][p].known = FALSE
     BY <2>2 DEF TrackInit, NoBr, NoPrt
  <2> HIDE DEF d
  <2>4. Kernels(kbr, kport) BY <2>1 DEF Kernels
  <2>5. Queued(pending, kbr, kport, Stale) BY <2>1, NoneQueued
  <2>6. Seen(pending, kbr, kport, d, missed)
    <3>1. \A b \in Bridges : BridgeSeen(kbr, d, b)
       BY <2>1, <2>3 DEF BridgeSeen
    <3>2. \A p \in Ports : PortSeen(kport, d, p)
       BY <2>1, <2>3, TrackAssumption DEF PortSeen
    <3>3. QED BY <3>1, <3>2 DEF Seen
  <2>7. Expected(pending, d, missed) BY <2>1 DEF Expected
  <2>8. QED BY <2>1, <2>4, <2>5, <2>6, <2>7 DEF ViewInv, d
<1>2. ViewInv /\ [TrackNext]_trackVars => ViewInv'
  <2> SUFFICES ASSUME ViewInv, [TrackNext]_trackVars PROVE ViewInv'
     OBVIOUS
  <2>1. CASE TrackNext
     BY <2>1, NewBridgeView, FlipBridgeView, DelBridgeView, SendRequestView,
        DelPortView, UnregisterView, FlipLinkView, AddPortView, EngineView,
        LoseNotificationView, HandleNotificationView, ReadOverflowView,
        HandleRequestView, StopView, StartView
     DEF TrackNext
  <2>2. CASE UNCHANGED trackVars BY <2>2, ViewKept
  <2>3. QED BY <2>1, <2>2
<1>3. TrackInit => TrackInv BY TrackInitInv
<1>4. QED BY <1>1, <1>2, <1>3, PTL DEF TrackSpec

\* For any number of bridges and ports and however many notifications are on
\* their way or lost, across crashes and restarts: once mstpd has read its
\* socket it has the bridges, ports and links the kernel has, but for the
\* interfaces of which it missed a notification and heard nothing since.
THEOREM ViewAlwaysCurrent == TrackSpec => []ViewIsCurrent
<1>1. ViewInv => ViewIsCurrent
  <2> SUFFICES ASSUME ViewInv, Quiet PROVE ViewIsCurrent
     BY DEF ViewIsCurrent
  <2>1. Daemon.br = br /\ Daemon.prt = prt BY DEF Daemon
  <2>2. Seen(pending, kbr, kport, Daemon, missed) BY DEF Quiet, ViewInv
  <2> HIDE DEF Daemon
  <2>3. \A i : Silent(pending, i) BY DEF Quiet, Silent
  <2>4. \A b \in Bridges \ missed : /\ br[b].known <=> kbr[b].exists = "yes"
                                    /\ br[b].known => br[b].up = kbr[b].up
     BY <2>1, <2>2, <2>3 DEF Seen, BridgeSeen
  <2>5. \A p \in Ports \ missed : \A b \in Bridges :
            /\ prt[b][p].known <=> kport[p].master = b
            /\ prt[b][p].known => prt[b][p].up = kport[p].running
     BY <2>1, <2>2, <2>3 DEF Seen, PortSeen
  <2>6. \A b \in Bridges : \A p \in Ports : prt[b][p].known \in BOOLEAN
     BY DEF ViewInv, TrackInv, TrackTypeOK, PrtRecs
  <2>7. \A p \in Ports \ missed : \A b \in Bridges :
            prt[b][p].known = (kport[p].master = b)
    <3> SUFFICES ASSUME NEW p \in Ports \ missed, NEW b \in Bridges
                 PROVE  prt[b][p].known = (kport[p].master = b)
       OBVIOUS
    <3>1. prt[b][p].known \in BOOLEAN BY <2>6
    <3>2. prt[b][p].known <=> kport[p].master = b BY <2>5
    <3>3. QED BY <3>1, <3>2
  <2>8. QED BY <2>4, <2>5, <2>7 DEF ViewIsCurrent
<1>2. QED BY <1>1, ViewInvAlways, PTL

-----------------------------------------------------------------------------
(* The kernel's port states *)

\* The kernel itself gave port p its state, under user space STP.
Given(kb, kp, p) ==
    kp[p].state = IF kp[p].running /\ kb[kp[p].master].up
                  THEN "BLOCKING" ELSE "DISABLED"

\* A port about which a message is on its way has the state the kernel gave
\* it, when its bridge is managed.
Fresh(P, kb, kp, d, R) ==
    \A k \in 1..Len(P) :
        /\ Last(P, k) /\ P[k].if \in Ports \ R /\ P[k].newlink
        /\ kb[P[k].master].stp
        /\ d.br[P[k].master].stp_enabled
        => Given(kb, kp, P[k].if)

\* A port about which none is on its way has the state mstpd has, unless its
\* bridge is about to be seen down.
NoDown(P, b) == \A k \in 1..Len(P) : P[k].if = b => Up(P[k])

Agrees(P, kb, kp, d, R) ==
    \A b \in Bridges \ R, p \in Ports \ R :
        /\ kb[b].stp /\ d.br[b].bridgeEnabled /\ d.prt[b][p].up
        /\ Silent(P, p) /\ NoDown(P, b)
        => kp[p].state = d.prt[b][p].state

\* Requests: mstpd manages the bridges that have user space STP, but for the
\* request that is on its way.
Asks(kb, rq, d) ==
    /\ \A b \in Bridges :
          /\ kb[b].exists # "yes" => ~kb[b].stp
          /\ kb[b].exists = "never" => ~d.br[b].stp_enabled
          /\ kb[b].exists = "yes" /\ d.br[b].stp_enabled /\ ~kb[b].stp =>
                rq.op = "del" /\ rq.br = b
          /\ rq.op = "add" /\ rq.br = b => kb[b].stp \/ kb[b].exists = "gone"
          /\ rq.op = "del" /\ rq.br = b => ~kb[b].stp

Unmanaged(rq, d) == rq = NoRequest /\ \A b \in Bridges : ~d.br[b].stp_enabled

\* The inductive invariant.
FollowInv ==
    /\ ViewInv
    /\ \A i \in missed : i \in raced
    /\ Asks(kbr, request, Daemon)
    /\ phase \in {"off", "dump"} => Unmanaged(request, Daemon)
    /\ Fresh(pending, kbr, kport, Daemon, raced)
    /\ Agrees(pending, kbr, kport, Daemon, raced)

\* While nothing is managed, no state has to agree.
LEMMA NothingManaged ==
    ASSUME NEW P \in Seq(Messages), NEW kb, NEW kp, NEW rq, NEW d, Good(d), NEW R,
           Unmanaged(rq, d)
    PROVE  Fresh(P, kb, kp, d, R) /\ Agrees(P, kb, kp, d, R)
<1>1. \A b \in Bridges : ~d.br[b].stp_enabled /\ ~d.br[b].bridgeEnabled
   BY RulesOf DEF Unmanaged, BridgeRule
<1>2. ASSUME NEW k \in 1..Len(P), P[k].if \in Ports, P[k].newlink
      PROVE  P[k].master \in Bridges
   BY <1>2 DEF Messages
<1>3. QED BY <1>1, <1>2 DEF Fresh, Agrees

\* There is a last message about an interface that is not silent.
LEMMA LastExists ==
    ASSUME NEW P \in Seq(Messages), NEW i, ~Silent(P, i)
    PROVE  \E k \in 1..Len(P) : P[k].if = i /\ Last(P, k)
<1> DEFINE n == Len(P)
           T == {k \in 1..n : P[k].if = i}
           U == {n - k : k \in T}
           R == OpToRel(<, Nat)
<1>1. n \in Nat OBVIOUS
<1>2. PICK a \in 1..n : P[a].if = i BY DEF Silent
<1>3. U \subseteq Nat /\ U # {}
  <2>1. n - a \in U BY <1>2
  <2>2. U \subseteq Nat BY <1>1
  <2>3. QED BY <2>1, <2>2
<1>4. IsWellFoundedOn(R, Nat) BY NatLessThanWellFounded
<1>5. \A k \in 1..n : P[k].if = i => n - k \in U OBVIOUS
<1>6. \A u \in U : \E k \in 1..n : P[k].if = i /\ u = n - k OBVIOUS
<1> HIDE DEF n, U, R
<1>7. PICK u \in U : \A w \in U : ~(<<w, u>> \in R) BY <1>3, <1>4, WFMin
<1>8. \A w \in U : ~(w < u) BY <1>3, <1>7 DEF R, OpToRel
<1>9. PICK k \in 1..n : P[k].if = i /\ u = n - k BY <1>6
<1>10. ASSUME NEW j \in 1..n, P[j].if = i PROVE j <= k
  <2>1. ~(n - j < n - k) BY <1>5, <1>8, <1>9, <1>10
  <2>2. QED BY <2>1, <1>1
<1>11. QED BY <1>9, <1>10 DEF Last, n

\* A bridge that runs, and will not be seen down, is up.
LEMMA RunsUp ==
    ASSUME NEW P \in Seq(Messages), NEW kb, NEW kp, NEW d, Good(d), NEW X,
           Queued(P, kb, kp, {}), Seen(P, kb, kp, d, X),
           NEW b \in Bridges, b \notin X, d.br[b].bridgeEnabled, NoDown(P, b)
    PROVE  kb[b].up
<1>1. CASE Silent(P, b)
  <2>1. BridgeSeen(kb, d, b) BY <1>1 DEF Seen
  <2>2. d.br[b].known /\ d.br[b].up BY RulesOf DEF BridgeRule
  <2>3. QED BY <2>1, <2>2 DEF BridgeSeen
<1>2. CASE ~Silent(P, b)
  <2>1. PICK k \in 1..Len(P) : P[k].if = b /\ Last(P, k) BY <1>2, LastExists
  <2>2. Up(P[k]) BY <2>1 DEF NoDown
  <2>3. Matches(kb, kp, P[k]) BY <2>1 DEF Queued
  <2>4. QED BY <2>1, <2>2, <2>3 DEF Matches, Up
<1>3. QED BY <1>1, <1>2

\* A port that is up and of which nothing is to come is up in that bridge.
LEMMA UpSeen ==
    ASSUME NEW P, NEW kb, NEW kp, NEW d, Good(d), NEW X,
           Seen(P, kb, kp, d, X), NEW b \in Bridges, NEW p \in Ports, p \notin X,
           Silent(P, p), d.prt[b][p].up
    PROVE  kp[p].master = b /\ kp[p].running
<1>1. PortSeen(kp, d, p) BY DEF Seen
<1>2. d.prt[b][p].known BY RulesOf DEF PortRule
<1>3. QED BY <1>1, <1>2 DEF PortSeen

\* The last message about a port names its bridge.
LEMMA LastMaster ==
    ASSUME NEW P \in Seq(Messages), NEW kb, NEW kp, Queued(P, kb, kp, {}),
           NEW k \in 1..Len(P), Last(P, k), P[k].if \in Ports, P[k].newlink
    PROVE  P[k].master \in Bridges /\ kp[P[k].if].master = P[k].master
<1>1. Matches(kb, kp, P[k]) BY DEF Queued
<1>2. P[k].master \in Bridges BY DEF Messages
<1>3. QED BY <1>1, <1>2 DEF Matches

-----------------------------------------------------------------------------
(* Steps of the kernel: port states *)

\* The kernel goes from kb, kp to kc, kq and sends the messages M.
LEMMA FreshSent ==
    ASSUME NEW P \in Seq(Messages), NEW M \in Seq(Messages),
           NEW kb, NEW kp, NEW kc, NEW kq, NEW d, NEW R,
           Fresh(P, kb, kp, d, R),
           \A k \in 1..Len(M) :
               /\ Last(M, k) /\ M[k].if \in Ports /\ M[k].newlink
               /\ kc[M[k].master].stp
               => Given(kc, kq, M[k].if),
           \A k \in 1..Len(P) :
               /\ Last(P, k) /\ P[k].if \in Ports /\ P[k].newlink
               /\ kc[P[k].master].stp /\ Silent(M, P[k].if)
               => \/ Given(kc, kq, P[k].if)
                  \/ /\ kb[P[k].master].stp
                     /\ Given(kb, kp, P[k].if) => Given(kc, kq, P[k].if)
    PROVE  Fresh(P \o M, kc, kq, d, R)
<1> DEFINE Q == P \o M
           n == Len(P)
<1>1. /\ n \in Nat /\ Len(M) \in Nat /\ Len(Q) = n + Len(M)
      /\ \A k \in 1..n : k \in 1..Len(Q) /\ Q[k] = P[k]
      /\ \A k \in 1..Len(Q) : k \notin 1..n =>
             k - n \in 1..Len(M) /\ Q[k] = M[k - n]
      /\ \A k \in 1..Len(M) : k + n \in 1..Len(Q) /\ Q[k + n] = M[k]
   OBVIOUS
<1> HIDE DEF Q
<1> SUFFICES ASSUME NEW k \in 1..Len(Q), Last(Q, k), Q[k].if \in Ports \ R,
                    Q[k].newlink, kc[Q[k].master].stp,
                    d.br[Q[k].master].stp_enabled
             PROVE  Given(kc, kq, Q[k].if)
   BY DEF Fresh, Q
<1>2. CASE k \in 1..n
  <2>1. Q[k] = P[k] /\ Last(P, k) BY <1>1, <1>2 DEF Last
  <2>2. Silent(M, P[k].if)
    <3> SUFFICES ASSUME NEW j \in 1..Len(M), M[j].if = P[k].if PROVE FALSE
       BY DEF Silent
    <3>1. j + n <= k BY <2>1, <1>1 DEF Last
    <3>2. QED BY <3>1, <1>1, <1>2
  <2>3. kb[P[k].master].stp => Given(kb, kp, P[k].if)
     BY <2>1, <1>2 DEF Fresh
  <2>4. \/ Given(kc, kq, P[k].if)
        \/ /\ kb[P[k].master].stp
           /\ Given(kb, kp, P[k].if) => Given(kc, kq, P[k].if)
     BY <2>1, <2>2, <1>2
  <2>5. QED BY <2>1, <2>3, <2>4
<1>3. CASE k \notin 1..n
  <2>1. k - n \in 1..Len(M) /\ Q[k] = M[k - n] BY <1>1, <1>3
  <2>2. Last(M, k - n)
    <3> SUFFICES ASSUME NEW j \in 1..Len(M), M[j].if = M[k - n].if
                 PROVE  j <= k - n
       BY DEF Last
    <3>1. j + n <= k BY <2>1, <1>1 DEF Last
    <3>2. QED BY <3>1, <1>1
  <2>3. QED BY <2>1, <2>2
<1>4. QED BY <1>2, <1>3

\* The ports of which M says nothing, on bridges it does not take down, keep
\* their state.
LEMMA AgreesSent ==
    ASSUME NEW P \in Seq(Messages), NEW M \in Seq(Messages),
           NEW kb, NEW kp, NEW kc, NEW kq, NEW d, NEW R,
           Agrees(P, kb, kp, d, R),
           \A b \in Bridges \ R, p \in Ports \ R :
               /\ kc[b].stp /\ d.br[b].bridgeEnabled /\ d.prt[b][p].up
               /\ Silent(P, p) /\ NoDown(P, b) /\ Silent(M, p) /\ NoDown(M, b)
               => kb[b].stp /\ kq[p].state = kp[p].state
    PROVE  Agrees(P \o M, kc, kq, d, R)
<1> DEFINE Q == P \o M
           n == Len(P)
<1>1. /\ n \in Nat /\ Len(M) \in Nat /\ Len(Q) = n + Len(M)
      /\ \A k \in 1..n : k \in 1..Len(Q) /\ Q[k] = P[k]
      /\ \A k \in 1..Len(M) : k + n \in 1..Len(Q) /\ Q[k + n] = M[k]
   OBVIOUS
<1> HIDE DEF Q
<1>2. \A i : Silent(Q, i) => Silent(P, i) /\ Silent(M, i) BY <1>1 DEF Silent
<1>3. \A b : NoDown(Q, b) => NoDown(P, b) /\ NoDown(M, b) BY <1>1 DEF NoDown
<1>4. QED BY <1>2, <1>3 DEF Agrees, Q

\* The kernel changes and sends the messages M.
LEMMA FollowAnnounced ==
    ASSUME FollowInv, ViewInv', NEW M \in Seq(Messages), Notify(M),
           UNCHANGED <<phase, request, daemon>>, Asks(kbr', request, Daemon),
           Listening =>
               /\ Fresh(pending \o M, kbr', kport', Daemon, raced)
               /\ Agrees(pending \o M, kbr', kport', Daemon, raced)
    PROVE  FollowInv'
<1>1. TrackTypeOK BY DEF FollowInv, ViewInv, TrackInv
<1>2. Daemon' = Daemon BY ViewUnchanged
<1>3. pending' \in Seq(Messages) /\ Good(Daemon)
   BY DEF FollowInv, ViewInv, TrackInv, TrackTypeOK
<1>4. phase \in {"off", "dump"} => Unmanaged(request, Daemon) BY DEF FollowInv
<1> HIDE DEF Daemon
<1>5. CASE Listening /\ phase # "dump" /\ phase # "off"
           /\ pending' = pending \o M /\ UNCHANGED <<missed, raced>>
   BY <1>2, <1>5 DEF FollowInv
<1>6. CASE phase \in {"off", "dump"} /\ \A i \in missed' : i \in raced'
  <2>1. /\ Fresh(pending', kbr', kport', Daemon, raced')
        /\ Agrees(pending', kbr', kport', Daemon, raced')
     BY <1>3, <1>4, <1>6, NothingManaged
  <2>2. QED BY <2>1, <1>2, <1>4, <1>6 DEF FollowInv
<1>7. (phase = "dump" /\ raced' = raced \cup missed')
          \/ UNCHANGED <<missed, raced>> => \A i \in missed' : i \in raced'
   BY DEF FollowInv
<1>8. QED BY <1>1, <1>5, <1>6, <1>7, WhoHears

\* What the invariant says while mstpd hears the kernel.
LEMMA Hearing ==
    ASSUME FollowInv, Listening
    PROVE  /\ pending \in Seq(Messages) /\ Good(Daemon)
           /\ Queued(pending, kbr, kport, {})
           /\ Seen(pending, kbr, kport, Daemon, missed)
           /\ Expected(pending, Daemon, missed)
           /\ Fresh(pending, kbr, kport, Daemon, raced)
           /\ Agrees(pending, kbr, kport, Daemon, raced)
           /\ \A i \in missed : i \in raced
<1>1. Stale = {} /\ phase # "off" BY DEF Stale, Listening
<1>2. QED BY <1>1 DEF FollowInv, ViewInv, TrackInv, TrackTypeOK

\* Under user space STP the kernel blocks a port that comes up.
LEMMA StateGiven ==
    \A b, up : \A s \in StatesGiven(b, up) :
        kbr'[b].stp => s = IF up THEN "BLOCKING" ELSE "DISABLED"
BY DEF StatesGiven

\* The kernel changes port p and sends messages about it.
LEMMA FollowPort ==
    ASSUME FollowInv, ViewInv', NEW p \in Ports, NEW M \in Seq(Messages),
           Notify(M), kbr' = kbr, UNCHANGED <<phase, request, daemon>>,
           \A r \in Ports \ {p} : kport'[r] = kport[r],
           ~Silent(M, p),
           \A k \in 1..Len(M) :
               /\ M[k].if = p
               /\ M[k].newlink /\ kbr[M[k].master].stp => Given(kbr, kport', p)
    PROVE  FollowInv'
<1>1. Asks(kbr', request, Daemon) BY DEF FollowInv
<1>2. ASSUME Listening
      PROVE  /\ Fresh(pending \o M, kbr', kport', Daemon, raced)
             /\ Agrees(pending \o M, kbr', kport', Daemon, raced)
  <2>1. /\ pending \in Seq(Messages)
        /\ Fresh(pending, kbr, kport, Daemon, raced)
        /\ Agrees(pending, kbr, kport, Daemon, raced)
     BY <1>2, Hearing
  <2> HIDE DEF Daemon
  <2>2. Fresh(pending \o M, kbr', kport', Daemon, raced)
    <3>1. \A r \in Ports : Silent(M, r) /\ Given(kbr, kport, r) =>
                               Given(kbr', kport', r)
       BY DEF Given
    <3>2. QED BY <3>1, <2>1, FreshSent
  <2>3. Agrees(pending \o M, kbr', kport', Daemon, raced)
    <3>1. \A r \in Ports : Silent(M, r) => kport'[r].state = kport[r].state
       OBVIOUS
    <3>2. QED BY <3>1, <2>1, AgreesSent
  <2>4. QED BY <2>2, <2>3
<1>3. QED BY <1>1, <1>2, FollowAnnounced

\* A port comes to a bridge.
LEMMA AddPortFollow ==
    ASSUME FollowInv, NEW p \in Ports, NEW b \in Bridges, AddPort(p, b)
    PROVE  FollowInv'
<1> DEFINE m == Message(b, p, TRUE, kport[p].running)
           M == <<m>>
<1>1. ViewInv' /\ TrackTypeOK
   BY AddPortView DEF FollowInv, ViewInv, TrackInv
<1>2. /\ kbr' = kbr /\ Notify(M) /\ UNCHANGED <<phase, request, daemon>>
   BY DEF AddPort
<1>3. PICK s \in States :
          /\ s \in StatesGiven(b, kbr[b].up /\ kport[p].running)
          /\ kport' = [kport EXCEPT ![p].master = b, ![p].state = s]
   BY GivenStates DEF AddPort
<1>4. /\ kport'[p].master = b /\ kport'[p].running = kport[p].running
      /\ kport'[p].state = s /\ \A r \in Ports \ {p} : kport'[r] = kport[r]
   BY <1>1, <1>3 DEF TrackTypeOK, KPortRecs
<1>5. kbr[b].stp => Given(kbr, kport', p)
   BY <1>2, <1>3, <1>4, StateGiven DEF Given
<1>6. m \in Messages /\ m.if = p /\ m.master = b
  <2>1. kport[p].running \in BOOLEAN BY <1>1, KernelFields
  <2>2. m \in Messages BY <2>1, MessageTypes
  <2>3. QED BY <2>2 DEF Message
<1> HIDE DEF m
<1>7. /\ M \in Seq(Messages) /\ Len(M) = 1 /\ M[1] = m
   BY <1>6, MessageSequences
<1> HIDE DEF M
<1>8. /\ ~Silent(M, p)
      /\ \A k \in 1..Len(M) :
            /\ M[k].if = p
            /\ M[k].newlink /\ kbr[M[k].master].stp => Given(kbr, kport', p)
   BY <1>5, <1>6, <1>7 DEF Silent
<1>9. QED BY <1>1, <1>2, <1>4, <1>7, <1>8, FollowPort

\* A port leaves its bridge.
LEMMA DelPortFollow ==
    ASSUME FollowInv, NEW p \in Ports, DelPort(p)
    PROVE  FollowInv'
<1> DEFINE b == kport[p].master
           m == Message(b, p, FALSE, kport[p].running)
           M == <<m>>
<1>1. ViewInv' /\ TrackTypeOK
   BY DelPortView DEF FollowInv, ViewInv, TrackInv
<1>2. /\ kbr' = kbr /\ Notify(M) /\ UNCHANGED <<phase, request, daemon>>
      /\ kport' = [kport EXCEPT ![p].master = None, ![p].state = "DISABLED"]
      /\ b # None
   BY DEF DelPort
<1>3. \A r \in Ports \ {p} : kport'[r] = kport[r]
   BY <1>1, <1>2 DEF TrackTypeOK
<1>4. m \in Messages /\ m.if = p /\ m.newlink = FALSE
  <2>1. kport[p].running \in BOOLEAN /\ b \in Bridges
     BY <1>1, <1>2, KernelFields
  <2>2. m \in Messages BY <2>1, MessageTypes
  <2>3. QED BY <2>2 DEF Message
<1> HIDE DEF m
<1>5. /\ M \in Seq(Messages) /\ Len(M) = 1 /\ M[1] = m
   BY <1>4, MessageSequences
<1> HIDE DEF M
<1>6. /\ ~Silent(M, p)
      /\ \A k \in 1..Len(M) : M[k].if = p /\ ~M[k].newlink
   BY <1>4, <1>5 DEF Silent
<1>7. QED BY <1>1, <1>2, <1>3, <1>5, <1>6, FollowPort

\* A port is unregistered.
LEMMA UnregisterFollow ==
    ASSUME FollowInv, NEW p \in Ports, Unregister(p)
    PROVE  FollowInv'
<1> DEFINE b == kport[p].master
           m == Message(b, p, FALSE, kport[p].running)
           n == Message(None, p, FALSE, FALSE)
           M == <<m, n>>
<1>1. ViewInv' /\ TrackTypeOK
   BY UnregisterView DEF FollowInv, ViewInv, TrackInv
<1>2. /\ kbr' = kbr /\ Notify(M) /\ UNCHANGED <<phase, request, daemon>>
      /\ b # None
   BY DEF Unregister
<1>3. \A r \in Ports \ {p} : kport'[r] = kport[r]
   BY <1>1 DEF Unregister, TrackTypeOK
<1>4. /\ m \in Messages /\ m.if = p /\ m.newlink = FALSE
      /\ n \in Messages /\ n.if = p /\ n.newlink = FALSE
  <2>1. kport[p].running \in BOOLEAN /\ b \in Bridges
     BY <1>1, <1>2, KernelFields
  <2>2. m \in Messages /\ n \in Messages BY <2>1, MessageTypes
  <2>3. QED BY <2>2 DEF Message
<1> HIDE DEF m, n
<1>5. /\ M \in Seq(Messages) /\ Len(M) = 2 /\ M[1] = m /\ M[2] = n
   BY <1>4, MessageSequences
<1> HIDE DEF M
<1>6. /\ ~Silent(M, p)
      /\ \A k \in 1..Len(M) : M[k].if = p /\ ~M[k].newlink
   BY <1>4, <1>5 DEF Silent
<1>7. QED BY <1>1, <1>2, <1>3, <1>5, <1>6, FollowPort

\* The link of a port comes or goes.
LEMMA FlipLinkFollow ==
    ASSUME FollowInv, NEW p \in Ports, FlipLink(p)
    PROVE  FollowInv'
<1> DEFINE b == kport[p].master
           running == ~kport[p].running
           m == Message(b, p, TRUE, running)
           M == <<m>>
<1>1. ViewInv' /\ TrackTypeOK
   BY FlipLinkView DEF FollowInv, ViewInv, TrackInv
<1>2. kport[p].running \in BOOLEAN /\ b \in Bridges \cup {None}
   BY <1>1, KernelFields
<1>3. kbr' = kbr /\ UNCHANGED <<phase, request, daemon>> BY DEF FlipLink
<1>4. CASE b = None
  <2>1. /\ kport' = [kport EXCEPT ![p].running = running]
        /\ UNCHANGED <<pending, missed, raced>>
     BY <1>4 DEF FlipLink
  <2>2. /\ \A r \in Ports \ {p} : kport'[r] = kport[r]
        /\ kport'[p].master = None
     BY <2>1, <1>1, <1>4 DEF TrackTypeOK, KPortRecs
  <2>3. Daemon' = Daemon BY <1>3, ViewUnchanged
  <2>4. \A c \in Bridges : c # None BY TrackAssumption
  <2>5. /\ Fresh(pending, kbr, kport', Daemon, raced)
        /\ Agrees(pending, kbr, kport', Daemon, raced)
    <3>1. CASE Listening
      <4>1. /\ pending \in Seq(Messages) /\ Good(Daemon)
            /\ Queued(pending, kbr, kport, {})
            /\ Seen(pending, kbr, kport, Daemon, missed)
            /\ Fresh(pending, kbr, kport, Daemon, raced)
            /\ Agrees(pending, kbr, kport, Daemon, raced)
            /\ \A i \in missed : i \in raced
         BY <3>1, Hearing
      <4> HIDE DEF Daemon
      <4>2. ASSUME NEW k \in 1..Len(pending), Last(pending, k),
                   pending[k].if \in Ports, pending[k].newlink
            PROVE  pending[k].if # p
         BY <4>1, <4>2, <2>4, <1>4, LastMaster
      <4>3. Fresh(pending, kbr, kport', Daemon, raced)
         BY <4>1, <4>2, <2>2 DEF Fresh, Given
      <4>4. ASSUME NEW c \in Bridges \ raced, NEW r \in Ports \ raced,
                   Daemon.prt[c][r].up, Silent(pending, r)
            PROVE  r # p
        <5>1. r \notin missed BY <4>1
        <5>2. kport[r].master = c BY <5>1, <4>1, <4>4, UpSeen
        <5>3. QED BY <5>2, <2>4, <1>4
      <4>5. Agrees(pending, kbr, kport', Daemon, raced)
         BY <4>1, <4>4, <2>2 DEF Agrees
      <4>6. QED BY <4>3, <4>5
    <3>2. CASE ~Listening
      <4>1. /\ pending \in Seq(Messages) /\ Good(Daemon)
            /\ Unmanaged(request, Daemon)
         BY <3>2, <1>1 DEF FollowInv, ViewInv, TrackInv, TrackTypeOK, Listening
      <4>2. QED BY <4>1, NothingManaged
    <3>3. QED BY <3>1, <3>2
  <2> HIDE DEF Daemon
  <2>6. QED BY <2>1, <2>3, <2>5, <1>1, <1>3 DEF FollowInv
<1>5. CASE b # None
  <2>1. PICK s \in States :
            /\ s \in StatesGiven(b, kbr[b].up /\ running)
            /\ kport' = [kport EXCEPT ![p].running = running, ![p].state = s]
     BY <1>5, GivenStates DEF FlipLink
  <2>2. Notify(M) BY <1>5 DEF FlipLink
  <2>3. /\ kport'[p].master = b /\ kport'[p].running = running
        /\ kport'[p].state = s /\ \A r \in Ports \ {p} : kport'[r] = kport[r]
     BY <2>1, <1>1 DEF TrackTypeOK, KPortRecs
  <2>4. kbr[b].stp => Given(kbr, kport', p)
     BY <2>1, <2>3, <1>3, StateGiven DEF Given
  <2>5. m \in Messages /\ m.if = p /\ m.master = b
    <3>1. m \in Messages BY <1>2, <1>5, MessageTypes
    <3>2. QED BY <3>1 DEF Message
  <2> HIDE DEF m
  <2>6. /\ M \in Seq(Messages) /\ Len(M) = 1 /\ M[1] = m
     BY <2>5, MessageSequences
  <2> HIDE DEF M
  <2>7. /\ ~Silent(M, p)
        /\ \A k \in 1..Len(M) :
              /\ M[k].if = p
              /\ M[k].newlink /\ kbr[M[k].master].stp => Given(kbr, kport', p)
     BY <2>4, <2>5, <2>6 DEF Silent
  <2>8. QED BY <2>2, <2>3, <2>6, <2>7, <1>1, <1>3, FollowPort
<1>6. QED BY <1>4, <1>5

\* A bridge is made.
LEMMA NewBridgeFollow ==
    ASSUME FollowInv, NEW b \in Bridges, NewBridge(b)
    PROVE  FollowInv'
<1> DEFINE m == Message(b, b, TRUE, FALSE)
           M == <<m>>
<1>1. ViewInv' /\ TrackTypeOK
   BY NewBridgeView DEF FollowInv, ViewInv, TrackInv
<1>2. /\ kbr' = [kbr EXCEPT ![b].exists = "yes"] /\ kport' = kport
      /\ kbr[b].exists = "never" /\ Notify(M)
      /\ UNCHANGED <<phase, request, daemon>>
   BY DEF NewBridge
<1>3. /\ kbr'[b].exists = "yes" /\ kbr'[b].stp = kbr[b].stp
      /\ \A c \in Bridges \ {b} : kbr'[c] = kbr[c]
   BY <1>1, <1>2 DEF TrackTypeOK, KBrRecs
<1>4. Asks(kbr, request, Daemon) BY DEF FollowInv
<1> HIDE DEF Daemon
<1>5. /\ ~kbr[b].stp /\ ~Daemon.br[b].stp_enabled
      /\ ~(request.op = "add" /\ request.br = b)
   BY <1>2, <1>4 DEF Asks
<1>6. Asks(kbr', request, Daemon) BY <1>3, <1>4, <1>5 DEF Asks
<1>7. m \in Messages /\ m.if = b /\ b \notin Ports
  <2>1. m \in Messages BY MessageTypes
  <2>2. QED BY <2>1, TrackAssumption DEF Message
<1> HIDE DEF m
<1>8. /\ M \in Seq(Messages) /\ Len(M) = 1 /\ M[1] = m
   BY <1>7, MessageSequences
<1> HIDE DEF M
<1>9. ASSUME Listening
      PROVE  /\ Fresh(pending \o M, kbr', kport', Daemon, raced)
             /\ Agrees(pending \o M, kbr', kport', Daemon, raced)
  <2>1. /\ pending \in Seq(Messages) /\ Queued(pending, kbr, kport, {})
        /\ Fresh(pending, kbr, kport, Daemon, raced)
        /\ Agrees(pending, kbr, kport, Daemon, raced)
     BY <1>9, Hearing
  <2>2. Fresh(pending \o M, kbr', kport', Daemon, raced)
    <3>1. \A k \in 1..Len(M) : M[k].if \notin Ports BY <1>7, <1>8
    <3>2. ASSUME NEW k \in 1..Len(pending), Last(pending, k),
                 pending[k].if \in Ports, pending[k].newlink,
                 kbr'[pending[k].master].stp
          PROVE  /\ kbr[pending[k].master].stp
                 /\ Given(kbr, kport, pending[k].if) =>
                        Given(kbr', kport', pending[k].if)
      <4>1. /\ pending[k].master \in Bridges
            /\ kport[pending[k].if].master = pending[k].master
         BY <3>2, <2>1, LastMaster
      <4>2. pending[k].master # b BY <3>2, <1>3, <1>5
      <4>3. QED BY <4>1, <4>2, <3>2, <1>2, <1>3 DEF Given
    <3>3. QED BY <3>1, <3>2, <2>1, <1>8, FreshSent
  <2>3. Agrees(pending \o M, kbr', kport', Daemon, raced)
    <3>1. \A c \in Bridges : kbr'[c].stp => kbr[c].stp BY <1>3
    <3>2. QED BY <3>1, <2>1, <1>2, <1>8, AgreesSent
  <2>4. QED BY <2>2, <2>3
<1>10. QED BY <1>1, <1>2, <1>6, <1>8, <1>9, FollowAnnounced

\* A bridge is set up or down.
LEMMA FlipBridgeFollow ==
    ASSUME FollowInv, NEW b \in Bridges, FlipBridge(b)
    PROVE  FollowInv'
<1> DEFINE m == Message(b, b, TRUE, kbr'[b].up)
           M == <<m>>
<1>1. ViewInv' /\ TrackTypeOK
   BY FlipBridgeView DEF FollowInv, ViewInv, TrackInv
<1>2. /\ kbr' = [kbr EXCEPT ![b].up = ~@] /\ Notify(M)
      /\ UNCHANGED <<phase, request, daemon>>
   BY DEF FlipBridge
<1>3. /\ kbr'[b].exists = kbr[b].exists /\ kbr'[b].stp = kbr[b].stp
      /\ kbr'[b].up = ~kbr[b].up
      /\ \A c \in Bridges \ {b} : kbr'[c] = kbr[c]
   BY <1>1, <1>2 DEF TrackTypeOK, KBrRecs
<1>4. \A p \in Ports :
         /\ kport'[p].master = kport[p].master
         /\ kport'[p].running = kport[p].running
         /\ IF kport[p].master = b
            THEN kbr'[b].stp => Given(kbr', kport', p)
            ELSE kport'[p].state = kport[p].state
  <2>1. PICK f \in [Ports -> States] :
            /\ \A p \in Ports :
                  f[p] \in IF kport[p].master = b
                           THEN StatesGiven(b, kbr'[b].up /\ kport[p].running)
                           ELSE {kport[p].state}
            /\ kport' = [p \in Ports |-> [kport[p] EXCEPT !.state = f[p]]]
     BY DEF FlipBridge
  <2> SUFFICES ASSUME NEW p \in Ports
               PROVE  /\ kport'[p].master = kport[p].master
                      /\ kport'[p].running = kport[p].running
                      /\ IF kport[p].master = b
                         THEN kbr'[b].stp => Given(kbr', kport', p)
                         ELSE kport'[p].state = kport[p].state
     OBVIOUS
  <2>2. /\ kport'[p].master = kport[p].master
        /\ kport'[p].running = kport[p].running
        /\ kport'[p].state = f[p]
     BY <2>1, <1>1 DEF TrackTypeOK, KPortRecs
  <2>3. CASE kport[p].master = b
    <3>1. f[p] \in StatesGiven(b, kbr'[b].up /\ kport[p].running)
       BY <2>1, <2>3
    <3>2. kbr'[b].stp => f[p] = IF kbr'[b].up /\ kport[p].running
                                THEN "BLOCKING" ELSE "DISABLED"
       BY <3>1, StateGiven
    <3>3. QED BY <3>2, <2>2, <2>3 DEF Given
  <2>4. CASE kport[p].master # b
    <3>1. f[p] \in {kport[p].state} BY <2>1, <2>4
    <3>2. QED BY <3>1, <2>2, <2>4
  <2>5. QED BY <2>3, <2>4
<1>5. Asks(kbr, request, Daemon) BY DEF FollowInv
<1> HIDE DEF Daemon
<1>6. Asks(kbr', request, Daemon)
  <2>1. \A c \in Bridges : /\ kbr'[c].exists = kbr[c].exists
                           /\ kbr'[c].stp = kbr[c].stp
     BY <1>3
  <2>2. QED BY <2>1, <1>5 DEF Asks
<1>7. m \in Messages /\ m.if = b /\ m.up = kbr'[b].up /\ b \notin Ports
  <2>1. kbr'[b].up \in BOOLEAN BY <1>3
  <2>2. m \in Messages BY <2>1, MessageTypes
  <2>3. QED BY <2>2, TrackAssumption DEF Message
<1> HIDE DEF m
<1>8. /\ M \in Seq(Messages) /\ Len(M) = 1 /\ M[1] = m
   BY <1>7, MessageSequences
<1> HIDE DEF M
<1>9. ASSUME Listening
      PROVE  /\ Fresh(pending \o M, kbr', kport', Daemon, raced)
             /\ Agrees(pending \o M, kbr', kport', Daemon, raced)
  <2>1. /\ pending \in Seq(Messages) /\ Good(Daemon)
        /\ Queued(pending, kbr, kport, {})
        /\ Seen(pending, kbr, kport, Daemon, missed)
        /\ Fresh(pending, kbr, kport, Daemon, raced)
        /\ Agrees(pending, kbr, kport, Daemon, raced)
        /\ \A i \in missed : i \in raced
     BY <1>9, Hearing
  <2>2. Fresh(pending \o M, kbr', kport', Daemon, raced)
    <3>1. \A k \in 1..Len(M) : M[k].if \notin Ports BY <1>7, <1>8
    <3>2. ASSUME NEW k \in 1..Len(pending), Last(pending, k),
                 pending[k].if \in Ports, pending[k].newlink,
                 kbr'[pending[k].master].stp
          PROVE  \/ Given(kbr', kport', pending[k].if)
                 \/ /\ kbr[pending[k].master].stp
                    /\ Given(kbr, kport, pending[k].if) =>
                           Given(kbr', kport', pending[k].if)
      <4>1. /\ pending[k].master \in Bridges
            /\ kport[pending[k].if].master = pending[k].master
         BY <3>2, <2>1, LastMaster
      <4>2. CASE pending[k].master = b BY <4>1, <4>2, <3>2, <1>4
      <4>3. CASE pending[k].master # b
         BY <4>1, <4>3, <3>2, <1>3, <1>4 DEF Given
      <4>4. QED BY <4>2, <4>3
    <3>3. QED BY <3>1, <3>2, <2>1, <1>8, FreshSent
  <2>3. Agrees(pending \o M, kbr', kport', Daemon, raced)
    <3>1. ASSUME NEW c \in Bridges \ raced, NEW p \in Ports \ raced,
                 kbr'[c].stp, Daemon.br[c].bridgeEnabled, Daemon.prt[c][p].up,
                 Silent(pending, p), NoDown(pending, c), NoDown(M, c)
          PROVE  kbr[c].stp /\ kport'[p].state = kport[p].state
      <4>1. c \notin missed /\ p \notin missed BY <2>1
      <4>2. kport[p].master = c BY <4>1, <3>1, <2>1, UpSeen
      <4>3. c # b
        <5> SUFFICES ASSUME c = b PROVE FALSE OBVIOUS
        <5>1. kbr[b].up BY <4>1, <3>1, <2>1, RunsUp
        <5>2. m.up BY <3>1, <1>7, <1>8 DEF NoDown, Up
        <5>3. QED BY <5>1, <5>2, <1>3, <1>7
      <4>4. QED BY <4>2, <4>3, <3>1, <1>3, <1>4
    <3>2. QED BY <3>1, <2>1, <1>8, AgreesSent
  <2>4. QED BY <2>2, <2>3
<1>10. QED BY <1>1, <1>2, <1>6, <1>8, <1>9, FollowAnnounced

\* A bridge is removed.
LEMMA DelBridgeFollow ==
    ASSUME FollowInv, NEW b \in Bridges, DelBridge(b)
    PROVE  FollowInv'
<1>1. ViewInv' /\ TrackTypeOK
   BY DelBridgeView DEF FollowInv, ViewInv, TrackInv
<1>2. PICK M \in Seq(Messages) : Notify(M) /\ Removal(M, b)
   BY <1>1, RemovalSent
<1>3. /\ kbr'[b].exists = "gone" /\ kbr'[b].stp = FALSE
      /\ \A c \in Bridges \ {b} : kbr'[c] = kbr[c]
      /\ \A p \in Ports : IF kport[p].master = b THEN kport'[p].master = None
                          ELSE kport'[p] = kport[p]
   BY <1>1, RemovalEffect
<1>4. UNCHANGED <<phase, request, daemon>> BY DEF DelBridge
<1>5. Asks(kbr, request, Daemon) BY DEF FollowInv
<1> HIDE DEF Daemon
<1>6. Asks(kbr', request, Daemon) BY <1>3, <1>5 DEF Asks
<1>7. \A k \in 1..Len(M) : ~M[k].newlink BY <1>2 DEF Removal
<1>8. \A p \in Ports : Silent(M, p) => kport'[p] = kport[p]
   BY <1>2, <1>3 DEF Removal
<1>9. \A c \in Bridges : kbr'[c].stp => kbr'[c] = kbr[c] BY <1>3
<1>10. ASSUME Listening
       PROVE  /\ Fresh(pending \o M, kbr', kport', Daemon, raced)
              /\ Agrees(pending \o M, kbr', kport', Daemon, raced)
  <2>1. /\ pending \in Seq(Messages) /\ Queued(pending, kbr, kport, {})
        /\ Fresh(pending, kbr, kport, Daemon, raced)
        /\ Agrees(pending, kbr, kport, Daemon, raced)
     BY <1>10, Hearing
  <2>2. Fresh(pending \o M, kbr', kport', Daemon, raced)
    <3>1. ASSUME NEW k \in 1..Len(pending), Last(pending, k),
                 pending[k].if \in Ports, pending[k].newlink,
                 kbr'[pending[k].master].stp, Silent(M, pending[k].if)
          PROVE  /\ kbr[pending[k].master].stp
                 /\ Given(kbr, kport, pending[k].if) =>
                        Given(kbr', kport', pending[k].if)
      <4>1. /\ pending[k].master \in Bridges
            /\ kport[pending[k].if].master = pending[k].master
         BY <3>1, <2>1, LastMaster
      <4>2. kbr'[pending[k].master] = kbr[pending[k].master]
         BY <4>1, <3>1, <1>9
      <4>3. QED BY <4>1, <4>2, <3>1, <1>8 DEF Given
    <3>2. QED BY <3>1, <2>1, <1>7, FreshSent
  <2>3. Agrees(pending \o M, kbr', kport', Daemon, raced)
    <3>1. \A c \in Bridges : kbr'[c].stp => kbr[c].stp BY <1>9
    <3>2. QED BY <3>1, <2>1, <1>8, AgreesSent
  <2>4. QED BY <2>2, <2>3
<1>11. QED BY <1>1, <1>2, <1>4, <1>6, <1>10, FollowAnnounced

-----------------------------------------------------------------------------
(* Steps of mstpd: port states *)

\* What a port has in the kernel after mstpd told it T.
LEMMA ToldEffect ==
    ASSUME TrackTypeOK, NEW T, kport' = Told(T)
    PROVE  \A p \in Ports :
              /\ kport'[p].master = kport[p].master
              /\ kport'[p].running = kport[p].running
              /\ T[p] = NotTold => kport'[p] = kport[p]
              /\ T[p] # NotTold /\ kport[p].running /\ kport[p].master # None =>
                     kport'[p].state = T[p]
BY DEF Told, TrackTypeOK, KPortRecs

\* A port that is not raced after mstpd told it T was not raced before, or was
\* told its state with nothing about it to come.
LEMMA RacedEffect ==
    ASSUME NEW T, NEW left, RacedBy(T, left) \subseteq raced',
           \A i \in missed : i \in raced
    PROVE  /\ \A i \in missed : i \in raced'
           /\ \A b \in Bridges : b \notin raced' => b \notin raced
           /\ \A p \in Ports : p \notin raced' =>
                 IF T[p] = NotTold THEN p \notin raced
                 ELSE p \notin missed /\ Silent(left, p)
<1>1. \A i : \/ i \in raced /\ (~(i \in Ports /\ T[i] # NotTold) \/ i \in missed)
             \/ i \in Ports /\ T[i] # NotTold /\ ~Silent(left, i)
             => i \in raced'
   BY DEF RacedBy, Coming, Silent
<1>2. \A b \in Bridges : b \notin Ports BY TrackAssumption
<1>3. QED BY <1>1, <1>2

\* The states mstpd has are not NotTold.
LEMMA StatesTold ==
    ASSUME NEW d, Good(d), NEW b \in Bridges, NEW p \in Ports
    PROVE  d.prt[b][p].state # NotTold
<1>1. d.prt[b][p].state \in States BY DEF Good, Views, PrtRecs
<1>2. QED BY <1>1 DEF States, NotTold

\* Only what is in br and in prt matters.
LEMMA FollowBy ==
    ASSUME NEW P, NEW kb, NEW kp, NEW rq, NEW R, NEW e, br' = e.br, prt' = e.prt
    PROVE  /\ Asks(kb, rq, e) => Asks(kb, rq, Daemon')
           /\ Fresh(P, kb, kp, e, R) => Fresh(P, kb, kp, Daemon', R)
           /\ Agrees(P, kb, kp, e, R) => Agrees(P, kb, kp, Daemon', R)
           /\ Unmanaged(rq, e) => Unmanaged(rq, Daemon')
<1> DEFINE d == Daemon'
<1>1. d.br = e.br /\ d.prt = e.prt BY DEF Daemon
<1> HIDE DEF d
<1>2. /\ Asks(kb, rq, e) => Asks(kb, rq, d)
      /\ Unmanaged(rq, e) => Unmanaged(rq, d)
   BY <1>1 DEF Asks, Unmanaged
<1>3. Fresh(P, kb, kp, e, R) => Fresh(P, kb, kp, d, R)
   BY <1>1 DEF Fresh
<1>4. Agrees(P, kb, kp, e, R) => Agrees(P, kb, kp, d, R)
   BY <1>1 DEF Agrees
<1>5. QED BY <1>2, <1>3, <1>4 DEF d

\* mstpd goes to view e, with the same links, and reports it to the kernel.
LEMMA FollowAnswered ==
    ASSUME FollowInv, ViewInv', NEW e, Good(e), Becomes(e), Listening,
           RacedBy(e.told, pending) \subseteq raced',
           UNCHANGED <<kbr, pending, phase, missed>>,
           \A b \in Bridges, p \in Ports : SameLink(Daemon, e, b, p),
           Reported(Daemon, e), Asks(kbr, request', e),
           request' \in {request, NoRequest},
           \A b \in Bridges : e.br[b].stp_enabled =>
               Daemon.br[b].stp_enabled \/ TakenOver(b) \subseteq raced'
    PROVE  FollowInv'
<1> DEFINE d == Daemon
           P == pending
           T == e.told
<1>1. TrackTypeOK BY DEF FollowInv, ViewInv, TrackInv
<1>2. /\ P \in Seq(Messages) /\ Good(d)
      /\ Queued(P, kbr, kport, {}) /\ Seen(P, kbr, kport, d, missed)
      /\ Fresh(P, kbr, kport, d, raced)
      /\ Agrees(P, kbr, kport, d, raced)
      /\ \A i \in missed : i \in raced
   BY Hearing
<1>3. /\ br' = e.br /\ prt' = e.prt /\ kport' = Told(T)
      /\ RacedBy(T, P) \subseteq raced'
   BY DEF Becomes
<1>4. \A p \in Ports :
         /\ kport'[p].master = kport[p].master
         /\ kport'[p].running = kport[p].running
         /\ T[p] = NotTold => kport'[p] = kport[p]
         /\ T[p] # NotTold /\ kport[p].running /\ kport[p].master # None =>
                kport'[p].state = T[p]
   BY <1>1, <1>3, ToldEffect
<1>5. /\ \A i \in missed : i \in raced'
      /\ \A b \in Bridges : b \notin raced' => b \notin raced
      /\ \A p \in Ports : p \notin raced' =>
            IF T[p] = NotTold THEN p \notin raced
            ELSE p \notin missed /\ Silent(P, p)
   BY <1>2, <1>3, RacedEffect
<1>6. \A p \in Ports : d.told[p] = NotTold BY DEF Daemon
<1> HIDE DEF d, P, T
<1>7. Fresh(P, kbr, kport', e, raced')
  <2> SUFFICES ASSUME NEW k \in 1..Len(P), Last(P, k), P[k].if \in Ports,
                      P[k].if \notin raced', P[k].newlink, kbr[P[k].master].stp,
                      e.br[P[k].master].stp_enabled
               PROVE  Given(kbr, kport', P[k].if)
     BY DEF Fresh
  <2>1. ~Silent(P, P[k].if) BY DEF Silent
  <2>2. P[k].if \notin raced /\ kport'[P[k].if] = kport[P[k].if]
     BY <2>1, <1>4, <1>5
  <2>3. P[k].master \in Bridges /\ kport[P[k].if].master = P[k].master
     BY <1>2, LastMaster
  <2>4. d.br[P[k].master].stp_enabled
    <3>1. P[k].if \in TakenOver(P[k].master) BY <2>3 DEF TakenOver, Coming, P
    <3>2. QED BY <3>1, <2>3 DEF d
  <2>5. Given(kbr, kport, P[k].if) BY <2>2, <2>4, <1>2 DEF Fresh
  <2>6. QED BY <2>2, <2>5 DEF Given
<1>8. Agrees(P, kbr, kport', e, raced')
  <2> SUFFICES ASSUME NEW b \in Bridges \ raced', NEW p \in Ports \ raced',
                      kbr[b].stp, e.br[b].bridgeEnabled, e.prt[b][p].up,
                      Silent(P, p), NoDown(P, b)
               PROVE  kport'[p].state = e.prt[b][p].state
     BY DEF Agrees
  <2>1. d.prt[b][p].up BY DEF SameLink, d
  <2>2. p \notin missed BY <1>2, <1>5
  <2>3. kport[p].master = b /\ kport[p].running BY <2>1, <2>2, <1>2, UpSeen
  <2>4. \/ T[p] = e.prt[b][p].state
        \/ /\ T[p] = NotTold /\ d.br[b].bridgeEnabled
           /\ e.prt[b][p].state = d.prt[b][p].state
     BY <2>1, <1>6 DEF Reported, d, T
  <2>5. CASE T[p] = e.prt[b][p].state
    <3>1. T[p] # NotTold BY <2>5, StatesTold
    <3>2. QED BY <3>1, <2>3, <2>5, <1>4, TrackAssumption
  <2>6. CASE /\ T[p] = NotTold /\ d.br[b].bridgeEnabled
             /\ e.prt[b][p].state = d.prt[b][p].state
    <3>1. b \notin raced /\ p \notin raced BY <2>6, <1>5
    <3>2. kport[p].state = d.prt[b][p].state
       BY <3>1, <2>1, <2>6, <1>2 DEF Agrees
    <3>3. QED BY <3>2, <2>6, <1>4
  <2>7. QED BY <2>4, <2>5, <2>6
<1>9. /\ Asks(kbr, request', Daemon')
      /\ Fresh(P, kbr, kport', Daemon', raced')
      /\ Agrees(P, kbr, kport', Daemon', raced')
   BY <1>3, <1>7, <1>8, FollowBy
<1>10. phase' \notin {"off", "dump"} BY DEF Listening
<1>11. QED BY <1>5, <1>9, <1>10 DEF FollowInv, P

\* The protocol engine asks for a state.
LEMMA EngineFollow ==
    ASSUME FollowInv, NEW b \in Bridges, NEW p \in Ports,
           NEW s \in EngineStates, EngineSetsState(b, p, s)
    PROVE  FollowInv'
<1> DEFINE d == Daemon
           f == Only(d, b, {p}, s)
           e == MSTP_OUT_set_state(d, b, f)
<1>1. ViewInv' BY EngineView DEF FollowInv
<1>2. /\ Becomes(e) /\ Listening /\ RacedBy(e.told, pending) \subseteq raced'
      /\ UNCHANGED <<kbr, pending, phase, missed, request>>
   BY DEF EngineSetsState, Listening
<1>3. Good(d) /\ Asks(kbr, request, d) BY DEF FollowInv, ViewInv, TrackInv
<1>4. d \in Views /\ s \in States BY <1>3, TrackAssumption DEF Good, States
<1>5. d.br[b].bridgeEnabled /\ d.prt[b][p].portEnabled
   BY DEF EngineSetsState, Daemon
<1> HIDE DEF d
<1>6. Good(e) /\ OnlyAt(d, e, b) /\ e.br = d.br /\ TellsChanges(d, e, b)
      /\ \A r \in Ports : /\ e.prt[b][r].known = d.prt[b][r].known
                          /\ e.prt[b][r].up = d.prt[b][r].up
   BY <1>3, <1>4, <1>5, EngineGood
<1> HIDE DEF e
<1>7. \A c \in Bridges, r \in Ports : SameLink(d, e, c, r)
   BY <1>6 DEF OnlyAt, SameLink
<1>8. TellsLast(d, e, b) BY <1>6 DEF TellsChanges, TellsLast
<1>9. Reported(d, e) BY <1>3, <1>6, <1>8, TellsReported
<1>10. Asks(kbr, request', e) BY <1>2, <1>3, <1>6 DEF Asks
<1>11. QED BY <1>1, <1>2, <1>6, <1>7, <1>9, <1>10, FollowAnswered DEF d

\* A request is handled.
LEMMA HandleRequestFollow ==
    ASSUME FollowInv, HandleRequest
    PROVE  FollowInv'
<1> DEFINE d == Daemon
           b == request.br
           e == IF request.op = "add" THEN CTL_add_bridges(d, b)
                ELSE CTL_del_bridges(d, b)
<1>1. ViewInv' BY HandleRequestView DEF FollowInv
<1>2. /\ Becomes(e) /\ Listening /\ request' = NoRequest
      /\ RacedBy(e.told, pending) \subseteq raced'
      /\ request.op = "add" /\ ~d.br[b].stp_enabled =>
             TakenOver(b) \subseteq raced'
      /\ UNCHANGED <<kbr, pending, phase, missed>>
   BY DEF HandleRequest, Listening, Daemon
<1>3. Good(d) /\ Asks(kbr, request, d) BY DEF FollowInv, ViewInv, TrackInv
<1>4. b \in Bridges /\ request.op \in {"add", "del"}
   BY DEF HandleRequest, FollowInv, ViewInv, TrackInv, TrackTypeOK, Requests
<1> HIDE DEF d, b
<1>5. /\ Requested(d, e, b) \/ e = d
      /\ request.op = "add" => (e.br[b].known => e.br[b].stp_enabled)
      /\ request.op = "del" => ~e.br[b].stp_enabled
   BY <1>3, <1>4, AddBridgeGood, DelBridgeGood
<1>6. request.op = "add" => Requested(d, e, b) BY <1>3, <1>4, AddBridgeGood
<1> HIDE DEF e
<1>7. Good(e) /\ OnlyAt(d, e, b) /\ Reported(d, e)
      /\ \A c \in Bridges, r \in Ports : SameLink(d, e, c, r)
  <2>1. CASE e = d BY <2>1, <1>3 DEF OnlyAt, Reported, SameLink
  <2>2. CASE Requested(d, e, b)
     BY <2>2 DEF Requested, OnlyAt, SameLink
  <2>3. QED BY <2>1, <2>2, <1>5
<1>8. ASSUME NEW c \in Bridges, e.br[c].stp_enabled
      PROVE  d.br[c].stp_enabled \/ TakenOver(c) \subseteq raced'
  <2>1. CASE c = b BY <2>1, <1>2, <1>4, <1>5, <1>8
  <2>2. CASE c # b BY <2>2, <1>7, <1>8 DEF OnlyAt
  <2>3. QED BY <2>1, <2>2
<1>9. Asks(kbr, request', e)
  <2> SUFFICES ASSUME NEW c \in Bridges
               PROVE  /\ kbr[c].exists # "yes" => ~kbr[c].stp
                      /\ kbr[c].exists = "never" => ~e.br[c].stp_enabled
                      /\ ~(kbr[c].exists = "yes" /\ e.br[c].stp_enabled
                           /\ ~kbr[c].stp)
     BY <1>2 DEF Asks, NoRequest
  <2>1. /\ kbr[c].exists # "yes" => ~kbr[c].stp
        /\ kbr[c].exists = "never" => ~d.br[c].stp_enabled
        /\ kbr[c].exists = "yes" /\ d.br[c].stp_enabled /\ ~kbr[c].stp =>
              request.op = "del" /\ request.br = c
        /\ request.op = "add" /\ request.br = c =>
              kbr[c].stp \/ kbr[c].exists = "gone"
     BY <1>3 DEF Asks
  <2>2. CASE c = b BY <2>1, <2>2, <1>4, <1>5 DEF b
  <2>3. CASE c # b
    <3>1. e.br[c] = d.br[c] BY <2>3, <1>7 DEF OnlyAt
    <3>2. QED BY <3>1, <2>1, <2>3 DEF b
  <2>4. QED BY <2>2, <2>3
<1>10. QED BY <1>1, <1>2, <1>7, <1>8, <1>9, FollowAnswered DEF d

\* What the messages left in Tail(P) say of those in P.
LEMMA Rest ==
    ASSUME NEW P \in Seq(Messages), P # <<>>
    PROVE  LET T == Tail(P)
           IN  /\ \A k \in 1..Len(T) :
                     /\ k \in Nat /\ k + 1 \in 1..Len(P) /\ P[k + 1] = T[k]
                     /\ Last(T, k) => Last(P, k + 1)
               /\ \A b : NoDown(T, b) /\ (Head(P).if = b => Up(Head(P))) =>
                             NoDown(P, b)
<1> DEFINE T == Tail(P)
           m == Head(P)
<1>1. /\ Len(P) \in Nat /\ Len(P) >= 1 /\ Len(T) = Len(P) - 1
      /\ \A k \in 1..Len(T) : /\ k \in Nat /\ k + 1 \in 1..Len(P)
                              /\ T[k] = P[k + 1]
      /\ \A k \in 1..Len(P) : k # 1 => k - 1 \in 1..Len(T) /\ T[k - 1] = P[k]
      /\ m = P[1]
   OBVIOUS
<1> HIDE DEF T, m
<1>2. ASSUME NEW k \in 1..Len(T), Last(T, k) PROVE Last(P, k + 1)
  <2> SUFFICES ASSUME NEW i \in 1..Len(P), P[i].if = P[k + 1].if
               PROVE  i <= k + 1
     BY DEF Last
  <2>1. CASE i = 1 BY <2>1, <1>1
  <2>2. CASE i # 1
    <3>1. i - 1 \in 1..Len(T) /\ T[i - 1].if = T[k].if BY <2>2, <1>1
    <3>2. i - 1 <= k BY <3>1, <1>2 DEF Last
    <3>3. QED BY <3>1, <3>2, <1>1
  <2>3. QED BY <2>1, <2>2
<1>3. ASSUME NEW b, NoDown(T, b), m.if = b => Up(m) PROVE NoDown(P, b)
  <2> SUFFICES ASSUME NEW k \in 1..Len(P), P[k].if = b PROVE Up(P[k])
     BY DEF NoDown
  <2>1. CASE k = 1 BY <2>1, <1>1, <1>3
  <2>2. CASE k # 1 BY <2>2, <1>1, <1>3 DEF NoDown
  <2>3. QED BY <2>1, <2>2
<1>4. QED BY <1>1, <1>2, <1>3 DEF T, m

\* No message makes mstpd manage a bridge.
LEMMA NotManagedByMessages ==
    ASSUME NEW d, NEW e, Good(e), NEW m \in Messages, Heard(d, e, m),
           NEW b \in Bridges, e.br[b].stp_enabled
    PROVE  d.br[b].stp_enabled
<1>1. e.br[b].known BY RulesOf DEF BridgeRule
<1>2. CASE m.if \in Bridges BY <1>1, <1>2 DEF Heard, HeardBridge
<1>3. CASE m.if \notin Bridges /\ m.master = None
   BY <1>3 DEF Heard, HeardGone
<1>4. CASE m.if \notin Bridges /\ m.master # None
   BY <1>4 DEF Heard, HeardPort
<1>5. QED BY <1>2, <1>3, <1>4

\* mstpd hears message m, which is the first of P, and goes from d to e; the
\* ports of the kernel go to kq.
LEMMA AgreesHeard ==
    ASSUME NEW P \in Seq(Messages), P # <<>>, NEW d, Good(d), NEW e, Good(e),
           NEW X, NEW kp, NEW kq, NEW R, NEW S, NEW rq, Kernels(kbr, kp),
           Queued(P, kbr, kp, {}), Expected(P, d, X),
           Fresh(P, kbr, kp, d, R), Agrees(P, kbr, kp, d, R),
           Asks(kbr, rq, d), Heard(d, e, Head(P)), Reported(d, e),
           \A p \in Ports : d.told[p] = NotTold,
           \A i \in X : i \in R,
           \A b \in Bridges : b \notin S => b \notin R,
           \A p \in Ports : p \notin S /\ e.told[p] = NotTold =>
               p \notin R /\ kq[p] = kp[p],
           \A p \in Ports, b \in Bridges :
               /\ p \notin S /\ e.told[p] # NotTold
               /\ Silent(Tail(P), p) /\ e.prt[b][p].up
               => kq[p].state = e.told[p]
    PROVE  Agrees(Tail(P), kbr, kq, e, S)
<1> DEFINE T == Tail(P)
           m == Head(P)
<1>1. /\ m \in Messages /\ m = P[1] /\ 1 \in 1..Len(P) /\ First(P, 1)
      /\ Silent(T, m.if) => Last(P, 1)
      /\ \A i : i # m.if /\ Silent(T, i) => Silent(P, i)
   BY Taken
<1>2. \A b : NoDown(T, b) /\ (m.if = b => Up(m)) => NoDown(P, b) BY Rest
<1>3. Heard(d, e, m) OBVIOUS
<1> SUFFICES ASSUME NEW b \in Bridges, b \notin S, NEW p \in Ports, p \notin S,
                    kbr[b].stp, e.br[b].bridgeEnabled, e.prt[b][p].up,
                    Silent(T, p), NoDown(T, b)
             PROVE  kq[p].state = e.prt[b][p].state
   BY DEF Agrees, T
<1>4. \/ e.told[p] = e.prt[b][p].state
      \/ /\ e.told[p] = NotTold /\ d.br[b].bridgeEnabled /\ d.prt[b][p].up
         /\ e.prt[b][p].state = d.prt[b][p].state
      \/ /\ e.told[p] = NotTold /\ ~d.prt[b][p].up
         /\ e.prt[b][p].state = "BLOCKING"
   BY DEF Reported
<1>5. CASE e.told[p] = e.prt[b][p].state
  <2>1. e.told[p] # NotTold BY <1>5, StatesTold
  <2>2. QED BY <2>1, <1>5
<1> HIDE DEF T, m
<1>6. ASSUME m.if = p, e.told[p] = NotTold
      PROVE  Awaited(d, m) /\ Up(m) /\ m.master = b
  <2>1. p \notin X BY <1>6
  <2>2. Awaited(d, m) BY <2>1, <1>1, <1>6 DEF Expected
  <2>3. e.prt[b][p].known BY RulesOf DEF PortRule
  <2>4. QED BY <2>2, <2>3, <1>1, <1>3, <1>6, PortAfter
<1>7. CASE /\ e.told[p] = NotTold /\ d.br[b].bridgeEnabled /\ d.prt[b][p].up
           /\ e.prt[b][p].state = d.prt[b][p].state
  <2>1. m.if # p BY <1>6, <1>7 DEF Awaited
  <2>2. Silent(P, p) BY <2>1, <1>1
  <2>3. m.if = b => Up(m)
    <3> SUFFICES ASSUME m.if = b PROVE Up(m) OBVIOUS
    <3>1. e.br[b].known /\ e.br[b].up BY RulesOf DEF BridgeRule
    <3>2. HeardBridge(d, e, m) BY <1>3 DEF Heard
    <3>3. QED BY <3>1, <3>2 DEF HeardBridge, Up
  <2>4. NoDown(P, b) BY <2>3, <1>2
  <2>5. b \notin R /\ p \notin R /\ kq[p] = kp[p] BY <1>7
  <2>6. kp[p].state = d.prt[b][p].state BY <2>2, <2>4, <2>5, <1>7 DEF Agrees
  <2>7. QED BY <2>5, <2>6, <1>7
<1>8. CASE /\ e.told[p] = NotTold /\ ~d.prt[b][p].up
           /\ e.prt[b][p].state = "BLOCKING"
  <2>1. m.if = p
    <3> SUFFICES ASSUME m.if # p PROVE FALSE OBVIOUS
    <3>1. m.if \in Bridges /\ ~m.newlink => kbr[m.if].exists = "gone"
       BY <1>1 DEF Queued
    <3>2. \A c \in Bridges : \/ SameLink(d, e, c, p)
                             \/ ~e.prt[c][p].known /\ ~e.prt[c][p].up
       BY <3>1, <1>1, <1>3, OtherAfter
    <3>3. QED BY <3>2, <1>8 DEF SameLink
  <2>2. Up(m) /\ m.master = b BY <2>1, <1>6, <1>8
  <2>3. Last(P, 1) BY <2>1, <1>1
  <2>4. Matches(kbr, kp, m) BY <2>3, <1>1 DEF Queued
  <2>5. kp[p].master = b /\ kp[p].running BY <2>1, <2>2, <2>4 DEF Matches, Up
  <2>6. HeardPort(d, e, m)
     BY <2>1, <2>2, <1>3, TrackAssumption DEF Heard
  <2>7. kbr[b].exists = "yes" BY DEF Asks
  <2>8. e.br[b].up /\ e.br[b].stp_enabled BY RulesOf DEF BridgeRule
  <2>9. kbr[b].up /\ d.br[b].stp_enabled
     BY <2>2, <2>6, <2>7, <2>8 DEF HeardPort
  <2>10. p \notin R /\ kq[p] = kp[p] BY <1>8
  <2>11. Given(kbr, kp, p)
     BY <2>1, <2>2, <2>3, <2>9, <2>10, <1>1 DEF Fresh, Up
  <2>12. QED BY <2>5, <2>9, <2>10, <2>11, <1>8 DEF Given
<1>9. QED BY <1>4, <1>5, <1>7, <1>8

\* A notification is handled.
LEMMA HandleNotificationFollow ==
    ASSUME FollowInv, HandleNotification
    PROVE  FollowInv'
<1> DEFINE P == pending
           T == Tail(pending)
           m == Head(pending)
           d == Daemon
           e == bridge_notify(d, m)
           f == Daemon'
<1>1. ViewInv' BY HandleNotificationView DEF FollowInv
<1>2. TrackTypeOK /\ P \in Seq(Messages) /\ Good(d) /\ Kernels(kbr, kport)
   BY DEF FollowInv, ViewInv, TrackInv, TrackTypeOK
<1>3. /\ P # <<>> /\ pending' = T /\ phase' = AfterRead(T) /\ kbr' = kbr
      /\ missed' \in {missed, missed \ {m.if}}
      /\ br' = e.br /\ prt' = e.prt /\ kport' = Told(e.told)
      /\ raced' = RacedBy(e.told, T)
      /\ request' = request
   BY DEF HandleNotification, Becomes
<1>4. m \in Messages /\ T \in Seq(Messages) BY <1>2, <1>3, ReadTypes
<1>5. Good(e) /\ Heard(d, e, m) /\ Reported(d, e)
   BY <1>2, <1>4, NotifyGood
<1>6. /\ Asks(kbr, request, d) /\ \A i \in missed : i \in raced
      /\ phase \in {"off", "dump"} => Unmanaged(request, d)
   BY DEF FollowInv
<1>7. /\ f.br = e.br /\ f.prt = e.prt /\ Good(f)
      /\ \A p \in Ports : d.told[p] = NotTold
   BY <1>1, <1>3 DEF Daemon, ViewInv, TrackInv
<1>8. phase' # "off" BY <1>3 DEF AfterRead
<1>9. Seen(T, kbr, kport', f, missed') BY <1>1, <1>3, <1>8 DEF ViewInv
<1> HIDE DEF d, e, f
<1>10. \A b \in Bridges : e.br[b].stp_enabled => d.br[b].stp_enabled
   BY <1>4, <1>5, NotManagedByMessages
<1>12. Asks(kbr, request', e) BY <1>3, <1>6, <1>10 DEF Asks
<1>13. /\ \A i \in missed : i \in raced'
       /\ \A b \in Bridges : b \notin raced' => b \notin raced
       /\ \A p \in Ports : p \notin raced' =>
             IF e.told[p] = NotTold THEN p \notin raced
             ELSE p \notin missed /\ Silent(T, p)
   BY <1>3, <1>6, RacedEffect
<1>14. \A i \in missed' : i \in missed /\ i \in raced' BY <1>3, <1>13
<1>15. \A p \in Ports :
          /\ kport'[p].master = kport[p].master
          /\ kport'[p].running = kport[p].running
          /\ e.told[p] = NotTold => kport'[p] = kport[p]
          /\ e.told[p] # NotTold /\ kport[p].running /\ kport[p].master # None =>
                 kport'[p].state = e.told[p]
   BY <1>2, <1>3, ToldEffect
<1>16. CASE phase \in {"off", "dump"}
  <2>1. Unmanaged(request', e) BY <1>3, <1>6, <1>10, <1>16 DEF Unmanaged
  <2>2. /\ Fresh(T, kbr, kport', e, raced')
        /\ Agrees(T, kbr, kport', e, raced')
     BY <2>1, <1>4, <1>5, NothingManaged
  <2>3. /\ Asks(kbr, request', f) /\ Unmanaged(request', f)
        /\ Fresh(T, kbr, kport', f, raced')
        /\ Agrees(T, kbr, kport', f, raced')
     BY <2>1, <2>2, <1>3, <1>12, FollowBy DEF f
  <2>4. QED BY <2>3, <1>1, <1>3, <1>14 DEF FollowInv, f
<1>17. CASE phase \notin {"off", "dump"}
  <2>1. Listening /\ phase' \notin {"off", "dump"}
     BY <1>2, <1>3, <1>17 DEF Listening, TrackTypeOK, AfterRead
  <2>2. /\ Queued(P, kbr, kport, {}) /\ Expected(P, d, missed)
        /\ Fresh(P, kbr, kport, d, raced)
        /\ Agrees(P, kbr, kport, d, raced)
     BY <2>1, Hearing DEF d
  <2>3. Fresh(T, kbr, kport', e, raced')
    <3> SUFFICES ASSUME NEW k \in 1..Len(T), Last(T, k), T[k].if \in Ports,
                        T[k].if \notin raced', T[k].newlink,
                        kbr[T[k].master].stp,
                        e.br[T[k].master].stp_enabled
                 PROVE  Given(kbr, kport', T[k].if)
       BY DEF Fresh
    <3>1. /\ k \in Nat /\ k + 1 \in 1..Len(P) /\ P[k + 1] = T[k]
          /\ Last(P, k + 1)
       BY <1>2, <1>3, Rest
    <3> HIDE DEF T, P
    <3>2. T[k].master \in Bridges BY <3>1, <2>2, <1>2, LastMaster
    <3>3. d.br[T[k].master].stp_enabled BY <3>2, <1>10
    <3>4. ~Silent(T, T[k].if) BY DEF Silent
    <3>5. T[k].if \notin raced /\ kport'[T[k].if] = kport[T[k].if]
       BY <3>4, <1>13, <1>15
    <3>6. Given(kbr, kport, T[k].if) BY <3>1, <3>3, <3>5, <2>2 DEF Fresh
    <3>7. QED BY <3>5, <3>6 DEF Given
  <2>4. Agrees(T, kbr, kport', e, raced')
    <3>1. ASSUME NEW p \in Ports, NEW b \in Bridges, p \notin raced',
                 e.told[p] # NotTold, Silent(T, p), e.prt[b][p].up
          PROVE  kport'[p].state = e.told[p]
      <4>1. p \notin missed' BY <3>1, <1>14
      <4>2. f.prt[b][p].up BY <3>1, <1>7
      <4>3. kport'[p].master = b /\ kport'[p].running
         BY <4>1, <4>2, <3>1, <1>7, <1>9, UpSeen
      <4>4. QED BY <4>3, <3>1, <1>15, TrackAssumption
    <3>2. T = Tail(P) /\ m = Head(P) OBVIOUS
    <3> HIDE DEF T, m, P
    <3>3. QED
       BY <3>1, <3>2, <2>2, <1>2, <1>3, <1>5, <1>6, <1>7, <1>13, <1>15,
          AgreesHeard
  <2>5. /\ Asks(kbr, request', f)
        /\ Fresh(T, kbr, kport', f, raced')
        /\ Agrees(T, kbr, kport', f, raced')
     BY <2>3, <2>4, <1>3, <1>12, FollowBy DEF f
  <2>6. QED BY <2>1, <2>5, <1>1, <1>3, <1>14 DEF FollowInv, f
<1>18. QED BY <1>16, <1>17

\* A lost notification is found: the interface is in doubt from now on.
LEMMA ReadOverflowFollow ==
    ASSUME FollowInv, ReadOverflow
    PROVE  FollowInv'
<1> DEFINE P == pending
           T == Tail(pending)
           m == Head(pending)
           d == Daemon
<1>1. ViewInv' BY ReadOverflowView DEF FollowInv
<1>2. TrackTypeOK /\ Listening /\ d = Daemon'
   BY ViewUnchanged DEF FollowInv, ViewInv, TrackInv, ReadOverflow
<1>3. /\ P # <<>> /\ pending' = T /\ phase' = AfterRead(T)
      /\ kbr' = kbr /\ kport' = kport
      /\ missed' = missed \cup {m.if} /\ raced' = raced \cup {m.if}
      /\ request' = request
   BY DEF ReadOverflow, kernel
<1>4. phase' \notin {"off", "dump"} BY <1>2, <1>3 DEF AfterRead, Listening
<1>5. /\ P \in Seq(Messages) /\ Queued(P, kbr, kport, {})
      /\ Fresh(P, kbr, kport, d, raced)
      /\ Agrees(P, kbr, kport, d, raced)
      /\ \A i \in missed : i \in raced
   BY <1>2, Hearing
<1>6. Asks(kbr, request, d) BY DEF FollowInv
<1> HIDE DEF d
<1>8. Asks(kbr, request', d) BY <1>3, <1>6
<1>9. /\ \A i : i # m.if /\ Silent(T, i) => Silent(P, i)
      /\ \A k \in 1..Len(T) :
            /\ k \in Nat /\ k + 1 \in 1..Len(P) /\ P[k + 1] = T[k]
            /\ Last(T, k) => Last(P, k + 1)
      /\ \A b : NoDown(T, b) /\ m.if # b => NoDown(P, b)
  <2>1. \A i : i # m.if /\ Silent(T, i) => Silent(P, i)
     BY <1>3, <1>5, Taken
  <2>2. QED BY <2>1, <1>3, <1>5, Rest
<1>10. \A i : i \notin raced' => i \notin raced /\ i # m.if BY <1>3
<1> HIDE DEF T, m, P
<1>11. Fresh(T, kbr, kport, d, raced')
  <2> SUFFICES ASSUME NEW k \in 1..Len(T), Last(T, k), T[k].if \in Ports,
                      T[k].if \notin raced', T[k].newlink,
                      kbr[T[k].master].stp,
                      d.br[T[k].master].stp_enabled
               PROVE  Given(kbr, kport, T[k].if)
     BY DEF Fresh
  <2>1. /\ k \in Nat /\ k + 1 \in 1..Len(P) /\ P[k + 1] = T[k]
        /\ Last(P, k + 1) /\ T[k].if \notin raced
     BY <1>9, <1>10
  <2>2. QED BY <2>1, <1>5 DEF Fresh
<1>12. Agrees(T, kbr, kport, d, raced')
   BY <1>5, <1>9, <1>10 DEF Agrees
<1>13. QED
  <2>1. \A i \in missed' : i \in raced' BY <1>3, <1>5
  <2>2. QED BY <2>1, <1>1, <1>2, <1>3, <1>4, <1>8, <1>11, <1>12
        DEF FollowInv

\* The newest notification is lost; the others, and what it says, stay.
LEMMA LoseNotificationFollow ==
    ASSUME FollowInv, LoseNotification
    PROVE  FollowInv'
<1> DEFINE n == Len(pending)
           d == Daemon
           P == pending
           Q == pending'
<1>1. ViewInv' BY LoseNotificationView DEF FollowInv
<1>2. /\ UNCHANGED <<kbr, kport, phase, request, missed, raced>>
      /\ Listening /\ d = Daemon'
   BY ViewUnchanged DEF LoseNotification, kernel
<1>3. /\ Len(Q) = Len(P)
      /\ \A k \in 1..Len(P) : /\ Q[k].if = P[k].if /\ Q[k].up = P[k].up
                              /\ Q[k].master = P[k].master
                              /\ Q[k].newlink = P[k].newlink
   BY LostOnly DEF FollowInv, ViewInv, TrackInv, TrackTypeOK
<1>4. /\ Fresh(P, kbr, kport, d, raced)
      /\ Agrees(P, kbr, kport, d, raced)
   BY <1>2, Hearing
<1> HIDE DEF d, P, Q
<1>5. \A k \in 1..Len(P) : Last(Q, k) => Last(P, k) BY <1>3 DEF Last
<1>6. /\ \A i : Silent(Q, i) => Silent(P, i)
      /\ \A b : NoDown(Q, b) => NoDown(P, b)
   BY <1>3 DEF Silent, NoDown, Up
<1>7. Fresh(Q, kbr, kport, d, raced)
   BY <1>3, <1>4, <1>5 DEF Fresh
<1>8. Agrees(Q, kbr, kport, d, raced) BY <1>4, <1>6 DEF Agrees
<1>9. phase' \notin {"off", "dump"} BY <1>2 DEF Listening
<1>10. QED BY <1>1, <1>2, <1>7, <1>8, <1>9 DEF FollowInv, d, Q

\* A request is sent; its bridge is not managed yet when it is to be added.
LEMMA SendRequestFollow ==
    ASSUME FollowInv, NEW b \in Bridges,
           AddAgain(b) \/ \E op \in {"add", "del"} : SendRequest(op, b)
    PROVE  FollowInv'
<1> DEFINE d == Daemon
           P == pending
<1>1. ViewInv' BY SendRequestView DEF FollowInv
<1>2. /\ UNCHANGED <<kport, pending, phase, missed, raced>> /\ Listening
      /\ request = NoRequest /\ d = Daemon'
   BY ViewUnchanged DEF AddAgain, SendRequest, kernel
<1>3. TrackTypeOK /\ Asks(kbr, request, d)
   BY DEF FollowInv, ViewInv, TrackInv
<1>4. d.br = br BY DEF Daemon
<1>5. /\ P \in Seq(Messages) /\ Queued(P, kbr, kport, {}) /\ Good(d)
      /\ Fresh(P, kbr, kport, d, raced)
      /\ Agrees(P, kbr, kport, d, raced)
   BY <1>2, Hearing
<1>6. PICK op \in {"add", "del"} :
         /\ request' = [op |-> op, br |-> b]
         /\ kbr'[b].stp = (op = "add") /\ kbr[b].exists = "yes"
         /\ \A c \in Bridges : /\ kbr'[c].exists = kbr[c].exists
                               /\ kbr'[c].up = kbr[c].up
         /\ \A c \in Bridges \ {b} : kbr'[c] = kbr[c]
         /\ op = "add" => ~d.br[b].stp_enabled
  <2>1. CASE AddAgain(b)
    <3>1. kbr[b].exists = "yes" BY <2>1, <1>3 DEF AddAgain, Asks
    <3>2. kbr' = kbr /\ kbr[b].stp = TRUE /\ ~d.br[b].stp_enabled
      <4>1. kbr[b].stp \in BOOLEAN BY <1>3 DEF TrackTypeOK, KBrRecs
      <4>2. QED BY <4>1, <2>1, <1>4 DEF AddAgain, kernel
    <3>3. request' = [op |-> "add", br |-> b]
       BY <2>1 DEF AddAgain
    <3> HIDE DEF P
    <3>4. QED BY <3>1, <3>2, <3>3
  <2>2. ASSUME NEW o \in {"add", "del"}, SendRequest(o, b)
        PROVE  /\ request' = [op |-> o, br |-> b]
               /\ kbr'[b].stp = (o = "add") /\ kbr[b].exists = "yes"
               /\ \A c \in Bridges : /\ kbr'[c].exists = kbr[c].exists
                                     /\ kbr'[c].up = kbr[c].up
               /\ \A c \in Bridges \ {b} : kbr'[c] = kbr[c]
               /\ o = "add" => ~d.br[b].stp_enabled
    <3>1. /\ request' = [op |-> o, br |-> b]
          /\ kbr[b].exists = "yes"
       BY <2>2 DEF SendRequest
    <3>2. /\ kbr' = [kbr EXCEPT ![b].stp = (o = "add")]
          /\ kbr[b].stp # (o = "add")
       BY <2>2 DEF SendRequest
    <3>3. /\ kbr'[b].stp = (o = "add")
          /\ \A c \in Bridges : /\ kbr'[c].exists = kbr[c].exists
                                /\ kbr'[c].up = kbr[c].up
          /\ \A c \in Bridges \ {b} : kbr'[c] = kbr[c]
       BY <3>2, <1>3 DEF TrackTypeOK, KBrRecs
    <3>4. o = "add" => ~d.br[b].stp_enabled
      <4> SUFFICES ASSUME o = "add" PROVE ~d.br[b].stp_enabled OBVIOUS
      <4>1. ~kbr[b].stp
        <5>1. kbr[b].stp \in BOOLEAN BY <1>3 DEF TrackTypeOK, KBrRecs
        <5>2. QED BY <5>1, <3>2
      <4>2. request.op = "none" BY <1>2 DEF NoRequest
      <4>3. QED BY <4>1, <4>2, <3>1, <1>3 DEF Asks
    <3>5. QED BY <3>1, <3>3, <3>4
  <2>3. QED BY <2>1, <2>2
<1>7. /\ request'.op = op /\ request'.br = b
   BY <1>6
<1>8. request.op = "none" BY <1>2 DEF NoRequest
<1> HIDE DEF d, P
<1>9. Asks(kbr', request', d)
  <2> SUFFICES ASSUME NEW c \in Bridges
               PROVE  /\ kbr'[c].exists # "yes" => ~kbr'[c].stp
                      /\ kbr'[c].exists = "never" => ~d.br[c].stp_enabled
                      /\ /\ kbr'[c].exists = "yes" /\ d.br[c].stp_enabled
                         /\ ~kbr'[c].stp
                         => request'.op = "del" /\ request'.br = c
                      /\ request'.op = "add" /\ request'.br = c =>
                             kbr'[c].stp \/ kbr'[c].exists = "gone"
                      /\ request'.op = "del" /\ request'.br = c => ~kbr'[c].stp
     BY DEF Asks
  <2>1. CASE c = b BY <2>1, <1>6, <1>7
  <2>2. CASE c # b BY <2>2, <1>3, <1>6, <1>7, <1>8 DEF Asks
  <2>3. QED BY <2>1, <2>2
<1>10. Fresh(P, kbr', kport, d, raced)
  <2> SUFFICES ASSUME NEW k \in 1..Len(P), Last(P, k), P[k].if \in Ports,
                      P[k].if \notin raced, P[k].newlink,
                      kbr'[P[k].master].stp,
                      d.br[P[k].master].stp_enabled
               PROVE  Given(kbr', kport, P[k].if)
     BY DEF Fresh
  <2>1. /\ P[k].master \in Bridges /\ kport[P[k].if].master = P[k].master
     BY <1>5, LastMaster
  <2>4. P[k].master # b BY <1>6
  <2>5. kbr'[P[k].master] = kbr[P[k].master] BY <2>1, <2>4, <1>6
  <2>6. Given(kbr, kport, P[k].if) BY <2>5, <1>5 DEF Fresh
  <2>7. QED BY <2>1, <2>5, <2>6 DEF Given
<1>11. Agrees(P, kbr', kport, d, raced)
  <2> SUFFICES ASSUME NEW c \in Bridges, c \notin raced,
                      NEW p \in Ports, p \notin raced,
                      kbr'[c].stp, d.br[c].bridgeEnabled, d.prt[c][p].up,
                      Silent(P, p), NoDown(P, c)
               PROVE  kport[p].state = d.prt[c][p].state
     BY DEF Agrees
  <2>1. d.br[c].stp_enabled BY <1>5, RulesOf DEF BridgeRule
  <2>2. c # b BY <2>1, <1>6
  <2>3. kbr[c].stp BY <2>2, <1>6
  <2>4. QED BY <2>3, <1>5 DEF Agrees
<1>12. phase' \notin {"off", "dump"} BY <1>2 DEF Listening
<1>13. \A i \in missed : i \in raced BY DEF FollowInv
<1>14. QED BY <1>1, <1>2, <1>9, <1>10, <1>11, <1>12, <1>13 DEF FollowInv, d, P

\* Without any bridge, nothing is managed.
LEMMA NoBridgeManaged ==
    ASSUME NEW kb, NEW d, d.br = [b \in Bridges |-> NoBr],
           \A b \in Bridges : kb[b].exists # "yes" => ~kb[b].stp
    PROVE  Unmanaged(NoRequest, d) /\ Asks(kb, NoRequest, d)
<1>1. \A b \in Bridges : ~d.br[b].stp_enabled BY DEF NoBr
<1>2. Unmanaged(NoRequest, d) BY <1>1 DEF Unmanaged
<1>3. Asks(kb, NoRequest, d) BY <1>1 DEF Asks, NoRequest
<1>4. QED BY <1>2, <1>3

\* mstpd stops.
LEMMA StopFollow ==
    ASSUME FollowInv, Crash \/ Terminate
    PROVE  FollowInv'
<1> DEFINE f == Daemon'
<1>1. ViewInv' BY StopView DEF FollowInv
<1>2. /\ phase' = "off" /\ pending' = <<>> /\ request' = NoRequest
      /\ missed' = {} /\ kbr' = kbr
   BY DEF Crash, Terminate, Stopped
<1>3. f.br = [b \in Bridges |-> NoBr] /\ Good(f)
   BY <1>1, <1>2 DEF ViewInv, TrackInv
<1>4. \A b \in Bridges : kbr[b].exists # "yes" => ~kbr[b].stp
   BY DEF FollowInv, Asks
<1> HIDE DEF f
<1>5. Unmanaged(NoRequest, f) /\ Asks(kbr, NoRequest, f)
   BY <1>3, <1>4, NoBridgeManaged
<1>6. /\ Fresh(<<>>, kbr', kport', f, raced')
      /\ Agrees(<<>>, kbr', kport', f, raced')
  <2>1. <<>> \in Seq(Messages) OBVIOUS
  <2>2. QED BY <2>1, <1>3, <1>5, NothingManaged
<1>7. QED BY <1>1, <1>2, <1>5, <1>6 DEF FollowInv, f

\* mstpd starts.
LEMMA StartFollow ==
    ASSUME FollowInv, Start
    PROVE  FollowInv'
<1> DEFINE d == Daemon
<1>1. ViewInv' BY StartView DEF FollowInv
<1>2. /\ phase = "off" /\ UNCHANGED <<kbr, kport, request, missed, raced>>
      /\ d = Daemon'
   BY ViewUnchanged DEF Start, kernel
<1>3. /\ Unmanaged(request, d) /\ Asks(kbr, request, d)
      /\ \A i \in missed : i \in raced
   BY <1>2 DEF FollowInv
<1>4. Good(d) /\ pending' \in Seq(Messages)
   BY <1>1 DEF FollowInv, ViewInv, TrackInv, TrackTypeOK
<1> HIDE DEF d
<1>5. /\ Fresh(pending', kbr, kport, d, raced)
      /\ Agrees(pending', kbr, kport, d, raced)
   BY <1>3, <1>4, NothingManaged
<1>6. QED BY <1>1, <1>2, <1>3, <1>5 DEF FollowInv, d

\* Every step keeps the invariant.
LEMMA FollowInvAlways == TrackSpec => []FollowInv
<1>1. TrackInit /\ ViewInv => FollowInv
  <2> SUFFICES ASSUME TrackInit, ViewInv PROVE FollowInv OBVIOUS
  <2> DEFINE d == Daemon
  <2>1. /\ pending = <<>> /\ missed = {} /\ request = NoRequest
        /\ \A b \in Bridges : ~kbr[b].stp
     BY DEF TrackInit
  <2>2. d.br = [b \in Bridges |-> NoBr] BY DEF TrackInit, Daemon
  <2>3. Good(d) /\ pending \in Seq(Messages)
     BY DEF ViewInv, TrackInv, TrackTypeOK
  <2> HIDE DEF d
  <2>4. Unmanaged(request, d) /\ Asks(kbr, request, d)
     BY <2>1, <2>2, NoBridgeManaged
  <2>5. /\ Fresh(pending, kbr, kport, d, raced)
        /\ Agrees(pending, kbr, kport, d, raced)
     BY <2>3, <2>4, NothingManaged
  <2>6. QED BY <2>1, <2>4, <2>5 DEF FollowInv, d
<1>2. FollowInv /\ [TrackNext]_trackVars => FollowInv'
  <2> SUFFICES ASSUME FollowInv, [TrackNext]_trackVars PROVE FollowInv'
     OBVIOUS
  <2>1. CASE TrackNext
     BY <2>1, NewBridgeFollow, FlipBridgeFollow, DelBridgeFollow,
        SendRequestFollow, DelPortFollow, UnregisterFollow, FlipLinkFollow,
        AddPortFollow, EngineFollow, LoseNotificationFollow,
        HandleNotificationFollow, ReadOverflowFollow, HandleRequestFollow,
        StopFollow, StartFollow
     DEF TrackNext
  <2>2. CASE UNCHANGED trackVars
    <3>1. ViewInv' BY <2>2, ViewKept DEF FollowInv
    <3>2. /\ UNCHANGED <<kbr, kport, pending, request, phase, missed, raced>>
          /\ Daemon' = Daemon
       BY <2>2, ViewUnchanged DEF trackVars, daemon
    <3> HIDE DEF Daemon
    <3>3. QED BY <3>1, <3>2 DEF FollowInv
  <2>3. QED BY <2>1, <2>2
<1>3. TrackSpec => []ViewInv BY ViewInvAlways
<1>4. QED BY <1>1, <1>2, <1>3, PTL DEF TrackSpec

\* For any number of bridges and ports and however many notifications are on
\* their way or lost, across crashes and restarts: once mstpd has read its
\* socket, the kernel's state of a managed port is the one the protocol asked
\* for, unless mstpd set it, or took its bridge over on addbridge, while a
\* notification about the port was on its way, or one about the port or its
\* bridge was lost.
THEOREM KernelAlwaysFollowsUnlessRaced ==
    TrackSpec => []KernelFollowsUnlessRaced
<1>1. FollowInv => KernelFollowsUnlessRaced
  <2> SUFFICES ASSUME FollowInv, Quiet,
                      NEW b \in Bridges \ raced, NEW p \in Ports \ raced,
                      Driven(b, p), kbr[b].stp
               PROVE  kport[p].state = prt[b][p].state
     BY DEF KernelFollowsUnlessRaced
  <2> DEFINE d == Daemon
  <2>1. d.br = br /\ d.prt = prt BY DEF Daemon
  <2>2. Good(d) /\ Agrees(pending, kbr, kport, d, raced)
     BY DEF FollowInv, ViewInv, TrackInv
  <2>3. Silent(pending, p) /\ NoDown(pending, b)
     BY DEF Quiet, Silent, NoDown
  <2> HIDE DEF d
  <2>4. d.br[b].bridgeEnabled /\ d.prt[b][p].up
     BY <2>1, <2>2, RulesOf DEF BridgeRule, Driven, Managed
  <2>5. QED BY <2>1, <2>2, <2>3, <2>4 DEF Agrees
<1>2. QED BY <1>1, FollowInvAlways, PTL
=============================================================================
