--------------------------- MODULE NodePeersProofs ---------------------------
(***************************************************************************)
(* Every safety property of NodePeers, for every set of peers, blocks and  *)
(* transactions and every limit.                                           *)
(*                                                                         *)
(* The orphan maps. The steps that touch them are AddOrphanTx,             *)
(* EraseOrphanTx of some set of transactions, and LimitOrphanTxSize. The   *)
(* maps agree after each of them. The limit needs that the orphans are     *)
(* finite in number, which is part of the invariant and not an assumption. *)
(*                                                                         *)
(* The work queue of "tx". The loops of the model are recursive functions; *)
(* StepsExist shows that such a function exists and UpTo is the induction  *)
(* along it. The loop keeps that an orphan which has all its parents, one  *)
(* of them accepted by the loop, is erased, given up with its sender, or   *)
(* has a parent ahead in the queue; the queue is never longer than there   *)
(* are transactions, so in the end nothing is ahead.                       *)
(*                                                                         *)
(* The download. PeersInv relates mapBlocksInFlight to the lists of the    *)
(* peers, the counts to the lists, and the blocks that SendMessages marked *)
(* as in flight to the requests and mapAskFor. It is kept by each of       *)
(* MarkBlockAsReceived, MarkBlockAsInFlight, the loops of                  *)
(* FindNextBlocksToDownload and of SendMessages, the end of a pause and    *)
(* FinalizeNode, and so by every action.                                   *)
(***************************************************************************)
EXTENDS NodePeers, FiniteSetTheorems, SequenceTheorems, WellFoundedInduction, TLAPS

MapsAgree(s) ==
  /\ Orphans(s) \subseteq Txs
  /\ DOMAIN s.byPrev = UNION {Parents[t] : t \in Orphans(s)}
  /\ \A u \in DOMAIN s.byPrev : s.byPrev[u] = {t \in Orphans(s) : u \in Parents[t]}

OrphanInv ==
  /\ MapsAgree(orphans)
  /\ IsFiniteSet(Orphans(orphans))
  /\ OrphansLimited

-----------------------------------------------------------------------------
(* What the operations on the maps do.                                     *)

(* Erasing any transactions keeps the maps in agreement and takes exactly  *)
(* them off the orphans.                                                   *)
LEMMA EraseAgrees ==
  ASSUME NEW s, NEW S, MapsAgree(s)
  PROVE  /\ MapsAgree(EraseOrphanTx(s, S))
         /\ Orphans(EraseOrphanTx(s, S)) = Orphans(s) \ S
<1> DEFINE e == EraseOrphanTx(s, S)
<1>1. Orphans(e) = Orphans(s) \ S
  BY DEF EraseOrphanTx, Orphans, Restrict
<1>2. DOMAIN e.byPrev = {u \in DOMAIN s.byPrev : s.byPrev[u] \ S # {}}
  BY DEF EraseOrphanTx, Restrict
<1>3. \A u \in DOMAIN e.byPrev : e.byPrev[u] = s.byPrev[u] \ S
  BY DEF EraseOrphanTx, Restrict
<1> HIDE DEF e
<1>4. DOMAIN e.byPrev = UNION {Parents[t] : t \in Orphans(e)}
  BY <1>1, <1>2 DEF MapsAgree
<1>5. QED
  BY <1>1, <1>2, <1>3, <1>4 DEF MapsAgree, e

(* Adding an orphan keeps the maps in agreement, and adds at most it.      *)
LEMMA AddAgrees ==
  ASSUME NEW s, NEW t \in Txs, NEW peer, MapsAgree(s)
  PROVE  /\ MapsAgree(AddOrphanTx(s, t, peer))
         /\ Orphans(AddOrphanTx(s, t, peer)) \in {Orphans(s), Orphans(s) \cup {t}}
<1> DEFINE a == AddOrphanTx(s, t, peer)
<1>1. CASE t \in Orphans(s) \cup LargeTxs
  BY <1>1 DEF AddOrphanTx
<1>2. CASE t \notin Orphans(s) \cup LargeTxs
  <2>1. Orphans(a) = Orphans(s) \cup {t}
    BY <1>2 DEF AddOrphanTx, Orphans
  <2>2. DOMAIN a.byPrev = DOMAIN s.byPrev \cup Parents[t]
    BY <1>2 DEF AddOrphanTx
  <2>3. \A u \in DOMAIN a.byPrev :
          a.byPrev[u] = IF u \in Parents[t] THEN Prevs(s, u) \cup {t} ELSE s.byPrev[u]
    BY <1>2 DEF AddOrphanTx
  <2>4. \A u : Prevs(s, u) = {o \in Orphans(s) : u \in Parents[o]}
    BY DEF Prevs, MapsAgree
  <2> HIDE DEF a
  <2>5. DOMAIN a.byPrev = UNION {Parents[o] : o \in Orphans(a)}
    BY <2>1, <2>2 DEF MapsAgree
  <2>6. \A u \in DOMAIN a.byPrev : a.byPrev[u] = {o \in Orphans(a) : u \in Parents[o]}
    BY <2>1, <2>2, <2>3, <2>4 DEF MapsAgree
  <2>7. MapsAgree(a)
    BY <2>1, <2>5, <2>6 DEF MapsAgree
  <2>8. QED
    BY <2>1, <2>7 DEF a
<1>3. QED
  BY <1>1, <1>2

(* Whatever is evicted, the maps agree and the limit holds.                *)
LEMMA LimitAgrees ==
  ASSUME NEW s, MapsAgree(s), IsFiniteSet(Orphans(s)),
         NEW r \in LimitOrphanTxSize(s)
  PROVE  /\ MapsAgree(r) /\ IsFiniteSet(Orphans(r))
         /\ Cardinality(Orphans(r)) <= MaxOrphans
<1>1. CASE Cardinality(Orphans(s)) <= MaxOrphans
  BY <1>1 DEF LimitOrphanTxSize
<1>2. CASE ~(Cardinality(Orphans(s)) <= MaxOrphans)
  <2>1. PICK S \in SUBSET Orphans(s) : /\ r = EraseOrphanTx(s, S)
                                       /\ Cardinality(Orphans(s) \ S) = MaxOrphans
    BY <1>2 DEF LimitOrphanTxSize
  <2>2. MapsAgree(r) /\ Orphans(r) = Orphans(s) \ S
    BY <2>1, EraseAgrees
  <2>3. IsFiniteSet(Orphans(s) \ S)
    BY FS_Subset
  <2>4. QED
    BY <2>1, <2>2, <2>3, OrphanAssumption
<1>3. QED
  BY <1>1, <1>2

(* Erasing keeps the whole invariant.                                      *)
LEMMA EraseKeeps ==
  ASSUME OrphanInv, NEW S, orphans' = EraseOrphanTx(orphans, S)
  PROVE  OrphanInv'
<1>1. MapsAgree(orphans)' /\ Orphans(orphans)' = Orphans(orphans) \ S
  BY EraseAgrees DEF OrphanInv, MapsAgree, Orphans
<1>2. /\ IsFiniteSet(Orphans(orphans) \ S)
      /\ Cardinality(Orphans(orphans) \ S) <= Cardinality(Orphans(orphans))
  BY FS_Subset DEF OrphanInv
<1>3. /\ Cardinality(Orphans(orphans)) \in Nat
      /\ Cardinality(Orphans(orphans) \ S) \in Nat
  BY <1>2, FS_CardinalityType DEF OrphanInv
<1>4. OrphansLimited'
  BY <1>1, <1>2, <1>3, OrphanAssumption DEF OrphanInv, OrphansLimited
<1>5. QED
  BY <1>1, <1>2, <1>4 DEF OrphanInv

-----------------------------------------------------------------------------
(* A node starts without orphans.                                          *)
LEMMA OrphanInvInit == Init => OrphanInv
<1> SUFFICES ASSUME Init PROVE OrphanInv
  OBVIOUS
<1>1. Orphans(orphans) = {} /\ DOMAIN orphans.byPrev = {}
  BY DEF Init, InitOrphans, Orphans
<1>2. QED
  BY <1>1, FS_EmptySet, OrphanAssumption DEF OrphanInv, MapsAgree, OrphansLimited

(* Every step keeps the invariant.                                         *)
LEMMA OrphanInvStep == OrphanInv /\ [Next]_vars => OrphanInv'
<1> SUFFICES ASSUME OrphanInv, [Next]_vars PROVE OrphanInv'
  OBVIOUS
<1>1. CASE UNCHANGED orphans
  BY <1>1 DEF OrphanInv, MapsAgree, Orphans, OrphansLimited
<1>2. ASSUME NEW p \in Peers, Finalize(p) PROVE OrphanInv'
  BY <1>2, EraseKeeps DEF Finalize, EraseOrphansFor
<1>3. ASSUME NEW p \in Peers, NEW b \in Blocks, Block(p, b) PROVE OrphanInv'
  BY <1>3, EraseKeeps DEF Block, ConnectTxs
<1>4. ASSUME NEW p \in Peers, NEW t \in Txs, Tx(p, t) PROVE OrphanInv'
  <2>1. PICK punished : ReceiveTx(p, t, MinedAt(tip), punished)
    BY <1>4 DEF Tx
  <2>2. CASE orphans' \in LimitOrphanTxSize(AddOrphanTx(orphans, t, p))
    <3> DEFINE a == AddOrphanTx(orphans, t, p)
    <3>1. MapsAgree(a) /\ Orphans(a) \in {Orphans(orphans), Orphans(orphans) \cup {t}}
      BY AddAgrees DEF OrphanInv
    <3>2. IsFiniteSet(Orphans(a))
      BY <3>1, FS_AddElement DEF OrphanInv
    <3> HIDE DEF a
    <3>3. \A r \in LimitOrphanTxSize(a) :
            /\ MapsAgree(r) /\ IsFiniteSet(Orphans(r))
            /\ Cardinality(Orphans(r)) <= MaxOrphans
      BY <3>1, <3>2, LimitAgrees
    <3>4. QED
      BY <2>2, <3>3 DEF a, OrphanInv, OrphansLimited, MapsAgree, Orphans
  <2>3. CASE UNCHANGED orphanVars
    BY <2>3, <1>1 DEF orphanVars
  <2>4. CASE \E S : orphans' = EraseOrphanTx(orphans, S)
    BY <2>4, EraseKeeps
  <2>5. QED
    BY <2>1, <2>2, <2>3, <2>4 DEF ReceiveTx
<1>5. QED
  BY <1>1, <1>2, <1>3, <1>4 DEF Next, vars, orphanVars

(* mapOrphanTransactions and mapOrphanTransactionsByPrev name the same     *)
(* orphans, whatever is sent, evicted, mined or disconnected.              *)
THEOREM OrphanMapsAlwaysAgree == Spec => []OrphanMapsAgree
<1>1. OrphanInv => OrphanMapsAgree
  BY DEF OrphanInv, MapsAgree, OrphanMapsAgree
<1>2. QED
  BY <1>1, OrphanInvInit, OrphanInvStep, PTL DEF Spec

(* The orphans never exceed -maxorphantx.                                  *)
THEOREM OrphansAlwaysLimited == Spec => []OrphansLimited
<1>1. OrphanInv => OrphansLimited
  BY DEF OrphanInv
<1>2. QED
  BY <1>1, OrphanInvInit, OrphanInvStep, PTL DEF Spec
-----------------------------------------------------------------------------
(* Least numbers, and functions defined by recursion on 0..n.              *)

LessThan == OpToRel(<, Nat)

(* A set of natural numbers that is not empty has a least element.         *)
LEMMA LeastIs ==
  ASSUME NEW S \in SUBSET Nat, S # {}
  PROVE  \E n \in S : \A m \in S : n <= m
<1>1. IsWellFoundedOn(LessThan, Nat)
  BY NatLessThanWellFounded, Zenon DEF LessThan
<1>2. PICK n \in S : \A m \in S : ~(<<m, n>> \in LessThan)
  BY <1>1, WFMin
<1>3. LessThan = {ss \in Nat \X Nat : ss[1] < ss[2]}
  BY Zenon DEF LessThan, OpToRel
<1>4. ASSUME NEW m \in S PROVE n <= m
  <2>1. m \in Nat /\ n \in Nat /\ <<m, n>> \notin LessThan
    BY <1>2
  <2>2. <<m, n>> \in Nat \X Nat /\ <<m, n>>[1] = m /\ <<m, n>>[2] = n
    BY <2>1
  <2> QED BY <2>1, <2>2, <1>3
<1> QED
  BY <1>4

(* What holds of 0, and of i when it holds of i - 1, holds up to n. The    *)
(* numbers of which it holds are given as a set.                           *)
LEMMA UpTo ==
  ASSUME NEW n \in Nat, NEW S, 0 \in S,
         \A i \in 1..n : i - 1 \in S => i \in S
  PROVE  0..n \subseteq S
<1> SUFFICES ASSUME (0..n) \ S # {} PROVE FALSE
  OBVIOUS
<1>1. PICK i \in (0..n) \ S : \A j \in (0..n) \ S : i <= j
  <2>1. (0..n) \ S \in SUBSET Nat
    OBVIOUS
  <2> QED BY <2>1, LeastIs
<1>2. i \in 1..n /\ i - 1 \in 0..n /\ ~(i <= i - 1)
  BY <1>1
<1> QED
  BY <1>1, <1>2

(* The functions that start with v and go on as F says.                    *)
Steps(n, V, v, F) ==
  {f \in [0..n -> V] : f[0] = v /\ \A i \in 1..n : f[i] = F[i][f[i - 1]]}

(* There is one.                                                           *)
LEMMA StepsExist ==
  ASSUME NEW n \in Nat, NEW V, NEW v \in V, NEW F \in [1..n -> [V -> V]]
  PROVE  Steps(n, V, v, F) # {}
<1> DEFINE G(m) == {f \in [0..m -> V] : f[0] = v /\ \A i \in 1..m : f[i] = F[i][f[i - 1]]}
           S == {m \in 0..n : G(m) # {}}
<1>1. 0 \in S
  <2>1. [i \in 0..0 |-> v] \in G(0)
    OBVIOUS
  <2> QED BY <2>1
<1>2. ASSUME NEW m \in 1..n, m - 1 \in S PROVE m \in S
  <2>1. PICK f : f \in G(m - 1)
    BY <1>2
  <2> DEFINE g == [i \in 0..m |-> IF i = m THEN F[m][f[m - 1]] ELSE f[i]]
  <2>2. f \in [0..(m - 1) -> V] /\ f[0] = v
    BY <2>1
  <2>3. F[m][f[m - 1]] \in V
    BY <2>2
  <2>4. g \in [0..m -> V]
    BY <2>2, <2>3
  <2>5. g[0] = v
    BY <2>2
  <2>6. ASSUME NEW i \in 1..m PROVE g[i] = F[i][g[i - 1]]
    <3>1. CASE i = m
      BY <3>1, <2>2
    <3>2. CASE i # m
      <4>1. i \in 1..(m - 1) /\ i - 1 \in 0..(m - 1)
        BY <3>2
      <4>2. f[i] = F[i][f[i - 1]]
        BY <2>1, <4>1
      <4> QED BY <4>1, <4>2, <3>2
    <3> QED BY <3>1, <3>2
  <2> HIDE DEF g
  <2>7. g \in G(m)
    BY <2>4, <2>5, <2>6
  <2> HIDE DEF G
  <2>8. G(m) # {} /\ m \in 0..n
    BY <2>7
  <2> QED BY <2>8
<1>3. n \in S
  <2> HIDE DEF S
  <2>1. 0..n \subseteq S
    BY <1>1, <1>2, UpTo
  <2> QED BY <2>1
<1> QED
  BY <1>3 DEF Steps

-----------------------------------------------------------------------------
(* The work queue of the "tx" handler.                                     *)

WorkStates == [work : Seq(Txs), pool : SUBSET Txs, erase : SUBSET Txs,
               misbehaving : SUBSET Peers]

(* The maps the loop reads: they do not change until it is over.           *)
MapsOK(s) == MapsAgree(s) /\ s.from \in [Orphans(s) -> Peers]

(* What TryOrphan may do with an orphan.                                   *)
LeftAlone(s, mined, at, o) ==
  s.from[o] \in at.misbehaving \/ ~(Parents[o] \subseteq at.pool \cup mined)

Dropped(s, at, o, r) ==
  /\ r.work = at.work /\ r.pool = at.pool /\ r.erase = at.erase \cup {o}
  /\ \/ r.misbehaving = at.misbehaving
     \/ o \in DoSTxs /\ r.misbehaving = at.misbehaving \cup {s.from[o]}

Accepted(at, o, r) ==
  /\ o \notin at.pool /\ r.work = Append(at.work, o) /\ r.pool = at.pool \cup {o}
  /\ r.erase = at.erase \cup {o} /\ r.misbehaving = at.misbehaving

(* The second map, looked up, gives the orphans that spend from u.         *)
LEMMA PrevsAre ==
  ASSUME NEW s, MapsAgree(s), NEW u
  PROVE  Prevs(s, u) = {o \in Orphans(s) : u \in Parents[o]}
BY DEF Prevs, MapsAgree

(* TryOrphan leaves an orphan alone, drops it or accepts it.               *)
LEMMA TryIs ==
  ASSUME NEW s, MapsOK(s), NEW mined, NEW at \in WorkStates, NEW o \in Orphans(s)
  PROVE  LET r == TryOrphan(s, mined, at, o)
         IN /\ r \in WorkStates
            /\ \/ r = at /\ LeftAlone(s, mined, at, o)
               \/ Dropped(s, at, o, r) \/ Accepted(at, o, r)
<1> DEFINE r == TryOrphan(s, mined, at, o)
           full == Parents[o] \subseteq at.pool \cup mined
<1>1. o \in Txs /\ s.from[o] \in Peers
  BY DEF MapsOK, MapsAgree
<1>2. CASE s.from[o] \in at.misbehaving
  <2>1. r = at
    BY <1>2 DEF TryOrphan
  <2> HIDE DEF r
  <2> QED BY <1>2, <2>1 DEF r, LeftAlone
<1>3. CASE s.from[o] \notin at.misbehaving /\ o \in at.pool
  <2>1. r = [at EXCEPT !.erase = @ \cup {o}]
    BY <1>3 DEF TryOrphan
  <2> HIDE DEF r
  <2>2. r \in WorkStates /\ Dropped(s, at, o, r)
    BY <1>1, <2>1 DEF WorkStates, Dropped
  <2> QED BY <2>2 DEF r
<1>4. CASE s.from[o] \notin at.misbehaving /\ o \notin at.pool /\ ~full
  <2>1. r = at
    BY <1>4 DEF TryOrphan
  <2> HIDE DEF r
  <2> QED BY <1>4, <2>1 DEF r, LeftAlone
<1>5. CASE s.from[o] \notin at.misbehaving /\ o \notin at.pool /\ full /\ o \in BadTxs
  <2> DEFINE more == IF o \in DoSTxs THEN {s.from[o]} ELSE {}
  <2>1. r = [at EXCEPT !.erase = @ \cup {o}, !.misbehaving = @ \cup more]
    BY <1>5, Zenon DEF TryOrphan
  <2>2. more \subseteq Peers /\ (more = {} \/ (o \in DoSTxs /\ more = {s.from[o]}))
    BY <1>1
  <2> HIDE DEF r, more
  <2>3. r \in WorkStates /\ Dropped(s, at, o, r)
    BY <1>1, <2>1, <2>2 DEF WorkStates, Dropped
  <2> QED BY <2>3 DEF r
<1>6. CASE s.from[o] \notin at.misbehaving /\ o \notin at.pool /\ full /\ o \notin BadTxs
  <2>1. r = [at EXCEPT !.pool = @ \cup {o}, !.erase = @ \cup {o}, !.work = Append(@, o)]
    BY <1>6, Zenon DEF TryOrphan
  <2> HIDE DEF r
  <2>2. PICK w \in Seq(Txs) : w = Append(at.work, o)
    <3>1. PICK v \in Seq(Txs) : v = at.work
      BY DEF WorkStates
    <3>2. Append(v, o) \in Seq(Txs)
      BY <1>1, <3>1
    <3> QED BY <3>1, <3>2
  <2>3. r = [at EXCEPT !.pool = @ \cup {o}, !.erase = @ \cup {o}, !.work = w]
    BY <2>1, <2>2
  <2>4. r \in WorkStates /\ Accepted(at, o, r)
    BY <1>1, <1>6, <2>2, <2>3 DEF WorkStates, Accepted
  <2> QED BY <2>4 DEF r
<1> QED
  BY <1>2, <1>3, <1>4, <1>5, <1>6

(* The states the loop over the orphans of u goes through.                 *)
Trials(s, mined, at, u) ==
  {f \in [0..Len(HashOrder) -> WorkStates] :
     /\ f[0] = at
     /\ \A j \in 1..Len(HashOrder) :
          f[j] = IF HashOrder[j] \notin Prevs(s, u) THEN f[j - 1]
                 ELSE TryOrphan(s, mined, f[j - 1], HashOrder[j])}

(* WorkOn goes through such states, or does nothing past the queue.        *)
LEMMA WorkOnTries ==
  ASSUME NEW s, MapsOK(s), NEW mined, NEW at \in WorkStates, NEW i \in Nat
  PROVE  IF i > Len(at.work) THEN WorkOn(s, mined, at, i) = at
         ELSE \E f \in Trials(s, mined, at, at.work[i]) :
                WorkOn(s, mined, at, i) = f[Len(HashOrder)]
<1>1. CASE i > Len(at.work)
  BY <1>1 DEF WorkOn
<1>2. CASE ~(i > Len(at.work))
  <2> DEFINE n == Len(HashOrder)
             u == at.work[i]
             P == Prevs(s, u)
             G(j, x) == IF HashOrder[j] \notin P THEN x ELSE TryOrphan(s, mined, x, HashOrder[j])
             F == [j \in 1..n |-> [x \in WorkStates |-> G(j, x)]]
             D == Trials(s, mined, at, u)
             E(f) == f = [j \in 0..n |-> IF j = 0 THEN at
                                         ELSE IF HashOrder[j] \notin P THEN f[j - 1]
                                         ELSE TryOrphan(s, mined, f[j - 1], HashOrder[j])]
             g == CHOOSE f : E(f)
  <2>1. n \in Nat
    BY OrphanAssumption
  <2>2. P \subseteq Orphans(s)
    BY PrevsAre DEF MapsOK
  <2>3. ASSUME NEW j \in 1..n, NEW x \in WorkStates PROVE G(j, x) \in WorkStates
    BY <2>2, TryIs
  <2>4. F \in [1..n -> [WorkStates -> WorkStates]]
    BY <2>3
  <2>5. PICK f : f \in Steps(n, WorkStates, at, F)
    <3> HIDE DEF F
    <3> QED BY <2>1, <2>4, StepsExist
  <2>6. f \in [0..n -> WorkStates] /\ f[0] = at /\ \A j \in 1..n : f[j] = F[j][f[j - 1]]
    BY <2>5, Zenon DEF Steps
  <2>7. ASSUME NEW j \in 1..n PROVE f[j] = G(j, f[j - 1])
    <3>1. f[j - 1] \in WorkStates
      BY <2>1, <2>6
    <3> HIDE DEF G
    <3> QED BY <2>6, <3>1
  <2>8. E(f)
    <3>1. \A j \in 0..n : f[j] = IF j = 0 THEN at
                                 ELSE IF HashOrder[j] \notin P THEN f[j - 1]
                                 ELSE TryOrphan(s, mined, f[j - 1], HashOrder[j])
      <4> SUFFICES ASSUME NEW j \in 0..n, j # 0 PROVE f[j] = G(j, f[j - 1])
        BY <2>6
      <4>1. j \in 1..n
        BY <2>1
      <4> HIDE DEF G
      <4> QED BY <4>1, <2>7
    <3> QED BY <2>6, <3>1
  <2>9. E(g)
    <3> HIDE DEF E
    <3> QED BY <2>8
  <2>10. WorkOn(s, mined, at, i) = g[n]
    BY <1>2, Zenon DEF WorkOn
  <2>11. /\ DOMAIN g = 0..n /\ g[0] = at
         /\ \A j \in 1..n : g[j] = G(j, g[j - 1])
    <3>1. ASSUME NEW h, E(h)
          PROVE  /\ DOMAIN h = 0..n /\ h[0] = at
                 /\ \A j \in 1..n : h[j] = G(j, h[j - 1])
      BY <2>1, <3>1
    <3> HIDE DEF E, g, G
    <3> QED BY <2>9, <3>1
  <2>12. g \in [0..n -> WorkStates]
    <3> HIDE DEF G, g
    <3> DEFINE S == {j \in 0..n : g[j] \in WorkStates}
    <3>1. 0 \in S
      BY <2>1, <2>11
    <3>2. ASSUME NEW j \in 1..n, j - 1 \in S PROVE j \in S
      <4>1. g[j - 1] \in WorkStates /\ j \in 0..n
        BY <2>1, <3>2
      <4> QED BY <4>1, <2>3, <2>11
    <3>3. 0..n \subseteq S
      <4> HIDE DEF S
      <4> QED BY <2>1, <3>1, <3>2, UpTo
    <3>4. g = [j \in 0..n |-> g[j]]
      <4>1. E(g)
        BY <2>9
      <4>2. \A h : E(h) => h = [j \in DOMAIN h |-> h[j]]
        OBVIOUS
      <4> HIDE DEF E
      <4>3. g = [j \in DOMAIN g |-> g[j]]
        BY <4>1, <4>2
      <4> QED BY <4>3, <2>11
    <3> QED BY <3>3, <3>4
  <2>13. g \in D
    <3> HIDE DEF g
    <3> QED BY <2>11, <2>12, Zenon DEF Trials
  <2> HIDE DEF g, D
  <2> QED BY <1>2, <2>10, <2>13 DEF D
<1> QED
  BY <1>1, <1>2

(* What the loop keeps: start is the memory pool before it, t the          *)
(* transaction it starts with.                                             *)
InWork(at, u) == \E k \in 1..Len(at.work) : at.work[k] = u

Grown(s, start, t, at) ==
  /\ at \in WorkStates /\ at.erase \subseteq Orphans(s)
  /\ \A j, k \in 1..Len(at.work) : at.work[j] = at.work[k] => j = k
  /\ \A u : u \in at.pool <=> u \in start \/ InWork(at, u)
  /\ at.pool \subseteq start \cup {t} \cup Orphans(s)
  /\ \A q \in at.misbehaving : \E x \in at.erase : x \in DoSTxs /\ s.from[x] = q

(* An orphan that has its parents now, one of them accepted by the loop,   *)
(* and that was neither dropped nor given up with its sender.              *)
Pending(s, mined, at, o) ==
  /\ o \notin at.erase /\ s.from[o] \notin at.misbehaving
  /\ Parents[o] \subseteq at.pool \cup mined
  /\ \E k \in 1..Len(at.work) : at.work[k] \in Parents[o]

(* One of its parents is still to be worked on.                            *)
Ahead(at, i, o) == \E k \in (i + 1)..Len(at.work) : at.work[k] \in Parents[o]

WorkedOn(s, mined, at, i) ==
  \A o \in Orphans(s) : Pending(s, mined, at, o) => Ahead(at, i, o)

TriedUpTo(s, mined, at, i, j, u) ==
  /\ i <= Len(at.work) /\ at.work[i] = u
  /\ \A o \in Orphans(s) : Pending(s, mined, at, o) =>
       \/ Ahead(at, i, o)
       \/ u \in Parents[o] /\ \E m \in (j + 1)..Len(HashOrder) : HashOrder[m] = o

(* An orphan that is dropped.                                              *)
LEMMA DroppedKeeps ==
  ASSUME NEW s, MapsOK(s), NEW mined, NEW start, NEW t, NEW at, Grown(s, start, t, at),
         NEW i \in Nat \ {0}, NEW j \in 1..Len(HashOrder), NEW u,
         TriedUpTo(s, mined, at, i, j - 1, u),
         NEW o \in Orphans(s), o = HashOrder[j], NEW r \in WorkStates, Dropped(s, at, o, r)
  PROVE  Grown(s, start, t, r) /\ TriedUpTo(s, mined, r, i, j, u)
<1>1. /\ r.work = at.work /\ r.pool = at.pool /\ r.erase = at.erase \cup {o}
      /\ at.misbehaving \subseteq r.misbehaving
      /\ \A q \in r.misbehaving : q \in at.misbehaving \/ (q = s.from[o] /\ o \in DoSTxs)
  BY DEF Dropped
<1>2. Grown(s, start, t, r)
  <2>1. \A x : InWork(r, x) <=> InWork(at, x)
    BY <1>1 DEF InWork
  <2> QED BY <1>1, <2>1 DEF Grown
<1>3. ASSUME NEW x \in Orphans(s), Pending(s, mined, r, x)
      PROVE  \/ Ahead(r, i, x)
             \/ u \in Parents[x] /\ \E m \in (j + 1)..Len(HashOrder) : HashOrder[m] = x
  <2>1. x # o /\ Pending(s, mined, at, x)
    BY <1>1, <1>3 DEF Pending
  <2>2. CASE Ahead(at, i, x)
    BY <1>1, <2>2 DEF Ahead
  <2>3. CASE u \in Parents[x] /\ \E m \in ((j - 1) + 1)..Len(HashOrder) : HashOrder[m] = x
    <3>1. PICK m \in ((j - 1) + 1)..Len(HashOrder) : HashOrder[m] = x
      BY <2>3
    <3>2. m # j /\ m \in (j + 1)..Len(HashOrder)
      BY <2>1, <3>1
    <3> QED BY <2>3, <3>1, <3>2
  <2> QED BY <2>1, <2>2, <2>3 DEF TriedUpTo
<1> QED
  BY <1>1, <1>2, <1>3 DEF TriedUpTo

(* An orphan that is accepted: its own orphans are ahead.                  *)
LEMMA AcceptedKeeps ==
  ASSUME NEW s, MapsOK(s), NEW mined, NEW start, NEW t, NEW at, Grown(s, start, t, at),
         NEW i \in Nat \ {0}, NEW j \in 1..Len(HashOrder), NEW u,
         TriedUpTo(s, mined, at, i, j - 1, u),
         NEW o \in Orphans(s), o = HashOrder[j], NEW r \in WorkStates, Accepted(at, o, r)
  PROVE  Grown(s, start, t, r) /\ TriedUpTo(s, mined, r, i, j, u)
<1> DEFINE w == at.work
           l == Len(w)
<1>1. w \in Seq(Txs) /\ o \in Txs
  BY DEF Grown, WorkStates, MapsOK, MapsAgree
<1>2. /\ r.work = Append(w, o) /\ r.pool = at.pool \cup {o} /\ r.erase = at.erase \cup {o}
      /\ r.misbehaving = at.misbehaving /\ o \notin at.pool
  BY DEF Accepted
<1>3. i <= l /\ w[i] = u
  BY DEF TriedUpTo
<1> HIDE DEF w
<1>4. /\ l \in Nat /\ Len(r.work) = l + 1 /\ r.work[l + 1] = o
      /\ \A k \in 1..l : r.work[k] = w[k]
  BY <1>1, <1>2
<1> HIDE DEF l
<1>5. \A k \in 1..l : w[k] \in at.pool /\ w[k] # o
  BY <1>2 DEF Grown, InWork, l, w
<1>6. \A x : InWork(r, x) <=> InWork(at, x) \/ x = o
  <2> SUFFICES ASSUME NEW x PROVE InWork(r, x) <=> InWork(at, x) \/ x = o
    OBVIOUS
  <2>1. ASSUME InWork(r, x) PROVE InWork(at, x) \/ x = o
    <3>1. PICK k \in 1..(l + 1) : r.work[k] = x
      BY <1>4, <2>1 DEF InWork
    <3>2. k = l + 1 \/ k \in 1..l
      BY <1>4
    <3> QED BY <1>4, <3>1, <3>2 DEF InWork, l, w
  <2>2. ASSUME InWork(at, x) PROVE InWork(r, x)
    <3>1. PICK k \in 1..l : w[k] = x
      BY <2>2 DEF InWork, l, w
    <3>2. k \in 1..(l + 1)
      BY <1>4
    <3> QED BY <1>4, <3>1, <3>2 DEF InWork
  <2>3. ASSUME x = o PROVE InWork(r, x)
    <3>1. l + 1 \in 1..(l + 1)
      BY <1>4
    <3> QED BY <1>4, <2>3, <3>1 DEF InWork
  <2> QED BY <2>1, <2>2, <2>3
<1>7. Grown(s, start, t, r)
  <2>1. ASSUME NEW k \in 1..(l + 1), NEW m \in 1..(l + 1), r.work[k] = r.work[m] PROVE k = m
    <3>1. \A x, y \in 1..l : w[x] = w[y] => x = y
      BY DEF Grown, l, w
    <3>2. (k = l + 1 \/ k \in 1..l) /\ (m = l + 1 \/ m \in 1..l)
      BY <1>4
    <3> QED BY <1>4, <1>5, <2>1, <3>1, <3>2
  <2>2. r.pool \subseteq start \cup {t} \cup Orphans(s) /\ r.erase \subseteq Orphans(s)
    BY <1>2 DEF Grown
  <2>3. \A x : x \in r.pool <=> x \in start \/ InWork(r, x)
    BY <1>2, <1>6 DEF Grown
  <2>4. \A q \in r.misbehaving : \E x \in r.erase : x \in DoSTxs /\ s.from[x] = q
    BY <1>2 DEF Grown
  <2> QED BY <1>4, <2>1, <2>2, <2>3, <2>4 DEF Grown
<1>8. ASSUME NEW x \in Orphans(s), Pending(s, mined, r, x)
      PROVE  \/ Ahead(r, i, x)
             \/ u \in Parents[x] /\ \E m \in (j + 1)..Len(HashOrder) : HashOrder[m] = x
  <2>1. CASE o \in Parents[x]
    <3>1. l + 1 \in (i + 1)..(l + 1)
      BY <1>3, <1>4
    <3> QED BY <1>4, <2>1, <3>1 DEF Ahead
  <2>2. CASE o \notin Parents[x]
    <3>1. x # o /\ x \notin at.erase /\ s.from[x] \notin at.misbehaving
      BY <1>2, <1>8 DEF Pending
    <3>2. Parents[x] \subseteq at.pool \cup mined
      BY <1>2, <1>8, <2>2 DEF Pending
    <3>3. \E k \in 1..l : w[k] \in Parents[x]
      <4>1. PICK k \in 1..(l + 1) : r.work[k] \in Parents[x]
        BY <1>4, <1>8 DEF Pending
      <4>2. k # l + 1
        BY <1>4, <2>2, <4>1
      <4>3. k \in 1..l
        BY <1>4, <4>2
      <4> QED BY <1>4, <4>1, <4>3
    <3>4. Pending(s, mined, at, x)
      BY <3>1, <3>2, <3>3 DEF Pending, l, w
    <3>5. CASE Ahead(at, i, x)
      <4>1. PICK k \in (i + 1)..l : w[k] \in Parents[x]
        BY <3>5 DEF Ahead, l, w
      <4>2. k \in 1..l /\ k \in (i + 1)..(l + 1)
        BY <1>4
      <4> QED BY <1>4, <4>1, <4>2 DEF Ahead
    <3>6. CASE u \in Parents[x] /\ \E m \in ((j - 1) + 1)..Len(HashOrder) : HashOrder[m] = x
      <4>1. PICK m \in ((j - 1) + 1)..Len(HashOrder) : HashOrder[m] = x
        BY <3>6
      <4>2. m # j /\ m \in (j + 1)..Len(HashOrder)
        BY <3>1, <4>1
      <4> QED BY <3>6, <4>1, <4>2
    <3> QED BY <3>4, <3>5, <3>6 DEF TriedUpTo
  <2> QED BY <2>1, <2>2
<1>9. i <= Len(r.work) /\ r.work[i] = u
  <2>1. i \in 1..l
    BY <1>3, <1>4
  <2> QED BY <1>3, <1>4, <2>1
<1> QED
  BY <1>7, <1>8, <1>9 DEF TriedUpTo

(* An orphan that is not touched, because it is none of u or cannot be     *)
(* accepted.                                                               *)
LEMMA AloneKeeps ==
  ASSUME NEW s, NEW mined, NEW at, NEW i \in Nat \ {0}, NEW j \in 1..Len(HashOrder), NEW u,
         TriedUpTo(s, mined, at, i, j - 1, u),
         \/ HashOrder[j] \notin Orphans(s) \/ u \notin Parents[HashOrder[j]]
         \/ LeftAlone(s, mined, at, HashOrder[j])
  PROVE  TriedUpTo(s, mined, at, i, j, u)
<1> SUFFICES ASSUME NEW x \in Orphans(s), Pending(s, mined, at, x)
             PROVE  \/ Ahead(at, i, x)
                    \/ u \in Parents[x] /\ \E m \in (j + 1)..Len(HashOrder) : HashOrder[m] = x
  BY DEF TriedUpTo
<1>1. CASE Ahead(at, i, x)
  BY <1>1
<1>2. CASE u \in Parents[x] /\ \E m \in ((j - 1) + 1)..Len(HashOrder) : HashOrder[m] = x
  <2>1. PICK m \in ((j - 1) + 1)..Len(HashOrder) : HashOrder[m] = x
    BY <1>2
  <2>2. HashOrder[j] # x
    BY <1>2 DEF Pending, LeftAlone
  <2>3. m # j /\ m \in (j + 1)..Len(HashOrder)
    BY <2>1, <2>2
  <2> QED BY <1>2, <2>1, <2>3
<1> QED
  BY <1>1, <1>2 DEF TriedUpTo

(* An element of the queue is worked on.                                   *)
LEMMA WorkOnKeeps ==
  ASSUME NEW s, MapsOK(s), NEW mined, NEW start, NEW t, NEW at, Grown(s, start, t, at),
         NEW i \in Nat \ {0}, WorkedOn(s, mined, at, i - 1)
  PROVE  LET r == WorkOn(s, mined, at, i)
         IN Grown(s, start, t, r) /\ WorkedOn(s, mined, r, i)
<1> DEFINE r == WorkOn(s, mined, at, i)
           n == Len(HashOrder)
           u == at.work[i]
<1>1. at \in WorkStates /\ n \in Nat /\ at.work \in Seq(Txs) /\ Len(at.work) \in Nat
  BY OrphanAssumption DEF Grown, WorkStates
<1>2. IF i > Len(at.work) THEN r = at
      ELSE \E f \in Trials(s, mined, at, u) : r = f[n]
  BY <1>1, WorkOnTries
<1> HIDE DEF r
<1>3. CASE i > Len(at.work)
  <2>1. r = at
    BY <1>2, <1>3
  <2>2. WorkedOn(s, mined, at, i)
    <3> SUFFICES ASSUME NEW o \in Orphans(s), Pending(s, mined, at, o) PROVE Ahead(at, i, o)
      BY DEF WorkedOn
    <3>1. PICK k \in ((i - 1) + 1)..Len(at.work) : at.work[k] \in Parents[o]
      BY DEF WorkedOn, Ahead
    <3> QED BY <1>1, <1>3, <3>1
  <2> QED BY <2>1, <2>2 DEF r
<1>4. CASE ~(i > Len(at.work))
  <2>1. PICK f \in Trials(s, mined, at, u) : r = f[n]
    BY <1>2, <1>4
  <2>2. /\ f \in [0..n -> WorkStates] /\ f[0] = at
        /\ \A j \in 1..n : f[j] = IF HashOrder[j] \notin Prevs(s, u) THEN f[j - 1]
                                  ELSE TryOrphan(s, mined, f[j - 1], HashOrder[j])
    BY Zenon DEF Trials
  <2>3. TriedUpTo(s, mined, at, i, 0, u)
    <3> SUFFICES ASSUME NEW o \in Orphans(s), Pending(s, mined, at, o)
                 PROVE  \/ Ahead(at, i, o)
                        \/ u \in Parents[o] /\ \E m \in (0 + 1)..n : HashOrder[m] = o
      BY <1>1, <1>4 DEF TriedUpTo
    <3>1. PICK k \in ((i - 1) + 1)..Len(at.work) : at.work[k] \in Parents[o]
      BY DEF WorkedOn, Ahead
    <3>2. CASE k # i
      <4>1. k \in (i + 1)..Len(at.work)
        BY <1>1, <3>2
      <4> QED BY <3>1, <4>1 DEF Ahead
    <3>3. CASE k = i
      <4>1. o \in Txs
        BY DEF MapsOK, MapsAgree
      <4>2. DOMAIN HashOrder = 1..n /\ o \in ToSet(HashOrder)
        BY <4>1, OrphanAssumption
      <4>3. \E m \in (0 + 1)..n : HashOrder[m] = o
        BY <4>2 DEF ToSet
      <4> QED BY <3>1, <3>3, <4>3
    <3> QED BY <3>2, <3>3
  <2> DEFINE S == {j \in 0..n : Grown(s, start, t, f[j]) /\ TriedUpTo(s, mined, f[j], i, j, u)}
  <2> HIDE DEF n, u
  <2>4. 0 \in S
    BY <1>1, <2>2, <2>3
  <2>5. ASSUME NEW j \in 1..n, j - 1 \in S PROVE j \in S
    <3> DEFINE x == f[j - 1]
               y == f[j]
               o == HashOrder[j]
    <3>1. /\ Grown(s, start, t, x) /\ TriedUpTo(s, mined, x, i, j - 1, u)
          /\ x \in WorkStates /\ j \in 0..n /\ j \in 1..Len(HashOrder)
      BY <1>1, <2>2, <2>5 DEF n
    <3>2. y = IF o \notin Prevs(s, u) THEN x ELSE TryOrphan(s, mined, x, o)
      BY <2>2
    <3>3. \A e : e \in Prevs(s, u) <=> e \in Orphans(s) /\ u \in Parents[e]
      BY PrevsAre DEF MapsOK
    <3> HIDE DEF x, y
    <3>4. CASE o \notin Prevs(s, u)
      <4>1. TriedUpTo(s, mined, x, i, j, u)
        BY <3>1, <3>3, <3>4, AloneKeeps
      <4> QED BY <3>1, <3>2, <3>4, <4>1 DEF y
    <3>5. CASE o \in Prevs(s, u)
      <4>1. o \in Orphans(s) /\ y = TryOrphan(s, mined, x, o)
        BY <3>2, <3>3, <3>5
      <4>2. /\ y \in WorkStates
            /\ \/ y = x /\ LeftAlone(s, mined, x, o)
               \/ Dropped(s, x, o, y) \/ Accepted(x, o, y)
        BY <3>1, <4>1, TryIs
      <4> HIDE DEF o
      <4>3. CASE y = x /\ LeftAlone(s, mined, x, o)
        <5>1. TriedUpTo(s, mined, x, i, j, u)
          BY <3>1, <4>3, AloneKeeps DEF o
        <5> QED BY <3>1, <4>3, <5>1 DEF y
      <4>4. CASE Dropped(s, x, o, y)
        <5>1. Grown(s, start, t, y) /\ TriedUpTo(s, mined, y, i, j, u)
          BY <3>1, <4>1, <4>2, <4>4, DroppedKeeps DEF o
        <5> QED BY <3>1, <5>1 DEF y
      <4>5. CASE Accepted(x, o, y)
        <5>1. Grown(s, start, t, y) /\ TriedUpTo(s, mined, y, i, j, u)
          BY <3>1, <4>1, <4>2, <4>5, AcceptedKeeps DEF o
        <5> QED BY <3>1, <5>1 DEF y
      <4> QED BY <4>2, <4>3, <4>4, <4>5
    <3> QED BY <3>4, <3>5
  <2>6. n \in S
    <3> HIDE DEF S
    <3>1. 0..n \subseteq S
      BY <1>1, <2>4, <2>5, UpTo
    <3> QED BY <1>1, <3>1
  <2>7. Grown(s, start, t, r) /\ TriedUpTo(s, mined, r, i, n, u)
    BY <2>1, <2>6
  <2>8. ~\E m \in (n + 1)..Len(HashOrder) : TRUE
    BY <1>1 DEF n
  <2>9. WorkedOn(s, mined, r, i)
    BY <2>7, <2>8 DEF WorkedOn, TriedUpTo
  <2> QED BY <2>7, <2>9 DEF r
<1> QED
  BY <1>3, <1>4

(* Every element of the queue is worked on: each is another transaction.   *)
LEMMA QueueFits ==
  ASSUME NEW s, NEW start, NEW t, NEW at, Grown(s, start, t, at)
  PROVE  Len(at.work) <= Len(HashOrder)
<1> DEFINE n == Len(HashOrder)
           w == at.work
           m == Len(w)
<1>1. HashOrder \in Seq(Txs) /\ IsInjective(HashOrder) /\ ToSet(HashOrder) = Txs
  BY OrphanAssumption
<1>2. HashOrder \in [1..n -> Txs] /\ n \in Nat
  BY <1>1
<1>3. HashOrder \in Bijection(1..n, Txs)
  <2>1. \A x \in Txs : \E k \in 1..n : HashOrder[k] = x
    BY <1>1, <1>2 DEF ToSet
  <2> HIDE DEF n
  <2> QED BY <1>1, <1>2, <2>1 DEF Bijection, Injection, Surjection, IsInjective
<1>4. ExistsBijection(1..n, Txs)
  BY <1>3 DEF ExistsBijection
<1>5. IsFiniteSet(Txs) /\ Cardinality(Txs) = n
  BY <1>2, <1>4, FS_NatBijection, FS_CountingElements
<1>6. w \in Seq(Txs) /\ \A j, k \in 1..m : w[j] = w[k] => j = k
  BY DEF Grown, WorkStates
<1> HIDE DEF w
<1>7. w \in [1..m -> Txs] /\ m \in Nat
  BY <1>6
<1> HIDE DEF m, n
<1>8. w \in Injection(1..m, Txs)
  BY <1>6, <1>7 DEF Injection, IsInjective
<1>9. Cardinality(1..m) <= n
  BY <1>5, <1>8, FS_Injection
<1>10. Cardinality(1..m) = m
  BY <1>7, FS_Interval
<1> QED
  BY <1>9, <1>10 DEF m, n, w

(* WorkOn gives a state of the loop.                                       *)
LEMMA WorkOnTyped ==
  ASSUME NEW s, MapsOK(s), NEW mined, NEW at \in WorkStates, NEW i \in Nat
  PROVE  WorkOn(s, mined, at, i) \in WorkStates
<1>1. Len(HashOrder) \in 0..Len(HashOrder)
  BY OrphanAssumption
<1>2. \A f \in Trials(s, mined, at, at.work[i]) : f[Len(HashOrder)] \in WorkStates
  BY <1>1 DEF Trials
<1> QED
  BY <1>2, WorkOnTries

(* The whole loop: no orphan is left that it could have accepted.          *)
LEMMA ProcessIs ==
  ASSUME NEW s, MapsOK(s), NEW mined, NEW t \in Txs, pool \subseteq Txs
  PROVE  LET r == ProcessOrphans(s, mined, t)
         IN Grown(s, pool, t, r) /\ \A o \in Orphans(s) : ~Pending(s, mined, r, o)
<1> DEFINE n == Len(HashOrder)
           first == [work |-> <<t>>, pool |-> pool \cup {t}, erase |-> {}, misbehaving |-> {}]
           G(i, x) == WorkOn(s, mined, x, i)
           F == [i \in 1..n |-> [x \in WorkStates |-> G(i, x)]]
           E(f) == f = [i \in 0..n |-> IF i = 0
                          THEN [work |-> <<t>>, pool |-> pool \cup {t},
                                erase |-> {}, misbehaving |-> {}]
                          ELSE WorkOn(s, mined, f[i - 1], i)]
           g == CHOOSE f : E(f)
           r == ProcessOrphans(s, mined, t)
<1>1. n \in Nat
  BY OrphanAssumption
<1>2. first \in WorkStates
  BY DEF WorkStates
<1>3. ASSUME NEW i \in 1..n, NEW x \in WorkStates PROVE G(i, x) \in WorkStates
  BY <1>1, WorkOnTyped
<1>4. F \in [1..n -> [WorkStates -> WorkStates]]
  BY <1>3
<1>5. PICK f : f \in Steps(n, WorkStates, first, F)
  <2> HIDE DEF F, first
  <2> QED BY <1>1, <1>2, <1>4, StepsExist
<1>6. f \in [0..n -> WorkStates] /\ f[0] = first /\ \A i \in 1..n : f[i] = F[i][f[i - 1]]
  BY <1>5, Zenon DEF Steps
<1>7. ASSUME NEW i \in 1..n PROVE f[i] = G(i, f[i - 1])
  <2>1. f[i - 1] \in WorkStates
    BY <1>1, <1>6
  <2> HIDE DEF G
  <2> QED BY <1>6, <2>1
<1>8. E(f)
  <2>1. \A i \in 0..n : f[i] = IF i = 0 THEN first ELSE WorkOn(s, mined, f[i - 1], i)
    <3> SUFFICES ASSUME NEW i \in 0..n, i # 0 PROVE f[i] = G(i, f[i - 1])
      BY <1>6
    <3>1. i \in 1..n
      BY <1>1
    <3> HIDE DEF G
    <3> QED BY <3>1, <1>7
  <2>2. f = [i \in 0..n |-> f[i]]
    BY <1>6
  <2> HIDE DEF first
  <2>3. f = [i \in 0..n |-> IF i = 0 THEN first ELSE WorkOn(s, mined, f[i - 1], i)]
    BY <2>1, <2>2
  <2> QED BY <2>3 DEF first
<1>9. E(g)
  <2> HIDE DEF E
  <2> QED BY <1>8
<1>10. r = g[n]
  BY Zenon DEF ProcessOrphans
<1>11. g[0] = first /\ \A i \in 1..n : g[i] = G(i, g[i - 1])
  <2>1. ASSUME NEW h, E(h) PROVE h[0] = first /\ \A i \in 1..n : h[i] = G(i, h[i - 1])
    <3>1. h = [i \in 0..n |-> IF i = 0 THEN first ELSE WorkOn(s, mined, h[i - 1], i)]
      BY <2>1, Zenon
    <3> HIDE DEF first, E
    <3>2. h[0] = first
      BY <1>1, <3>1
    <3>3. \A i \in 1..n : h[i] = WorkOn(s, mined, h[i - 1], i)
      BY <1>1, <3>1
    <3> QED BY <3>2, <3>3
  <2> HIDE DEF E, g, G, first
  <2> QED BY <1>9, <2>1
<1> DEFINE S == {i \in 0..n : Grown(s, pool, t, g[i]) /\ WorkedOn(s, mined, g[i], i)}
<1>12. Grown(s, pool, t, first)
  <2>1. /\ first.work = <<t>> /\ first.pool = pool \cup {t} /\ first.erase = {}
        /\ first.misbehaving = {}
    OBVIOUS
  <2> HIDE DEF first
  <2>2. Len(first.work) = 1 /\ first.work[1] = t
    BY <2>1
  <2>3. \A u : InWork(first, u) <=> u = t
    BY <2>2 DEF InWork
  <2> QED BY <1>2, <2>1, <2>2, <2>3 DEF Grown
<1>13. WorkedOn(s, mined, first, 0)
  BY DEF WorkedOn, Pending, Ahead
<1> HIDE DEF g, first, r
<1>14. 0 \in S
  BY <1>1, <1>11, <1>12, <1>13
<1>15. ASSUME NEW i \in 1..n, i - 1 \in S PROVE i \in S
  <2> DEFINE x == g[i - 1]
             y == g[i]
  <2>1. /\ Grown(s, pool, t, x) /\ WorkedOn(s, mined, x, i - 1)
        /\ i \in 0..n /\ i \in Nat \ {0} /\ y = WorkOn(s, mined, x, i)
    BY <1>1, <1>11, <1>15
  <2> HIDE DEF x, y
  <2>2. Grown(s, pool, t, y) /\ WorkedOn(s, mined, y, i)
    BY <2>1, WorkOnKeeps
  <2> QED BY <2>1, <2>2 DEF y
<1>16. n \in S
  <2> HIDE DEF S
  <2>1. 0..n \subseteq S
    BY <1>1, <1>14, <1>15, UpTo
  <2> QED BY <1>1, <2>1
<1>17. Grown(s, pool, t, r) /\ WorkedOn(s, mined, r, n)
  BY <1>10, <1>16
<1>18. ASSUME NEW o \in Orphans(s), Pending(s, mined, r, o) PROVE FALSE
  <2>1. PICK k \in (n + 1)..Len(r.work) : r.work[k] \in Parents[o]
    BY <1>17, <1>18 DEF WorkedOn, Ahead
  <2>2. Len(r.work) <= n /\ Len(r.work) \in Nat
    <3>1. r.work \in Seq(Txs)
      BY <1>17 DEF Grown, WorkStates
    <3> QED BY <3>1, <1>17, QueueFits
  <2> QED BY <1>1, <2>1, <2>2
<1> QED
  BY <1>17, <1>18 DEF r
-----------------------------------------------------------------------------
(* What the peers' state has to satisfy.                                   *)

PeerStates == [node : UNION {[S -> NodeType] : S \in SUBSET Peers},
               inFlight : [Blocks -> Peers \cup {NoPeer}], nQueued : Nat]

Lists(s, p, b) == \E i \in 1..Len(FromPeer(s, p)) : FromPeer(s, p)[i].hash = b

(* The blocks in flight that nQueuedValidatedHeaders counts.               *)
Queued(s) == {b \in Blocks : \E p \in DOMAIN s.node : \E i \in 1..Len(FromPeer(s, p)) :
                FromPeer(s, p)[i].hash = b /\ FromPeer(s, p)[i].fValidatedHeaders}

OnceListed(s) ==
  \A p \in DOMAIN s.node : \A i, j \in 1..Len(FromPeer(s, p)) :
    FromPeer(s, p)[i].hash = FromPeer(s, p)[j].hash => i = j

ListsAgree(s) ==
  \A b \in Blocks, p \in Peers :
    s.inFlight[b] = p <=> p \in DOMAIN s.node /\ Lists(s, p, b)

CountsAgree(s) ==
  /\ \A p \in DOMAIN s.node : Len(FromPeer(s, p)) <= s.node[p].nBlocksInFlight
  /\ IsFiniteSet(Queued(s)) /\ Cardinality(Queued(s)) <= s.nQueued

PeersOK(s) == s \in PeerStates /\ OnceListed(s) /\ ListsAgree(s) /\ CountsAgree(s)

(* The parts of a state, and of a node's record.                           *)
LEMMA StateParts ==
  ASSUME NEW s \in PeerStates
  PROVE  /\ DOMAIN s.node \subseteq Peers /\ s.node \in [DOMAIN s.node -> NodeType]
         /\ s.inFlight \in [Blocks -> Peers \cup {NoPeer}] /\ s.nQueued \in Nat
         /\ s = [node |-> s.node, inFlight |-> s.inFlight, nQueued |-> s.nQueued]
<1> SUFFICES /\ s.node \in UNION {[S -> NodeType] : S \in SUBSET Peers}
             /\ s.inFlight \in [Blocks -> Peers \cup {NoPeer}] /\ s.nQueued \in Nat
             /\ s = [node |-> s.node, inFlight |-> s.inFlight, nQueued |-> s.nQueued]
  BY Zenon
<1> QED
  BY DEF PeerStates

(* A record of the three parts is a state.                                 *)
LEMMA StateMade ==
  ASSUME NEW S \in SUBSET Peers, NEW n \in [S -> NodeType],
         NEW f \in [Blocks -> Peers \cup {NoPeer}], NEW c \in Nat
  PROVE  [node |-> n, inFlight |-> f, nQueued |-> c] \in PeerStates
<1>1. n \in UNION {[D -> NodeType] : D \in SUBSET Peers}
  OBVIOUS
<1> QED
  BY <1>1, Zenon DEF PeerStates

(* The list of a peer and its elements.                                    *)
LEMMA ListIs ==
  ASSUME NEW s \in PeerStates, NEW p \in DOMAIN s.node
  PROVE  /\ FromPeer(s, p) \in Seq(InFlightType) /\ Len(FromPeer(s, p)) \in Nat
         /\ \A i \in 1..Len(FromPeer(s, p)) : /\ FromPeer(s, p)[i] \in InFlightType
                                              /\ FromPeer(s, p)[i].hash \in Blocks
         /\ s.node[p] \in NodeType /\ p \in Peers /\ p # NoPeer
<1>1. s.node[p] \in NodeType /\ p \in Peers
  BY StateParts
<1>2. FromPeer(s, p) \in Seq(InFlightType)
  BY <1>1 DEF FromPeer, NodeType
<1> HIDE DEF FromPeer
<1>3. \A i \in 1..Len(FromPeer(s, p)) : FromPeer(s, p)[i] \in InFlightType
  BY <1>2
<1> QED
  BY <1>1, <1>2, <1>3, DownloadAssumption DEF InFlightType

(* Taking an element off a list.                                           *)
LEMMA RemoveAtIs ==
  ASSUME NEW T, NEW l \in Seq(T), NEW k \in 1..Len(l)
  PROVE  /\ RemoveAt(l, k) \in Seq(T) /\ Len(RemoveAt(l, k)) = Len(l) - 1
         /\ \A i \in 1..(Len(l) - 1) : RemoveAt(l, k)[i] = l[IF i < k THEN i ELSE i + 1]
<1> DEFINE a == SubSeq(l, 1, k - 1)
           b == SubSeq(l, k + 1, Len(l))
<1>1. /\ a \in Seq(T) /\ Len(a) = k - 1 /\ \A i \in 1..(k - 1) : a[i] = l[i]
  BY SubSeqProperties
<1>2. /\ b \in Seq(T) /\ Len(b) = Len(l) - k /\ \A i \in 1..(Len(l) - k) : b[i] = l[k + i]
  BY SubSeqProperties
<1> HIDE DEF a, b
<1>3. /\ a \o b \in Seq(T) /\ Len(a \o b) = Len(l) - 1
  <2>1. /\ a \o b \in Seq(T) /\ Len(a \o b) = Len(a) + Len(b)
    BY <1>1, <1>2, ConcatProperties
  <2>2. Len(l) \in Nat
    OBVIOUS
  <2> QED BY ONLY <1>1, <1>2, <2>1, <2>2, k \in 1..Len(l)
<1>4. \A i \in 1..(Len(l) - 1) : (a \o b)[i] = IF i <= Len(a) THEN a[i] ELSE b[i - Len(a)]
  BY <1>1, <1>2
<1>5. ASSUME NEW i \in 1..(Len(l) - 1) PROVE (a \o b)[i] = l[IF i < k THEN i ELSE i + 1]
  <2>1. CASE i < k
    BY <2>1, <1>1, <1>4
  <2>2. CASE ~(i < k)
    <3>1. Len(l) \in Nat /\ Len(a) = k - 1 /\ ~(i <= Len(a))
      BY <2>2, <1>1
    <3>2. (a \o b)[i] = b[i - (k - 1)] /\ i - (k - 1) \in 1..(Len(l) - k)
      <4>1. (a \o b)[i] = b[i - Len(a)]
        BY <3>1, <1>4
      <4> QED BY <4>1, <3>1
    <3>3. b[i - (k - 1)] = l[k + (i - (k - 1))] /\ k + (i - (k - 1)) = i + 1
      BY <3>2, <1>2
    <3> QED BY <3>2, <3>3, <2>2
  <2> QED BY <2>1, <2>2
<1> QED
  BY <1>3, <1>5 DEF RemoveAt, a, b

-----------------------------------------------------------------------------
(* MarkBlockAsReceived and MarkBlockAsInFlight.                            *)

(* The iterator of mapBlocksInFlight is to the one element of the list.    *)
LEMMA AtIs ==
  ASSUME NEW s, PeersOK(s), NEW b \in Blocks, s.inFlight[b] # NoPeer
  PROVE  LET p == s.inFlight[b]
             at == At(FromPeer(s, p), b)
         IN /\ p \in DOMAIN s.node /\ at \in 1..Len(FromPeer(s, p))
            /\ \A i \in 1..Len(FromPeer(s, p)) : FromPeer(s, p)[i].hash = b <=> i = at
<1> DEFINE p == s.inFlight[b]
           l == FromPeer(s, p)
           at == At(l, b)
<1>1. p \in Peers
  BY StateParts DEF PeersOK
<1>2. p \in DOMAIN s.node /\ Lists(s, p, b)
  BY <1>1 DEF PeersOK, ListsAgree
<1>3. l \in Seq(InFlightType)
  BY <1>2, ListIs DEF PeersOK
<1>4. DOMAIN l = 1..Len(l)
  BY <1>3
<1>5. \E i \in DOMAIN l : l[i].hash = b
  BY <1>2, <1>4 DEF Lists
<1>6. at \in DOMAIN l /\ l[at].hash = b
  BY <1>5, Zenon DEF At
<1>7. \A i, j \in 1..Len(l) : l[i].hash = l[j].hash => i = j
  BY <1>2 DEF PeersOK, OnceListed
<1> HIDE DEF l, at
<1>8. \A i \in 1..Len(l) : l[i].hash = b <=> i = at
  BY <1>4, <1>6, <1>7
<1> QED
  BY <1>2, <1>4, <1>6, <1>8 DEF l, at

(* The block leaves the map, the list and the counts together.             *)
LEMMA ReceivedIs ==
  ASSUME NEW s, PeersOK(s), NEW b \in Blocks
  PROVE  LET r == MarkBlockAsReceived(s, b)
         IN /\ PeersOK(r) /\ DOMAIN r.node = DOMAIN s.node
            /\ r.inFlight = [s.inFlight EXCEPT ![b] = NoPeer] /\ Queued(r) \subseteq Queued(s)
            /\ \A p \in DOMAIN s.node :
                 /\ r.node[p].nBlocksInFlight <= s.node[p].nBlocksInFlight
                 /\ r.node[p].mapAskFor = s.node[p].mapAskFor
<1> DEFINE r == MarkBlockAsReceived(s, b)
           p == s.inFlight[b]
           l == FromPeer(s, p)
           at == At(l, b)
<1>1. s \in PeerStates
  BY DEF PeersOK
<1>2. CASE p = NoPeer
  <2>1. r = s
    BY <1>2 DEF MarkBlockAsReceived
  <2>2. s.inFlight = [s.inFlight EXCEPT ![b] = NoPeer]
    BY <1>1, <1>2, StateParts
  <2>3. \A q \in DOMAIN s.node : s.node[q].nBlocksInFlight \in Nat
    BY <1>1, ListIs DEF NodeType
  <2> HIDE DEF r
  <2>4. \A q \in DOMAIN s.node : s.node[q].nBlocksInFlight <= s.node[q].nBlocksInFlight
    BY <2>3
  <2> QED BY <2>1, <2>2, <2>4 DEF r
<1>3. CASE p # NoPeer
  <2> DEFINE m == [s.node[p] EXCEPT !.vBlocksInFlight = RemoveAt(l, at),
                                    !.nBlocksInFlight = @ - 1, !.stalling = FALSE]
             rn == [s.node EXCEPT ![p] = m]
             rf == [s.inFlight EXCEPT ![b] = NoPeer]
             rq == s.nQueued - Counts(l[at])
  <2>1. /\ p \in DOMAIN s.node /\ at \in 1..Len(l)
        /\ \A i \in 1..Len(l) : l[i].hash = b <=> i = at
    BY <1>3, AtIs
  <2>2. /\ l \in Seq(InFlightType) /\ s.node[p] \in NodeType /\ p \in Peers
        /\ \A i \in 1..Len(l) : l[i] \in InFlightType
    BY <1>1, <2>1, ListIs
  <2>3. /\ DOMAIN s.node \subseteq Peers /\ s.node \in [DOMAIN s.node -> NodeType]
        /\ s.inFlight \in [Blocks -> Peers \cup {NoPeer}] /\ s.nQueued \in Nat
        /\ s = [node |-> s.node, inFlight |-> s.inFlight, nQueued |-> s.nQueued]
    BY <1>1, StateParts
  <2>4. r = [node |-> rn, inFlight |-> rf, nQueued |-> rq]
    <3>1. r = [s EXCEPT !.inFlight[b] = NoPeer,
                    !.nQueued = @ - Counts(FromPeer(s, p)[at]),
                    !.node[p].vBlocksInFlight = RemoveAt(@, at),
                    !.node[p].nBlocksInFlight = @ - 1,
                    !.node[p].stalling = FALSE]
      BY <1>3, Zenon DEF MarkBlockAsReceived
    <3> HIDE DEF r, at, p
    <3> QED BY <3>1, <2>1, <2>2, <2>3 DEF FromPeer, NodeType
  <2>5. /\ RemoveAt(l, at) \in Seq(InFlightType) /\ Len(RemoveAt(l, at)) = Len(l) - 1
        /\ \A i \in 1..(Len(l) - 1) : RemoveAt(l, at)[i] = l[IF i < at THEN i ELSE i + 1]
    BY <2>1, <2>2, RemoveAtIs
  <2>6. Len(l) <= s.node[p].nBlocksInFlight /\ Len(l) \in Nat /\ s.node[p].nBlocksInFlight \in Nat
    BY <2>1, <2>2 DEF PeersOK, CountsAgree, NodeType
  <2>7. /\ m \in NodeType /\ m.vBlocksInFlight = RemoveAt(l, at)
        /\ m.nBlocksInFlight = s.node[p].nBlocksInFlight - 1 /\ m.mapAskFor = s.node[p].mapAskFor
    <3>1. RemoveAt(l, at) \in Seq(InFlightType) /\ s.node[p].nBlocksInFlight - 1 \in Nat
      BY <2>1, <2>5, <2>6
    <3> HIDE DEF l, at, p
    <3> QED BY <2>2, <3>1 DEF NodeType
  <2> HIDE DEF m
  <2>8. /\ DOMAIN rn = DOMAIN s.node /\ rn \in [DOMAIN s.node -> NodeType] /\ rn[p] = m
        /\ \A q \in DOMAIN s.node : q # p => rn[q] = s.node[q]
    BY <2>1, <2>3, <2>7
  <2>9. /\ rf \in [Blocks -> Peers \cup {NoPeer}] /\ rf[b] = NoPeer
        /\ \A c \in Blocks : c # b => rf[c] = s.inFlight[c]
    BY <2>3
  <2> HIDE DEF rn, rf, r
  <2>10. r.node = rn /\ r.inFlight = rf /\ r.nQueued = rq
    BY <2>4
  <2>11. FromPeer(r, p) = RemoveAt(l, at) /\ \A q \in DOMAIN s.node : q # p => FromPeer(r, q) = FromPeer(s, q)
    BY <2>7, <2>8, <2>10 DEF FromPeer
  <2>12. ASSUME NEW i \in 1..(Len(l) - 1)
         PROVE  /\ (IF i < at THEN i ELSE i + 1) \in 1..Len(l)
                /\ (IF i < at THEN i ELSE i + 1) # at
    BY <2>1, <2>6
  <2>13. ASSUME NEW j \in 1..Len(l), j # at
         PROVE  \E i \in 1..(Len(l) - 1) : j = IF i < at THEN i ELSE i + 1
    <3>1. CASE j < at
      <4>1. j \in 1..(Len(l) - 1)
        BY <3>1, <2>1, <2>6
      <4> QED BY <3>1, <4>1
    <3>2. CASE j > at
      <4>1. j - 1 \in 1..(Len(l) - 1) /\ ~(j - 1 < at) /\ j = (j - 1) + 1
        BY <3>2, <2>1, <2>6
      <4> QED BY <4>1
    <3> QED BY <3>1, <3>2, <2>13, <2>1
  <2> HIDE DEF p, l, at
  <2>14. ASSUME NEW q \in DOMAIN s.node, NEW c \in Blocks
         PROVE  Lists(r, q, c) <=> Lists(s, q, c) /\ ~(q = p /\ c = b)
    <3>1. CASE q # p
      BY <3>1, <2>11 DEF Lists
    <3>2. CASE q = p
      <4>1. Lists(r, p, c) <=> \E i \in 1..(Len(l) - 1) : l[IF i < at THEN i ELSE i + 1].hash = c
        BY <2>11, <2>5 DEF Lists
      <4>2. Lists(s, p, c) <=> \E j \in 1..Len(l) : l[j].hash = c
        BY DEF Lists, l
      <4>3. (\E i \in 1..(Len(l) - 1) : l[IF i < at THEN i ELSE i + 1].hash = c)
              <=> \E j \in 1..Len(l) : j # at /\ l[j].hash = c
        BY <2>12, <2>13
      <4> QED BY <3>2, <4>1, <4>2, <4>3, <2>1
    <3> QED BY <3>1, <3>2
  <2>15. ASSUME NEW q \in DOMAIN s.node, Lists(s, q, b) PROVE q = p
    BY <2>15, <2>3 DEF PeersOK, ListsAgree, p
  <2>16. Queued(r) = Queued(s) \ {b}
    <3>1. ASSUME NEW c \in Queued(r) PROVE c \in Queued(s) \ {b}
      <4>a. PICK q \in DOMAIN s.node : \E i \in 1..Len(FromPeer(r, q)) :
              FromPeer(r, q)[i].hash = c /\ FromPeer(r, q)[i].fValidatedHeaders
        BY <3>1, <2>8, <2>10 DEF Queued
      <4>1. PICK i \in 1..Len(FromPeer(r, q)) :
              FromPeer(r, q)[i].hash = c /\ FromPeer(r, q)[i].fValidatedHeaders
        BY <4>a
      <4>2. c \in Blocks /\ Lists(r, q, c)
        BY <4>1 DEF Queued, Lists
      <4>3. c # b
        BY <4>2, <2>14, <2>15
      <4>4. \E j \in 1..Len(FromPeer(s, q)) :
              FromPeer(s, q)[j].hash = c /\ FromPeer(s, q)[j].fValidatedHeaders
        <5>1. CASE q # p
          BY <5>1, <4>1, <2>11
        <5>2. CASE q = p
          <6>1. i \in 1..(Len(l) - 1) /\ FromPeer(r, q)[i] = l[IF i < at THEN i ELSE i + 1]
            BY <5>2, <4>1, <2>11, <2>5
          <6> QED BY <6>1, <4>1, <5>2, <2>12 DEF l
        <5> QED BY <5>1, <5>2
      <4> QED BY <4>2, <4>3, <4>4 DEF Queued
    <3>2. ASSUME NEW c \in Queued(s), c # b PROVE c \in Queued(r)
      <4>a. PICK q \in DOMAIN s.node : \E j \in 1..Len(FromPeer(s, q)) :
              FromPeer(s, q)[j].hash = c /\ FromPeer(s, q)[j].fValidatedHeaders
        BY <3>2 DEF Queued
      <4>1. PICK j \in 1..Len(FromPeer(s, q)) :
              FromPeer(s, q)[j].hash = c /\ FromPeer(s, q)[j].fValidatedHeaders
        BY <4>a
      <4>2. \E i \in 1..Len(FromPeer(r, q)) :
              FromPeer(r, q)[i].hash = c /\ FromPeer(r, q)[i].fValidatedHeaders
        <5>1. CASE q # p
          BY <5>1, <4>1, <2>11
        <5>2. CASE q = p
          <6>1. j \in 1..Len(l) /\ l[j].hash = c /\ l[j].fValidatedHeaders
            BY <5>2, <4>1 DEF l
          <6>2. j # at
            BY <6>1, <3>2, <2>1
          <6>3. PICK i \in 1..(Len(l) - 1) : j = IF i < at THEN i ELSE i + 1
            BY <6>1, <6>2, <2>13
          <6>4. FromPeer(r, q)[i] = l[j] /\ i \in 1..Len(FromPeer(r, q))
            BY <6>3, <5>2, <2>11, <2>5
          <6> QED BY <6>1, <6>4
        <5> QED BY <5>1, <5>2
      <4> QED BY <3>2, <4>1, <4>2, <2>8, <2>10 DEF Queued
    <3> QED BY <3>1, <3>2
  <2>17. b \in Queued(s) <=> l[at].fValidatedHeaders
    <3>1. ASSUME b \in Queued(s) PROVE l[at].fValidatedHeaders
      <4>a. PICK q \in DOMAIN s.node : \E i \in 1..Len(FromPeer(s, q)) :
              FromPeer(s, q)[i].hash = b /\ FromPeer(s, q)[i].fValidatedHeaders
        BY <3>1 DEF Queued
      <4>1. PICK i \in 1..Len(FromPeer(s, q)) :
              FromPeer(s, q)[i].hash = b /\ FromPeer(s, q)[i].fValidatedHeaders
        BY <4>a
      <4>2. q = p
        BY <4>1, <2>15 DEF Lists
      <4> QED BY <4>1, <4>2, <2>1 DEF l
    <3>2. ASSUME l[at].fValidatedHeaders PROVE b \in Queued(s)
      BY <3>2, <2>1 DEF Queued, l
    <3> QED BY <3>1, <3>2
  <2>18. /\ IsFiniteSet(Queued(r)) /\ Cardinality(Queued(r)) <= rq /\ rq \in Nat
    <3>1. IsFiniteSet(Queued(s)) /\ Cardinality(Queued(s)) <= s.nQueued
      BY DEF PeersOK, CountsAgree
    <3>2. Cardinality(Queued(s)) \in Nat
      BY <3>1, FS_CardinalityType
    <3>3. /\ IsFiniteSet(Queued(s) \ {b})
          /\ Cardinality(Queued(s) \ {b}) = IF b \in Queued(s) THEN Cardinality(Queued(s)) - 1
                                            ELSE Cardinality(Queued(s))
      BY <3>1, FS_RemoveElement
    <3>4. Cardinality(Queued(r)) \in Nat
      BY <3>3, <2>16, FS_CardinalityType
    <3>5. rq = IF b \in Queued(s) THEN s.nQueued - 1 ELSE s.nQueued
      BY <2>17, <2>3 DEF Counts
    <3> HIDE DEF rq
    <3> QED BY <3>1, <3>2, <3>3, <3>4, <3>5, <2>3, <2>16
  <2>19. r \in PeerStates
    <3> HIDE DEF rq
    <3> QED BY <2>3, <2>4, <2>8, <2>9, <2>18, StateMade
  <2>20. OnceListed(r)
    <3> SUFFICES ASSUME NEW q \in DOMAIN s.node, NEW i \in 1..Len(FromPeer(r, q)),
                        NEW j \in 1..Len(FromPeer(r, q)),
                        FromPeer(r, q)[i].hash = FromPeer(r, q)[j].hash
                 PROVE  i = j
      BY <2>8, <2>10 DEF OnceListed
    <3>1. CASE q # p
      BY <3>1, <2>11 DEF PeersOK, OnceListed
    <3>2. CASE q = p
      <4>1. i \in 1..(Len(l) - 1) /\ j \in 1..(Len(l) - 1)
        BY <3>2, <2>11, <2>5
      <4>2. (IF i < at THEN i ELSE i + 1) = (IF j < at THEN j ELSE j + 1)
        <5> DEFINE x == IF i < at THEN i ELSE i + 1
                   y == IF j < at THEN j ELSE j + 1
        <5>1. FromPeer(r, q)[i] = l[x] /\ FromPeer(r, q)[j] = l[y]
          BY <4>1, <3>2, <2>5, <2>11
        <5>2. x \in 1..Len(l) /\ y \in 1..Len(l)
          BY <4>1, <2>12
        <5>3. l[x].hash = l[y].hash
          BY <5>1
        <5> HIDE DEF x, y
        <5>4. x = y
          BY <5>2, <5>3, <2>1 DEF PeersOK, OnceListed, l
        <5> QED BY <5>4 DEF x, y
      <4> QED BY <4>1, <4>2, <2>1
    <3> QED BY <3>1, <3>2
  <2>21. ListsAgree(r)
    <3> SUFFICES ASSUME NEW c \in Blocks, NEW q \in Peers
                 PROVE  rf[c] = q <=> q \in DOMAIN s.node /\ Lists(r, q, c)
      BY <2>8, <2>10 DEF ListsAgree
    <3>1. s.inFlight[c] = q <=> q \in DOMAIN s.node /\ Lists(s, q, c)
      BY DEF PeersOK, ListsAgree
    <3>2. q # NoPeer
      BY DownloadAssumption
    <3> QED BY <3>1, <3>2, <2>9, <2>14, <2>15
  <2>22. ASSUME NEW q \in DOMAIN s.node
         PROVE  /\ Len(FromPeer(r, q)) <= r.node[q].nBlocksInFlight
                /\ r.node[q].nBlocksInFlight <= s.node[q].nBlocksInFlight
                /\ r.node[q].mapAskFor = s.node[q].mapAskFor
    <3>1. CASE q # p
      <4>1. Len(FromPeer(s, q)) <= s.node[q].nBlocksInFlight
        BY DEF PeersOK, CountsAgree
      <4>2. s.node[q].nBlocksInFlight \in Nat
        BY <2>3 DEF NodeType
      <4> QED BY <3>1, <4>1, <4>2, <2>8, <2>10, <2>11
    <3>2. CASE q = p
      BY <3>2, <2>5, <2>6, <2>7, <2>8, <2>10, <2>11
    <3> QED BY <3>1, <3>2
  <2>23. CountsAgree(r)
    BY <2>8, <2>10, <2>18, <2>22 DEF CountsAgree
  <2> QED
    BY <2>8, <2>10, <2>16, <2>19, <2>20, <2>21, <2>22, <2>23 DEF PeersOK, r, rf, p
<1> QED
  BY <1>2, <1>3

(* The block is in the map, on the list and in the counts together.        *)
NowInFlight(s, p, b, u) ==
  /\ PeersOK(u) /\ DOMAIN u.node = DOMAIN s.node
  /\ u.inFlight = [s.inFlight EXCEPT ![b] = p] /\ Queued(u) \subseteq Queued(s) \cup {b}
  /\ \A q \in DOMAIN s.node :
       /\ u.node[q].nBlocksInFlight <= s.node[q].nBlocksInFlight + (IF q = p THEN 1 ELSE 0)
       /\ u.node[q].mapAskFor = s.node[q].mapAskFor

(* What MarkBlockAsInFlight does.                                          *)
LEMMA InFlightIs ==
  ASSUME NEW s, PeersOK(s), NEW p \in DOMAIN s.node, NEW b \in Blocks, NEW v \in BOOLEAN
  PROVE  /\ NowInFlight(s, p, b, MarkBlockAsInFlight(s, p, b, v))
         /\ v \/ Queued(MarkBlockAsInFlight(s, p, b, v)) \subseteq Queued(s)
<1> DEFINE u == MarkBlockAsInFlight(s, p, b, v)
           r == MarkBlockAsReceived(s, b)
           l == FromPeer(r, p)
           e == [hash |-> b, fValidatedHeaders |-> v]
           m == [r.node[p] EXCEPT !.vBlocksInFlight = Append(l, e), !.nBlocksInFlight = @ + 1]
           un == [r.node EXCEPT ![p] = m]
           uf == [r.inFlight EXCEPT ![b] = p]
           uq == r.nQueued + (IF v THEN 1 ELSE 0)
<1>1. /\ PeersOK(r) /\ DOMAIN r.node = DOMAIN s.node
      /\ r.inFlight = [s.inFlight EXCEPT ![b] = NoPeer] /\ Queued(r) \subseteq Queued(s)
      /\ \A q \in DOMAIN s.node :
           /\ r.node[q].nBlocksInFlight <= s.node[q].nBlocksInFlight
           /\ r.node[q].mapAskFor = s.node[q].mapAskFor
  BY ReceivedIs
<1>2. r \in PeerStates /\ s \in PeerStates
  BY <1>1 DEF PeersOK
<1>3. /\ DOMAIN r.node \subseteq Peers /\ r.node \in [DOMAIN r.node -> NodeType]
      /\ r.inFlight \in [Blocks -> Peers \cup {NoPeer}] /\ r.nQueued \in Nat
      /\ r = [node |-> r.node, inFlight |-> r.inFlight, nQueued |-> r.nQueued]
      /\ s.inFlight \in [Blocks -> Peers \cup {NoPeer}]
      /\ s.node \in [DOMAIN s.node -> NodeType]
  BY <1>2, StateParts
<1>4. /\ l \in Seq(InFlightType) /\ r.node[p] \in NodeType /\ p \in Peers /\ p # NoPeer
      /\ e \in InFlightType
  <2>1. e \in InFlightType
    BY DEF InFlightType
  <2> HIDE DEF r, e
  <2> QED BY <1>1, <1>2, <2>1, ListIs
<1>5. u = [node |-> un, inFlight |-> uf, nQueued |-> uq]
  <2>1. u = [r EXCEPT
     !.inFlight[b] = p,
     !.nQueued = @ + (IF v THEN 1 ELSE 0),
     !.node[p].vBlocksInFlight = Append(@, e),
     !.node[p].nBlocksInFlight = @ + 1]
    BY Zenon DEF MarkBlockAsInFlight
  <2> HIDE DEF r, e, u
  <2> QED BY <2>1, <1>1, <1>3, <1>4 DEF FromPeer, NodeType
<1> HIDE DEF r, e, u
<1>6. /\ Append(l, e) \in Seq(InFlightType) /\ Len(Append(l, e)) = Len(l) + 1
      /\ \A i \in 1..Len(l) : Append(l, e)[i] = l[i]
      /\ Append(l, e)[Len(l) + 1] = e /\ Len(l) \in Nat
  BY <1>4
<1>7. /\ m \in NodeType /\ m.vBlocksInFlight = Append(l, e)
      /\ m.nBlocksInFlight = r.node[p].nBlocksInFlight + 1 /\ m.mapAskFor = r.node[p].mapAskFor
      /\ r.node[p].nBlocksInFlight \in Nat
  <2>1. Append(l, e) \in Seq(InFlightType)
    BY <1>6
  <2>2. PICK n \in NodeType : n = r.node[p]
    BY <1>4
  <2>3. PICK x \in Seq(InFlightType) : x = Append(l, e)
    BY <2>1
  <2>4. n.nBlocksInFlight \in Nat
    BY DEF NodeType
  <2>5. PICK c \in Nat : c = n.nBlocksInFlight + 1
    BY <2>4
  <2>6. m = [n EXCEPT !.vBlocksInFlight = x, !.nBlocksInFlight = c]
    BY <2>2, <2>3, <2>5
  <2> HIDE DEF m
  <2>7. /\ m \in NodeType /\ m.vBlocksInFlight = x /\ m.nBlocksInFlight = c
        /\ m.mapAskFor = n.mapAskFor
    BY <2>6 DEF NodeType
  <2> QED BY <2>2, <2>3, <2>4, <2>5, <2>7
<1> HIDE DEF m
<1>8. /\ DOMAIN un = DOMAIN s.node /\ un \in [DOMAIN s.node -> NodeType] /\ un[p] = m
      /\ \A q \in DOMAIN s.node : q # p => un[q] = r.node[q]
  BY <1>1, <1>3, <1>7
<1>9. /\ uf \in [Blocks -> Peers \cup {NoPeer}] /\ uf[b] = p
      /\ \A c \in Blocks : c # b => uf[c] = r.inFlight[c]
      /\ r.inFlight[b] = NoPeer /\ uf = [s.inFlight EXCEPT ![b] = p]
  BY <1>1, <1>3, <1>4
<1> HIDE DEF un, uf
<1>10. u.node = un /\ u.inFlight = uf /\ u.nQueued = uq
  BY <1>5
<1>11. /\ FromPeer(u, p) = Append(l, e)
       /\ \A q \in DOMAIN s.node : q # p => FromPeer(u, q) = FromPeer(r, q)
  BY <1>7, <1>8, <1>10 DEF FromPeer
<1>12. ASSUME NEW q \in DOMAIN s.node PROVE ~Lists(r, q, b)
  <2>1. q \in Peers /\ q # NoPeer
    BY <1>1, <1>3, DownloadAssumption
  <2> QED BY <2>1, <1>1, <1>9 DEF PeersOK, ListsAgree
<1>13. e.hash = b /\ e.fValidatedHeaders = v
  BY DEF e
<1>14. ASSUME NEW q \in DOMAIN s.node, NEW c \in Blocks
       PROVE  Lists(u, q, c) <=> Lists(r, q, c) \/ (q = p /\ c = b)
  <2>1. CASE q # p
    BY <2>1, <1>11 DEF Lists
  <2>2. CASE q = p
    <3>1. Lists(u, p, c) <=> \E i \in 1..(Len(l) + 1) : Append(l, e)[i].hash = c
      BY <1>11, <1>6 DEF Lists
    <3>2. \A i \in 1..(Len(l) + 1) : i \in 1..Len(l) \/ i = Len(l) + 1
      BY <1>6
    <3>3. Lists(r, p, c) <=> \E i \in 1..Len(l) : Append(l, e)[i].hash = c
      BY <1>6 DEF Lists
    <3>4. Len(l) + 1 \in 1..(Len(l) + 1) /\ 1..Len(l) \subseteq 1..(Len(l) + 1)
      BY <1>6
    <3> QED BY <2>2, <3>1, <3>2, <3>3, <3>4, <1>6, <1>13
  <2> QED BY <2>1, <2>2
<1>15. b \notin Queued(r)
  BY <1>1, <1>12 DEF Queued, Lists
<1>16. Queued(u) = Queued(r) \cup (IF v THEN {b} ELSE {})
  <2> HIDE DEF l
  <2>1. ASSUME NEW c \in Queued(u) PROVE c \in Queued(r) \/ (v /\ c = b)
    <3>1. PICK q \in DOMAIN s.node : \E i \in 1..Len(FromPeer(u, q)) :
            FromPeer(u, q)[i].hash = c /\ FromPeer(u, q)[i].fValidatedHeaders
      BY <2>1, <1>8, <1>10 DEF Queued
    <3>2. CASE q # p
      BY <3>1, <3>2, <1>1, <1>11 DEF Queued
    <3>3. CASE q = p
      <4>1. PICK i \in 1..(Len(l) + 1) : Append(l, e)[i].hash = c /\ Append(l, e)[i].fValidatedHeaders
        BY <3>1, <3>3, <1>6, <1>11
      <4>2. CASE i = Len(l) + 1
        BY <4>1, <4>2, <1>6, <1>13
      <4>3. CASE i # Len(l) + 1
        <5>1. i \in 1..Len(l)
          BY <4>3, <1>6
        <5> QED BY <4>1, <5>1, <1>6, <1>1 DEF Queued, l
      <4> QED BY <4>2, <4>3
    <3> QED BY <3>2, <3>3
  <2>2. ASSUME NEW c \in Queued(r) PROVE c \in Queued(u)
    <3>1. PICK q \in DOMAIN s.node : \E i \in 1..Len(FromPeer(r, q)) :
            FromPeer(r, q)[i].hash = c /\ FromPeer(r, q)[i].fValidatedHeaders
      BY <2>2, <1>1 DEF Queued
    <3>2. CASE q # p
      BY <2>2, <3>1, <3>2, <1>1, <1>8, <1>10, <1>11 DEF Queued
    <3>3. CASE q = p
      <4>1. PICK i \in 1..Len(l) : l[i].hash = c /\ l[i].fValidatedHeaders
        BY <3>1, <3>3 DEF l
      <4>2. i \in 1..Len(FromPeer(u, p)) /\ FromPeer(u, p)[i] = l[i]
        BY <4>1, <1>6, <1>11
      <4> QED BY <2>2, <4>1, <4>2, <1>8, <1>10 DEF Queued
    <3> QED BY <3>2, <3>3
  <2>3. ASSUME v PROVE b \in Queued(u)
    <3>1. Len(l) + 1 \in 1..Len(FromPeer(u, p)) /\ FromPeer(u, p)[Len(l) + 1] = e
      BY <1>6, <1>11
    <3> QED BY <2>3, <3>1, <1>13, <1>8, <1>10 DEF Queued
  <2> QED BY <2>1, <2>2, <2>3
<1>17. IsFiniteSet(Queued(u)) /\ Cardinality(Queued(u)) <= uq /\ uq \in Nat
  <2>1. IsFiniteSet(Queued(r)) /\ Cardinality(Queued(r)) <= r.nQueued
    BY <1>1 DEF PeersOK, CountsAgree
  <2>2. Cardinality(Queued(r)) \in Nat
    BY <2>1, FS_CardinalityType
  <2>3. CASE v
    <3>1. IsFiniteSet(Queued(u)) /\ Cardinality(Queued(u)) = Cardinality(Queued(r)) + 1
      BY <2>1, <2>3, <1>15, <1>16, FS_AddElement
    <3> QED BY <2>1, <2>2, <2>3, <3>1, <1>3
  <2>4. CASE ~v
    <3>1. Queued(u) = Queued(r)
      BY <2>4, <1>16
    <3> QED BY <2>1, <2>2, <2>4, <3>1, <1>3
  <2> QED BY <2>3, <2>4
<1>18. u \in PeerStates
  <2> HIDE DEF uq
  <2> QED BY <1>1, <1>3, <1>5, <1>8, <1>9, <1>17, StateMade
<1>19. OnceListed(u)
  <2> SUFFICES ASSUME NEW q \in DOMAIN s.node, NEW i \in 1..Len(FromPeer(u, q)),
                      NEW j \in 1..Len(FromPeer(u, q)),
                      FromPeer(u, q)[i].hash = FromPeer(u, q)[j].hash
               PROVE  i = j
    BY <1>8, <1>10 DEF OnceListed
  <2>1. CASE q # p
    BY <2>1, <1>1, <1>11 DEF PeersOK, OnceListed
  <2>2. CASE q = p
    <3>1. i \in 1..(Len(l) + 1) /\ j \in 1..(Len(l) + 1)
      BY <2>2, <1>6, <1>11
    <3>2. \A k \in 1..Len(l) : Append(l, e)[k].hash # b
      BY <1>6, <1>12 DEF Lists
    <3>3. Append(l, e)[i].hash = Append(l, e)[j].hash
      BY <2>2, <1>11
    <3>4. CASE i = Len(l) + 1 \/ j = Len(l) + 1
      BY <3>1, <3>2, <3>3, <3>4, <1>6, <1>13
    <3>5. CASE i # Len(l) + 1 /\ j # Len(l) + 1
      <4>1. i \in 1..Len(l) /\ j \in 1..Len(l)
        BY <3>1, <3>5, <1>6
      <4> QED BY <4>1, <3>3, <1>6, <1>1 DEF PeersOK, OnceListed
    <3> QED BY <3>4, <3>5
  <2> QED BY <2>1, <2>2
<1>20. ListsAgree(u)
  <2> SUFFICES ASSUME NEW c \in Blocks, NEW q \in Peers
               PROVE  uf[c] = q <=> q \in DOMAIN s.node /\ Lists(u, q, c)
    BY <1>8, <1>10 DEF ListsAgree
  <2>1. r.inFlight[c] = q <=> q \in DOMAIN s.node /\ Lists(r, q, c)
    BY <1>1 DEF PeersOK, ListsAgree
  <2>2. q # NoPeer
    BY DownloadAssumption
  <2> QED BY <2>1, <2>2, <1>9, <1>12, <1>14
<1>21. ASSUME NEW q \in DOMAIN s.node
       PROVE  /\ Len(FromPeer(u, q)) <= u.node[q].nBlocksInFlight
              /\ u.node[q].nBlocksInFlight <= s.node[q].nBlocksInFlight + (IF q = p THEN 1 ELSE 0)
              /\ u.node[q].mapAskFor = s.node[q].mapAskFor
  <2>1. Len(FromPeer(r, q)) <= r.node[q].nBlocksInFlight
    BY <1>1 DEF PeersOK, CountsAgree
  <2>2. r.node[q].nBlocksInFlight \in Nat /\ s.node[q].nBlocksInFlight \in Nat
    BY <1>1, <1>3 DEF NodeType
  <2>3. r.node[q].nBlocksInFlight <= s.node[q].nBlocksInFlight
    BY <1>1
  <2>4. r.node[q].mapAskFor = s.node[q].mapAskFor
    BY <1>1
  <2>5. CASE q # p
    BY <2>1, <2>2, <2>3, <2>4, <2>5, <1>8, <1>10, <1>11
  <2>6. CASE q = p
    BY <2>1, <2>2, <2>3, <2>4, <2>6, <1>6, <1>7, <1>8, <1>10, <1>11
  <2> QED BY <2>5, <2>6
<1>22. CountsAgree(u)
  BY <1>8, <1>10, <1>17, <1>21 DEF CountsAgree
<1>23. Queued(u) \subseteq Queued(s) \cup {b} /\ (v \/ Queued(u) \subseteq Queued(s))
  BY <1>1, <1>16
<1> QED
  BY <1>8, <1>9, <1>10, <1>18, <1>19, <1>20, <1>21, <1>22, <1>23 DEF PeersOK, NowInFlight, u

-----------------------------------------------------------------------------
(* The edits that leave the lists alone, and those that forget a list.     *)

SameLists(s, r) ==
  /\ DOMAIN r.node = DOMAIN s.node /\ r.inFlight = s.inFlight /\ r.nQueued = s.nQueued
  /\ \A q \in DOMAIN s.node :
       /\ r.node[q].vBlocksInFlight = s.node[q].vBlocksInFlight
       /\ r.node[q].nBlocksInFlight = s.node[q].nBlocksInFlight

SameAskFor(s, r) == \A q \in DOMAIN s.node : r.node[q].mapAskFor = s.node[q].mapAskFor

Put(s, p, m) ==
  [node |-> [s.node EXCEPT ![p] = m], inFlight |-> s.inFlight, nQueued |-> s.nQueued]

(* Another record for a node.                                              *)
LEMMA PutIs ==
  ASSUME NEW s \in PeerStates, NEW p \in DOMAIN s.node, NEW m \in NodeType,
         m.vBlocksInFlight = s.node[p].vBlocksInFlight,
         m.nBlocksInFlight = s.node[p].nBlocksInFlight
  PROVE  /\ Put(s, p, m) \in PeerStates /\ SameLists(s, Put(s, p, m))
         /\ m.mapAskFor = s.node[p].mapAskFor => SameAskFor(s, Put(s, p, m))
         /\ Put(s, p, m).node[p] = m
         /\ \A q \in DOMAIN s.node : q # p => Put(s, p, m).node[q] = s.node[q]
<1> DEFINE n == [s.node EXCEPT ![p] = m]
           r == Put(s, p, m)
<1>1. /\ DOMAIN s.node \subseteq Peers /\ s.node \in [DOMAIN s.node -> NodeType]
      /\ s.inFlight \in [Blocks -> Peers \cup {NoPeer}] /\ s.nQueued \in Nat
  BY StateParts
<1>2. /\ n \in [DOMAIN s.node -> NodeType] /\ DOMAIN n = DOMAIN s.node
      /\ \A q \in DOMAIN s.node : n[q] = IF q = p THEN m ELSE s.node[q]
  BY <1>1
<1> HIDE DEF n
<1>3. r = [node |-> n, inFlight |-> s.inFlight, nQueued |-> s.nQueued]
  BY DEF Put, n
<1>4. r \in PeerStates
  BY <1>1, <1>2, <1>3, StateMade
<1>5. r.node = n /\ r.inFlight = s.inFlight /\ r.nQueued = s.nQueued
  BY <1>3
<1> HIDE DEF r
<1>6. SameLists(s, r)
  BY <1>2, <1>5 DEF SameLists
<1>7. m.mapAskFor = s.node[p].mapAskFor => SameAskFor(s, r)
  BY <1>2, <1>5 DEF SameAskFor
<1> QED
  BY <1>2, <1>4, <1>5, <1>6, <1>7 DEF r

(* Edits that leave the lists alone keep their agreement.                  *)
LEMMA SameListsKeep ==
  ASSUME NEW s, PeersOK(s), NEW r \in PeerStates, SameLists(s, r)
  PROVE  PeersOK(r) /\ Queued(r) = Queued(s)
<1>1. /\ DOMAIN r.node = DOMAIN s.node /\ r.inFlight = s.inFlight /\ r.nQueued = s.nQueued
      /\ \A q \in DOMAIN s.node : FromPeer(r, q) = FromPeer(s, q)
      /\ \A q \in DOMAIN s.node : r.node[q].nBlocksInFlight = s.node[q].nBlocksInFlight
  BY DEF SameLists, FromPeer
<1>2. OnceListed(r)
  BY <1>1 DEF PeersOK, OnceListed
<1>3. ListsAgree(r)
  BY <1>1 DEF PeersOK, ListsAgree, Lists
<1>4. Queued(r) = Queued(s)
  BY <1>1 DEF Queued
<1>5. CountsAgree(r)
  BY <1>1, <1>4 DEF PeersOK, CountsAgree
<1> QED
  BY <1>2, <1>3, <1>4, <1>5 DEF PeersOK

(* The list of a peer is forgotten, with the entries of the map.           *)
LEMMA ForgottenKeep ==
  ASSUME NEW s, PeersOK(s), NEW p \in DOMAIN s.node, NEW r \in PeerStates,
         r.inFlight = [b \in Blocks |-> IF s.inFlight[b] = p THEN NoPeer ELSE s.inFlight[b]],
         r.nQueued = s.nQueued,
         DOMAIN r.node \in {DOMAIN s.node, DOMAIN s.node \ {p}},
         \A q \in DOMAIN r.node :
           /\ r.node[q].nBlocksInFlight = s.node[q].nBlocksInFlight
           /\ r.node[q].vBlocksInFlight = IF q = p THEN <<>> ELSE s.node[q].vBlocksInFlight
  PROVE  PeersOK(r) /\ Queued(r) \subseteq Queued(s)
<1>1. s \in PeerStates /\ p # NoPeer /\ p \in Peers
  BY ListIs DEF PeersOK
<1>2. \A q \in DOMAIN r.node : /\ q \in DOMAIN s.node
                               /\ q # p => FromPeer(r, q) = FromPeer(s, q)
                               /\ q = p => FromPeer(r, q) = <<>> /\ Len(FromPeer(r, q)) = 0
  BY DEF FromPeer
<1>3. \A c : ~Lists(r, p, c) \/ p \notin DOMAIN r.node
  BY <1>2 DEF Lists
<1>4. OnceListed(r)
  <2> SUFFICES ASSUME NEW q \in DOMAIN r.node, NEW i \in 1..Len(FromPeer(r, q)),
                      NEW j \in 1..Len(FromPeer(r, q)),
                      FromPeer(r, q)[i].hash = FromPeer(r, q)[j].hash
               PROVE  i = j
    BY DEF OnceListed
  <2>1. q # p
    BY <1>2
  <2> QED BY <2>1, <1>2 DEF PeersOK, OnceListed
<1>5. ListsAgree(r)
  <2> SUFFICES ASSUME NEW c \in Blocks, NEW q \in Peers
               PROVE  r.inFlight[c] = q <=> q \in DOMAIN r.node /\ Lists(r, q, c)
    BY DEF ListsAgree
  <2>1. s.inFlight[c] = q <=> q \in DOMAIN s.node /\ Lists(s, q, c)
    BY DEF PeersOK, ListsAgree
  <2>2. r.inFlight[c] = IF s.inFlight[c] = p THEN NoPeer ELSE s.inFlight[c]
    OBVIOUS
  <2>3. q # NoPeer
    BY DownloadAssumption
  <2>4. CASE q = p
    BY <2>2, <2>3, <2>4, <1>3
  <2>5. CASE q # p
    <3>1. q \in DOMAIN r.node <=> q \in DOMAIN s.node
      BY <2>5
    <3>2. q \in DOMAIN r.node => (Lists(r, q, c) <=> Lists(s, q, c))
      BY <2>5, <1>2 DEF Lists
    <3> QED BY <2>1, <2>2, <2>3, <2>5, <3>1, <3>2
  <2> QED BY <2>4, <2>5
<1>6. Queued(r) \subseteq Queued(s)
  BY <1>2 DEF Queued
<1>7. IsFiniteSet(Queued(r)) /\ Cardinality(Queued(r)) <= r.nQueued
  <2>1. IsFiniteSet(Queued(s)) /\ Cardinality(Queued(s)) <= s.nQueued
    BY DEF PeersOK, CountsAgree
  <2>2. IsFiniteSet(Queued(r)) /\ Cardinality(Queued(r)) <= Cardinality(Queued(s))
    BY <2>1, <1>6, FS_Subset
  <2>3. Cardinality(Queued(r)) \in Nat /\ Cardinality(Queued(s)) \in Nat
    BY <2>1, <2>2, FS_CardinalityType
  <2>4. s.nQueued \in Nat
    BY <1>1, StateParts
  <2> QED BY <2>1, <2>2, <2>3, <2>4
<1>8. ASSUME NEW q \in DOMAIN r.node PROVE Len(FromPeer(r, q)) <= r.node[q].nBlocksInFlight
  <2>1. Len(FromPeer(s, q)) <= s.node[q].nBlocksInFlight
    BY <1>2 DEF PeersOK, CountsAgree
  <2>2. s.node[q].nBlocksInFlight \in Nat
    BY <1>1, <1>2, ListIs DEF NodeType
  <2> QED BY <2>1, <2>2, <1>2
<1> QED
  BY <1>4, <1>5, <1>6, <1>7, <1>8 DEF PeersOK, CountsAgree

(* What a peer is known to have.                                           *)
LEMMA BetterIs ==
  ASSUME NEW a \in Blocks \cup {NoBlock}, NEW b \in Blocks
  PROVE  BetterOf(a, b) \in Blocks \cup {NoBlock}
BY DEF BetterOf

(* ProcessBlockAvailability leaves the lists alone.                        *)
LEMMA AvailabilityIs ==
  ASSUME NEW s \in PeerStates, NEW p \in DOMAIN s.node, NEW known \in SUBSET Blocks
  PROVE  LET r == ProcessBlockAvailability(s, p, known)
         IN r \in PeerStates /\ SameLists(s, r) /\ SameAskFor(s, r)
<1> DEFINE r == ProcessBlockAvailability(s, p, known)
<1>1. PICK n \in NodeType : n = s.node[p]
  BY ListIs
<1>2. CASE n.hashLastUnknownBlock \notin known
  <2>1. r = s
    BY <1>1, <1>2 DEF ProcessBlockAvailability
  <2> HIDE DEF r
  <2> QED BY <2>1 DEF SameLists, SameAskFor, r
<1>3. CASE n.hashLastUnknownBlock \in known
  <2>1. PICK v \in Blocks \cup {NoBlock} :
          v = BetterOf(n.pindexBestKnownBlock, n.hashLastUnknownBlock)
    BY <1>3, BetterIs DEF NodeType
  <2> DEFINE m == [n EXCEPT !.pindexBestKnownBlock = v, !.hashLastUnknownBlock = NoBlock]
  <2>2. /\ m \in NodeType /\ m.vBlocksInFlight = n.vBlocksInFlight
        /\ m.nBlocksInFlight = n.nBlocksInFlight /\ m.mapAskFor = n.mapAskFor
    BY DEF NodeType
  <2>3. r = Put(s, p, m)
    <3>1. r = [s EXCEPT !.node[p].pindexBestKnownBlock = BetterOf(@, n.hashLastUnknownBlock),
                        !.node[p].hashLastUnknownBlock = NoBlock]
      BY <1>1, <1>3, Zenon DEF ProcessBlockAvailability
    <3>2. s.node \in [DOMAIN s.node -> NodeType]
          /\ s = [node |-> s.node, inFlight |-> s.inFlight, nQueued |-> s.nQueued]
      BY StateParts
    <3> HIDE DEF r
    <3> QED BY <1>1, <2>1, <3>1, <3>2 DEF Put
  <2> HIDE DEF m, r
  <2> QED BY <1>1, <2>2, <2>3, PutIs DEF r
<1> QED
  BY <1>2, <1>3

(* UpdateBlockAvailability leaves the lists alone.                         *)
LEMMA UpdateIs ==
  ASSUME NEW s \in PeerStates, NEW p \in DOMAIN s.node, NEW b \in Blocks,
         NEW known \in SUBSET Blocks
  PROVE  LET r == UpdateBlockAvailability(s, p, b, known)
         IN r \in PeerStates /\ SameLists(s, r) /\ SameAskFor(s, r)
<1> DEFINE t == ProcessBlockAvailability(s, p, known)
           r == UpdateBlockAvailability(s, p, b, known)
<1>1. t \in PeerStates /\ SameLists(s, t) /\ SameAskFor(s, t)
  BY AvailabilityIs
<1>2. r = IF b \in known THEN [t EXCEPT !.node[p].pindexBestKnownBlock = BetterOf(@, b)]
          ELSE [t EXCEPT !.node[p].hashLastUnknownBlock = b]
  BY Zenon DEF UpdateBlockAvailability
<1> HIDE DEF t, r
<1>3. p \in DOMAIN t.node
  BY <1>1 DEF SameLists
<1>4. PICK n \in NodeType : n = t.node[p]
  BY <1>1, <1>3, ListIs
<1>5. /\ t.node \in [DOMAIN t.node -> NodeType]
      /\ t = [node |-> t.node, inFlight |-> t.inFlight, nQueued |-> t.nQueued]
  BY <1>1, StateParts
<1>6. PICK m \in NodeType : /\ m.vBlocksInFlight = n.vBlocksInFlight
                            /\ m.nBlocksInFlight = n.nBlocksInFlight /\ m.mapAskFor = n.mapAskFor
                            /\ r = Put(t, p, m)
  <2>1. CASE b \in known
    <3>1. PICK v \in Blocks \cup {NoBlock} : v = BetterOf(n.pindexBestKnownBlock, b)
      BY BetterIs DEF NodeType
    <3> DEFINE m == [n EXCEPT !.pindexBestKnownBlock = v]
    <3>2. /\ m \in NodeType /\ m.vBlocksInFlight = n.vBlocksInFlight
          /\ m.nBlocksInFlight = n.nBlocksInFlight /\ m.mapAskFor = n.mapAskFor
      BY DEF NodeType
    <3>3. r = Put(t, p, m)
      BY <1>2, <1>4, <1>5, <2>1, <3>1 DEF Put
    <3> HIDE DEF m
    <3> QED BY <3>2, <3>3
  <2>2. CASE b \notin known
    <3> DEFINE m == [n EXCEPT !.hashLastUnknownBlock = b]
    <3>2. /\ m \in NodeType /\ m.vBlocksInFlight = n.vBlocksInFlight
          /\ m.nBlocksInFlight = n.nBlocksInFlight /\ m.mapAskFor = n.mapAskFor
      BY DEF NodeType
    <3>3. r = Put(t, p, m)
      BY <1>2, <1>4, <1>5, <2>2 DEF Put
    <3> HIDE DEF m
    <3> QED BY <3>2, <3>3
  <2> QED BY <2>1, <2>2
<1>7. r \in PeerStates /\ SameLists(t, r) /\ SameAskFor(t, r)
  BY <1>1, <1>3, <1>4, <1>6, PutIs
<1>8. SameLists(s, r) /\ SameAskFor(s, r)
  BY <1>1, <1>7 DEF SameLists, SameAskFor
<1> QED
  BY <1>7, <1>8 DEF r

-----------------------------------------------------------------------------
(* The chain of a block, and the last common ancestor of two.              *)

(* The chain of a block and its height.                                    *)
LEMMA ChainIs ==
  ASSUME NEW b \in Blocks
  PROVE  /\ Chain[b] \in Seq(Blocks) /\ Len(Chain[b]) \in Nat \ {0}
         /\ DOMAIN Chain[b] = 1..Len(Chain[b]) /\ Height(b) \in Nat
<1>1. Chain[b] \in Seq(Blocks)
  BY DownloadAssumption
<1>2. CASE b = Genesis
  <2>1. Len(Chain[b]) = 1
    BY <1>2, DownloadAssumption
  <2> QED BY <1>1, <2>1 DEF Height
<1>3. CASE b # Genesis
  <2>1. Prev[b] \in Blocks /\ Chain[b] = Append(Chain[Prev[b]], b)
    BY <1>3, DownloadAssumption
  <2>2. Chain[Prev[b]] \in Seq(Blocks)
    BY <2>1, DownloadAssumption
  <2>3. Len(Chain[b]) = Len(Chain[Prev[b]]) + 1 /\ Len(Chain[Prev[b]]) \in Nat
    BY <2>1, <2>2
  <2> QED BY <1>1, <2>3 DEF Height
<1> QED
  BY <1>2, <1>3

(* Every chain starts with the genesis block.                              *)
LEMMA ChainStarts ==
  ASSUME NEW b \in Blocks
  PROVE  Chain[b][1] = Genesis
<1> DEFINE S == {Len(Chain[c]) : c \in {c \in Blocks : Chain[c][1] # Genesis}}
<1> SUFFICES ASSUME Chain[b][1] # Genesis PROVE FALSE
  OBVIOUS
<1>1. S # {} /\ S \in SUBSET Nat
  BY ChainIs
<1> HIDE DEF S
<1>2. PICK k \in S : \A j \in S : k <= j
  BY <1>1, LeastIs
<1>3. PICK c \in Blocks : Chain[c][1] # Genesis /\ k = Len(Chain[c])
  BY <1>2 DEF S
<1>4. c # Genesis
  <2>1. Chain[Genesis] = <<Genesis>>
    BY DownloadAssumption
  <2> QED BY <1>3, <2>1
<1>5. Prev[c] \in Blocks /\ Chain[c] = Append(Chain[Prev[c]], c)
  BY <1>4, DownloadAssumption
<1>6. Chain[Prev[c]] \in Seq(Blocks) /\ Len(Chain[Prev[c]]) \in Nat \ {0}
  BY <1>5, ChainIs
<1>7. Chain[c][1] = Chain[Prev[c]][1] /\ Len(Chain[c]) = Len(Chain[Prev[c]]) + 1
  BY <1>5, <1>6
<1>8. Len(Chain[Prev[c]]) \in S
  BY <1>3, <1>5, <1>7 DEF S
<1> QED
  BY <1>2, <1>3, <1>6, <1>7, <1>8

(* There is a last common ancestor: the genesis block is one.              *)
LEMMA CommonIs ==
  ASSUME NEW a \in Blocks, NEW b \in Blocks
  PROVE  LastCommonAncestor(a, b) \in Blocks
<1> DEFINE n == Len(Chain[a])
           S == {n - i : i \in {i \in 1..n : OnChain(Chain[a][i], b)}}
           Q(i) == /\ OnChain(Chain[a][i], b)
                   /\ \A j \in DOMAIN Chain[a] : OnChain(Chain[a][j], b) => j <= i
<1>1. n \in Nat \ {0} /\ DOMAIN Chain[a] = 1..n /\ Chain[a] \in Seq(Blocks)
  BY ChainIs
<1>2. OnChain(Chain[a][1], b)
  BY ChainIs, ChainStarts DEF OnChain
<1> HIDE DEF n
<1>3. S # {} /\ S \in SUBSET Nat
  BY <1>1, <1>2
<1> HIDE DEF S
<1>4. PICK k \in S : \A j \in S : k <= j
  BY <1>3, LeastIs
<1>5. PICK i \in 1..n : k = n - i /\ OnChain(Chain[a][i], b)
  BY <1>4 DEF S
<1>6. ASSUME NEW j \in 1..n, OnChain(Chain[a][j], b) PROVE j <= i
  <2>1. n - j \in S
    BY <1>6 DEF S
  <2>2. k <= n - j
    BY <2>1, <1>4
  <2> QED BY <2>2, <1>1, <1>5
<1>7. i \in DOMAIN Chain[a] /\ Q(i)
  BY <1>1, <1>5, <1>6
<1>8. (CHOOSE x \in DOMAIN Chain[a] : Q(x)) \in DOMAIN Chain[a]
  <2> HIDE DEF Q
  <2> QED BY <1>7, Zenon
<1>9. LastCommonAncestor(a, b) = Chain[a][CHOOSE x \in DOMAIN Chain[a] : Q(x)]
  BY Zenon DEF LastCommonAncestor
<1> HIDE DEF Q
<1> QED
  BY <1>1, <1>8, <1>9

-----------------------------------------------------------------------------
(* FindNextBlocksToDownload: at most count blocks, none of them stored.    *)

Ats(count) ==
  {at \in [common : Blocks \cup {NoBlock}, get : Seq(Blocks \ stored),
           waitingfor : Peers \cup {NoPeer}, staller : Peers \cup {NoPeer},
           returned : BOOLEAN] :
     Len(at.get) <= count /\ (Len(at.get) = count => at.returned)}

(* The walk starts with nothing to get.                                    *)
LEMMA NothingIs ==
  ASSUME NEW common \in Blocks \cup {NoBlock}, NEW count \in Nat \ {0}
  PROVE  Nothing(common) \in Ats(count)
<1> DEFINE n == Nothing(common)
<1>1. n.get = <<>> /\ Len(n.get) = 0 /\ n.get \in Seq(Blocks \ stored)
  BY DEF Nothing
<1>2. n \in [common : Blocks \cup {NoBlock}, get : Seq(Blocks \ stored),
             waitingfor : Peers \cup {NoPeer}, staller : Peers \cup {NoPeer},
             returned : BOOLEAN]
  BY <1>1 DEF Nothing
<1> HIDE DEF n
<1> QED
  BY <1>1, <1>2 DEF Ats, n

(* A step of the walk gets no block that is stored, and at most count.     *)
LEMMA WalkStepIs ==
  ASSUME NEW s \in PeerStates, NEW p, NEW w, NEW count \in Nat \ {0},
         NEW at \in Ats(count), NEW b \in Blocks
  PROVE  WalkStep(s, p, w, count, at, b) \in Ats(count)
<1> DEFINE R == [common : Blocks \cup {NoBlock}, get : Seq(Blocks \ stored),
                 waitingfor : Peers \cup {NoPeer}, staller : Peers \cup {NoPeer},
                 returned : BOOLEAN]
           r == WalkStep(s, p, w, count, at, b)
<1>1. at \in R /\ Len(at.get) <= count /\ (Len(at.get) = count => at.returned)
  BY DEF Ats
<1>2. at.get \in Seq(Blocks \ stored) /\ Len(at.get) \in Nat
  BY <1>1
<1>3. s.inFlight[b] \in Peers \cup {NoPeer}
  BY StateParts
<1>4. SUFFICES r \in R /\ Len(r.get) <= count /\ (Len(r.get) = count => r.returned)
  BY DEF Ats
<1>5. CASE at.returned
  BY <1>1, <1>5 DEF WalkStep
<1>6. CASE ~at.returned /\ b \in Failed
  <2>1. r = [at EXCEPT !.returned = TRUE]
    BY <1>6 DEF WalkStep
  <2> HIDE DEF r
  <2> QED BY <1>1, <2>1
<1>7. CASE ~at.returned /\ b \notin Failed /\ b \in stored
  <2>1. r = MoveCommon(at, b)
    BY <1>7 DEF WalkStep
  <2>2. r \in {at, [at EXCEPT !.common = b]}
    BY <2>1 DEF MoveCommon
  <2> HIDE DEF r
  <2> QED BY <1>1, <2>2
<1>8. CASE ~at.returned /\ b \notin Failed /\ b \notin stored /\ s.inFlight[b] # NoPeer
  <2>1. r \in {at, [at EXCEPT !.waitingfor = s.inFlight[b]]}
    BY <1>8 DEF WalkStep
  <2> HIDE DEF r
  <2> QED BY <1>1, <1>3, <2>1
<1>9. CASE ~at.returned /\ b \notin Failed /\ b \notin stored /\ s.inFlight[b] = NoPeer
           /\ Height(b) > w
  <2>1. PICK v \in Peers \cup {NoPeer} :
          v = IF at.get = <<>> /\ at.waitingfor # p THEN at.waitingfor ELSE NoPeer
    BY <1>1
  <2>2. r = [at EXCEPT !.returned = TRUE, !.staller = v]
    BY <1>9, <2>1 DEF WalkStep
  <2> HIDE DEF r
  <2> QED BY <1>1, <2>2
<1>10. CASE ~at.returned /\ b \notin Failed /\ b \notin stored /\ s.inFlight[b] = NoPeer
            /\ ~(Height(b) > w)
  <2>1. PICK g \in Seq(Blocks \ stored) : g = Append(at.get, b)
    <3>1. PICK T : T = Blocks \ stored
      OBVIOUS
    <3>2. PICK h \in Seq(T) : h = at.get
      BY <1>2, <3>1
    <3>3. b \in T
      BY <1>10, <3>1
    <3>4. Append(h, b) \in Seq(T)
      BY <3>3
    <3> QED BY <3>1, <3>2, <3>4
  <2>2. Len(g) = Len(at.get) + 1
    BY <1>2, <2>1
  <2>3. PICK v \in BOOLEAN : v = (Len(at.get) + 1 = count)
    OBVIOUS
  <2>4. r = [at EXCEPT !.get = g, !.returned = v]
    BY <1>10, <2>1, <2>3 DEF WalkStep
  <2> HIDE DEF r
  <2>5. r \in R /\ r.get = g /\ r.returned = v
    BY <1>1, <2>4
  <2> QED BY <1>1, <1>2, <1>10, <2>2, <2>3, <2>5
<1> HIDE DEF r, R
<1> QED
  BY <1>5, <1>6, <1>7, <1>8, <1>9, <1>10

(* What FindNextBlocksToDownload finds.                                    *)
LEMMA FoundIs ==
  ASSUME NEW s \in PeerStates, NEW p \in DOMAIN s.node, NEW count \in Nat \ {0}, tip \in Blocks
  PROVE  FindNextBlocksToDownload(s, p, count) \in Ats(count)
<1> DEFINE best == s.node[p].pindexBestKnownBlock
           last == s.node[p].pindexLastCommonBlock
           guess == IF last # NoBlock THEN last
                    ELSE Chain[tip][Smaller(Height(best), Height(tip)) + 1]
           common == LastCommonAncestor(guess, best)
           windowEnd == Height(common) + BLOCK_DOWNLOAD_WINDOW
           hi == Smaller(Height(best), windowEnd + 1) + 1
           walk == SubSeq(Chain[best], Height(common) + 2, hi)
           Unfolds(f) == f = [i \in 0..Len(walk) |->
                                IF i = 0 THEN Nothing(common)
                                ELSE WalkStep(s, p, windowEnd, count, f[i - 1], walk[i])]
<1>1. best \in Blocks \cup {NoBlock} /\ last \in Blocks \cup {NoBlock}
  BY ListIs DEF NodeType
<1>2. CASE best = NoBlock \/ Height(best) < Height(tip)
  <2>1. FindNextBlocksToDownload(s, p, count) = Nothing(last)
    BY <1>2, Zenon DEF FindNextBlocksToDownload
  <2> QED BY <1>1, <2>1, NothingIs
<1>3. CASE ~(best = NoBlock \/ Height(best) < Height(tip))
  <2>1. FindNextBlocksToDownload(s, p, count) = (CHOOSE f : Unfolds(f))[Len(walk)]
    BY <1>3, Zenon DEF FindNextBlocksToDownload
  <2> HIDE DEF best, last
  <2>2. best \in Blocks
    BY <1>1, <1>3
  <2>3. guess \in Blocks
    <3>1. /\ Chain[tip] \in Seq(Blocks) /\ Len(Chain[tip]) \in Nat \ {0}
          /\ Height(tip) = Len(Chain[tip]) - 1 /\ Height(best) \in Nat
      BY <2>2, ChainIs DEF Height
    <3>2. Smaller(Height(best), Height(tip)) + 1 \in 1..Len(Chain[tip])
      BY <3>1 DEF Smaller
    <3> QED BY <1>1, <3>1, <3>2
  <2> HIDE DEF guess
  <2>4. common \in Blocks
    BY <2>2, <2>3, CommonIs
  <2> HIDE DEF common
  <2>5. walk \in Seq(Blocks)
    <3>1. /\ Chain[best] \in Seq(Blocks) /\ Len(Chain[best]) \in Nat \ {0}
          /\ Height(best) = Len(Chain[best]) - 1
      BY <2>2, ChainIs DEF Height
    <3>2. Height(common) \in Nat /\ windowEnd \in Nat
      <4>1. Height(common) \in Nat
        BY <2>4, ChainIs
      <4>2. BLOCK_DOWNLOAD_WINDOW \in Nat
        BY DownloadAssumption
      <4> QED BY <4>1, <4>2
    <3>3. hi \in Nat /\ hi <= Len(Chain[best])
      BY <3>1, <3>2 DEF Smaller
    <3> HIDE DEF windowEnd, hi
    <3>4. ASSUME NEW i \in (Height(common) + 2)..hi PROVE Chain[best][i] \in Blocks
      <4>1. i \in 1..Len(Chain[best])
        BY <3>1, <3>2, <3>3
      <4> QED BY <3>1, <4>1
    <3>5. Height(common) + 2 \in Int /\ hi \in Int
      BY <3>2, <3>3
    <3> QED BY <3>4, <3>5, SubSeqProperties
  <2> HIDE DEF walk, windowEnd
  <2>6. Len(walk) \in Nat /\ \A i \in 1..Len(walk) : walk[i] \in Blocks
    BY <2>5
  <2> DEFINE V == Ats(count)
             F == [i \in 1..Len(walk) |-> [v \in V |-> WalkStep(s, p, windowEnd, count, v, walk[i])]]
  <2>7. F \in [1..Len(walk) -> [V -> V]] /\ Nothing(common) \in V
    BY <2>4, <2>6, WalkStepIs, NothingIs
  <2>8. PICK f : f \in Steps(Len(walk), V, Nothing(common), F)
    <3> HIDE DEF F, V
    <3>1. Steps(Len(walk), V, Nothing(common), F) # {}
      BY <2>6, <2>7, StepsExist, Zenon
    <3> QED BY <3>1
  <2>9. /\ f \in [0..Len(walk) -> V] /\ f[0] = Nothing(common)
        /\ \A i \in 1..Len(walk) : f[i] = F[i][f[i - 1]]
    <3> HIDE DEF F, V
    <3> QED BY <2>8 DEF Steps
  <2>10. \A i \in 1..Len(walk) : f[i] = WalkStep(s, p, windowEnd, count, f[i - 1], walk[i])
    <3> SUFFICES ASSUME NEW i \in 1..Len(walk)
                 PROVE  f[i] = WalkStep(s, p, windowEnd, count, f[i - 1], walk[i])
      OBVIOUS
    <3> HIDE DEF V
    <3>1. f[i - 1] \in V
      BY <2>6, <2>9
    <3> QED BY <2>9, <3>1
  <2> HIDE DEF V, F
  <2>11. Unfolds(f)
    BY <2>6, <2>9, <2>10
  <2> DEFINE g == CHOOSE h : Unfolds(h)
  <2>12. Unfolds(g)
    <3> HIDE DEF Unfolds
    <3> QED BY <2>11, Zenon
  <2> HIDE DEF g
  <2>13. g[0] = Nothing(common) /\ \A i \in 1..Len(walk) :
           g[i] = WalkStep(s, p, windowEnd, count, g[i - 1], walk[i])
    BY <2>6, <2>12
  <2> DEFINE S == {i \in 0..Len(walk) : g[i] \in V}
  <2>14. 0 \in S
    BY <2>6, <2>7, <2>13
  <2>15. ASSUME NEW i \in 1..Len(walk), i - 1 \in S PROVE i \in S
    <3>1. g[i] = WalkStep(s, p, windowEnd, count, g[i - 1], walk[i]) /\ g[i - 1] \in Ats(count)
      BY <2>13, <2>15 DEF V
    <3>2. g[i] \in Ats(count)
      BY <3>1, <2>6, WalkStepIs
    <3> QED BY <3>2, <2>6 DEF V
  <2> HIDE DEF S
  <2>16. Len(walk) \in S
    <3>1. 0..Len(walk) \subseteq S
      BY <2>6, <2>14, <2>15, UpTo
    <3> QED BY <3>1, <2>6
  <2> QED BY <2>1, <2>16 DEF S, V, g
<1> QED
  BY <1>2, <1>3

-----------------------------------------------------------------------------
(* SendMessages.                                                           *)

Counted(s) == \A q \in DOMAIN s.node : s.node[q].nBlocksInFlight <= MAX_BLOCKS_IN_TRANSIT_PER_PEER

(* Marking a sequence of blocks, one after the other.                      *)
MarkOne(s, p, b) == MarkBlockAsInFlight(s, p, b, TRUE)

Marks(t, p, get, f) ==
  f = [i \in 0..Len(get) |-> IF i = 0 THEN t ELSE MarkOne(f[i - 1], p, get[i])]

Marked(t, p, get, i, u) ==
  /\ PeersOK(u) /\ DOMAIN u.node = DOMAIN t.node
  /\ \A c \in Queued(u) : c \in Queued(t) \/ (u.inFlight[c] = p /\ c \in ToSet(get))
  /\ \A c \in Blocks : u.inFlight[c] = t.inFlight[c] \/ (u.inFlight[c] = p /\ c \in ToSet(get))
  /\ \A q \in DOMAIN t.node :
       /\ u.node[q].nBlocksInFlight <= t.node[q].nBlocksInFlight + (IF q = p THEN i ELSE 0)
       /\ u.node[q].mapAskFor = t.node[q].mapAskFor

(* Marking one block found.                                                *)
LEMMA MarkOneIs ==
  ASSUME NEW s, PeersOK(s), NEW p \in DOMAIN s.node, NEW b \in Blocks
  PROVE  NowInFlight(s, p, b, MarkOne(s, p, b))
<1>1. TRUE \in BOOLEAN
  OBVIOUS
<1> QED
  BY <1>1, InFlightIs, Zenon DEF MarkOne

(* Marking all of them, one after the other.                               *)
LEMMA MarkedIs ==
  ASSUME NEW t, PeersOK(t), NEW p \in DOMAIN t.node, NEW get \in Seq(Blocks),
         NEW g, g = CHOOSE f : Marks(t, p, get, f)
  PROVE  Marked(t, p, get, Len(get), g[Len(get)])
<1> DEFINE n == Len(get)
           V == {u \in PeerStates : PeersOK(u) /\ DOMAIN u.node = DOMAIN t.node}
           F == [i \in 1..n |-> [u \in V |-> MarkOne(u, p, get[i])]]
<1>1. n \in Nat /\ \A i \in 1..n : get[i] \in Blocks
  OBVIOUS
<1> HIDE DEF n
<1>2. t \in V
  BY DEF PeersOK
<1>3. ASSUME NEW u \in V, NEW i \in 1..n PROVE MarkOne(u, p, get[i]) \in V
  <2> DEFINE w == MarkOne(u, p, get[i])
  <2>1. PeersOK(w) /\ DOMAIN w.node = DOMAIN u.node
    <3>1. PeersOK(u) /\ p \in DOMAIN u.node /\ get[i] \in Blocks
      BY <1>1
    <3> HIDE DEF w
    <3>2. NowInFlight(u, p, get[i], w)
      BY <3>1, MarkOneIs, Zenon DEF w
    <3> QED BY <3>2 DEF NowInFlight
  <2> HIDE DEF w
  <2> QED BY <2>1 DEF PeersOK, w
<1> HIDE DEF V
<1>4. F \in [1..n -> [V -> V]]
  BY <1>3
<1>5. PICK f : f \in Steps(n, V, t, F)
  <2> HIDE DEF F
  <2>1. Steps(n, V, t, F) # {}
    BY <1>1, <1>2, <1>4, StepsExist, Zenon
  <2> QED BY <2>1
<1>6. f \in [0..n -> V] /\ f[0] = t /\ \A i \in 1..n : f[i] = F[i][f[i - 1]]
  <2> HIDE DEF F
  <2> QED BY <1>5 DEF Steps
<1>7. ASSUME NEW i \in 1..n PROVE f[i] = MarkOne(f[i - 1], p, get[i])
  <2>1. f[i - 1] \in V
    BY <1>1, <1>6
  <2> QED BY <1>6, <2>1
<1> HIDE DEF F
<1>8. Marks(t, p, get, f)
  <2>1. f = [i \in 0..n |-> IF i = 0 THEN t ELSE MarkOne(f[i - 1], p, get[i])]
    BY <1>1, <1>6, <1>7
  <2> QED BY <2>1, Zenon DEF Marks, n
<1>9. Marks(t, p, get, g)
  BY <1>8, Zenon
<1>10. g[0] = t /\ \A i \in 1..n : g[i] = MarkOne(g[i - 1], p, get[i])
  <2>1. g = [i \in 0..n |-> IF i = 0 THEN t ELSE MarkOne(g[i - 1], p, get[i])]
    BY <1>9, Zenon DEF Marks, n
  <2>2. g[0] = t
    <3>1. 0 \in 0..n
      BY <1>1
    <3> QED BY <2>1, <3>1, Zenon
  <2>3. ASSUME NEW i \in 1..n PROVE g[i] = MarkOne(g[i - 1], p, get[i])
    <3>1. i \in 0..n /\ i # 0
      BY <1>1
    <3> QED BY <2>1, <3>1, Zenon
  <2> QED BY <2>2, <2>3
<1> DEFINE S == {i \in 0..n : Marked(t, p, get, i, g[i])}
<1>11. 0 \in S
  <2>1. \A q \in DOMAIN t.node : t.node[q].nBlocksInFlight \in Nat
    BY ListIs DEF PeersOK, NodeType
  <2>2. \A q \in DOMAIN t.node :
          t.node[q].nBlocksInFlight <= t.node[q].nBlocksInFlight + (IF q = p THEN 0 ELSE 0)
    BY <2>1
  <2>3. Marked(t, p, get, 0, t)
    BY <2>2, Zenon DEF Marked
  <2>4. 0 \in 0..n /\ g[0] = t
    BY <1>1, <1>10
  <2> QED BY <2>3, <2>4
<1>12. ASSUME NEW i \in 1..n, i - 1 \in S PROVE i \in S
  <2> DEFINE u == g[i - 1]
             w == g[i]
             b == get[i]
  <2>1. Marked(t, p, get, i - 1, u)
    BY <1>12
  <2>2. b \in Blocks /\ b \in ToSet(get)
    <3>1. DOMAIN get = 1..Len(get)
      OBVIOUS
    <3> QED BY <1>1, <3>1 DEF ToSet, n
  <2>3. w = MarkOne(u, p, b)
    BY <1>10
  <2> HIDE DEF u, w, b
  <2>4. PeersOK(u) /\ DOMAIN u.node = DOMAIN t.node /\ p \in DOMAIN u.node
    BY <2>1 DEF Marked
  <2>5. /\ PeersOK(w) /\ DOMAIN w.node = DOMAIN u.node
        /\ w.inFlight = [u.inFlight EXCEPT ![b] = p] /\ Queued(w) \subseteq Queued(u) \cup {b}
        /\ \A q \in DOMAIN u.node :
             /\ w.node[q].nBlocksInFlight <= u.node[q].nBlocksInFlight + (IF q = p THEN 1 ELSE 0)
             /\ w.node[q].mapAskFor = u.node[q].mapAskFor
    <3>1. NowInFlight(u, p, b, w)
      BY <2>2, <2>3, <2>4, MarkOneIs, Zenon
    <3> QED BY <3>1 DEF NowInFlight
  <2>6. u.inFlight \in [Blocks -> Peers \cup {NoPeer}]
    BY <2>4, StateParts DEF PeersOK
  <2>7. \A c \in Blocks : w.inFlight[c] = t.inFlight[c] \/ (w.inFlight[c] = p /\ c \in ToSet(get))
    BY <2>1, <2>2, <2>5, <2>6 DEF Marked
  <2>8. ASSUME NEW q \in DOMAIN t.node
        PROVE  /\ w.node[q].nBlocksInFlight <= t.node[q].nBlocksInFlight + (IF q = p THEN i ELSE 0)
               /\ w.node[q].mapAskFor = t.node[q].mapAskFor
    <3>1. /\ w.node[q].nBlocksInFlight \in Nat /\ u.node[q].nBlocksInFlight \in Nat
          /\ t.node[q].nBlocksInFlight \in Nat
      BY <2>4, <2>5, ListIs DEF PeersOK, NodeType
    <3>2. /\ u.node[q].nBlocksInFlight <= t.node[q].nBlocksInFlight + (IF q = p THEN i - 1 ELSE 0)
          /\ u.node[q].mapAskFor = t.node[q].mapAskFor
      BY <2>1 DEF Marked
    <3>3. /\ w.node[q].nBlocksInFlight <= u.node[q].nBlocksInFlight + (IF q = p THEN 1 ELSE 0)
          /\ w.node[q].mapAskFor = u.node[q].mapAskFor
      BY <2>4, <2>5
    <3>4. CASE q = p
      BY <1>1, <3>1, <3>2, <3>3, <3>4
    <3>5. CASE q # p
      BY <3>1, <3>2, <3>3, <3>5
    <3> QED BY <3>4, <3>5
  <2>9. \A c \in Queued(w) : c \in Queued(t) \/ (w.inFlight[c] = p /\ c \in ToSet(get))
    <3>1. ASSUME NEW c \in Queued(w)
          PROVE  c \in Blocks /\ (c \in Queued(u) \/ c = b)
      BY <2>5 DEF Queued
    <3>2. \A c \in Blocks : w.inFlight[c] = IF c = b THEN p ELSE u.inFlight[c]
      BY <2>5, <2>6
    <3> QED BY <2>1, <2>2, <3>1, <3>2 DEF Marked
  <2>10. Marked(t, p, get, i, w)
    BY <2>4, <2>5, <2>7, <2>8, <2>9 DEF Marked
  <2> QED BY <1>1, <2>10 DEF w
<1> HIDE DEF S
<1>13. n \in S
  <2>1. 0..n \subseteq S
    BY <1>1, <1>11, <1>12, UpTo
  <2> QED BY <1>1, <2>1
<1> QED
  BY <1>13 DEF S, n

(* The clock of a peer that holds the window up.                           *)
LEMMA StallingIs ==
  ASSUME NEW s, PeersOK(s), NEW q
  PROVE  LET r == [s EXCEPT !.node[q].stalling = TRUE]
         IN /\ PeersOK(r) /\ SameLists(s, r) /\ SameAskFor(s, r)
            /\ Queued(r) = Queued(s)
<1> DEFINE r == [s EXCEPT !.node[q].stalling = TRUE]
<1>1. s \in PeerStates
  BY DEF PeersOK
<1>2. /\ s.node \in [DOMAIN s.node -> NodeType]
      /\ s = [node |-> s.node, inFlight |-> s.inFlight, nQueued |-> s.nQueued]
  BY <1>1, StateParts
<1>3. CASE q \notin DOMAIN s.node
  <2>1. r = s
    BY <1>2, <1>3
  <2> HIDE DEF r
  <2> QED BY <2>1 DEF SameLists, SameAskFor, r
<1>4. CASE q \in DOMAIN s.node
  <2>1. PICK n \in NodeType : n = s.node[q]
    BY <1>1, <1>4, ListIs
  <2> DEFINE m == [n EXCEPT !.stalling = TRUE]
  <2>2. /\ m \in NodeType /\ m.vBlocksInFlight = n.vBlocksInFlight
        /\ m.nBlocksInFlight = n.nBlocksInFlight /\ m.mapAskFor = n.mapAskFor
    BY DEF NodeType
  <2>3. r = Put(s, q, m)
    <3>1. r = [s EXCEPT !.node = [s.node EXCEPT ![q] = m]]
      BY <1>2, <1>4, <2>1
    <3> HIDE DEF m, r
    <3> QED BY <1>2, <3>1 DEF Put
  <2> HIDE DEF m, r
  <2>4. r \in PeerStates /\ SameLists(s, r) /\ SameAskFor(s, r)
    BY <1>1, <1>4, <2>1, <2>2, <2>3, PutIs
  <2> QED BY <2>4, SameListsKeep DEF r
<1> QED
  BY <1>3, <1>4

(* What AskBlocks leaves: the blocks it marks are those it asks for.       *)
Asks(s, p, a) ==
  /\ PeersOK(a.state) /\ DOMAIN a.state.node = DOMAIN s.node /\ Counted(a.state)
  /\ a.get \in Seq(Blocks \ stored) /\ SameAskFor(s, a.state)
  /\ \A c \in Queued(a.state) : c \in Queued(s) \/ (a.state.inFlight[c] = p /\ c \in ToSet(a.get))
  /\ \A c \in Blocks : \/ a.state.inFlight[c] = s.inFlight[c]
                       \/ a.state.inFlight[c] = p /\ c \in ToSet(a.get)

(* The second part of SendMessages.                                        *)
LEMMA AskBlocksIs ==
  ASSUME NEW s, PeersOK(s), Counted(s), NEW p \in DOMAIN s.node, headers \subseteq Blocks,
         tip \in Blocks
  PROVE  Asks(s, p, AskBlocks(s, p))
<1> DEFINE n == s.node[p]
           t == ProcessBlockAvailability(s, p, headers)
           found == FindNextBlocksToDownload(t, p, Room(n))
           get == found.get
           t0 == [t EXCEPT !.node[p].pindexLastCommonBlock = found.common]
           marked == CHOOSE f : Marks(t0, p, get, f)
           asked == marked[Len(get)]
           state == IF asked.node[p].nBlocksInFlight = 0 /\ found.staller # NoPeer
                    THEN [asked EXCEPT !.node[found.staller].stalling = TRUE] ELSE asked
           a == AskBlocks(s, p)
<1>1. s \in PeerStates /\ \A q \in DOMAIN s.node : s.node[q].nBlocksInFlight \in Nat
  BY ListIs DEF PeersOK, NodeType
<1>2. CASE paused \/ n.fDisconnect \/ Room(n) = 0
  <2>1. a = [state |-> s, get |-> <<>>]
    BY <1>2, Zenon DEF AskBlocks
  <2> HIDE DEF a
  <2>2. a.state = s /\ a.get = <<>> /\ a.get \in Seq(Blocks \ stored)
    BY <2>1
  <2> QED BY <2>2 DEF Asks, SameAskFor, a
<1>3. CASE ~(paused \/ n.fDisconnect \/ Room(n) = 0)
  <2>1. a = [state |-> state, get |-> get]
    BY <1>3, Zenon DEF AskBlocks, Marks, MarkOne
  <2>2. Room(n) \in Nat \ {0} /\ Room(n) = MAX_BLOCKS_IN_TRANSIT_PER_PEER - n.nBlocksInFlight
    <3>1. n.nBlocksInFlight \in Nat /\ n.nBlocksInFlight <= MAX_BLOCKS_IN_TRANSIT_PER_PEER
      BY <1>1 DEF Counted
    <3>2. MAX_BLOCKS_IN_TRANSIT_PER_PEER \in Nat
      BY DownloadAssumption
    <3>3. Room(n) # 0
      BY <1>3
    <3> QED BY <3>1, <3>2, <3>3 DEF Room
  <2>3. t \in PeerStates /\ SameLists(s, t) /\ SameAskFor(s, t)
    BY <1>1, AvailabilityIs
  <2>4. p \in DOMAIN t.node
    BY <2>3 DEF SameLists
  <2> HIDE DEF t
  <2>5. found \in Ats(Room(n))
    BY <2>2, <2>3, <2>4, FoundIs
  <2> HIDE DEF found
  <2>6. /\ get \in Seq(Blocks \ stored) /\ Len(get) \in Nat /\ Len(get) <= Room(n)
        /\ found.common \in Blocks \cup {NoBlock} /\ get \in Seq(Blocks)
    <3>1. get \in Seq(Blocks \ stored) /\ Len(get) <= Room(n) /\ found.common \in Blocks \cup {NoBlock}
      BY <2>5 DEF Ats
    <3>2. Blocks \ stored \subseteq Blocks
      OBVIOUS
    <3> HIDE DEF get
    <3> QED BY <3>1, <3>2, SeqMonotonic
  <2>7. t0 \in PeerStates /\ SameLists(t, t0) /\ SameAskFor(t, t0)
    <3>1. PICK m \in NodeType : m = t.node[p]
      BY <2>3, <2>4, ListIs
    <3> DEFINE m0 == [m EXCEPT !.pindexLastCommonBlock = found.common]
    <3>2. /\ m0 \in NodeType /\ m0.vBlocksInFlight = m.vBlocksInFlight
          /\ m0.nBlocksInFlight = m.nBlocksInFlight /\ m0.mapAskFor = m.mapAskFor
      BY <2>6 DEF NodeType
    <3>3. t0 = Put(t, p, m0)
      <4>1. /\ t.node \in [DOMAIN t.node -> NodeType]
            /\ t = [node |-> t.node, inFlight |-> t.inFlight, nQueued |-> t.nQueued]
        BY <2>3, StateParts
      <4> QED BY <3>1, <4>1, <2>4 DEF Put
    <3> HIDE DEF m0, t0
    <3> QED BY <2>3, <2>4, <3>1, <3>2, <3>3, PutIs
  <2> HIDE DEF t0
  <2>8. /\ SameLists(s, t0) /\ SameAskFor(s, t0) /\ PeersOK(t0) /\ p \in DOMAIN t0.node
        /\ Queued(t0) = Queued(s)
    <3>1. SameLists(s, t0) /\ SameAskFor(s, t0)
      BY <2>3, <2>7 DEF SameLists, SameAskFor
    <3> QED BY <2>7, <3>1, SameListsKeep DEF SameLists
  <2>9. Marked(t0, p, get, Len(get), asked)
    <3> HIDE DEF get
    <3> QED BY <2>6, <2>8, MarkedIs, Zenon
  <2> HIDE DEF marked, asked
  <2>10. /\ PeersOK(asked) /\ DOMAIN asked.node = DOMAIN s.node /\ SameAskFor(s, asked)
         /\ \A c \in Queued(asked) : c \in Queued(s) \/ (asked.inFlight[c] = p /\ c \in ToSet(get))
         /\ \A c \in Blocks : \/ asked.inFlight[c] = s.inFlight[c]
                              \/ asked.inFlight[c] = p /\ c \in ToSet(get)
    BY <2>8, <2>9 DEF Marked, SameLists, SameAskFor
  <2>11. ASSUME NEW q \in DOMAIN s.node
         PROVE  asked.node[q].nBlocksInFlight <= MAX_BLOCKS_IN_TRANSIT_PER_PEER
    <3>1. asked.node[q].nBlocksInFlight <= s.node[q].nBlocksInFlight + (IF q = p THEN Len(get) ELSE 0)
      BY <2>8, <2>9 DEF Marked, SameLists
    <3>2. /\ asked.node[q].nBlocksInFlight \in Nat /\ s.node[q].nBlocksInFlight \in Nat
          /\ s.node[q].nBlocksInFlight <= MAX_BLOCKS_IN_TRANSIT_PER_PEER
      BY <1>1, <2>10, ListIs DEF PeersOK, NodeType, Counted
    <3>3. MAX_BLOCKS_IN_TRANSIT_PER_PEER \in Nat
      BY DownloadAssumption
    <3> HIDE DEF get
    <3> QED BY <2>2, <2>6, <3>1, <3>2, <3>3
  <2>12. /\ PeersOK(state) /\ SameLists(asked, state) /\ SameAskFor(asked, state)
         /\ Queued(state) = Queued(asked)
    <3>1. CASE state = asked
      BY <3>1, <2>10 DEF SameLists, SameAskFor
    <3>2. CASE state = [asked EXCEPT !.node[found.staller].stalling = TRUE]
      <4>1. PICK q : q = found.staller
        OBVIOUS
      <4> HIDE DEF state
      <4> QED BY <2>10, <3>2, <4>1, StallingIs
    <3> QED BY <3>1, <3>2
  <2> HIDE DEF state, a
  <2>13. a.state = state /\ a.get = get
    BY <2>1
  <2>14. /\ DOMAIN state.node = DOMAIN s.node /\ Counted(state) /\ SameAskFor(s, state)
         /\ state.inFlight = asked.inFlight
    BY <2>10, <2>11, <2>12 DEF SameLists, SameAskFor, Counted
  <2> HIDE DEF get
  <2> QED BY <2>6, <2>10, <2>12, <2>13, <2>14 DEF Asks, a
<1> QED
  BY <1>2, <1>3

(* What the first part of SendMessages leaves.                             *)
Checked(s, v) ==
  /\ PeersOK(v) /\ DOMAIN v.node = DOMAIN s.node /\ SameAskFor(s, v)
  /\ Queued(v) \subseteq Queued(s)
  /\ \A c \in Blocks : v.inFlight[c] \in {s.inFlight[c], NoPeer}
  /\ \A q \in DOMAIN s.node : v.node[q].nBlocksInFlight = s.node[q].nBlocksInFlight

(* The end of a pause.                                                     *)
LEMMA ResumedIs ==
  ASSUME NEW s, PeersOK(s), NEW p \in DOMAIN s.node
  PROVE  Checked(s, ResumeIncoming(s, p))
<1> DEFINE r == ResumeIncoming(s, p)
           f == [b \in Blocks |-> IF s.inFlight[b] = p THEN NoPeer ELSE s.inFlight[b]]
<1>1. s \in PeerStates
  BY DEF PeersOK
<1>2. /\ DOMAIN s.node \subseteq Peers /\ s.node \in [DOMAIN s.node -> NodeType]
      /\ s.inFlight \in [Blocks -> Peers \cup {NoPeer}] /\ s.nQueued \in Nat
      /\ s = [node |-> s.node, inFlight |-> s.inFlight, nQueued |-> s.nQueued]
  BY <1>1, StateParts
<1>3. PICK n \in NodeType : n = s.node[p]
  BY <1>2
<1>4. PICK l \in Seq(InFlightType) : l = <<>>
  BY EmptySeq, Zenon
<1>5. PICK m \in NodeType : /\ m.vBlocksInFlight = l /\ m.nBlocksInFlight = n.nBlocksInFlight
                            /\ m.mapAskFor = n.mapAskFor /\ m = [n EXCEPT !.vBlocksInFlight = l]
  BY DEF NodeType
<1> DEFINE rn == [s.node EXCEPT ![p] = m]
<1>6. r = [node |-> rn, inFlight |-> f, nQueued |-> s.nQueued]
  <2>1. r = [s EXCEPT !.inFlight = f, !.node[p].vBlocksInFlight = l]
    BY <1>4, Zenon DEF ResumeIncoming
  <2> HIDE DEF f, r
  <2> QED BY <1>2, <1>3, <1>5, <2>1
<1>7. /\ rn \in [DOMAIN s.node -> NodeType] /\ DOMAIN rn = DOMAIN s.node
      /\ \A q \in DOMAIN s.node : rn[q] = IF q = p THEN m ELSE s.node[q]
  BY <1>2
<1>8. f \in [Blocks -> Peers \cup {NoPeer}]
  BY <1>2
<1> HIDE DEF r, rn, f
<1>9. r \in PeerStates /\ r.node = rn /\ r.inFlight = f /\ r.nQueued = s.nQueued
  BY <1>2, <1>6, <1>7, <1>8, StateMade
<1>10. \A q \in DOMAIN s.node :
         /\ r.node[q].nBlocksInFlight = s.node[q].nBlocksInFlight
         /\ r.node[q].vBlocksInFlight = IF q = p THEN <<>> ELSE s.node[q].vBlocksInFlight
         /\ r.node[q].mapAskFor = s.node[q].mapAskFor
  BY <1>3, <1>4, <1>5, <1>7, <1>9
<1>11. PeersOK(r) /\ Queued(r) \subseteq Queued(s)
  <2>1. DOMAIN r.node \in {DOMAIN s.node, DOMAIN s.node \ {p}}
    BY <1>7, <1>9
  <2>2. r.inFlight = [b \in Blocks |-> IF s.inFlight[b] = p THEN NoPeer ELSE s.inFlight[b]]
    BY <1>9 DEF f
  <2>3. \A q \in DOMAIN r.node :
          /\ r.node[q].nBlocksInFlight = s.node[q].nBlocksInFlight
          /\ r.node[q].vBlocksInFlight = IF q = p THEN <<>> ELSE s.node[q].vBlocksInFlight
    BY <1>7, <1>9, <1>10
  <2> QED BY <1>9, <2>1, <2>2, <2>3, ForgottenKeep, Zenon
<1>12. \A c \in Blocks : r.inFlight[c] \in {s.inFlight[c], NoPeer}
  BY <1>9 DEF f
<1> QED
  BY <1>7, <1>9, <1>10, <1>11, <1>12 DEF Checked, SameAskFor, r

(* The first part of SendMessages.                                         *)
LEMMA CheckPeerIs ==
  ASSUME NEW s, PeersOK(s), NEW p \in DOMAIN s.node, NEW stalled \in BOOLEAN,
         NEW timeout \in BOOLEAN
  PROVE  Checked(s, CheckPeer(s, p, stalled, timeout))
<1> DEFINE r == IF ~paused /\ s.node[p].fLastIgnoreIncoming THEN ResumeIncoming(s, p) ELSE s
           drop == \/ s.node[p].fShouldBan /\ p \in Whitelisted
                   \/ stalled /\ s.node[p].stalling
                   \/ timeout /\ ~paused /\ FromPeer(r, p) # <<>>
           d == r.node[p].fDisconnect \/ drop
           v == CheckPeer(s, p, stalled, timeout)
<1>1. Checked(s, r)
  <2>1. Checked(s, s)
    BY DEF Checked, SameAskFor
  <2> QED BY <2>1, ResumedIs
<1>2. v = [r EXCEPT !.node[p].fShouldBan = FALSE, !.node[p].fDisconnect = d]
  BY Zenon DEF CheckPeer
<1> HIDE DEF r, v, d
<1>3. r \in PeerStates /\ p \in DOMAIN r.node
  BY <1>1 DEF Checked, PeersOK
<1>4. PICK n \in NodeType : n = r.node[p]
  BY <1>3, ListIs
<1>5. /\ r.node \in [DOMAIN r.node -> NodeType]
      /\ r = [node |-> r.node, inFlight |-> r.inFlight, nQueued |-> r.nQueued]
  BY <1>3, StateParts
<1>6. PICK e \in BOOLEAN : e = d
  BY DEF d
<1>7. PICK no \in BOOLEAN : no = FALSE
  OBVIOUS
<1>8. v = [r EXCEPT !.node[p].fShouldBan = no, !.node[p].fDisconnect = e]
  BY <1>2, <1>6, <1>7
<1> DEFINE m == [n EXCEPT !.fShouldBan = no, !.fDisconnect = e]
<1>9. /\ m \in NodeType /\ m.vBlocksInFlight = n.vBlocksInFlight
      /\ m.nBlocksInFlight = n.nBlocksInFlight /\ m.mapAskFor = n.mapAskFor
  BY DEF NodeType
<1>10. v = Put(r, p, m)
  BY <1>3, <1>4, <1>5, <1>8 DEF Put
<1> HIDE DEF m
<1>11. v \in PeerStates /\ SameLists(r, v) /\ SameAskFor(r, v)
  BY <1>3, <1>4, <1>9, <1>10, PutIs
<1>12. PeersOK(v) /\ Queued(v) = Queued(r)
  BY <1>1, <1>11, SameListsKeep DEF Checked
<1> QED
  BY <1>1, <1>11, <1>12 DEF Checked, SameLists, SameAskFor, v

-----------------------------------------------------------------------------
(* The invariant of the download.                                          *)

(* A block that SendMessages marked as in flight was asked of the peer, or *)
(* is going to be, unless it may have been dropped before it was off the   *)
(* list.                                                                   *)
Asked(s, req) ==
  \A b \in Queued(s) \ BadSigned : s.inFlight[b] # NoPeer =>
    b \in req[s.inFlight[b]] \cup s.node[s.inFlight[b]].mapAskFor

StoredFree(s, have) == \A b \in Blocks : b \in have => s.inFlight[b] = NoPeer

PeersInv(s, req, have) ==
  /\ PeersOK(s) /\ Counted(s) /\ req \in [Peers -> SUBSET Blocks]
  /\ Asked(s, req) /\ StoredFree(s, have)

TreeInv ==
  /\ headers \subseteq Blocks /\ stored \subseteq headers /\ old \subseteq Blocks
  /\ tip \in stored /\ paused \in BOOLEAN
  /\ left \in [{"connect", "message", "pause", "tx"} -> Nat]

DownloadInv == TreeInv /\ PeersInv(peers, requested, stored)

(* No peer goes.                                                           *)
Kept(s, r) == DOMAIN s.node \subseteq DOMAIN r.node

(* Where a block may be in flight from.                                    *)
LEMMA InFlightFrom ==
  ASSUME NEW s, PeersOK(s), NEW b \in Blocks, s.inFlight[b] # NoPeer
  PROVE  s.inFlight[b] \in DOMAIN s.node /\ s.inFlight[b] \in Peers
<1>1. s.inFlight[b] \in Peers
  BY StateParts DEF PeersOK
<1> QED
  BY <1>1 DEF PeersOK, ListsAgree

(* Nor is a block that is counted in flight from nowhere.                  *)
LEMMA QueuedFrom ==
  ASSUME NEW s, PeersOK(s), NEW b \in Queued(s)
  PROVE  s.inFlight[b] \in DOMAIN s.node /\ s.inFlight[b] \in Peers
<1>1. PICK p \in DOMAIN s.node : Lists(s, p, b)
  BY DEF Queued, Lists
<1>2. p \in Peers /\ b \in Blocks
  BY <1>1, StateParts DEF PeersOK, Queued
<1> QED
  BY <1>1, <1>2 DEF PeersOK, ListsAgree

(* SendMessages keeps the invariant and takes no peer away.                *)
LEMMA SentIs ==
  ASSUME DownloadInv, NEW p \in Connected, NEW stalled \in BOOLEAN, NEW timeout \in BOOLEAN
  PROVE  LET z == Sent(p, stalled, timeout)
         IN PeersInv(z.peers, z.requested, stored) /\ Kept(peers, z.peers)
<1> DEFINE s == CheckPeer(peers, p, stalled, timeout)
           a == AskBlocks(s, p)
           again == IF paused \/ s.node[p].fDisconnect THEN {} ELSE s.node[p].mapAskFor
           t == a.state
           u == [t EXCEPT !.node[p].mapAskFor = @ \ again, !.node[p].fLastIgnoreIncoming = paused]
           req == [requested EXCEPT ![p] = @ \cup ToSet(a.get) \cup again]
           z == Sent(p, stalled, timeout)
<1>1. /\ PeersOK(peers) /\ Counted(peers) /\ requested \in [Peers -> SUBSET Blocks]
      /\ Asked(peers, requested) /\ StoredFree(peers, stored)
      /\ headers \subseteq Blocks /\ stored \subseteq Blocks /\ tip \in Blocks /\ paused \in BOOLEAN
      /\ p \in DOMAIN peers.node /\ p \in Peers
  <2>1. p \in DOMAIN peers.node
    BY DEF Connected
  <2> QED BY <2>1, ListIs DEF DownloadInv, TreeInv, PeersInv, PeersOK
<1>2. z.peers = u /\ z.requested = req
  <2>1. z = [peers |-> u, requested |-> req]
    BY Zenon DEF Sent
  <2> HIDE DEF u, req, z
  <2> QED BY <2>1
<1>3. Checked(peers, s)
  BY <1>1, CheckPeerIs, Zenon
<1> HIDE DEF s
<1>4. /\ PeersOK(s) /\ DOMAIN s.node = DOMAIN peers.node /\ Counted(s)
      /\ Queued(s) \subseteq Queued(peers)
      /\ \A c \in Blocks : s.inFlight[c] \in {peers.inFlight[c], NoPeer}
      /\ \A q \in DOMAIN peers.node : s.node[q].mapAskFor = peers.node[q].mapAskFor
  BY <1>1, <1>3 DEF Checked, Counted, SameAskFor
<1>5. Asks(s, p, a)
  BY <1>1, <1>4, AskBlocksIs
<1> HIDE DEF a
<1>6. PICK g \in Seq(Blocks \ stored) : g = a.get
  BY <1>5 DEF Asks
<1>7. ToSet(g) \subseteq Blocks \ stored
  BY DEF ToSet
<1>8. /\ PeersOK(t) /\ DOMAIN t.node = DOMAIN peers.node /\ Counted(t)
      /\ \A c \in Queued(t) : c \in Queued(peers) \/ (t.inFlight[c] = p /\ c \in ToSet(g))
      /\ \A q \in DOMAIN peers.node : t.node[q].mapAskFor = peers.node[q].mapAskFor
      /\ \A c \in Blocks : \/ t.inFlight[c] \in {peers.inFlight[c], NoPeer}
                           \/ t.inFlight[c] = p /\ c \in ToSet(g)
  BY <1>4, <1>5, <1>6 DEF Asks, SameAskFor
<1> HIDE DEF t
<1>9. /\ again \subseteq peers.node[p].mapAskFor /\ peers.node[p].mapAskFor \subseteq Blocks
      /\ t.node[p].mapAskFor = peers.node[p].mapAskFor
  <2>1. peers.node[p].mapAskFor \subseteq Blocks
    BY <1>1, ListIs DEF PeersOK, NodeType
  <2> QED BY <1>1, <1>4, <1>8, <2>1
<1> HIDE DEF again
<1>10. PICK n \in NodeType : n = t.node[p]
  BY <1>1, <1>8, ListIs DEF PeersOK
<1>11. PICK v \in SUBSET Blocks : v = n.mapAskFor \ again
  BY <1>9, <1>10
<1> DEFINE m == [n EXCEPT !.mapAskFor = v, !.fLastIgnoreIncoming = paused]
<1>12. /\ m \in NodeType /\ m.vBlocksInFlight = n.vBlocksInFlight
       /\ m.nBlocksInFlight = n.nBlocksInFlight /\ m.mapAskFor = v
  BY <1>1 DEF NodeType
<1>13. u = Put(t, p, m)
  <2>1. /\ t.node \in [DOMAIN t.node -> NodeType]
        /\ t = [node |-> t.node, inFlight |-> t.inFlight, nQueued |-> t.nQueued]
    BY <1>8, StateParts DEF PeersOK
  <2>2. PICK w \in BOOLEAN : w = paused
    BY <1>1
  <2>3. u = [t EXCEPT !.node[p].mapAskFor = v, !.node[p].fLastIgnoreIncoming = w]
    BY <1>10, <1>11, <2>2
  <2>4. m = [n EXCEPT !.mapAskFor = v, !.fLastIgnoreIncoming = w]
    BY <2>2
  <2> HIDE DEF m, u
  <2> QED BY <1>1, <1>8, <1>10, <2>1, <2>3, <2>4 DEF Put
<1> HIDE DEF m, u
<1>14. /\ u \in PeerStates /\ SameLists(t, u) /\ u.node[p] = m
       /\ \A q \in DOMAIN t.node : q # p => u.node[q] = t.node[q]
  <2>1. t \in PeerStates /\ p \in DOMAIN t.node
    BY <1>1, <1>8 DEF PeersOK
  <2> QED BY <2>1, <1>10, <1>12, <1>13, PutIs
<1>15. PeersOK(u) /\ Counted(u) /\ Queued(u) = Queued(t)
  <2>1. PeersOK(u) /\ Queued(u) = Queued(t)
    BY <1>8, <1>14, SameListsKeep
  <2> QED BY <2>1, <1>8, <1>14 DEF Counted, SameLists
<1>16. req \in [Peers -> SUBSET Blocks] /\ req[p] = requested[p] \cup ToSet(g) \cup again
       /\ \A q \in Peers : q # p => req[q] = requested[q]
  BY <1>1, <1>6, <1>7, <1>9
<1> HIDE DEF req
<1>17. Asked(u, req)
  <2> SUFFICES ASSUME NEW b \in Queued(u) \ BadSigned, b \in Blocks, u.inFlight[b] # NoPeer
               PROVE  b \in req[u.inFlight[b]] \cup u.node[u.inFlight[b]].mapAskFor
    BY DEF Asked, Queued
  <2> DEFINE q == u.inFlight[b]
  <2>1. q = t.inFlight[b] /\ q \in DOMAIN peers.node /\ q \in Peers
    BY <1>8, <1>14, <1>15, InFlightFrom DEF SameLists
  <2>2. CASE q = p /\ b \in ToSet(g)
    BY <2>2, <1>16
  <2>3. CASE q = peers.inFlight[b] /\ ~(q = p /\ b \in ToSet(g))
    <3>1. b \in Queued(peers)
      BY <2>1, <2>3, <1>8, <1>15
    <3>2. b \in requested[q] \cup peers.node[q].mapAskFor
      BY <2>3, <3>1, <1>1 DEF Asked
    <3>3. CASE q # p
      BY <2>1, <3>2, <3>3, <1>8, <1>14, <1>16
    <3>4. CASE q = p
      <4>1. u.node[p].mapAskFor = peers.node[p].mapAskFor \ again
        BY <1>9, <1>10, <1>11, <1>12, <1>14
      <4> QED BY <3>2, <3>4, <4>1, <1>16
    <3> QED BY <3>3, <3>4
  <2> QED BY <2>1, <2>2, <2>3, <1>8
<1>18. StoredFree(u, stored)
  <2> SUFFICES ASSUME NEW b \in Blocks, b \in stored PROVE u.inFlight[b] = NoPeer
    BY DEF StoredFree
  <2>1. b \in Blocks /\ u.inFlight[b] = t.inFlight[b] /\ b \notin ToSet(g)
    BY <1>1, <1>7, <1>14 DEF SameLists
  <2>2. peers.inFlight[b] = NoPeer
    BY <1>1 DEF StoredFree
  <2> QED BY <2>1, <2>2, <1>8
<1>19. Kept(peers, u)
  BY <1>8, <1>14 DEF Kept, SameLists
<1> HIDE DEF z
<1> QED
  BY <1>2, <1>15, <1>16, <1>17, <1>18, <1>19 DEF PeersInv, z

-----------------------------------------------------------------------------
(* What the actions do to the peers' state.                                *)

(* Edits that leave the lists and mapAskFor alone.                         *)
LEMMA SameListsInv ==
  ASSUME NEW s, NEW req, NEW have, PeersInv(s, req, have),
         NEW r \in PeerStates, SameLists(s, r), SameAskFor(s, r)
  PROVE  PeersInv(r, req, have) /\ Kept(s, r)
<1>1. PeersOK(r) /\ Queued(r) = Queued(s)
  BY SameListsKeep DEF PeersInv
<1>2. Counted(r)
  BY DEF PeersInv, Counted, SameLists
<1>3. Asked(r, req)
  <2> SUFFICES ASSUME NEW b \in Queued(r) \ BadSigned, b \in Blocks, r.inFlight[b] # NoPeer
               PROVE  b \in req[r.inFlight[b]] \cup r.node[r.inFlight[b]].mapAskFor
    BY DEF Asked, Queued
  <2>1. r.inFlight[b] = s.inFlight[b] /\ s.inFlight[b] \in DOMAIN s.node
    BY InFlightFrom DEF SameLists, PeersInv
  <2> QED BY <1>1, <2>1 DEF PeersInv, Asked, SameAskFor
<1>4. StoredFree(r, have)
  BY DEF PeersInv, StoredFree, SameLists
<1> QED
  BY <1>1, <1>2, <1>3, <1>4 DEF PeersInv, SameLists, Kept

(* Setting fShouldBan is such an edit.                                     *)
LEMMA BannedIs ==
  ASSUME NEW s, PeersOK(s), NEW q \in DOMAIN s.node
  PROVE  LET r == [s EXCEPT !.node[q].fShouldBan = TRUE]
         IN r \in PeerStates /\ SameLists(s, r) /\ SameAskFor(s, r)
<1> DEFINE r == [s EXCEPT !.node[q].fShouldBan = TRUE]
<1>1. s \in PeerStates
  BY DEF PeersOK
<1>2. /\ s.node \in [DOMAIN s.node -> NodeType]
      /\ s = [node |-> s.node, inFlight |-> s.inFlight, nQueued |-> s.nQueued]
  BY <1>1, StateParts
<1>3. PICK n \in NodeType : n = s.node[q]
  BY <1>1, ListIs
<1> DEFINE m == [n EXCEPT !.fShouldBan = TRUE]
<1>4. /\ m \in NodeType /\ m.vBlocksInFlight = n.vBlocksInFlight
      /\ m.nBlocksInFlight = n.nBlocksInFlight /\ m.mapAskFor = n.mapAskFor
  BY DEF NodeType
<1>5. r = Put(s, q, m)
  <2>1. r = [s EXCEPT !.node = [s.node EXCEPT ![q] = m]]
    BY <1>2, <1>3
  <2> HIDE DEF m, r
  <2> QED BY <1>2, <2>1 DEF Put
<1> HIDE DEF m, r
<1>6. r \in PeerStates /\ SameLists(s, r) /\ SameAskFor(s, r)
  BY <1>1, <1>3, <1>4, <1>5, PutIs
<1> QED
  BY <1>6 DEF r

(* Misbehaving.                                                            *)
LEMMA MisbehavingInv ==
  ASSUME NEW s, NEW req, NEW have, PeersInv(s, req, have),
         NEW p \in DOMAIN s.node, NEW r \in Misbehaving(s, p)
  PROVE  PeersInv(r, req, have) /\ Kept(s, r)
<1>1. CASE r = s
  BY <1>1 DEF Kept
<1>2. CASE r = [s EXCEPT !.node[p].fShouldBan = TRUE]
  <2>1. PeersOK(s)
    BY DEF PeersInv
  <2>2. r \in PeerStates /\ SameLists(s, r) /\ SameAskFor(s, r)
    BY <1>2, <2>1, BannedIs
  <2> QED BY <2>2, SameListsInv
<1> QED
  BY <1>1, <1>2 DEF Misbehaving

(* A node of its own for a peer that connects.                             *)
LEMMA ConnectInv ==
  ASSUME NEW s, NEW req, NEW have, PeersInv(s, req, have), NEW p \in Peers,
         p \notin DOMAIN s.node
  PROVE  LET r == [s EXCEPT !.node = [q \in DOMAIN s.node \cup {p} |->
                                       IF q = p THEN NewNode ELSE s.node[q]]]
         IN PeersInv(r, req, have) /\ Kept(s, r)
<1> DEFINE r == [s EXCEPT !.node = [q \in DOMAIN s.node \cup {p} |->
                                     IF q = p THEN NewNode ELSE s.node[q]]]
           rn == [q \in DOMAIN s.node \cup {p} |-> IF q = p THEN NewNode ELSE s.node[q]]
<1>1. PeersOK(s) /\ s \in PeerStates
  BY DEF PeersInv, PeersOK
<1>2. /\ DOMAIN s.node \subseteq Peers /\ s.node \in [DOMAIN s.node -> NodeType]
      /\ s.inFlight \in [Blocks -> Peers \cup {NoPeer}] /\ s.nQueued \in Nat
      /\ s = [node |-> s.node, inFlight |-> s.inFlight, nQueued |-> s.nQueued]
  BY <1>1, StateParts
<1>3. /\ NewNode \in NodeType /\ NewNode.vBlocksInFlight = <<>> /\ NewNode.nBlocksInFlight = 0
  BY DEF NewNode, NodeType
<1> HIDE DEF NewNode
<1>4. /\ rn \in [DOMAIN s.node \cup {p} -> NodeType] /\ DOMAIN rn = DOMAIN s.node \cup {p}
      /\ rn[p] = NewNode /\ \A q \in DOMAIN s.node : rn[q] = s.node[q]
  BY <1>2, <1>3
<1>5. r = [node |-> rn, inFlight |-> s.inFlight, nQueued |-> s.nQueued]
  <2>1. r = [s EXCEPT !.node = rn]
    OBVIOUS
  <2> HIDE DEF r, rn
  <2> QED BY <1>2, <2>1
<1> HIDE DEF r, rn
<1>6. /\ r \in PeerStates /\ r.node = rn /\ r.inFlight = s.inFlight /\ r.nQueued = s.nQueued
  <2>1. DOMAIN s.node \cup {p} \in SUBSET Peers
    BY <1>2
  <2> QED BY <2>1, <1>2, <1>4, <1>5, StateMade
<1>7. /\ DOMAIN r.node = DOMAIN s.node \cup {p} /\ Len(FromPeer(r, p)) = 0
      /\ r.node[p].nBlocksInFlight = 0
      /\ \A q \in DOMAIN s.node : /\ FromPeer(r, q) = FromPeer(s, q)
                                  /\ r.node[q] = s.node[q]
  BY <1>3, <1>4, <1>6 DEF FromPeer
<1>8. \A c : ~Lists(r, p, c) /\ \A q \in DOMAIN s.node : Lists(r, q, c) <=> Lists(s, q, c)
  BY <1>7 DEF Lists
<1>9. OnceListed(r)
  BY <1>1, <1>7 DEF OnceListed, PeersOK
<1>10. ListsAgree(r)
  BY <1>1, <1>6, <1>7, <1>8 DEF ListsAgree, PeersOK
<1>11. Queued(r) = Queued(s)
  BY <1>7 DEF Queued
<1>12. CountsAgree(r)
  BY <1>1, <1>6, <1>7, <1>11 DEF CountsAgree, PeersOK
<1>13. Counted(r)
  <2>1. 0 <= MAX_BLOCKS_IN_TRANSIT_PER_PEER
    BY DownloadAssumption
  <2> QED BY <1>7, <2>1 DEF Counted, PeersInv
<1>14. Asked(r, req)
  <2> SUFFICES ASSUME NEW b \in Queued(r) \ BadSigned, b \in Blocks, r.inFlight[b] # NoPeer
               PROVE  b \in req[r.inFlight[b]] \cup r.node[r.inFlight[b]].mapAskFor
    BY DEF Asked, Queued
  <2>1. r.inFlight[b] = s.inFlight[b] /\ s.inFlight[b] \in DOMAIN s.node
    BY <1>1, <1>6, InFlightFrom
  <2> QED BY <1>7, <1>11, <2>1 DEF PeersInv, Asked
<1> QED
  BY <1>6, <1>7, <1>9, <1>10, <1>12, <1>13, <1>14 DEF PeersInv, PeersOK, StoredFree, Kept, r

(* FinalizeNode.                                                           *)
LEMMA ForgetInv ==
  ASSUME NEW s, NEW req, NEW have, PeersInv(s, req, have), NEW p \in DOMAIN s.node
  PROVE  /\ PeersInv(ForgetPeer(s, p), [req EXCEPT ![p] = {}], have)
         /\ DOMAIN ForgetPeer(s, p).node = DOMAIN s.node \ {p}
<1> DEFINE r == ForgetPeer(s, p)
           f == [b \in Blocks |-> IF s.inFlight[b] = p THEN NoPeer ELSE s.inFlight[b]]
           rn == [q \in DOMAIN s.node \ {p} |-> s.node[q]]
           rr == [req EXCEPT ![p] = {}]
<1>1. PeersOK(s) /\ s \in PeerStates
  BY DEF PeersInv, PeersOK
<1>2. /\ DOMAIN s.node \subseteq Peers /\ s.node \in [DOMAIN s.node -> NodeType]
      /\ s.inFlight \in [Blocks -> Peers \cup {NoPeer}] /\ s.nQueued \in Nat
      /\ s = [node |-> s.node, inFlight |-> s.inFlight, nQueued |-> s.nQueued]
  BY <1>1, StateParts
<1>3. /\ rn \in [DOMAIN s.node \ {p} -> NodeType] /\ DOMAIN rn = DOMAIN s.node \ {p}
      /\ \A q \in DOMAIN s.node \ {p} : rn[q] = s.node[q]
  BY <1>2
<1>4. f \in [Blocks -> Peers \cup {NoPeer}]
  BY <1>2
<1>5. r = [node |-> rn, inFlight |-> f, nQueued |-> s.nQueued]
  <2>1. r = [s EXCEPT !.inFlight = f, !.node = rn]
    BY Zenon DEF ForgetPeer
  <2> HIDE DEF r, f, rn
  <2> QED BY <1>2, <2>1
<1> HIDE DEF r, f, rn
<1>6. r \in PeerStates /\ r.node = rn /\ r.inFlight = f /\ r.nQueued = s.nQueued
  BY <1>2, <1>3, <1>4, <1>5, StateMade
<1>7. PeersOK(r) /\ Queued(r) \subseteq Queued(s)
  <2>1. DOMAIN r.node \in {DOMAIN s.node, DOMAIN s.node \ {p}}
    BY <1>3, <1>6
  <2>2. r.inFlight = [b \in Blocks |-> IF s.inFlight[b] = p THEN NoPeer ELSE s.inFlight[b]]
    BY <1>6 DEF f
  <2>3. \A q \in DOMAIN r.node :
          /\ r.node[q].nBlocksInFlight = s.node[q].nBlocksInFlight
          /\ r.node[q].vBlocksInFlight = IF q = p THEN <<>> ELSE s.node[q].vBlocksInFlight
    BY <1>3, <1>6
  <2> QED BY <1>1, <1>6, <2>1, <2>2, <2>3, ForgottenKeep, Zenon
<1>8. Counted(r)
  BY <1>3, <1>6 DEF Counted, PeersInv
<1>9. /\ req \in [Peers -> SUBSET Blocks] /\ rr \in [Peers -> SUBSET Blocks]
      /\ \A q \in Peers : q # p => rr[q] = req[q]
  <2>1. req \in [Peers -> SUBSET Blocks]
    BY DEF PeersInv
  <2> QED BY <2>1
<1> HIDE DEF rr
<1>10. Asked(r, rr)
  <2> SUFFICES ASSUME NEW b \in Queued(r) \ BadSigned, b \in Blocks, r.inFlight[b] # NoPeer
               PROVE  b \in rr[r.inFlight[b]] \cup r.node[r.inFlight[b]].mapAskFor
    BY DEF Asked, Queued
  <2> DEFINE q == r.inFlight[b]
  <2>1. q \in DOMAIN r.node /\ q \in Peers /\ q = s.inFlight[b] /\ q # p
    BY <1>3, <1>6, <1>7, InFlightFrom DEF f
  <2> QED BY <1>3, <1>6, <1>7, <1>9, <2>1 DEF PeersInv, Asked
<1>11. StoredFree(r, have)
  BY <1>6 DEF StoredFree, PeersInv, f
<1> QED
  BY <1>3, <1>6, <1>7, <1>8, <1>9, <1>10, <1>11 DEF PeersInv, r, rr

(* MarkBlockAsReceived with the answer taken off the requests.             *)
LEMMA ReceivedInv ==
  ASSUME NEW s, NEW req, NEW have, PeersInv(s, req, have), NEW p \in Peers, NEW b \in Blocks
  PROVE  /\ PeersInv(MarkBlockAsReceived(s, b), [req EXCEPT ![p] = @ \ {b}], have \cup {b})
         /\ Kept(s, MarkBlockAsReceived(s, b))
<1> DEFINE r == MarkBlockAsReceived(s, b)
           rr == [req EXCEPT ![p] = @ \ {b}]
<1>1. PeersOK(s) /\ req \in [Peers -> SUBSET Blocks]
  BY DEF PeersInv
<1>2. /\ PeersOK(r) /\ DOMAIN r.node = DOMAIN s.node
      /\ r.inFlight = [s.inFlight EXCEPT ![b] = NoPeer] /\ Queued(r) \subseteq Queued(s)
      /\ \A q \in DOMAIN s.node :
           /\ r.node[q].nBlocksInFlight <= s.node[q].nBlocksInFlight
           /\ r.node[q].mapAskFor = s.node[q].mapAskFor
  BY <1>1, ReceivedIs
<1> HIDE DEF r
<1>3. s.inFlight \in [Blocks -> Peers \cup {NoPeer}]
  BY <1>1, StateParts DEF PeersOK
<1>4. r.inFlight[b] = NoPeer /\ \A c \in Blocks : c # b => r.inFlight[c] = s.inFlight[c]
  BY <1>2, <1>3
<1>5. rr \in [Peers -> SUBSET Blocks] /\ \A q \in Peers : req[q] \ {b} \subseteq rr[q]
  BY <1>1
<1> HIDE DEF rr
<1>6. Counted(r)
  <2> SUFFICES ASSUME NEW q \in DOMAIN s.node
               PROVE  r.node[q].nBlocksInFlight <= MAX_BLOCKS_IN_TRANSIT_PER_PEER
    BY <1>2 DEF Counted
  <2>1. r.node[q].nBlocksInFlight \in Nat /\ s.node[q].nBlocksInFlight \in Nat
    BY <1>1, <1>2, ListIs DEF PeersOK, NodeType
  <2>2. /\ r.node[q].nBlocksInFlight <= s.node[q].nBlocksInFlight
        /\ s.node[q].nBlocksInFlight <= MAX_BLOCKS_IN_TRANSIT_PER_PEER
    BY <1>2 DEF PeersInv, Counted
  <2>3. MAX_BLOCKS_IN_TRANSIT_PER_PEER \in Nat
    BY DownloadAssumption
  <2> QED BY <2>1, <2>2, <2>3
<1>7. Asked(r, rr)
  <2> SUFFICES ASSUME NEW c \in Queued(r) \ BadSigned, c \in Blocks, r.inFlight[c] # NoPeer
               PROVE  c \in rr[r.inFlight[c]] \cup r.node[r.inFlight[c]].mapAskFor
    BY DEF Asked, Queued
  <2>1. c # b /\ r.inFlight[c] = s.inFlight[c]
    BY <1>4
  <2>2. s.inFlight[c] \in DOMAIN s.node /\ s.inFlight[c] \in Peers
    BY <1>1, <2>1, InFlightFrom
  <2>3. c \in req[s.inFlight[c]] \cup s.node[s.inFlight[c]].mapAskFor
    BY <1>2, <2>1 DEF PeersInv, Asked
  <2> QED BY <1>2, <1>5, <2>1, <2>2, <2>3
<1>8. StoredFree(r, have \cup {b})
  BY <1>4 DEF StoredFree, PeersInv
<1> QED
  BY <1>2, <1>5, <1>6, <1>7, <1>8 DEF PeersInv, Kept, r, rr

(* A block with the wrong signer is dropped, and its answer is no longer   *)
(* awaited.                                                                *)
LEMMA DroppedInv ==
  ASSUME NEW s, NEW req, NEW have, PeersInv(s, req, have), NEW p \in Peers, NEW b \in BadSigned
  PROVE  PeersInv(s, [req EXCEPT ![p] = @ \ {b}], have)
<1> DEFINE rr == [req EXCEPT ![p] = @ \ {b}]
<1>1. req \in [Peers -> SUBSET Blocks] /\ PeersOK(s)
  BY DEF PeersInv
<1>2. rr \in [Peers -> SUBSET Blocks] /\ \A q \in Peers : req[q] \ {b} \subseteq rr[q]
  BY <1>1
<1> HIDE DEF rr
<1>3. Asked(s, rr)
  <2> SUFFICES ASSUME NEW c \in Queued(s) \ BadSigned, s.inFlight[c] # NoPeer
               PROVE  c \in rr[s.inFlight[c]] \cup s.node[s.inFlight[c]].mapAskFor
    BY DEF Asked
  <2>1. s.inFlight[c] \in Peers
    BY <1>1, QueuedFrom
  <2>2. c \in req[s.inFlight[c]] \cup s.node[s.inFlight[c]].mapAskFor
    BY DEF PeersInv, Asked
  <2> QED BY <1>2, <2>1, <2>2
<1> QED
  BY <1>2, <1>3 DEF PeersInv, rr

(* The invariant asks less of fewer stored blocks.                         *)
LEMMA FewerStored ==
  ASSUME NEW s, NEW req, NEW have, NEW b, PeersInv(s, req, have \cup {b})
  PROVE  PeersInv(s, req, have)
BY DEF PeersInv, StoredFree

(* A block ignored in a pause is asked for again later.                    *)
LEMMA AskForInv ==
  ASSUME NEW s, NEW req, NEW have, PeersInv(s, req, have), NEW p \in DOMAIN s.node,
         NEW b \in Blocks
  PROVE  /\ PeersInv(AskFor(s, p, b), [req EXCEPT ![p] = @ \ {b}], have)
         /\ Kept(s, AskFor(s, p, b))
<1> DEFINE r == AskFor(s, p, b)
           rr == [req EXCEPT ![p] = @ \ {b}]
<1>1. PeersOK(s) /\ req \in [Peers -> SUBSET Blocks] /\ s \in PeerStates
  BY DEF PeersInv, PeersOK
<1>2. /\ s.node \in [DOMAIN s.node -> NodeType] /\ p \in Peers
      /\ s = [node |-> s.node, inFlight |-> s.inFlight, nQueued |-> s.nQueued]
  BY <1>1, StateParts
<1>3. PICK n \in NodeType : n = s.node[p]
  BY <1>2
<1>4. PICK v \in SUBSET Blocks : v = n.mapAskFor \cup {b}
  BY DEF NodeType
<1> DEFINE m == [n EXCEPT !.mapAskFor = v]
<1>5. /\ m \in NodeType /\ m.vBlocksInFlight = n.vBlocksInFlight
      /\ m.nBlocksInFlight = n.nBlocksInFlight /\ m.mapAskFor = v
  BY DEF NodeType
<1>6. r = Put(s, p, m)
  <2>1. r = [s EXCEPT !.node = [s.node EXCEPT ![p] = m]]
    BY <1>2, <1>3, <1>4 DEF AskFor
  <2> HIDE DEF m, r
  <2> QED BY <1>2, <2>1 DEF Put
<1> HIDE DEF m, r
<1>7. /\ r \in PeerStates /\ SameLists(s, r) /\ r.node[p] = m
      /\ \A q \in DOMAIN s.node : q # p => r.node[q] = s.node[q]
  BY <1>1, <1>3, <1>5, <1>6, PutIs
<1>8. PeersOK(r) /\ Counted(r) /\ Queued(r) = Queued(s)
  <2>1. PeersOK(r) /\ Queued(r) = Queued(s)
    BY <1>1, <1>7, SameListsKeep
  <2> QED BY <2>1, <1>7 DEF Counted, SameLists, PeersInv
<1>9. /\ rr \in [Peers -> SUBSET Blocks] /\ rr[p] = req[p] \ {b}
      /\ \A q \in Peers : q # p => rr[q] = req[q]
  BY <1>1, <1>2
<1> HIDE DEF rr
<1>10. Asked(r, rr)
  <2> SUFFICES ASSUME NEW c \in Queued(r) \ BadSigned, c \in Blocks, r.inFlight[c] # NoPeer
               PROVE  c \in rr[r.inFlight[c]] \cup r.node[r.inFlight[c]].mapAskFor
    BY DEF Asked, Queued
  <2>1. r.inFlight[c] = s.inFlight[c]
    BY <1>7 DEF SameLists
  <2>2. s.inFlight[c] \in DOMAIN s.node /\ s.inFlight[c] \in Peers
    BY <1>1, <2>1, InFlightFrom
  <2>3. c \in req[s.inFlight[c]] \cup s.node[s.inFlight[c]].mapAskFor
    BY <1>8, <2>1 DEF PeersInv, Asked
  <2>4. CASE s.inFlight[c] # p
    BY <1>7, <1>9, <2>1, <2>2, <2>3, <2>4
  <2>5. CASE s.inFlight[c] = p
    BY <1>3, <1>4, <1>5, <1>7, <1>9, <2>1, <2>3, <2>5
  <2> QED BY <2>4, <2>5
<1>11. StoredFree(r, have)
  BY <1>7 DEF StoredFree, PeersInv, SameLists
<1> QED
  BY <1>7, <1>8, <1>9, <1>10, <1>11 DEF PeersInv, Kept, SameLists, r, rr

(* "inv": the block is marked, and asked for or not.                       *)
LEMMA MarkInv ==
  ASSUME NEW s, NEW req, NEW have, PeersInv(s, req, have), NEW p \in DOMAIN s.node,
         NEW b \in Blocks \ have, s.inFlight[b] = NoPeer,
         s.node[p].nBlocksInFlight < MAX_BLOCKS_IN_TRANSIT_PER_PEER,
         NEW rr, rr = req \/ rr = [req EXCEPT ![p] = @ \cup {b}]
  PROVE  /\ PeersInv(MarkBlockAsInFlight(s, p, b, FALSE), rr, have)
         /\ Kept(s, MarkBlockAsInFlight(s, p, b, FALSE))
<1> DEFINE r == MarkBlockAsInFlight(s, p, b, FALSE)
<1>1. PeersOK(s) /\ req \in [Peers -> SUBSET Blocks] /\ s \in PeerStates
  BY DEF PeersInv, PeersOK
<1>2. NowInFlight(s, p, b, r) /\ Queued(r) \subseteq Queued(s)
  <2>1. FALSE \in BOOLEAN
    OBVIOUS
  <2>2. NowInFlight(s, p, b, r) /\ (FALSE \/ Queued(r) \subseteq Queued(s))
    BY <1>1, <2>1, InFlightIs, Zenon
  <2> QED BY <2>2
<1> HIDE DEF r
<1>3. /\ PeersOK(r) /\ DOMAIN r.node = DOMAIN s.node
      /\ r.inFlight = [s.inFlight EXCEPT ![b] = p]
      /\ \A q \in DOMAIN s.node :
           /\ r.node[q].nBlocksInFlight <= s.node[q].nBlocksInFlight + (IF q = p THEN 1 ELSE 0)
           /\ r.node[q].mapAskFor = s.node[q].mapAskFor
  BY <1>2 DEF NowInFlight
<1>4. s.inFlight \in [Blocks -> Peers \cup {NoPeer}] /\ p \in Peers /\ p # NoPeer
  BY <1>1, StateParts, DownloadAssumption
<1>5. r.inFlight[b] = p /\ \A c \in Blocks : c # b => r.inFlight[c] = s.inFlight[c]
  BY <1>3, <1>4
<1>6. rr \in [Peers -> SUBSET Blocks] /\ \A q \in Peers : req[q] \subseteq rr[q]
  BY <1>1, <1>4
<1>7. Counted(r)
  <2> SUFFICES ASSUME NEW q \in DOMAIN s.node
               PROVE  r.node[q].nBlocksInFlight <= MAX_BLOCKS_IN_TRANSIT_PER_PEER
    BY <1>3 DEF Counted
  <2>1. r.node[q].nBlocksInFlight \in Nat /\ s.node[q].nBlocksInFlight \in Nat
    BY <1>1, <1>3, ListIs DEF PeersOK, NodeType
  <2>2. /\ r.node[q].nBlocksInFlight <= s.node[q].nBlocksInFlight + (IF q = p THEN 1 ELSE 0)
        /\ s.node[q].nBlocksInFlight <= MAX_BLOCKS_IN_TRANSIT_PER_PEER
    BY <1>3 DEF PeersInv, Counted
  <2>3. MAX_BLOCKS_IN_TRANSIT_PER_PEER \in Nat
    BY DownloadAssumption
  <2>4. CASE q = p
    BY <2>1, <2>2, <2>3, <2>4
  <2>5. CASE q # p
    BY <2>1, <2>2, <2>3, <2>5
  <2> QED BY <2>4, <2>5
<1>8. Asked(r, rr)
  <2> SUFFICES ASSUME NEW c \in Queued(r) \ BadSigned, c \in Blocks, r.inFlight[c] # NoPeer
               PROVE  c \in rr[r.inFlight[c]] \cup r.node[r.inFlight[c]].mapAskFor
    BY DEF Asked, Queued
  <2>1. s.inFlight[c] \in DOMAIN s.node /\ s.inFlight[c] \in Peers
    BY <1>1, <1>2, QueuedFrom
  <2>2. c \in req[s.inFlight[c]] \cup s.node[s.inFlight[c]].mapAskFor
    BY <1>2, <1>4, <2>1, DownloadAssumption DEF PeersInv, Asked
  <2>3. r.inFlight[c] = s.inFlight[c]
    <3>1. c # b
      BY <2>1, DownloadAssumption
    <3> QED BY <3>1, <1>5
  <2> QED BY <1>3, <1>6, <2>1, <2>2, <2>3
<1>9. StoredFree(r, have)
  BY <1>5 DEF StoredFree, PeersInv
<1> QED
  BY <1>3, <1>6, <1>7, <1>8, <1>9 DEF PeersInv, Kept, r

(* Punishing any of the peers for an orphan.                               *)
LEMMA PunishedInv ==
  ASSUME NEW s, NEW req, NEW have, PeersInv(s, req, have), NEW S
  PROVE  LET r == [s EXCEPT !.node = [q \in DOMAIN s.node |->
                     [s.node[q] EXCEPT !.fShouldBan = @ \/ q \in S]]]
         IN PeersInv(r, req, have) /\ Kept(s, r)
<1> DEFINE rn == [q \in DOMAIN s.node |-> [s.node[q] EXCEPT !.fShouldBan = @ \/ q \in S]]
           r == [s EXCEPT !.node = rn]
<1>1. PeersOK(s) /\ s \in PeerStates
  BY DEF PeersInv, PeersOK
<1>2. /\ DOMAIN s.node \subseteq Peers /\ s.node \in [DOMAIN s.node -> NodeType]
      /\ s.inFlight \in [Blocks -> Peers \cup {NoPeer}] /\ s.nQueued \in Nat
      /\ s = [node |-> s.node, inFlight |-> s.inFlight, nQueued |-> s.nQueued]
  BY <1>1, StateParts
<1>3. ASSUME NEW q \in DOMAIN s.node
      PROVE  /\ rn[q] \in NodeType /\ rn[q].vBlocksInFlight = s.node[q].vBlocksInFlight
             /\ rn[q].nBlocksInFlight = s.node[q].nBlocksInFlight
             /\ rn[q].mapAskFor = s.node[q].mapAskFor
  <2>1. PICK n \in NodeType : n = s.node[q]
    BY <1>2
  <2>2. PICK e \in BOOLEAN : e = (n.fShouldBan \/ q \in S)
    OBVIOUS
  <2>3. rn[q] = [n EXCEPT !.fShouldBan = e]
    BY <2>1, <2>2
  <2> HIDE DEF rn
  <2> QED BY <2>1, <2>3 DEF NodeType
<1>4. rn \in [DOMAIN s.node -> NodeType] /\ DOMAIN rn = DOMAIN s.node
  BY <1>3
<1> HIDE DEF rn
<1>5. r = [node |-> rn, inFlight |-> s.inFlight, nQueued |-> s.nQueued]
  BY <1>2
<1> HIDE DEF r
<1>6. r \in PeerStates /\ r.node = rn /\ r.inFlight = s.inFlight /\ r.nQueued = s.nQueued
  BY <1>2, <1>4, <1>5, StateMade
<1>7. SameLists(s, r) /\ SameAskFor(s, r)
  BY <1>3, <1>4, <1>6 DEF SameLists, SameAskFor
<1> QED
  BY <1>6, <1>7, SameListsInv DEF r, rn

-----------------------------------------------------------------------------
(* Every step keeps the invariant of the download.                         *)

(* The invariant of the next state, from its parts.                        *)
LEMMA InvPrimed ==
  ASSUME TreeInv', PeersInv(peers', requested', stored')
  PROVE  DownloadInv'
BY DEF DownloadInv, PeersInv, PeersOK, Counted, Asked, StoredFree, PeerStates, OnceListed,
       ListsAgree, CountsAgree, Queued, Lists, FromPeer, NodeType, InFlightType

(* A node starts with no peers and nothing in flight.                      *)
LEMMA DownloadInvInit == Init => DownloadInv
<1> SUFFICES ASSUME Init PROVE DownloadInv
  OBVIOUS
<1>1. /\ headers = {Genesis} \cup Failed /\ stored = headers /\ tip = Genesis /\ old = {}
      /\ peers = [node |-> <<>>, inFlight |-> [b \in Blocks |-> NoPeer], nQueued |-> 0]
      /\ requested = [p \in Peers |-> {}] /\ paused = FALSE /\ left \in Budgets
  BY Zenon DEF Init, InitDownload
<1>2. /\ peers.node = <<>> /\ peers.inFlight = [b \in Blocks |-> NoPeer] /\ peers.nQueued = 0
  BY <1>1
<1>3. DOMAIN peers.node = {}
  BY <1>2
<1>4. TreeInv
  BY <1>1, DownloadAssumption DEF TreeInv
<1>5. peers \in PeerStates
  <2>1. <<>> \in [{} -> NodeType] /\ {} \in SUBSET Peers
    OBVIOUS
  <2>2. [b \in Blocks |-> NoPeer] \in [Blocks -> Peers \cup {NoPeer}]
    OBVIOUS
  <2> QED BY <1>1, <2>1, <2>2, StateMade
<1>6. Queued(peers) = {}
  BY <1>3 DEF Queued
<1>7. CountsAgree(peers)
  BY <1>2, <1>3, <1>6, FS_EmptySet DEF CountsAgree
<1>8. OnceListed(peers) /\ ListsAgree(peers) /\ Counted(peers)
  BY <1>2, <1>3, DownloadAssumption DEF OnceListed, ListsAgree, Counted
<1>9. requested \in [Peers -> SUBSET Blocks] /\ Asked(peers, requested) /\ StoredFree(peers, stored)
  BY <1>1, <1>2, <1>6 DEF Asked, StoredFree
<1> QED
  BY <1>4, <1>5, <1>7, <1>8, <1>9 DEF DownloadInv, PeersInv, PeersOK

(* A budget is a number still after it was spent from.                     *)
LEMMA SpendIs ==
  ASSUME left \in [{"connect", "message", "pause", "tx"} -> Nat],
         NEW k \in {"connect", "message", "pause", "tx"}, Spend(k) \/ UNCHANGED left
  PROVE  left' \in [{"connect", "message", "pause", "tx"} -> Nat]
<1>1. CASE UNCHANGED left
  BY <1>1
<1>2. CASE Spend(k)
  <2>1. left[k] \in Nat /\ left[k] > 0
    BY <1>2 DEF Spend
  <2>2. left[k] - 1 \in Nat
    BY <2>1
  <2> QED BY <1>2, <2>2 DEF Spend
<1> QED
  BY <1>1, <1>2

(* Setting fDisconnect leaves the lists alone.                             *)
LEMMA ClosedIs ==
  ASSUME NEW s, PeersOK(s), NEW q \in DOMAIN s.node
  PROVE  LET r == [s EXCEPT !.node[q].fDisconnect = TRUE]
         IN r \in PeerStates /\ SameLists(s, r) /\ SameAskFor(s, r)
<1> DEFINE r == [s EXCEPT !.node[q].fDisconnect = TRUE]
<1>1. s \in PeerStates
  BY DEF PeersOK
<1>2. /\ s.node \in [DOMAIN s.node -> NodeType]
      /\ s = [node |-> s.node, inFlight |-> s.inFlight, nQueued |-> s.nQueued]
  BY <1>1, StateParts
<1>3. PICK n \in NodeType : n = s.node[q]
  BY <1>1, ListIs
<1> DEFINE m == [n EXCEPT !.fDisconnect = TRUE]
<1>4. /\ m \in NodeType /\ m.vBlocksInFlight = n.vBlocksInFlight
      /\ m.nBlocksInFlight = n.nBlocksInFlight /\ m.mapAskFor = n.mapAskFor
  BY DEF NodeType
<1>5. r = Put(s, q, m)
  <2>1. r = [s EXCEPT !.node = [s.node EXCEPT ![q] = m]]
    BY <1>2, <1>3
  <2> HIDE DEF m, r
  <2> QED BY <1>2, <2>1 DEF Put
<1> HIDE DEF m, r
<1>6. r \in PeerStates /\ SameLists(s, r) /\ SameAskFor(s, r)
  BY <1>1, <1>3, <1>4, <1>5, PutIs
<1> QED
  BY <1>6 DEF r

(* The connections.                                                        *)
LEMMA ConnectionSteps ==
  ASSUME DownloadInv, NEW p \in Peers, Connect(p) \/ SocketCloses(p)
  PROVE  DownloadInv' /\ Kept(peers, peers')
<1>1. TreeInv /\ PeersInv(peers, requested, stored)
  BY DEF DownloadInv
<1>2. CASE Connect(p)
  <2>1. /\ p \notin DOMAIN peers.node /\ Spend("connect")
        /\ peers' = [peers EXCEPT !.node = [q \in DOMAIN peers.node \cup {p} |->
                                             IF q = p THEN NewNode ELSE peers.node[q]]]
        /\ UNCHANGED <<headers, stored, tip, old, requested, paused>>
    BY <1>2 DEF Connect, Connected, chainVars
  <2>2. PeersInv(peers', requested', stored') /\ Kept(peers, peers')
    BY <1>1, <2>1, ConnectInv
  <2>3. TreeInv'
    BY <1>1, <2>1, SpendIs DEF TreeInv
  <2> QED BY <2>2, <2>3, InvPrimed
<1>3. CASE SocketCloses(p)
  <2>1. /\ p \in DOMAIN peers.node /\ peers' = [peers EXCEPT !.node[p].fDisconnect = TRUE]
        /\ UNCHANGED <<headers, stored, tip, old, requested, paused, left>>
    BY <1>3 DEF SocketCloses, Connected, chainVars
  <2>2. PeersOK(peers)
    BY <1>1 DEF PeersInv
  <2>3. peers' \in PeerStates /\ SameLists(peers, peers') /\ SameAskFor(peers, peers')
    BY <2>1, <2>2, ClosedIs
  <2>4. PeersInv(peers', requested', stored') /\ Kept(peers, peers')
    BY <1>1, <2>1, <2>3, SameListsInv
  <2>5. TreeInv'
    BY <1>1, <2>1 DEF TreeInv
  <2> QED BY <2>4, <2>5, InvPrimed
<1> QED
  BY <1>2, <1>3

(* A peer that goes takes its blocks in flight along.                      *)
LEMMA FinalizeStep ==
  ASSUME DownloadInv, NEW p \in Peers, FinalizeNode(p)
  PROVE  DownloadInv' /\ Connected' = Connected \ {p}
<1>1. TreeInv /\ PeersInv(peers, requested, stored)
  BY DEF DownloadInv
<1>2. /\ p \in DOMAIN peers.node /\ peers' = ForgetPeer(peers, p)
      /\ requested' = [requested EXCEPT ![p] = {}]
      /\ UNCHANGED <<headers, stored, tip, old, paused, left>>
  BY DEF FinalizeNode, Connected, chainVars
<1>3. PeersInv(peers', requested', stored') /\ DOMAIN peers'.node = DOMAIN peers.node \ {p}
  BY <1>1, <1>2, ForgetInv
<1>4. TreeInv'
  BY <1>1, <1>2 DEF TreeInv
<1> QED
  BY <1>3, <1>4, InvPrimed DEF Connected

(* "inv" and "headers".                                                    *)
LEMMA AnnouncementSteps ==
  ASSUME DownloadInv, NEW p \in Peers, NEW b \in Blocks,
         ReceiveInv(p, b) \/ \E i \in DOMAIN Chain[b] : ReceiveHeaders(p, b, i)
  PROVE  DownloadInv' /\ Kept(peers, peers')
<1>1. /\ TreeInv /\ PeersInv(peers, requested, stored) /\ peers \in PeerStates
      /\ headers \in SUBSET Blocks
  BY DEF DownloadInv, TreeInv, PeersInv, PeersOK
<1>2. CASE ReceiveInv(p, b)
  <2> DEFINE s == UpdateBlockAvailability(peers, p, b, headers)
  <2>1. /\ p \in DOMAIN peers.node /\ Spend("message")
        /\ UNCHANGED <<headers, stored, tip, old, paused>>
        /\ \/ /\ b \notin headers /\ s.inFlight[b] = NoPeer
              /\ s.node[p].nBlocksInFlight < MAX_BLOCKS_IN_TRANSIT_PER_PEER
              /\ \/ /\ peers' = MarkBlockAsInFlight(s, p, b, FALSE)
                    /\ requested' = [requested EXCEPT ![p] = @ \cup {b}]
                 \/ /\ peers' \in Misbehaving(MarkBlockAsInFlight(s, p, b, FALSE), p)
                    /\ UNCHANGED requested
           \/ peers' \in Misbehaving(s, p) /\ UNCHANGED requested
    BY <1>2, Zenon DEF ReceiveInv, Served, Connected, chainVars, AlreadyHave
  <2>2. s \in PeerStates /\ SameLists(peers, s) /\ SameAskFor(peers, s)
    BY <1>1, <2>1, UpdateIs
  <2>3. PeersInv(s, requested, stored) /\ p \in DOMAIN s.node /\ Kept(peers, s)
    BY <1>1, <2>1, <2>2, SameListsInv DEF SameLists
  <2> HIDE DEF s
  <2>4. PeersInv(peers', requested', stored') /\ Kept(peers, peers')
    <3>1. CASE peers' \in Misbehaving(s, p) /\ UNCHANGED requested
      <4>1. PeersInv(peers', requested', stored') /\ Kept(s, peers')
        BY <3>1, <2>1, <2>3, MisbehavingInv
      <4> QED BY <2>3, <4>1 DEF Kept
    <3>2. CASE /\ b \notin headers /\ s.inFlight[b] = NoPeer
               /\ s.node[p].nBlocksInFlight < MAX_BLOCKS_IN_TRANSIT_PER_PEER
               /\ \/ /\ peers' = MarkBlockAsInFlight(s, p, b, FALSE)
                     /\ requested' = [requested EXCEPT ![p] = @ \cup {b}]
                  \/ /\ peers' \in Misbehaving(MarkBlockAsInFlight(s, p, b, FALSE), p)
                     /\ UNCHANGED requested
      <4>1. b \in Blocks \ stored
        BY <1>1, <3>2 DEF TreeInv
      <4>2. requested' \in {requested, [requested EXCEPT ![p] = @ \cup {b}]}
        BY <3>2
      <4>3. PICK m : m = MarkBlockAsInFlight(s, p, b, FALSE)
        OBVIOUS
      <4>4. PeersInv(m, requested', stored) /\ Kept(s, m)
        <5>1. PICK rr : /\ rr = requested'
                        /\ rr = requested \/ rr = [requested EXCEPT ![p] = @ \cup {b}]
          BY <4>2
        <5>2. /\ PeersInv(s, requested, stored) /\ p \in DOMAIN s.node /\ s.inFlight[b] = NoPeer
              /\ s.node[p].nBlocksInFlight < MAX_BLOCKS_IN_TRANSIT_PER_PEER
          BY <2>3, <3>2
        <5>3. /\ PeersInv(MarkBlockAsInFlight(s, p, b, FALSE), rr, stored)
              /\ Kept(s, MarkBlockAsInFlight(s, p, b, FALSE))
          BY <4>1, <5>1, <5>2, MarkInv, Zenon
        <5> QED BY <4>3, <5>1, <5>3
      <4>5. p \in DOMAIN m.node /\ Kept(peers, m)
        BY <2>3, <4>4 DEF Kept
      <4>6. peers' = m \/ peers' \in Misbehaving(m, p)
        BY <3>2, <4>3
      <4>7. PeersInv(peers', requested', stored) /\ (peers' = m \/ Kept(m, peers'))
        BY <4>4, <4>5, <4>6, MisbehavingInv
      <4>8. stored' = stored
        BY <2>1
      <4> QED BY <4>5, <4>7, <4>8 DEF Kept
    <3> QED BY <2>1, <3>1, <3>2
  <2>5. TreeInv'
    BY <1>1, <2>1, SpendIs DEF TreeInv
  <2> QED BY <2>4, <2>5, InvPrimed
<1>3. ASSUME NEW i \in DOMAIN Chain[b], ReceiveHeaders(p, b, i)
      PROVE  DownloadInv' /\ Kept(peers, peers')
  <2>1. /\ p \in DOMAIN peers.node /\ Spend("message")
        /\ UNCHANGED <<stored, tip, old, requested, paused>>
        /\ \/ peers' \in Misbehaving(peers, p) /\ UNCHANGED headers
           \/ /\ headers' = headers \cup ToSet(Chain[b])
              /\ peers' = UpdateBlockAvailability(peers, p, b, headers')
    BY <1>3, Zenon DEF ReceiveHeaders, Served, Connected
  <2>2. ToSet(Chain[b]) \subseteq Blocks
    BY ChainIs DEF ToSet
  <2>3. headers' \in SUBSET Blocks /\ headers \subseteq headers'
    BY <1>1, <2>1, <2>2
  <2>4. TreeInv'
    BY <1>1, <2>1, <2>3, SpendIs DEF TreeInv
  <2>5. CASE peers' \in Misbehaving(peers, p)
    <3>1. PeersInv(peers', requested', stored') /\ Kept(peers, peers')
      BY <1>1, <2>1, <2>5, MisbehavingInv
    <3> QED BY <2>4, <3>1, InvPrimed
  <2>6. CASE peers' = UpdateBlockAvailability(peers, p, b, headers')
    <3>1. peers' \in PeerStates /\ SameLists(peers, peers') /\ SameAskFor(peers, peers')
      BY <1>1, <2>1, <2>3, <2>6, UpdateIs
    <3>2. PeersInv(peers', requested', stored') /\ Kept(peers, peers')
      BY <1>1, <2>1, <3>1, SameListsInv
    <3> QED BY <2>4, <3>2, InvPrimed
  <2> QED BY <2>1, <2>5, <2>6
<1> QED
  BY <1>2, <1>3

(* "block".                                                                *)
LEMMA BlockStep ==
  ASSUME DownloadInv, NEW p \in Peers, NEW b \in Blocks, ReceiveBlock(p, b)
  PROVE  DownloadInv' /\ Kept(peers, peers')
<1>1. TreeInv /\ PeersInv(peers, requested, stored) /\ p \in DOMAIN peers.node
  BY DEF DownloadInv, ReceiveBlock, Served, Connected
<1> DEFINE s == MarkBlockAsReceived(peers, b)
<1>2. /\ Spend("message") \/ UNCHANGED left
      /\ requested' = [requested EXCEPT ![p] = @ \ {b}]
      /\ UNCHANGED <<old, paused>>
      /\ \/ peers' = AskFor(peers, p, b) /\ UNCHANGED <<headers, stored, tip>>
         \/ /\ b \in BadSigned /\ peers' \in Misbehaving(peers, p)
            /\ UNCHANGED <<headers, stored, tip>>
         \/ (peers' = s \/ peers' \in Misbehaving(s, p)) /\ UNCHANGED <<headers, stored, tip>>
         \/ /\ peers' = s /\ headers' = headers \cup {b} /\ stored' = stored \cup {b}
            /\ tip' \in NextTip
  BY Zenon DEF ReceiveBlock, chainVars
<1>3. left' \in [{"connect", "message", "pause", "tx"} -> Nat]
  BY <1>1, <1>2, SpendIs DEF TreeInv
<1>4. PeersInv(s, requested', stored \cup {b})
  BY <1>1, <1>2, ReceivedInv
<1>5. Kept(peers, s) /\ p \in DOMAIN s.node
  <2>1. Kept(peers, s)
    BY <1>1, ReceivedInv
  <2> QED BY <1>1, <2>1 DEF Kept
<1> HIDE DEF s
<1>6. CASE peers' = AskFor(peers, p, b) /\ UNCHANGED <<headers, stored, tip>>
  <2>1. PeersInv(peers', requested', stored') /\ Kept(peers, peers')
    BY <1>1, <1>2, <1>6, AskForInv
  <2>2. TreeInv'
    BY <1>1, <1>2, <1>3, <1>6 DEF TreeInv
  <2> QED BY <2>1, <2>2, InvPrimed
<1>7. CASE (peers' = s \/ peers' \in Misbehaving(s, p)) /\ UNCHANGED <<headers, stored, tip>>
  <2>1. PeersInv(s, requested', stored)
    BY <1>4, FewerStored
  <2>2. PeersInv(peers', requested', stored') /\ Kept(peers, peers')
    <3>1. PeersInv(peers', requested', stored') /\ (peers' = s \/ Kept(s, peers'))
      BY <1>5, <1>7, <2>1, MisbehavingInv
    <3> QED BY <1>5, <3>1 DEF Kept
  <2>3. TreeInv'
    BY <1>1, <1>2, <1>3, <1>7 DEF TreeInv
  <2> QED BY <2>2, <2>3, InvPrimed
<1>8. CASE /\ peers' = s /\ headers' = headers \cup {b} /\ stored' = stored \cup {b}
           /\ tip' \in NextTip
  <2>1. PeersInv(peers', requested', stored') /\ Kept(peers, peers')
    BY <1>4, <1>5, <1>8
  <2>2. tip' \in stored'
    <3>1. ASSUME NEW c \in Linked(stored') PROVE c \in stored'
      BY <3>1 DEF Linked
    <3>2. tip' \in Linked(stored') \/ tip' = tip
      BY <1>8 DEF NextTip, Tips
    <3> QED BY <1>1, <1>8, <3>1, <3>2 DEF TreeInv
  <2>3. TreeInv'
    BY <1>1, <1>2, <1>3, <1>8, <2>2 DEF TreeInv
  <2> QED BY <2>1, <2>3, InvPrimed
<1>9. CASE /\ b \in BadSigned /\ peers' \in Misbehaving(peers, p)
           /\ UNCHANGED <<headers, stored, tip>>
  <2>1. PeersInv(peers, requested', stored)
    BY <1>1, <1>2, <1>9, DroppedInv
  <2>2. PeersInv(peers', requested', stored') /\ Kept(peers, peers')
    BY <1>1, <1>9, <2>1, MisbehavingInv
  <2>3. TreeInv'
    BY <1>1, <1>2, <1>3, <1>9 DEF TreeInv
  <2> QED BY <2>2, <2>3, InvPrimed
<1> QED
  BY <1>2, <1>6, <1>7, <1>8, <1>9

(* The other steps of a peer, and "tx".                                    *)
LEMMA PeerStep ==
  ASSUME DownloadInv, NEW p \in Peers, PeerMoves(p) \/ \E t \in Txs : Tx(p, t)
  PROVE  DownloadInv' /\ Kept(peers, peers')
<1>1. TreeInv /\ PeersInv(peers, requested, stored)
  BY DEF DownloadInv
<1>2. ASSUME NEW stalled \in BOOLEAN, NEW timeout \in BOOLEAN, SendMessages(p, stalled, timeout)
      PROVE  DownloadInv' /\ Kept(peers, peers')
  <2> DEFINE z == Sent(p, stalled, timeout)
  <2>1. /\ p \in Connected /\ peers' = z.peers /\ requested' = z.requested
        /\ UNCHANGED <<headers, stored, tip, old, paused, left>>
    BY <1>2, Zenon DEF SendMessages, Served, chainVars
  <2>2. PeersInv(z.peers, z.requested, stored) /\ Kept(peers, z.peers)
    BY <2>1, SentIs
  <2> HIDE DEF z
  <2>3. PeersInv(peers', requested', stored') /\ Kept(peers, peers')
    BY <2>1, <2>2
  <2>4. TreeInv'
    BY <1>1, <2>1 DEF TreeInv
  <2> QED BY <2>3, <2>4, InvPrimed
<1>3. ASSUME NEW t \in Txs, Tx(p, t) PROVE DownloadInv' /\ Kept(peers, peers')
  <2>1. PICK S : /\ peers' = [peers EXCEPT !.node = [q \in DOMAIN peers.node |->
                                [peers.node[q] EXCEPT !.fShouldBan = @ \/ q \in S]]]
                 /\ Spend("tx") /\ UNCHANGED <<headers, stored, tip, old, requested, paused>>
    BY <1>3, Zenon DEF Tx, chainVars, Connected
  <2>2. PeersInv(peers', requested', stored') /\ Kept(peers, peers')
    BY <1>1, <2>1, PunishedInv
  <2>3. TreeInv'
    BY <1>1, <2>1, SpendIs DEF TreeInv
  <2> QED BY <2>2, <2>3, InvPrimed
<1> QED
  BY <1>2, <1>3, ConnectionSteps, AnnouncementSteps DEF PeerMoves

(* Every step keeps the invariant of the download.                         *)
LEMMA DownloadInvStep == DownloadInv /\ [Next]_vars => DownloadInv'
<1> SUFFICES ASSUME DownloadInv, [Next]_vars PROVE DownloadInv'
  OBVIOUS
<1>1. TreeInv /\ PeersInv(peers, requested, stored)
  BY DEF DownloadInv
<1>2. CASE UNCHANGED vars
  <2>1. UNCHANGED <<headers, stored, tip, old, peers, requested, paused, left>>
    BY <1>2 DEF vars, downloadVars, chainVars
  <2>2. TreeInv' /\ PeersInv(peers', requested', stored')
    BY <1>1, <2>1 DEF TreeInv
  <2> QED BY <2>2, InvPrimed
<1>3. CASE TimePasses
  <2>1. UNCHANGED <<headers, stored, tip, peers, requested>>
    BY <1>3 DEF TimePasses, BlockAges, Pause, Resume, chainVars
  <2>2. old' \subseteq Blocks
    BY <1>1, <1>3, DownloadAssumption DEF TimePasses, BlockAges, Pause, Resume, TreeInv
  <2>3. paused' \in BOOLEAN
    BY <1>1, <1>3 DEF TimePasses, BlockAges, Pause, Resume, TreeInv
  <2>4. Spend("pause") \/ UNCHANGED left
    BY <1>3 DEF TimePasses, BlockAges, Pause, Resume
  <2>5. TreeInv'
    BY <1>1, <2>1, <2>2, <2>3, <2>4, SpendIs DEF TreeInv
  <2>6. PeersInv(peers', requested', stored')
    BY <1>1, <2>1
  <2> QED BY <2>5, <2>6, InvPrimed
<1>4. ASSUME NEW p \in Peers, Finalize(p) PROVE DownloadInv'
  BY <1>4, FinalizeStep DEF Finalize
<1>5. ASSUME NEW p \in Peers, NEW b \in Blocks, Block(p, b) PROVE DownloadInv'
  BY <1>5, BlockStep DEF Block
<1> QED
  BY <1>2, <1>3, <1>4, <1>5, PeerStep DEF Next

-----------------------------------------------------------------------------
(* What the invariant says of the run's properties.                        *)

(* The hashes in the list of a peer.                                       *)
LEMMA HashesAre ==
  ASSUME peers \in PeerStates, NEW p \in Connected
  PROVE  /\ DOMAIN HashesOf(p) = 1..Len(FromPeer(peers, p))
         /\ \A i \in DOMAIN HashesOf(p) : HashesOf(p)[i] = FromPeer(peers, p)[i].hash
         /\ \A b : b \in ToSet(HashesOf(p)) <=> Lists(peers, p, b)
<1>1. FromPeer(peers, p) \in Seq(InFlightType)
  BY ListIs DEF Connected
<1>2. DOMAIN FromPeer(peers, p) = 1..Len(FromPeer(peers, p))
  BY <1>1
<1>3. /\ DOMAIN HashesOf(p) = 1..Len(FromPeer(peers, p))
      /\ \A i \in DOMAIN HashesOf(p) : HashesOf(p)[i] = FromPeer(peers, p)[i].hash
  BY <1>2 DEF HashesOf
<1>4. ToSet(HashesOf(p)) = {HashesOf(p)[i] : i \in DOMAIN HashesOf(p)}
  BY Zenon DEF ToSet
<1> QED
  BY <1>3, <1>4 DEF Lists

(* The map and the lists agree.                                            *)
LEMMA AgreeFromInv == DownloadInv => InFlightAgree
<1> SUFFICES ASSUME DownloadInv PROVE InFlightAgree
  OBVIOUS
<1>1. /\ PeersOK(peers) /\ peers \in PeerStates /\ StoredFree(peers, stored)
      /\ stored \subseteq Blocks
  BY DEF DownloadInv, PeersInv, PeersOK, TreeInv
<1>2. ASSUME NEW p \in Connected PROVE IsInjective(HashesOf(p))
  <2>1. /\ DOMAIN HashesOf(p) = 1..Len(FromPeer(peers, p))
        /\ \A i \in DOMAIN HashesOf(p) : HashesOf(p)[i] = FromPeer(peers, p)[i].hash
    BY <1>1, HashesAre
  <2> QED BY <1>1, <2>1 DEF IsInjective, PeersOK, OnceListed, Connected
<1>3. ASSUME NEW b \in Blocks, NEW p \in Peers
      PROVE  peers.inFlight[b] = p <=> p \in Connected /\ b \in ToSet(HashesOf(p))
  <2>1. p \in Connected => (b \in ToSet(HashesOf(p)) <=> Lists(peers, p, b))
    BY <1>1, HashesAre
  <2> QED BY <1>1, <2>1 DEF PeersOK, ListsAgree, Connected
<1> QED
  BY <1>1, <1>2, <1>3 DEF InFlightAgree, StoredFree

(* The counts cover the lists.                                             *)
LEMMA CountsFromInv == DownloadInv => CountsCover
<1> SUFFICES ASSUME DownloadInv PROVE CountsCover
  OBVIOUS
<1>1. PeersOK(peers) /\ Counted(peers) /\ peers \in PeerStates
  BY DEF DownloadInv, PeersInv, PeersOK
<1>2. UNION {Validated(p) : p \in Connected} = Queued(peers)
  <2>1. ASSUME NEW p \in Connected, NEW b \in Blocks
        PROVE  b \in Validated(p) <=> \E i \in 1..Len(FromPeer(peers, p)) :
                 FromPeer(peers, p)[i].hash = b /\ FromPeer(peers, p)[i].fValidatedHeaders
    <3>1. FromPeer(peers, p) \in Seq(InFlightType)
      BY <1>1, ListIs DEF Connected
    <3>2. DOMAIN FromPeer(peers, p) = 1..Len(FromPeer(peers, p))
      BY <3>1
    <3>3. ToSet(FromPeer(peers, p)) = {FromPeer(peers, p)[i] : i \in 1..Len(FromPeer(peers, p))}
      BY <3>2, Zenon DEF ToSet
    <3> QED BY <3>3, Zenon DEF Validated
  <2>2. \A p : Validated(p) \subseteq Blocks
    BY DEF Validated
  <2> DEFINE V(p) == Validated(p)
             U == UNION {V(p) : p \in Connected}
  <2>3. U \subseteq Blocks /\ \A b \in Blocks : b \in U <=> \E p \in Connected : b \in V(p)
    BY <2>2
  <2>4. ASSUME NEW b \in Blocks PROVE b \in Queued(peers) <=> \E p \in Connected : b \in V(p)
    BY <2>1 DEF Queued, Connected
  <2>5. Queued(peers) \subseteq Blocks
    BY DEF Queued
  <2> HIDE DEF U, V
  <2>6. U = Queued(peers)
    BY <2>3, <2>4, <2>5
  <2> QED BY <2>6 DEF U, V
<1> QED
  BY <1>1, <1>2 DEF CountsCover, PeersOK, CountsAgree, Counted, Connected

(* What SendMessages marked as in flight was asked for.                    *)
LEMMA AskedFromInv == DownloadInv => AskedInFlight
<1> SUFFICES ASSUME DownloadInv, NEW p \in Connected, NEW q \in ToSet(FromPeer(peers, p)),
                    q.fValidatedHeaders, q.hash \notin BadSigned
             PROVE  Awaited(p, q.hash)
  BY DEF AskedInFlight
<1>1. PeersOK(peers) /\ Asked(peers, requested) /\ peers \in PeerStates
  BY DEF DownloadInv, PeersInv, PeersOK
<1>2. PICK i \in 1..Len(FromPeer(peers, p)) : q = FromPeer(peers, p)[i]
  <2>1. FromPeer(peers, p) \in Seq(InFlightType)
    BY <1>1, ListIs DEF Connected
  <2>2. DOMAIN FromPeer(peers, p) = 1..Len(FromPeer(peers, p))
    BY <2>1
  <2> QED BY <2>2 DEF ToSet
<1>3. q.hash \in Blocks /\ p \in Peers /\ p # NoPeer
  BY <1>1, <1>2, ListIs DEF Connected
<1>4. q.hash \in Queued(peers) /\ Lists(peers, p, q.hash)
  BY <1>2, <1>3 DEF Queued, Lists, Connected
<1>5. peers.inFlight[q.hash] = p
  BY <1>1, <1>3, <1>4 DEF PeersOK, ListsAgree, Connected
<1> QED
  BY <1>1, <1>3, <1>4, <1>5 DEF Asked, Awaited

(* mapBlocksInFlight names the elements of the peers' lists, each once,    *)
(* and no stored block, through disconnections, time-outs and pauses.      *)
THEOREM InFlightAlwaysAgrees == Spec => []InFlightAgree
BY AgreeFromInv, DownloadInvInit, DownloadInvStep, PTL DEF Spec

(* The counts never fall short of the lists, and no peer is asked for more *)
(* than MAX_BLOCKS_IN_TRANSIT_PER_PEER.                                    *)
THEOREM CountsAlwaysCover == Spec => []CountsCover
BY CountsFromInv, DownloadInvInit, DownloadInvStep, PTL DEF Spec

(* A block that SendMessages marked as in flight is awaited, or will be    *)
(* asked again, unless ProcessNewBlock may have dropped it for its signer: *)
(* pauses, refused blocks, full send buffers and time-outs included.       *)
THEOREM InFlightAlwaysAsked == Spec => []AskedInFlight
BY AskedFromInv, DownloadInvInit, DownloadInvStep, PTL DEF Spec
-----------------------------------------------------------------------------
(* The types of the orphans and of the memory pool.                        *)

MapsTyped(s, D) ==
  /\ s.from \in [Orphans(s) -> D]
  /\ s.byPrev \in [DOMAIN s.byPrev -> SUBSET Txs]

TxInv ==
  /\ MapsTyped(orphans, Connected)
  /\ pool \subseteq Txs /\ pool \cap MinedAt(tip) = {}
  /\ Orphans(orphans) \cap MinedAt(tip) = {}

(* The invariant of the next state, from its parts.                        *)
LEMMA TxInvPrimed ==
  ASSUME MapsTyped(orphans', Connected'), pool' \subseteq Txs, pool' \cap MinedAt(tip') = {},
         Orphans(orphans') \cap MinedAt(tip') = {}
  PROVE  TxInv'
BY DEF TxInv, MapsTyped, Orphans, MinedAt, Connected

(* Erasing orphans keeps the types, and the senders of the others.         *)
LEMMA EraseTyped ==
  ASSUME NEW s, NEW D, MapsTyped(s, D), NEW S, NEW C,
         \A o \in Orphans(s) \ S : s.from[o] \in C
  PROVE  LET e == EraseOrphanTx(s, S)
         IN /\ MapsTyped(e, C) /\ Orphans(e) = Orphans(s) \ S
            /\ \A o \in Orphans(e) : e.from[o] = s.from[o]
<1> DEFINE e == EraseOrphanTx(s, S)
           shorter == [u \in DOMAIN s.byPrev |-> s.byPrev[u] \ S]
           f == Restrict(s.from, Orphans(s) \ S)
           b == Restrict(shorter, {u \in DOMAIN shorter : shorter[u] # {}})
<1>1. e = [from |-> f, byPrev |-> b]
  BY Zenon DEF EraseOrphanTx
<1>2. f = [x \in Orphans(s) \ S |-> s.from[x]]
  BY Zenon DEF Restrict
<1>3. shorter \in [DOMAIN s.byPrev -> SUBSET Txs]
  BY DEF MapsTyped
<1>4. b \in [DOMAIN b -> SUBSET Txs]
  <2> HIDE DEF shorter
  <2>1. b = [u \in {u \in DOMAIN shorter : shorter[u] # {}} |-> shorter[u]]
    BY Zenon DEF Restrict
  <2> HIDE DEF b
  <2> QED BY <1>3, <2>1
<1> HIDE DEF f, b
<1>5. e.from = f /\ e.byPrev = b
  BY <1>1
<1> HIDE DEF e
<1>6. Orphans(e) = Orphans(s) \ S /\ e.from \in [Orphans(e) -> C]
  BY <1>2, <1>5 DEF Orphans
<1>7. \A o \in Orphans(e) : e.from[o] = s.from[o]
  BY <1>2, <1>5, <1>6
<1> QED
  BY <1>4, <1>5, <1>6, <1>7 DEF MapsTyped, e

(* Adding an orphan keeps the types.                                       *)
LEMMA AddTyped ==
  ASSUME NEW s, NEW D, MapsTyped(s, D), NEW t \in Txs, NEW peer \in D
  PROVE  MapsTyped(AddOrphanTx(s, t, peer), D)
<1>1. CASE t \in Orphans(s) \cup LargeTxs
  BY <1>1 DEF AddOrphanTx
<1>2. CASE t \notin Orphans(s) \cup LargeTxs
  <2> DEFINE a == AddOrphanTx(s, t, peer)
             f == [u \in Orphans(s) \cup {t} |-> IF u = t THEN peer ELSE s.from[u]]
             b == [u \in DOMAIN s.byPrev \cup Parents[t] |->
                     IF u \in Parents[t] THEN Prevs(s, u) \cup {t} ELSE s.byPrev[u]]
  <2>1. a = [from |-> f, byPrev |-> b]
    BY <1>2, Zenon DEF AddOrphanTx
  <2>2. f \in [Orphans(s) \cup {t} -> D] /\ DOMAIN f = Orphans(s) \cup {t}
    BY DEF MapsTyped
  <2>3. \A u : Prevs(s, u) \subseteq Txs
    BY DEF Prevs, MapsTyped
  <2>4. \A u \in DOMAIN s.byPrev : s.byPrev[u] \subseteq Txs
    BY DEF MapsTyped
  <2>5. b \in [DOMAIN b -> SUBSET Txs]
    BY <2>3, <2>4
  <2> HIDE DEF f, b
  <2>6. a.from = f /\ a.byPrev = b
    BY <2>1
  <2> HIDE DEF a
  <2> QED BY <2>2, <2>5, <2>6 DEF MapsTyped, Orphans, a
<1> QED
  BY <1>1, <1>2

(* Evicting orphans keeps the types.                                       *)
LEMMA LimitTyped ==
  ASSUME NEW s, NEW D, MapsTyped(s, D), NEW r \in LimitOrphanTxSize(s)
  PROVE  MapsTyped(r, D) /\ Orphans(r) \subseteq Orphans(s)
<1>1. CASE r = s
  BY <1>1
<1>2. CASE \E S : r = EraseOrphanTx(s, S)
  <2>1. \A o \in Orphans(s) : s.from[o] \in D
    BY DEF MapsTyped
  <2> QED BY <1>2, <2>1, EraseTyped
<1> QED
  BY <1>1, <1>2 DEF LimitOrphanTxSize

(* The transactions of a chain are transactions.                           *)
LEMMA MinedIs ==
  ASSUME NEW b \in Blocks
  PROVE  MinedAt(b) \subseteq Txs
<1>1. \A i \in DOMAIN Chain[b] : Chain[b][i] \in Blocks
  BY ChainIs
<1> QED
  BY <1>1, TxsOfAssumption DEF MinedAt

(* A node starts without transactions.                                     *)
LEMMA TxInvInit == Init => TxInv
<1> SUFFICES ASSUME Init PROVE TxInv
  OBVIOUS
<1>1. /\ orphans = [from |-> <<>>, byPrev |-> <<>>] /\ pool = {}
  BY DEF Init, InitOrphans
<1>2. /\ orphans.from = <<>> /\ orphans.byPrev = <<>> /\ Orphans(orphans) = {}
  BY <1>1 DEF Orphans
<1> QED
  BY <1>1, <1>2 DEF TxInv, MapsTyped

NodeInv == OrphanInv /\ DownloadInv /\ TxInv

(* What the "tx" handler reads.                                            *)
LEMMA TxReads ==
  ASSUME NodeInv
  PROVE  /\ MapsOK(orphans) /\ MapsTyped(orphans, Connected) /\ Connected \subseteq Peers
         /\ Orphans(orphans) \subseteq Txs /\ pool \subseteq Txs /\ tip \in Blocks
         /\ MinedAt(tip) \subseteq Txs
<1>1. Connected \subseteq Peers
  BY StateParts DEF NodeInv, DownloadInv, PeersInv, PeersOK, Connected
<1>2. MapsAgree(orphans) /\ MapsTyped(orphans, Connected) /\ pool \subseteq Txs
  BY DEF NodeInv, OrphanInv, TxInv
<1>3. tip \in Blocks
  BY DEF NodeInv, DownloadInv, TreeInv
<1>4. orphans.from \in [Orphans(orphans) -> Peers]
  BY <1>1, <1>2 DEF MapsTyped
<1> QED
  BY <1>1, <1>2, <1>3, <1>4, MinedIs DEF MapsOK, MapsAgree

(* A transaction that is accepted: what it completes goes along.           *)
LEMMA AcceptedTx ==
  ASSUME NodeInv, NEW t \in Txs, t \notin MinedAt(tip),
         pool' = ProcessOrphans(orphans, MinedAt(tip), t).pool,
         orphans' = EraseOrphanTx(orphans, ProcessOrphans(orphans, MinedAt(tip), t).erase)
  PROVE  /\ pool' \subseteq Txs \ MinedAt(tip)
         /\ MapsTyped(orphans', Connected) /\ Orphans(orphans') \subseteq Orphans(orphans)
         /\ \A o \in Orphans(orphans') :
              Parents[o] \cap (pool' \ pool) # {} /\ Parents[o] \subseteq pool' \cup MinedAt(tip)
                => \E x \in Orphans(orphans) \ Orphans(orphans') :
                     x \in DoSTxs /\ orphans.from[x] = orphans'.from[o]
<1> DEFINE mined == MinedAt(tip)
           r == ProcessOrphans(orphans, mined, t)
<1>1. /\ MapsOK(orphans) /\ MapsTyped(orphans, Connected) /\ pool \subseteq Txs
      /\ Orphans(orphans) \subseteq Txs
  BY TxReads
<1>2. Grown(orphans, pool, t, r) /\ \A o \in Orphans(orphans) : ~Pending(orphans, mined, r, o)
  BY <1>1, ProcessIs
<1>3. pool' = r.pool /\ orphans' = EraseOrphanTx(orphans, r.erase)
  OBVIOUS
<1>4. pool \cap mined = {} /\ Orphans(orphans) \cap mined = {} /\ t \notin mined
  BY DEF NodeInv, TxInv
<1> HIDE DEF r, mined
<1>5. pool' \subseteq Txs \ mined
  BY <1>1, <1>2, <1>3, <1>4 DEF Grown
<1>6. /\ MapsTyped(orphans', Connected) /\ Orphans(orphans') = Orphans(orphans) \ r.erase
      /\ \A o \in Orphans(orphans') : orphans'.from[o] = orphans.from[o]
  <2>1. \A o \in Orphans(orphans) \ r.erase : orphans.from[o] \in Connected
    BY <1>1 DEF MapsTyped
  <2> QED BY <1>1, <1>3, <2>1, EraseTyped
<1>7. ASSUME NEW o \in Orphans(orphans'), Parents[o] \cap (pool' \ pool) # {},
             Parents[o] \subseteq pool' \cup mined
      PROVE  \E x \in Orphans(orphans) \ Orphans(orphans') :
               x \in DoSTxs /\ orphans.from[x] = orphans'.from[o]
  <2>1. o \in Orphans(orphans) /\ o \notin r.erase /\ orphans'.from[o] = orphans.from[o]
    BY <1>6, <1>7
  <2>2. PICK u : u \in Parents[o] /\ u \in r.pool /\ u \notin pool
    BY <1>3, <1>7
  <2>3. \E k \in 1..Len(r.work) : r.work[k] \in Parents[o]
    BY <1>2, <2>2 DEF Grown, InWork
  <2>4. ~Pending(orphans, mined, r, o)
    BY <1>2, <2>1
  <2>5. orphans.from[o] \in r.misbehaving
    BY <1>3, <1>7, <2>1, <2>3, <2>4 DEF Pending
  <2>6. PICK x \in r.erase : x \in DoSTxs /\ orphans.from[x] = orphans.from[o]
    BY <1>2, <2>5 DEF Grown
  <2>7. x \in Orphans(orphans) \ Orphans(orphans')
    BY <1>2, <1>6, <2>6 DEF Grown
  <2> QED BY <2>1, <2>6, <2>7
<1> QED
  BY <1>5, <1>6, <1>7 DEF mined

(* "tx", one case for each outcome.                                        *)
LEMMA TxCases ==
  ASSUME NodeInv, NEW p \in Peers, NEW t \in Txs, Tx(p, t)
  PROVE  /\ MapsTyped(orphans', Connected) /\ tip' = tip
         /\ pool' \subseteq Txs \ MinedAt(tip) /\ Orphans(orphans') \cap MinedAt(tip) = {}
         /\ \/ pool' = pool
            \/ /\ pool' = ProcessOrphans(orphans, MinedAt(tip), t).pool
               /\ orphans' = EraseOrphanTx(orphans, ProcessOrphans(orphans, MinedAt(tip), t).erase)
               /\ t \notin MinedAt(tip)
<1> DEFINE mined == MinedAt(tip)
<1>1. /\ p \in Connected /\ tip' = tip /\ t \notin mined
      /\ \/ /\ orphans' \in LimitOrphanTxSize(AddOrphanTx(orphans, t, p)) /\ pool' = pool
         \/ UNCHANGED <<orphans, pool>>
         \/ /\ pool' = ProcessOrphans(orphans, mined, t).pool
            /\ orphans' = EraseOrphanTx(orphans, ProcessOrphans(orphans, mined, t).erase)
  BY Zenon DEF Tx, ReceiveTx, Served, chainVars, orphanVars
<1>2. /\ MapsTyped(orphans, Connected) /\ pool \subseteq Txs \ mined
      /\ Orphans(orphans) \cap mined = {} /\ MapsAgree(orphans)
  BY DEF NodeInv, TxInv, OrphanInv
<1>3. CASE orphans' \in LimitOrphanTxSize(AddOrphanTx(orphans, t, p)) /\ pool' = pool
  <2>1. MapsTyped(AddOrphanTx(orphans, t, p), Connected)
    BY <1>1, <1>2, AddTyped
  <2>2. Orphans(AddOrphanTx(orphans, t, p)) \subseteq Orphans(orphans) \cup {t}
    BY <1>2, AddAgrees
  <2>3. MapsTyped(orphans', Connected)
        /\ Orphans(orphans') \subseteq Orphans(AddOrphanTx(orphans, t, p))
    BY <1>3, <2>1, LimitTyped
  <2> QED BY <1>1, <1>2, <1>3, <2>2, <2>3
<1>4. CASE UNCHANGED <<orphans, pool>>
  BY <1>1, <1>2, <1>4
<1>5. CASE /\ pool' = ProcessOrphans(orphans, mined, t).pool
           /\ orphans' = EraseOrphanTx(orphans, ProcessOrphans(orphans, mined, t).erase)
  <2>1. /\ pool' \subseteq Txs \ mined /\ MapsTyped(orphans', Connected)
        /\ Orphans(orphans') \subseteq Orphans(orphans)
    BY <1>1, <1>5, AcceptedTx
  <2> QED BY <1>1, <1>2, <1>5, <2>1
<1> QED
  BY <1>1, <1>3, <1>4, <1>5

(* The maps stay typed when peers come.                                    *)
LEMMA TypedMore ==
  ASSUME NEW s, NEW D, NEW C, MapsTyped(s, D), D \subseteq C
  PROVE  MapsTyped(s, C)
BY DEF MapsTyped

(* Every step keeps the types of the orphans and the memory pool.          *)
LEMMA TxInvStep == NodeInv /\ [Next]_vars => TxInv'
<1> SUFFICES ASSUME NodeInv, [Next]_vars PROVE TxInv'
  OBVIOUS
<1>1. /\ MapsTyped(orphans, Connected) /\ pool \subseteq Txs /\ pool \cap MinedAt(tip) = {}
      /\ Orphans(orphans) \cap MinedAt(tip) = {} /\ DownloadInv
  BY DEF NodeInv, TxInv
<1>2. ASSUME UNCHANGED <<orphans, pool, tip>>, Connected \subseteq Connected' PROVE TxInv'
  <2>1. MapsTyped(orphans', Connected')
    BY <1>1, <1>2, TypedMore
  <2> QED BY <1>1, <1>2, <2>1, TxInvPrimed
<1>3. CASE UNCHANGED vars
  BY <1>2, <1>3 DEF vars, downloadVars, chainVars, orphanVars, Connected
<1>4. CASE TimePasses /\ UNCHANGED orphanVars
  BY <1>2, <1>4 DEF TimePasses, BlockAges, Pause, Resume, chainVars, orphanVars, Connected
<1>5. ASSUME NEW p \in Peers, PeerMoves(p), UNCHANGED orphanVars PROVE TxInv'
  <2>1. Connected \subseteq Connected'
    BY <1>1, <1>5, PeerStep DEF Kept, Connected
  <2>2. tip' = tip
    BY <1>5, Zenon DEF PeerMoves, Connect, SocketCloses, ReceiveInv, ReceiveHeaders, SendMessages,
                chainVars
  <2> QED BY <1>2, <1>5, <2>1, <2>2 DEF orphanVars
<1>6. ASSUME NEW p \in Peers, Finalize(p) PROVE TxInv'
  <2>1. /\ Connected' = Connected \ {p} /\ tip' = tip /\ pool' = pool
        /\ orphans' = EraseOrphanTx(orphans, {t \in Orphans(orphans) : orphans.from[t] = p})
    BY <1>1, <1>6, FinalizeStep DEF Finalize, FinalizeNode, EraseOrphansFor, chainVars
  <2> DEFINE S == {t \in Orphans(orphans) : orphans.from[t] = p}
  <2>2. \A o \in Orphans(orphans) \ S : orphans.from[o] \in Connected \ {p}
    BY <1>1 DEF MapsTyped
  <2> HIDE DEF S
  <2>3. MapsTyped(orphans', Connected \ {p}) /\ Orphans(orphans') = Orphans(orphans) \ S
    BY <1>1, <2>1, <2>2, EraseTyped DEF S
  <2> QED BY <1>1, <2>1, <2>3, TxInvPrimed
<1>7. ASSUME NEW p \in Peers, NEW b \in Blocks, Block(p, b) PROVE TxInv'
  <2>1. DownloadInv' /\ Connected \subseteq Connected'
    BY <1>1, <1>7, BlockStep DEF Block, Kept, Connected
  <2>2. tip \in Blocks /\ tip' \in Blocks
    BY <1>1, <2>1 DEF DownloadInv, TreeInv
  <2>3. MinedAt(tip) \subseteq Txs
    BY <2>2, MinedIs
  <2> DEFINE S == MinedAt(tip') \ MinedAt(tip)
  <2>4. /\ orphans' = EraseOrphanTx(orphans, S)
        /\ pool' = (pool \cup MinedAt(tip)) \ MinedAt(tip')
    BY <1>7 DEF Block, ConnectTxs
  <2>5. \A o \in Orphans(orphans) \ S : orphans.from[o] \in Connected'
    BY <1>1, <2>1 DEF MapsTyped
  <2>6. MapsTyped(orphans', Connected') /\ Orphans(orphans') = Orphans(orphans) \ S
    BY <1>1, <2>4, <2>5, EraseTyped
  <2> QED BY <1>1, <2>3, <2>4, <2>6, TxInvPrimed
<1>8. ASSUME NEW p \in Peers, NEW t \in Txs, Tx(p, t) PROVE TxInv'
  <2>1. Connected \subseteq Connected'
    BY <1>1, <1>8, PeerStep DEF Kept, Connected
  <2>2. /\ MapsTyped(orphans', Connected) /\ tip' = tip
        /\ pool' \subseteq Txs \ MinedAt(tip) /\ Orphans(orphans') \cap MinedAt(tip) = {}
    BY <1>8, TxCases
  <2>3. MapsTyped(orphans', Connected')
    BY <2>1, <2>2, TypedMore
  <2> QED BY <2>2, <2>3, TxInvPrimed
<1> QED
  BY <1>3, <1>4, <1>5, <1>6, <1>7, <1>8 DEF Next

(* The invariants hold together.                                           *)
LEMMA SpecNode == Spec => []NodeInv
<1>1. Init => NodeInv
  BY OrphanInvInit, DownloadInvInit, TxInvInit DEF NodeInv
<1>2. NodeInv /\ [Next]_vars => NodeInv'
  BY OrphanInvStep, DownloadInvStep, TxInvStep DEF NodeInv
<1> QED
  BY <1>1, <1>2, PTL DEF Spec

(* Every variable has its type, no count falls below zero, the memory pool *)
(* has nothing of the active chain and no orphan outlives the connection   *)
(* of its sender.                                                          *)
THEOREM TypesAlwaysOK == Spec => []TypeOK
<1>1. NodeInv => TypeOK
  <2> SUFFICES ASSUME NodeInv PROVE TypeOK
    OBVIOUS
  <2>1. DownloadTypeOK
    <3>1. /\ headers \subseteq Blocks /\ stored \subseteq headers /\ old \subseteq Blocks
          /\ tip \in stored /\ paused \in BOOLEAN
          /\ left \in [{"connect", "message", "pause", "tx"} -> Nat]
          /\ requested \in [Peers -> SUBSET Blocks] /\ peers \in PeerStates
      BY DEF NodeInv, DownloadInv, TreeInv, PeersInv, PeersOK
    <3>2. /\ Connected \subseteq Peers /\ peers.node \in [Connected -> NodeType]
          /\ peers.inFlight \in [Blocks -> Peers \cup {NoPeer}] /\ peers.nQueued \in Nat
      BY <3>1, StateParts DEF Connected
    <3>3. \A p \in Connected : peers.node[p] \in NodeType
      BY <3>2
    <3>4. {headers, stored, old} \subseteq SUBSET Blocks
      BY <3>1
    <3> QED BY <3>1, <3>2, <3>3, <3>4, Zenon DEF DownloadTypeOK
  <2>2. /\ MapsOK(orphans) /\ MapsTyped(orphans, Connected) /\ Orphans(orphans) \subseteq Txs
    BY TxReads
  <2>3. OrphansType
    BY <2>2 DEF OrphansType, MapsOK, MapsTyped
  <2>4. ToSet(orphans.from) \subseteq Connected
    BY <2>2 DEF ToSet, MapsTyped, Orphans
  <2>5. pool \subseteq Txs \ MinedAt(tip)
    BY DEF NodeInv, TxInv
  <2> QED BY <2>1, <2>3, <2>4, <2>5 DEF TypeOK
<1> QED
  BY <1>1, SpecNode, PTL

(* Only "tx" puts a transaction in the memory pool while the tip stays.    *)
LEMMA PoolMoves ==
  ASSUME NodeInv, [Next]_vars, tip' = tip
  PROVE  pool' \subseteq pool \/ \E p \in Peers, t \in Txs : Tx(p, t)
<1>1. CASE UNCHANGED orphanVars
  BY <1>1 DEF orphanVars
<1>2. ASSUME NEW p \in Peers, Finalize(p) PROVE pool' \subseteq pool
  BY <1>2 DEF Finalize
<1>3. ASSUME NEW p \in Peers, NEW b \in Blocks, Block(p, b) PROVE pool' \subseteq pool
  <2>1. pool' = (pool \cup MinedAt(tip)) \ MinedAt(tip')
    BY <1>3 DEF Block, ConnectTxs
  <2> QED BY <2>1
<1> QED
  BY <1>1, <1>2, <1>3 DEF Next, vars, orphanVars

(* When a "tx" is accepted every orphan it completes goes along, through   *)
(* any number of generations and in whatever order the work queue comes to *)
(* them; one stays only if a bad orphan of its sender was met first.       *)
THEOREM OrphansAlwaysResolved == Spec => OrphansResolved
<1>1. ASSUME NodeInv, [Next]_vars, NEW o \in Orphans(orphans'),
             Parents[o] \cap (pool' \ pool) # {}, tip' = tip,
             Parents[o] \subseteq pool' \cup MinedAt(tip)
      PROVE  \E x \in Orphans(orphans) \ Orphans(orphans') :
               x \in DoSTxs /\ orphans.from[x] = orphans'.from[o]
  <2>1. PICK p \in Peers, t \in Txs : Tx(p, t)
    BY <1>1, PoolMoves
  <2>2. /\ pool' = ProcessOrphans(orphans, MinedAt(tip), t).pool
        /\ orphans' = EraseOrphanTx(orphans, ProcessOrphans(orphans, MinedAt(tip), t).erase)
        /\ t \notin MinedAt(tip)
    BY <1>1, <2>1, TxCases
  <2> QED BY <1>1, <2>2, AcceptedTx
<1>2. NodeInv /\ [Next]_vars =>
        [\A o \in Orphans(orphans') :
           (Parents[o] \cap (pool' \ pool) # {} /\ tip' = tip) =>
             \/ ~(Parents[o] \subseteq pool' \cup MinedAt(tip))
             \/ \E x \in Orphans(orphans) \ Orphans(orphans') :
                  x \in DoSTxs /\ orphans.from[x] = orphans'.from[o]]_vars
  BY <1>1, Zenon
<1> QED
  BY <1>2, SpecNode, PTL DEF Spec, OrphansResolved
=============================================================================
