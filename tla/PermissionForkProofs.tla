------------------------- MODULE PermissionForkProofs ------------------------
(***************************************************************************)
(* Reading the permission store at a fork, and the types of its fields,    *)
(* for every set of addresses, signers and assets and every bound.         *)
(*                                                                         *)
(* While VerifyBlockMiner has set the pointers back to a fork, a read      *)
(* answers from the ledger's past. That needs more of it than StoreInv     *)
(* says. HistoryOK: every block's index row is the last of its block and   *)
(* holds the number of keys granted then. VerifyOK: the rows that a branch *)
(* adds start from those of its fork block. What ForkRow's walk along      *)
(* m_PrevRow answers is a lemma (ForkRowIs): the last row with the key     *)
(* that is not younger than the fork, or the key's first.                  *)
(*                                                                         *)
(* The types come last: that SetPermissionInternal's decrement stays above *)
(* zero is known only once the count is the size of a set, on the tip      *)
(* (CountsOK) and at a fork (VerifyOK).                                    *)
(***************************************************************************)
EXTENDS PermissionLedgerProofs

-----------------------------------------------------------------------------
(* What the walk of GetPermission to a fork block finds.                   *)

(* A walk from i to p[i] while i is in G.                                  *)
Walk(w, n, G, p) == w = [i \in 1..n |-> IF i \in G THEN w[p[i]] ELSE i]

(* There is such a function when each step goes to a lower number.         *)
LEMMA WalkExists ==
  ASSUME NEW n \in Nat, NEW G, NEW p, \A i \in 1..n : i \in G => p[i] \in 1..(i - 1)
  PROVE  \E w : Walk(w, n, G, p)
<1> DEFINE S == {m \in 0..n : ~\E w : Walk(w, m, G, p)}
<1> SUFFICES ASSUME S # {} PROVE FALSE
  <2>1. n \in 0..n
    OBVIOUS
  <2> QED BY <2>1
<1>1. S \in SUBSET Nat
  OBVIOUS
<1>2. Min(S) \in S /\ \A m \in S : Min(S) <= m
  BY <1>1, MinIs
<1>3. PICK m \in 0..n : (~\E w : Walk(w, m, G, p)) /\ \A i \in S : m <= i
  BY <1>2
<1>4. m # 0
  <2>1. [i \in 1..0 |-> i] = [i \in 1..0 |-> IF i \in G THEN [j \in 1..0 |-> j][p[i]] ELSE i]
    OBVIOUS
  <2>2. Walk([i \in 1..0 |-> i], 0, G, p)
    BY <2>1, Zenon DEF Walk
  <2> QED BY <1>3, <2>2
<1>5. PICK v : Walk(v, m - 1, G, p)
  <2>1. m - 1 \in 0..n /\ ~(m <= m - 1)
    BY <1>4
  <2>2. m - 1 \notin S
    BY <1>3, <2>1
  <2> QED BY <2>1, <2>2
<1> DEFINE e == IF m \in G THEN v[p[m]] ELSE m
           w == [i \in 1..m |-> IF i = m THEN e ELSE v[i]]
<1>6. \A i \in 1..(m - 1) : v[i] = IF i \in G THEN v[p[i]] ELSE i
  BY <1>5 DEF Walk
<1>7. ASSUME NEW i \in 1..m PROVE w[i] = IF i \in G THEN w[p[i]] ELSE i
  <2>1. i \in G => p[i] \in 1..(i - 1) /\ p[i] \in 1..m /\ p[i] # m
    <3>1. i \in 1..n
      BY <1>3
    <3>2. i \in G => p[i] \in 1..(i - 1)
      BY <3>1
    <3> QED BY <3>2
  <2>2. i \in G => w[p[i]] = v[p[i]]
    BY <2>1
  <2>3. CASE i = m
    BY <2>2, <2>3
  <2>4. CASE i # m
    <3>1. i \in 1..(m - 1)
      BY <2>4
    <3>2. w[i] = v[i]
      BY <2>4
    <3> QED BY <1>6, <2>2, <3>1, <3>2
  <2> QED BY <2>3, <2>4
<1>8. w = [i \in 1..m |-> w[i]]
  OBVIOUS
<1> HIDE DEF w
<1>9. [i \in 1..m |-> w[i]] = [i \in 1..m |-> IF i \in G THEN w[p[i]] ELSE i]
  BY <1>7
<1>10. Walk(w, m, G, p)
  BY <1>8, <1>9 DEF Walk
<1> QED
  BY <1>3, <1>10

(* Each row but a key's first one points to an earlier row.                *)
LEMMA PrevIs ==
  ASSUME LedgerOK, NEW r \in 1..(db.row - 1)
  PROVE  ledger[r] \in Row /\ ledger[r].prev \in 0..(r - 1) /\ ledger[r].block \in 0..db.block
<1>1. ledger \in Seq(Row) /\ db.row \in Nat /\ db.row - 1 <= Len(ledger)
      /\ Filed(ledger, db.row - 1, db.block)
  BY DEF LedgerOK
<1>2. r \in 1..Len(ledger)
  BY <1>1
<1>3. ledger[r] \in Row /\ ledger[r].prev \in Nat
  <2>1. ledger[r] \in Row
    BY <1>1, <1>2
  <2> QED BY <2>1 DEF Row
<1>4. ledger[r].key \in Named \/ ledger[r].key \in Heights
  BY <1>3 DEF Row, Keys, Named
<1>5. CASE ledger[r].key \in Named
  <2>1. ledger[r].prev = LastIn(ledger, ledger[r].key, r - 1) /\ r - 1 \in Nat
    BY <1>1, <1>5 DEF Filed
  <2> QED BY <1>1, <1>3, <2>1, LastIs DEF Filed
<1>6. CASE ledger[r].key \in Heights
  <2>1. ledger[r].prev < r
    BY <1>1, <1>6 DEF Filed
  <2> QED BY <1>1, <1>3, <2>1 DEF Filed
<1> QED
  BY <1>4, <1>5, <1>6

(* The walk from a row ends at the key's last row that is not younger than *)
(* the fork, or, when there is none, at one that is younger.               *)
LEMMA ForkRowIs ==
  ASSUME LedgerOK, NEW fork \in Nat, NEW k \in Named, NEW r \in 1..(db.row - 1),
         ledger[r].key = k
  PROVE  LET e == ForkRow(r, fork)
         IN /\ e \in 1..r /\ ledger[e].key = k
            /\ \A q \in 1..r : ledger[q].key = k /\ ledger[q].block <= fork => q <= e
            /\ ledger[e].block > fork =>
                 \A q \in 1..r : ledger[q].key = k => ledger[q].block > fork
<1> DEFINE n == db.row - 1
           G == {i \in 1..n : ledger[i].block > fork /\ ledger[i].prev > 0}
           p == [i \in 1..n |-> ledger[i].prev]
           Walks(w) == w = [i \in 1..(db.row - 1) |->
                              IF ledger[i].block > fork /\ ledger[i].prev > 0
                              THEN w[ledger[i].prev] ELSE i]
           good(w, i) == /\ w[i] \in 1..i /\ ledger[w[i]].key = k
                         /\ \A q \in 1..i : ledger[q].key = k /\ ledger[q].block <= fork => q <= w[i]
                         /\ ledger[w[i]].block > fork =>
                              \A q \in 1..i : ledger[q].key = k => ledger[q].block > fork
<1>1. n \in Nat /\ Filed(ledger, n, db.block)
  BY DEF LedgerOK
<1>2. \A i \in 1..n : /\ ledger[i].prev \in 0..(i - 1) /\ ledger[i].block \in Int
                      /\ ledger[i].block \in 0..db.block
  BY PrevIs
<1>3. \A i \in 1..n : i \in G => p[i] \in 1..(i - 1)
  BY <1>2
<1>4. PICK v : Walk(v, n, G, p)
  <2> HIDE DEF n, G, p
  <2> QED BY <1>1, <1>3, WalkExists
<1>5. Walks(v)
  BY <1>4 DEF Walk
<1> DEFINE w == CHOOSE f : Walks(f)
<1>6. Walks(w)
  <2> HIDE DEF Walks
  <2> QED BY <1>5, Zenon
<1>7. ForkRow(r, fork) = w[r]
  BY DEF ForkRow
<1> HIDE DEF w
<1>8. \A i \in 1..n : w[i] = IF ledger[i].block > fork /\ ledger[i].prev > 0
                            THEN w[ledger[i].prev] ELSE i
  BY <1>6
<1> DEFINE S == {i \in 1..n : ledger[i].key = k /\ ~good(w, i)}
<1>9. S = {}
  <2> SUFFICES ASSUME S # {} PROVE FALSE
    OBVIOUS
  <2>1. S \in SUBSET Nat
    OBVIOUS
  <2>2. Min(S) \in S /\ \A i \in S : Min(S) <= i
    BY <2>1, MinIs
  <2>3. PICK i \in 1..n : ledger[i].key = k /\ ~good(w, i) /\ \A j \in S : i <= j
    BY <2>2
  <2>4. ledger[i].prev = LastIn(ledger, k, i - 1) /\ i - 1 \in Nat
    BY <1>1, <2>3 DEF Filed
  <2> DEFINE q == ledger[i].prev
  <2>5. /\ q \in 0..(i - 1) /\ (q > 0 => ledger[q].key = k)
        /\ \A j \in 1..(i - 1) : ledger[j].key = k => j <= q
    BY <2>4, LastIs
  <2>6. \A j \in 1..i : j = i \/ j \in 1..(i - 1)
    OBVIOUS
  <2>7. \A j \in 1..i : j \in 1..n
    BY <1>1
  <2>8. CASE ledger[i].block <= fork
    <3>1. w[i] = i
      BY <1>2, <1>8, <2>8
    <3>2. good(w, i)
      BY <1>2, <2>3, <2>8, <3>1
    <3> QED BY <2>3, <3>2
  <2>9. CASE ledger[i].block > fork /\ q = 0
    <3>1. w[i] = i
      BY <1>8, <2>9
    <3>2. \A j \in 1..i : ledger[j].key = k => j = i
      BY <2>5, <2>6, <2>9
    <3>3. good(w, i)
      BY <1>2, <2>3, <2>7, <2>9, <3>1, <3>2
    <3> QED BY <2>3, <3>3
  <2>10. CASE ledger[i].block > fork /\ q > 0
    <3>1. w[i] = w[q] /\ q \in 1..(i - 1) /\ q \in 1..n /\ ledger[q].key = k
      BY <1>8, <2>5, <2>7, <2>10
    <3>2. good(w, q)
      BY <2>3, <3>1
    <3>3. \A j \in 1..i : ledger[j].key = k => j = i \/ j \in 1..q
      BY <2>5, <2>6, <3>1
    <3>4. w[i] \in 1..i /\ ledger[w[i]].key = k
      BY <3>1, <3>2
    <3>5. \A j \in 1..i : ledger[j].key = k /\ ledger[j].block <= fork => j <= w[i]
      BY <1>2, <2>7, <2>10, <3>1, <3>2, <3>3
    <3>6. ledger[w[i]].block > fork => \A j \in 1..i : ledger[j].key = k => ledger[j].block > fork
      BY <2>10, <3>1, <3>2, <3>3
    <3> QED BY <2>3, <3>4, <3>5, <3>6
  <2> QED BY <1>2, <2>5, <2>8, <2>9, <2>10
<1>10. good(w, r)
  BY <1>9
<1> QED
  BY <1>7, <1>10

(* What the ledger alone says of a block.                                  *)
LEMMA RowAtIs ==
  ASSUME LedgerOK, NEW k, NEW h
  PROVE  LET r == RowAt(k, h)
         IN /\ r \in 0..(db.row - 1)
            /\ r > 0 => ledger[r].key = k /\ ledger[r].block <= h
            /\ \A q \in 1..(db.row - 1) : ledger[q].key = k /\ ledger[q].block <= h => q <= r
            /\ k \in Named => ValAt(k, h) \in BOOLEAN
<1> DEFINE n == db.row - 1
           S == {0} \cup {r \in 1..n : ledger[r].key = k /\ ledger[r].block <= h}
<1>1. n \in Nat
  BY DEF LedgerOK
<1>2. S \in SUBSET (0..n) /\ S # {}
  BY <1>1
<1> HIDE DEF S
<1>3. Max(S) \in S /\ \A q \in S : q <= Max(S)
  BY <1>1, <1>2, MaxIs
<1>4. RowAt(k, h) = Max(S)
  BY DEF RowAt, S
<1>5. ValAt(k, h) \in BOOLEAN
  BY DEF ValAt
<1> QED
  BY <1>2, <1>3, <1>4, <1>5 DEF S

LEMMA RowAtUnique ==
  ASSUME LedgerOK, NEW k, NEW h, NEW x \in 0..(db.row - 1),
         x > 0 => ledger[x].key = k /\ ledger[x].block <= h,
         \A q \in 1..(db.row - 1) : ledger[q].key = k /\ ledger[q].block <= h => q <= x
  PROVE  RowAt(k, h) = x
<1> DEFINE r == RowAt(k, h)
<1>1. /\ r \in 0..(db.row - 1)
      /\ r > 0 => ledger[r].key = k /\ ledger[r].block <= h
      /\ \A q \in 1..(db.row - 1) : ledger[q].key = k /\ ledger[q].block <= h => q <= r
  BY RowAtIs
<1>2. db.row \in Nat
  BY DEF LedgerOK
<1> HIDE DEF r
<1>3. r <= x
  BY <1>1, <1>2
<1>4. x <= r
  BY <1>1, <1>2
<1> QED
  BY <1>1, <1>3, <1>4 DEF r

(* While a verification runs the database's answer for an address is the   *)
(* one of the fork block.                                                  *)
LEMMA ForkReadIs ==
  ASSUME LedgerOK, NEW m, m.copiedRow > 0, m.fork \in Nat, NEW k \in Forkable
  PROVE  DbRead(m, k) = [this |-> RowAt(k, m.fork), val |-> ValAt(k, m.fork)]
<1>1. k \in Named
  BY DEF Forkable, Named
<1> DEFINE a == db.at[k]
           n == db.row - 1
<1>2. a \in 0..n /\ (a > 0 => ledger[a].key = k) /\ n \in Nat
      /\ \A q \in 1..n : ledger[q].key = k => q <= a
  <2>1. a = LastIn(ledger, k, n) /\ n \in Nat
    BY <1>1, NamedKeys DEF LedgerOK
  <2> QED BY <2>1, LastIs
<1>3. CASE a = 0
  <2>1. RowAt(k, m.fork) = 0
    <3>1. \A q \in 1..n : ledger[q].key = k => ~(ledger[q].block <= m.fork)
      BY <1>2, <1>3
    <3> QED BY <1>2, <3>1, RowAtUnique
  <2>2. ~(0 > 0)
    OBVIOUS
  <2>3. ValAt(k, m.fork) = FALSE
    BY <2>1, <2>2, Zenon DEF ValAt
  <2>4. db.val[k] = (a > 0 /\ ledger[a].val)
    BY <1>1, NamedKeys
  <2>5. db.val[k] = FALSE
    BY <1>3, <2>2, <2>4, Zenon
  <2>6. DbRead(m, k) = [this |-> a, val |-> db.val[k]]
    BY <1>3, <2>2, Zenon DEF DbRead
  <2> QED BY <1>3, <2>1, <2>3, <2>5, <2>6, Zenon
<1>4. CASE a > 0
  <2> DEFINE e == ForkRow(a, m.fork)
  <2>1. a \in 1..n /\ ledger[a].key = k
    BY <1>2, <1>4
  <2>2. /\ e \in 1..a /\ ledger[e].key = k
        /\ \A q \in 1..a : ledger[q].key = k /\ ledger[q].block <= m.fork => q <= e
        /\ ledger[e].block > m.fork => \A q \in 1..a : ledger[q].key = k => ledger[q].block > m.fork
    BY <1>1, <2>1, ForkRowIs
  <2>3. DbRead(m, k) = IF ledger[e].block > m.fork THEN [this |-> 0, val |-> FALSE]
                       ELSE [this |-> e, val |-> ledger[e].val]
    BY <1>4 DEF DbRead
  <2> HIDE DEF e
  <2>4. \A q \in 1..n : ledger[q].key = k => q \in 1..a
    BY <1>2
  <2>5. \A q \in 1..n : ledger[q].block \in Int
    BY PrevIs
  <2>6. CASE ledger[e].block > m.fork
    <3>1. \A q \in 1..n : ledger[q].key = k => ~(ledger[q].block <= m.fork)
      BY <2>2, <2>4, <2>5, <2>6
    <3>2. RowAt(k, m.fork) = 0
      BY <1>2, <3>1, RowAtUnique
    <3>3. ~(0 > 0)
      OBVIOUS
    <3>4. ValAt(k, m.fork) = FALSE
      BY <3>2, <3>3, Zenon DEF ValAt
    <3> QED BY <2>3, <2>6, <3>2, <3>4
  <2>7. CASE ~(ledger[e].block > m.fork)
    <3>1. e \in 1..n /\ e > 0 /\ ledger[e].block <= m.fork
      BY <1>2, <2>2, <2>5, <2>7
    <3>2. \A q \in 1..n : ledger[q].key = k /\ ledger[q].block <= m.fork => q <= e
      BY <2>2, <2>4
    <3>3. RowAt(k, m.fork) = e
      BY <2>2, <3>1, <3>2, RowAtUnique
    <3>4. ledger[e] \in Row
      BY <3>1, PrevIs
    <3>5. ledger[e].val \in BOOLEAN
      BY <3>4 DEF Row
    <3>6. ValAt(k, m.fork) = ledger[e].val
      BY <3>1, <3>3, <3>5 DEF ValAt
    <3> QED BY <2>3, <2>7, <3>3, <3>6
  <2> QED BY <2>6, <2>7
<1> QED
  BY <1>2, <1>3, <1>4

-----------------------------------------------------------------------------
(* The counts in the index rows.                                           *)

(* The index row of a block is its last row and not its only one.          *)
IndexRowsOK ==
  \A h \in 0..db.block :
     /\ db.at[h] \in 2..(db.row - 1) /\ ledger[db.at[h] - 1].block = h
     /\ \A r \in 1..(db.row - 1) : ledger[r].block <= h => r <= db.at[h]

(* The index rows of the blocks up to b have the count as of their block.  *)
HeldAt(h) == {k \in Grants : ValAt(k, h)}
CountedTo(b) == \A h \in 0..b : ledger[db.at[h]].count = Cardinality(HeldAt(h))

(* The last block's may be missing from the batch to the end of Commit, or *)
(* to the next start.                                                      *)
HistoryOK == /\ IndexRowsOK /\ CountedTo(db.block - 1)
             /\ pc \notin {"counts"} \cup Down => CountedTo(db.block)

(* The index row of a block the database knows.                            *)
LEMMA IndexRowIs ==
  ASSUME LedgerOK, NEW h \in 0..db.block
  PROVE  /\ h \in Keys /\ h \notin Forkable /\ h \notin Named /\ db.at[h] \in 0..(db.row - 1)
         /\ db.at[h] = LastIn(ledger, h, db.row - 1)
         /\ db.at[h] > 0 => ledger[db.at[h]].key = h /\ ledger[db.at[h]].block = h
         /\ \A r \in 1..(db.row - 1) : ledger[r].key = h => r <= db.at[h]
<1>1. db.block \in -1..MaxBlock /\ MaxBlock \in Nat /\ db.row - 1 \in Nat
      /\ Filed(ledger, db.row - 1, db.block)
  BY KeysAssumption DEF LedgerOK
<1>2. h \in Heights /\ h \notin (db.block + 1)..MaxBlock
  BY <1>1 DEF Heights
<1>3. h \in Keys /\ h \notin Forkable /\ h \notin Named
  BY <1>2, KeysAssumption DEF Keys, Forkable, Named
<1>4. db.at[h] = LastIn(ledger, h, db.row - 1)
  BY <1>2, <1>3 DEF LedgerOK
<1>5. /\ db.at[h] \in 0..(db.row - 1) /\ (db.at[h] > 0 => ledger[db.at[h]].key = h)
      /\ \A r \in 1..(db.row - 1) : ledger[r].key = h => r <= db.at[h]
  BY <1>1, <1>4, LastIs
<1>6. db.at[h] > 0 => ledger[db.at[h]].block = h
  BY <1>1, <1>2, <1>5 DEF Filed
<1> QED
  BY <1>3, <1>4, <1>5, <1>6

LEMMA IndexRowNext ==
  (LedgerOK => \A h \in 0..db.block :
     /\ db.at[h] \in 0..(db.row - 1) /\ db.at[h] = LastIn(ledger, h, db.row - 1)
     /\ db.at[h] > 0 => ledger[db.at[h]].key = h /\ ledger[db.at[h]].block = h
     /\ \A r \in 1..(db.row - 1) : ledger[r].key = h => r <= db.at[h])'
<1>1. LedgerOK => \A h \in 0..db.block :
     /\ db.at[h] \in 0..(db.row - 1) /\ db.at[h] = LastIn(ledger, h, db.row - 1)
     /\ db.at[h] > 0 => ledger[db.at[h]].key = h /\ ledger[db.at[h]].block = h
     /\ \A r \in 1..(db.row - 1) : ledger[r].key = h => r <= db.at[h]
  BY IndexRowIs
<1> QED
  BY <1>1, PTL

(* The batch of a commit: the new block's rows follow the others, its      *)
(* index row last.                                                         *)
LEMMA IndexRowsCommit ==
  ASSUME StoreInv, IndexRowsOK, CommitDb
  PROVE  /\ IndexRowsOK'
         /\ \A h \in 0..db.block : db'.at[h] = db.at[h]
         /\ db'.block = db.block + 1 /\ UNCHANGED ledger
<1> DEFINE pool == mem.pool
           n == Len(pool)
<1>1. /\ LedgerOK /\ UpOK(mem) /\ Written(Len(mem.pool)) /\ Len(mem.pool) >= 2
      /\ mem.pool[Len(mem.pool)].key = db.block + 1 /\ Pooled(mem.pool)
  BY DEF StoreInv, PointersOK, CommitDb, UpOK
<1>2. db'.block = db.block + 1 /\ db'.row = db.row + n /\ UNCHANGED <<ledger, mem>> /\ LedgerOK'
  BY CommitLedger DEF StoreInv
<1>3. /\ db.row \in Nat /\ db.row >= 1 /\ n \in Nat /\ n >= 2 /\ db.block \in -1..MaxBlock
      /\ MaxBlock \in Nat
  BY <1>1, KeysAssumption DEF LedgerOK, Pooled
<1>4. \A i \in 1..n : /\ ledger[db.row + i - 1] = pool[i]
                      /\ pool[i].block = db.block + 1
                      /\ pool[i].key \in Named \cup {db.block + 1}
  BY <1>1 DEF Written, Pooled
<1> HIDE DEF pool, n
<1>5. ASSUME NEW r \in db.row..(db'.row - 1)
      PROVE  ledger[r].block = db.block + 1 /\ ledger[r].key \in Named \cup {db.block + 1}
  <2> DEFINE i == r - db.row + 1
  <2>1. i \in 1..n /\ db.row + i - 1 = r
    BY <1>2, <1>3
  <2> HIDE DEF i
  <2> QED BY <1>4, <2>1
<1>6. \A r \in 1..(db'.row - 1) : r \in 1..(db.row - 1) \/ r \in db.row..(db'.row - 1)
  BY <1>2, <1>3
<1>7. ASSUME NEW h \in 0..db.block
      PROVE  /\ db'.at[h] = db.at[h] /\ db.at[h] \in 2..(db'.row - 1)
             /\ ledger[db.at[h] - 1].block = h
             /\ \A r \in 1..(db'.row - 1) : ledger[r].block <= h => r <= db.at[h]
  <2>1. /\ db.at[h] \in 2..(db.row - 1) /\ ledger[db.at[h] - 1].block = h
        /\ \A r \in 1..(db.row - 1) : ledger[r].block <= h => r <= db.at[h]
    BY DEF IndexRowsOK
  <2>2. /\ h \notin Named /\ ledger[db.at[h]].key = h
        /\ \A r \in 1..(db.row - 1) : ledger[r].key = h => r <= db.at[h]
    BY <1>1, <2>1, IndexRowIs
  <2>3. \A r \in db.row..(db'.row - 1) : ledger[r].key # h /\ ~(ledger[r].block <= h)
    BY <1>3, <1>5, <2>2
  <2>4. db.at[h] \in 0..(db'.row - 1) /\ db'.row - 1 \in Nat
    BY <1>2, <1>3, <2>1
  <2>5. \A r \in 1..(db'.row - 1) : ledger[r].key = h => r <= db.at[h]
    BY <1>6, <2>2, <2>3
  <2>6. LastIn(ledger, h, db'.row - 1) = db.at[h]
    BY <2>2, <2>4, <2>5, LastUnique
  <2>7. h \in 0..db'.block
    BY <1>2, <1>3
  <2>8. db'.at[h] = LastIn(ledger, h, db'.row - 1)
    BY <1>2, <2>7, IndexRowNext
  <2>9. \A r \in 1..(db'.row - 1) : ledger[r].block <= h => r <= db.at[h]
    BY <1>6, <2>1, <2>3
  <2>10. db.at[h] \in 2..(db'.row - 1)
    BY <1>2, <1>3, <2>1
  <2> QED BY <2>1, <2>6, <2>8, <2>9, <2>10
<1>8. ASSUME NEW h, h = db.block + 1
      PROVE  /\ db'.at[h] \in 2..(db'.row - 1) /\ ledger[db'.at[h] - 1].block = h
             /\ \A r \in 1..(db'.row - 1) : ledger[r].block <= h => r <= db'.at[h]
  <2> DEFINE e == db'.row - 1
  <2>1. e \in Nat /\ e \in 2..e /\ n \in 1..n /\ n - 1 \in 1..n /\ db.row + n - 1 = e
        /\ db.row + (n - 1) - 1 = e - 1
    BY <1>2, <1>3
  <2>2. ledger[e].key = h /\ ledger[e - 1].block = h
    <3>1. ledger[e] = pool[n] /\ ledger[e - 1] = pool[n - 1] /\ pool[n - 1].block = h
      BY <1>4, <1>8, <2>1
    <3> QED BY <1>1, <1>8, <3>1 DEF pool, n
  <2> HIDE DEF e
  <2>3. LastIn(ledger, h, e) = e
    BY <2>1, <2>2, LastUnique
  <2>4. h \in 0..db'.block
    BY <1>2, <1>3, <1>8
  <2>5. db'.at[h] = e
    BY <1>2, <2>3, <2>4, IndexRowNext DEF e
  <2> QED BY <2>1, <2>2, <2>5 DEF e
<1>9. \A h \in 0..db'.block : h \in 0..db.block \/ h = db.block + 1
  BY <1>2, <1>3
<1>10. IndexRowsOK'
  <2> SUFFICES ASSUME NEW h \in 0..db'.block
               PROVE  /\ db'.at[h] \in 2..(db'.row - 1) /\ ledger'[db'.at[h] - 1].block = h
                      /\ \A r \in 1..(db'.row - 1) : ledger'[r].block <= h => r <= db'.at[h]
    BY DEF IndexRowsOK
  <2> QED BY <1>2, <1>7, <1>8, <1>9
<1> QED
  BY <1>2, <1>7, <1>10

(* The batch of a roll back: the blocks up to the target keep theirs.      *)
LEMMA IndexRowsRollBack ==
  ASSUME StoreInv, IndexRowsOK, RollBackDb
  PROVE  /\ IndexRowsOK'
         /\ \A h \in 0..arg : h \in 0..db.block /\ db'.at[h] = db.at[h]
         /\ db'.block = arg /\ UNCHANGED ledger
<1> DEFINE cut == CutRow(mem.row - 1, arg)
<1>1. LedgerOK /\ LedgerOK' /\ db'.block = arg /\ db'.row = cut /\ UNCHANGED <<ledger, mem, arg>>
  BY RollBackLedger DEF StoreInv
<1>2. /\ arg \in -1..db.block /\ db.row \in Nat /\ cut \in 1..db.row /\ db.block \in -1..MaxBlock
      /\ MaxBlock \in Nat
      /\ \A r \in 1..(db.row - 1) : r < cut <=> ledger[r].block <= arg
  BY CutAt
<1> HIDE DEF cut
<1>3. ASSUME NEW h \in 0..arg
      PROVE  /\ h \in 0..db.block /\ db'.at[h] = db.at[h] /\ db.at[h] \in 2..(cut - 1)
             /\ ledger[db.at[h] - 1].block = h
             /\ \A r \in 1..(cut - 1) : ledger[r].block <= h => r <= db.at[h]
  <2>1. h \in 0..db.block
    BY <1>2
  <2>2. /\ db.at[h] \in 2..(db.row - 1) /\ ledger[db.at[h] - 1].block = h
        /\ \A r \in 1..(db.row - 1) : ledger[r].block <= h => r <= db.at[h]
    BY <2>1 DEF IndexRowsOK
  <2>3. /\ ledger[db.at[h]].key = h /\ ledger[db.at[h]].block = h
        /\ \A r \in 1..(db.row - 1) : ledger[r].key = h => r <= db.at[h]
    BY <1>1, <2>1, <2>2, IndexRowIs
  <2>4. db.at[h] < cut
    BY <1>2, <2>2, <2>3
  <2>5. \A r \in 1..(cut - 1) : r \in 1..(db.row - 1)
    BY <1>2
  <2>6. db.at[h] \in 2..(cut - 1) /\ db.at[h] \in 0..(cut - 1) /\ cut - 1 \in Nat
    BY <1>2, <2>2, <2>4
  <2>7. LastIn(ledger, h, cut - 1) = db.at[h]
    BY <2>3, <2>5, <2>6, LastUnique
  <2>8. db'.at[h] = LastIn(ledger, h, cut - 1)
    BY <1>1, IndexRowNext
  <2> QED BY <2>1, <2>2, <2>5, <2>6, <2>7, <2>8
<1>4. IndexRowsOK'
  <2> SUFFICES ASSUME NEW h \in 0..db'.block
               PROVE  /\ db'.at[h] \in 2..(db'.row - 1) /\ ledger'[db'.at[h] - 1].block = h
                      /\ \A r \in 1..(db'.row - 1) : ledger'[r].block <= h => r <= db'.at[h]
    BY DEF IndexRowsOK
  <2> QED BY <1>1, <1>3
<1> QED
  BY <1>1, <1>3, <1>4

(* Every other step leaves the rows the database knows.                    *)
LEMMA IndexRowsKept ==
  ASSUME LedgerOK, IndexRowsOK, RowsKept, UNCHANGED db
  PROVE  IndexRowsOK'
<1>1. db.row \in Nat
  BY DEF LedgerOK
<1> SUFFICES ASSUME NEW h \in 0..db.block
             PROVE  /\ db.at[h] \in 2..(db.row - 1) /\ ledger'[db.at[h] - 1].block = h
                    /\ \A r \in 1..(db.row - 1) : ledger'[r].block <= h => r <= db.at[h]
  BY DEF IndexRowsOK
<1>2. /\ db.at[h] \in 2..(db.row - 1) /\ ledger[db.at[h] - 1].block = h
      /\ \A r \in 1..(db.row - 1) : ledger[r].block <= h => r <= db.at[h]
  BY DEF IndexRowsOK
<1>3. db.at[h] - 1 \in 1..(db.row - 1)
  BY <1>1, <1>2
<1> QED
  BY <1>2, <1>3 DEF RowsKept

(* The counts of the rows the database knows.                              *)
CountsKept == \A r \in 1..(db.row - 1) : ledger'[r].count = ledger[r].count

LEMMA CountedKept ==
  ASSUME LedgerOK, IndexRowsOK, RowsKept, CountsKept, UNCHANGED db, NEW b, b <= db.block,
         b \in Int, CountedTo(b)
  PROVE  CountedTo(b)'
<1>1. db.row \in Nat /\ db.block \in Int
  BY DEF LedgerOK
<1> SUFFICES ASSUME NEW h \in 0..b
             PROVE  ledger'[db'.at[h]].count = Cardinality(HeldAt(h)')
  BY DEF CountedTo
<1>2. h \in 0..db.block
  BY <1>1
<1>3. db.at[h] \in 2..(db.row - 1)
  BY <1>2 DEF IndexRowsOK
<1>4. db.at[h] \in 1..(db.row - 1)
  BY <1>1, <1>3
<1>5. ledger'[db.at[h]].count = ledger[db.at[h]].count
  BY <1>4 DEF CountsKept
<1>6. HeldAt(h)' = HeldAt(h)
  <2>1. \A k : ValAt(k, h)' = ValAt(k, h)
    BY ValAtKept
  <2> QED BY <2>1, Zenon DEF HeldAt
<1> QED
  BY <1>5, <1>6 DEF CountedTo

(* The count of the last block is written to its last two rows, of which   *)
(* one is its index row and neither another block's.                       *)
LEMMA CountedLast ==
  ASSUME LedgerOK, IndexRowsOK, CountedTo(db.block - 1), UNCHANGED db, db.block >= 0,
         NEW c \in Nat, c = Cardinality(Held(<<>>)),
         ledger' = SetCounts(ledger, db.row - 1, c)
  PROVE  CountedTo(db.block)'
<1> DEFINE n == db.row - 1
<1>1. /\ ledger \in Seq(Row) /\ n \in Nat /\ n <= Len(ledger) /\ db.block \in Int
      /\ Filed(ledger, n, db.block) /\ Len(ledger) \in Nat
  BY DEF LedgerOK
<1>2. LedgerOK' /\ RowsKept
  BY CountsLedger
<1> HIDE DEF n
<1>3. \A q \in 1..Len(ledger) :
         ledger'[q].count = IF q = n \/ q = n - 1 THEN c ELSE ledger[q].count
  <2> DEFINE g == SetCounts(ledger, n, c)
  <2>1. n \in Int /\ ledger' = g
    BY <1>1 DEF n
  <2>2. \A q \in 1..Len(ledger) : g[q].count = IF q = n \/ q = n - 1 THEN c ELSE ledger[q].count
    BY <1>1, <2>1, SetCountsIs
  <2> HIDE DEF g
  <2> QED BY <2>1, <2>2
<1>4. \A r \in 1..n : ledger[r].block \in 0..db.block
  BY <1>1 DEF Filed
<1>5. PICK t : t = db.block /\ t \in 0..db.block
  BY <1>1
<1>6. db.at[t] \in 2..n /\ ledger[db.at[t] - 1].block = t
      /\ \A r \in 1..n : ledger[r].block <= t => r <= db.at[t]
  BY <1>5 DEF IndexRowsOK, n
<1>7. db.at[t] = n /\ n \in 1..n /\ n - 1 \in 1..n /\ n \in 2..n
  <2>1. n \in 1..n
    BY <1>1, <1>6
  <2>2. ledger[n].block <= t
    BY <1>4, <1>5, <2>1
  <2>3. n <= db.at[t]
    BY <1>6, <2>1, <2>2
  <2> QED BY <1>1, <1>6, <2>3
<1>8. ledger[n - 1].block = t
  BY <1>6, <1>7
<1>9. ASSUME NEW h PROVE HeldAt(h)' = HeldAt(h)
  <2>1. \A k : ValAt(k, h)' = ValAt(k, h)
    BY <1>2, ValAtKept
  <2> QED BY <2>1, Zenon DEF HeldAt
<1>10. HeldAt(t) = Held(<<>>)
  <2>1. ASSUME NEW k \in Grants PROVE ValAt(k, t) = db.val[k]
    <3>1. k \in Keys /\ k \notin Heights
      BY NamedKeys DEF Named
    <3>2. k \in Keys \ ((db.block + 1)..MaxBlock)
      BY <1>5, <3>1 DEF Heights
    <3> QED BY <1>5, <3>2, IndexFromLedger DEF IndexTrue
  <2> QED BY <2>1, HeldEmpty, Zenon DEF HeldAt
<1> SUFFICES ASSUME NEW h \in 0..db.block
             PROVE  ledger'[db'.at[h]].count = Cardinality(HeldAt(h)')
  BY DEF CountedTo
<1>11. CASE h = t
  <2>1. ledger'[n].count = c
    BY <1>1, <1>3, <1>7
  <2> QED BY <1>7, <1>9, <1>10, <1>11, <2>1
<1>12. CASE h # t
  <2>1. h \in 0..(db.block - 1)
    BY <1>1, <1>5, <1>12
  <2>2. db.at[h] \in 2..n
    BY DEF IndexRowsOK, n
  <2>3. ledger[db.at[h]].block = h
    BY <2>2, IndexRowIs
  <2>4. db.at[h] \in 1..n /\ db.at[h] \in 1..Len(ledger)
    BY <1>1, <2>2
  <2>5. db.at[h] # n - 1
    BY <1>8, <1>12, <2>3
  <2>6. db.at[h] # n
    <3>1. n \in 1..n /\ n - 1 \in 1..n /\ n - 1 <= n
      BY <1>1, <1>7
    <3>2. ledger[n - 1].block <= ledger[n].block
      BY <1>1, <3>1 DEF Filed
    <3>3. ledger[n].block \in 0..db.block
      BY <1>4, <3>1
    <3> QED BY <1>1, <1>5, <1>8, <1>12, <2>3, <3>2, <3>3
  <2>7. ledger'[db.at[h]].count = ledger[db.at[h]].count
    BY <1>3, <2>4, <2>5, <2>6
  <2>8. ledger[db.at[h]].count = Cardinality(HeldAt(h))
    BY <2>1 DEF CountedTo
  <2> QED BY <1>9, <2>7, <2>8
<1> QED
  BY <1>11, <1>12

(* The index rows and their counts through every step.                     *)
LEMMA StepHistory ==
  ASSUME StoreInv, HistoryOK, [Next]_vars
  PROVE  HistoryOK'
<1>1. /\ LedgerOK /\ PointersOK /\ IndexRowsOK /\ CountedTo(db.block - 1)
      /\ pc \notin {"counts"} \cup Down => CountedTo(db.block)
      /\ db.block \in -1..MaxBlock /\ MaxBlock \in Nat
  BY KeysAssumption DEF StoreInv, HistoryOK, LedgerOK
<1>2. LedgerOK' /\ RowsKept
  BY <1>1, StepLedger
<1>less. ASSUME CountedTo(db.block)', db'.block \in Int PROVE CountedTo(db.block - 1)'
  <2>1. \A h \in 0..(db'.block - 1) : h \in 0..db'.block
    BY <1>less
  <2> QED BY <1>less, <2>1 DEF CountedTo, HeldAt
<1>3. CASE CommitDb
  <2>1. IndexRowsOK' /\ db'.block = db.block + 1 /\ UNCHANGED ledger
        /\ \A h \in 0..db.block : db'.at[h] = db.at[h]
    BY <1>1, <1>3, IndexRowsCommit
  <2>2. CountedTo(db.block) /\ pc' = "counts"
    BY <1>1, <1>3 DEF CommitDb, Down
  <2>3. \A h \in 0..db.block : \A k : ValAt(k, h)' = ValAt(k, h)
    BY <1>3, ValAtCommit
  <2>4. \A h \in 0..db.block : db'.at[h] = db.at[h] /\ \A k : ValAt(k, h)' = ValAt(k, h)
    BY <2>1, <2>3
  <2> DEFINE b == db.block
  <2>5. db'.block - 1 = b
    BY <1>1, <2>1
  <2>6. \A h \in 0..b : ledger'[db'.at[h]].count = Cardinality(HeldAt(h)')
    <3> SUFFICES ASSUME NEW h \in 0..b
                 PROVE  ledger'[db'.at[h]].count = Cardinality(HeldAt(h)')
      OBVIOUS
    <3>1. HeldAt(h)' = HeldAt(h)
      BY <2>3, Zenon DEF HeldAt
    <3>2. ledger[db.at[h]].count = Cardinality(HeldAt(h))
      BY <2>2 DEF CountedTo
    <3> QED BY <2>1, <3>1, <3>2
  <2>7. CountedTo(db.block - 1)'
    BY <2>5, <2>6 DEF CountedTo, HeldAt
  <2> QED BY <2>1, <2>2, <2>7 DEF HistoryOK
<1>4. CASE RollBackDb
  <2>1. IndexRowsOK' /\ db'.block = arg /\ UNCHANGED ledger
        /\ \A h \in 0..arg : h \in 0..db.block /\ db'.at[h] = db.at[h]
    BY <1>1, <1>4, IndexRowsRollBack
  <2>2. CountedTo(db.block) /\ arg \in -1..db.block
    BY <1>1, <1>4 DEF RollBackDb, Down, PointersOK
  <2>3. \A h \in 0..arg : \A k : ValAt(k, h)' = ValAt(k, h)
    BY <1>4, ValAtRollBack
  <2>4. \A h \in 0..db'.block : ledger'[db'.at[h]].count = Cardinality(HeldAt(h)')
    <3> SUFFICES ASSUME NEW h \in 0..arg
                 PROVE  ledger'[db'.at[h]].count = Cardinality(HeldAt(h)')
      BY <2>1
    <3>1. HeldAt(h)' = HeldAt(h)
      BY <2>3, Zenon DEF HeldAt
    <3>2. h \in 0..db.block
      BY <2>1
    <3>3. ledger[db.at[h]].count = Cardinality(HeldAt(h))
      BY <2>2, <3>2 DEF CountedTo
    <3> QED BY <2>1, <3>1, <3>3
  <2>5. CountedTo(db.block)'
    BY <2>4 DEF CountedTo, HeldAt
  <2>6. db'.block \in Int
    BY <1>1, <2>1, <2>2
  <2> QED BY <1>less, <2>1, <2>5, <2>6 DEF HistoryOK
<1>5. ASSUME UNCHANGED db, CountsKept,
             pc' \notin {"counts"} \cup Down => pc \notin {"counts"} \cup Down \/ db.row = 1
      PROVE  HistoryOK'
  <2>1. IndexRowsOK'
    BY <1>1, <1>2, <1>5, IndexRowsKept
  <2>2. db.block - 1 \in Int /\ db.block - 1 <= db.block /\ db.block \in Int /\ db.block <= db.block
    BY <1>1
  <2>b. PICK b \in Int : b = db.block - 1
    BY <2>2
  <2>d. PICK d \in Int : d = db.block
    BY <2>2
  <2>3. CountedTo(b)'
    <3>1. b <= db.block /\ CountedTo(b)
      BY <1>1, <2>2, <2>b
    <3> QED BY <1>1, <1>2, <1>5, <3>1, CountedKept
  <2>4. CountedTo(d) => CountedTo(d)'
    <3>1. d <= db.block
      BY <2>2, <2>d
    <3> QED BY <1>1, <1>2, <1>5, <3>1, CountedKept
  <2>5. db.row = 1 => CountedTo(d)
    <3>1. ASSUME db.row = 1, NEW h \in 0..db.block PROVE FALSE
      BY <1>1, <3>1 DEF IndexRowsOK
    <3> QED BY <2>d, <3>1 DEF CountedTo
  <2>6. pc' \notin {"counts"} \cup Down => CountedTo(d)'
    BY <1>1, <1>5, <2>4, <2>5, <2>d
  <2>7. CountedTo(db.block - 1)' /\ (pc' \notin {"counts"} \cup Down => CountedTo(db.block)')
    BY <1>5, <2>3, <2>6, <2>b, <2>d DEF CountedTo, HeldAt
  <2> QED BY <2>1, <2>7 DEF HistoryOK, Down
<1>last. ASSUME UNCHANGED db, db.row > 1, NEW c \in Nat, c = Cardinality(Held(<<>>)),
                ledger' = SetCounts(ledger, db.row - 1, c)
         PROVE  HistoryOK'
  <2>1. db.block >= 0
    <3>1. db.row - 1 \in 1..(db.row - 1)
      BY <1>1, <1>last DEF LedgerOK
    <3>2. ledger[db.row - 1].block \in 0..db.block
      BY <1>1, <3>1, PrevIs
    <3> QED BY <1>1, <3>2
  <2>2. CountedTo(db.block)'
    BY <1>1, <1>last, <2>1, CountedLast
  <2>3. IndexRowsOK'
    BY <1>1, <1>2, <1>last, IndexRowsKept
  <2>4. db'.block \in Int
    BY <1>1, <1>last
  <2> QED BY <1>less, <2>2, <2>3, <2>4 DEF HistoryOK
<1>6. CASE CommitRow
  <2>1. UNCHANGED db /\ CountsKept
    BY <1>1, <1>6, CommitRowLedger DEF CountsKept
  <2>2. pc \notin {"counts"} \cup Down
    BY <1>6 DEF CommitRow, Down
  <2> QED BY <1>5, <2>1, <2>2
<1>7. CASE CommitCounts
  <2> DEFINE m == UpdateCounts(mem)
  <2>1. /\ IsMem(mem) /\ mem.copiedRow = 0 /\ UNCHANGED db /\ mem.row = db.row /\ db.row >= 3
        /\ ledger' = SetCounts(ledger, m.row - 1, m.count)
        /\ mem.pool \in Seq(Row)
        /\ \A i \in 1..Len(mem.pool) : mem.pool[i].key \in Named =>
            mem.pool[i].prev < db.at[mem.pool[i].key]
    BY <1>1, <1>7 DEF CommitCounts, PointersOK
  <2>2. m.row = mem.row /\ m.count = Cardinality({k \in Grants : GetPermission(mem, k).val})
    BY <2>1, UpdateCountsIs
  <2> HIDE DEF m
  <2>3. m.count = Cardinality(Held(<<>>))
    BY <1>1, <2>1, <2>2, CountCommitted
  <2>4. m.count \in Nat
    BY <2>2, CountIs
  <2>5. db.row > 1
    BY <1>1, <2>1 DEF LedgerOK
  <2> QED BY <1>last, <2>1, <2>2, <2>3, <2>4, <2>5
<1>8. CASE Open
  <2> DEFINE z == [ZeroMem EXCEPT !.block = db.block, !.row = db.row]
             m == UpdateCounts(z)
  <2>1. /\ UNCHANGED db
        /\ \/ UNCHANGED ledger /\ pc' = "corrupted"
           \/ ledger' = RecountLastBlock(ledger, db.row, m.count)
    BY <1>8 DEF Open
  <2>2. IsMem(z) /\ z.pool = <<>> /\ z.copiedRow = 0
    BY DEF IsMem, MemFields, ZeroMem
  <2> HIDE DEF z
  <2>3. m.count = Cardinality(Held(<<>>))
    BY <2>2, CountFresh
  <2>4. m.count \in Nat
    <3>1. m.count = Cardinality({k \in Grants : GetPermission(z, k).val})
      BY <2>2, UpdateCountsIs
    <3> QED BY <3>1, CountIs
  <2> HIDE DEF m
  <2>5. CASE UNCHANGED ledger /\ pc' = "corrupted"
    BY <1>5, <2>1, <2>5 DEF CountsKept, Down
  <2>6. CASE db.row > 1 /\ ledger' = SetCounts(ledger, db.row - 1, m.count)
    BY <1>last, <2>1, <2>3, <2>4, <2>6
  <2>7. CASE ~(db.row > 1) /\ UNCHANGED ledger
    <3>1. db.row = 1
      BY <1>1, <2>7 DEF LedgerOK
    <3> QED BY <1>5, <2>1, <2>7, <3>1 DEF CountsKept
  <2> QED BY <2>1, <2>5, <2>6, <2>7 DEF RecountLastBlock
<1>9. ASSUME UNCHANGED <<ledger, db>>,
             pc' \notin {"counts"} \cup Down => pc \notin {"counts"} \cup Down
      PROVE  HistoryOK'
  BY <1>5, <1>9 DEF CountsKept
<1>10. CASE CommitHead \/ CommitDbFails \/ RollBackDbFails \/ RollBackHead \/ Crash \/ Repair
            \/ UNCHANGED vars
  <2>1. UNCHANGED <<ledger, db>> /\ (pc' \notin {"counts"} \cup Down => pc \notin {"counts"} \cup Down)
    BY <1>10 DEF CommitHead, CommitDbFails, RollBackDbFails, RollBackHead, Crash, Repair, vars, Disk, Down
  <2> QED BY <1>9, <2>1
<1>11. CASE pc \in {"up", "verify"} /\ UNCHANGED <<ledger, db>>
  BY <1>9, <1>11 DEF Down
<1> QED
  BY <1>3, <1>4, <1>6, <1>7, <1>8, <1>10, <1>11
  DEF Next, Disk, AcceptTx, ClearMemPool, CheckBlockPermissions, VerifyBegin, VerifyGrant,
      VerifyBlock, VerifyEnd, CommitBegin, RollBackBegin

LEMMA HistoryInvariant == Spec => [](StoreInv /\ HistoryOK)
<1>1. Init => HistoryOK
  BY DEF Init, HistoryOK, IndexRowsOK, CountedTo
<1>2. StoreInv /\ HistoryOK /\ [Next]_vars => HistoryOK'
  BY StepHistory
<1> QED
  BY <1>1, <1>2, StoreInvariant, PTL DEF Spec

-----------------------------------------------------------------------------
(* The memory during a verification.                                       *)

AtFork(fork) == [k \in Grants |-> ValAt(k, fork)]

(* The branch's rows are numbered from behind the fork block's on, each    *)
(* key's chained to the row that the fork block left for it, and the count *)
(* is that of the keys they leave granted.                                 *)
ForkOK(m) ==
  /\ IsMem(m) /\ m.copiedRow > 0 /\ m.fork \in 0..db.block
  /\ m.pool \in Seq(Row) /\ m.row \in Nat /\ m.block \in Int /\ Len(m.pool) < m.row
  /\ \A k \in Grants : /\ RowAt(k, m.fork) < m.row - Len(m.pool)
                       /\ Chained(m.pool, k, RowAt(k, m.fork), m.row - Len(m.pool))
  /\ m.count = Cardinality(HeldOver(AtFork(m.fork), m.pool))

LEMMA GetFork ==
  ASSUME LedgerOK, NEW m, ForkOK(m), NEW k \in Grants
  PROVE  LET last == LastIn(m.pool, k, Len(m.pool))
             base == m.row - Len(m.pool)
         IN /\ GetPermission(m, k).this = IF last = 0 THEN RowAt(k, m.fork) ELSE base + last - 1
            /\ GetPermission(m, k).this \in Nat
            /\ GetPermission(m, k).val = Over(AtFork(m.fork), m.pool, k)
            /\ Over(AtFork(m.fork), m.pool, k) \in BOOLEAN
<1> DEFINE last == LastIn(m.pool, k, Len(m.pool))
           base == m.row - Len(m.pool)
           a == RowAt(k, m.fork)
           v == ValAt(k, m.fork)
<1>1. /\ m.copiedRow > 0 /\ m.fork \in 0..db.block /\ m.pool \in Seq(Row) /\ m.row \in Nat
      /\ Len(m.pool) < m.row /\ a < base /\ Chained(m.pool, k, a, base)
  BY DEF ForkOK
<1>2. k \in Forkable /\ k \in Named /\ m.fork \in Nat
  BY <1>1 DEF Forkable, Named
<1>3. DbRead(m, k) = [this |-> a, val |-> v]
  BY <1>1, <1>2, ForkReadIs
<1>4. a \in Nat /\ v \in BOOLEAN
  BY <1>2, RowAtIs
<1>5. base \in Nat /\ Len(m.pool) \in Nat
  BY <1>1
<1> HIDE DEF a, v, base
<1>6. GetPermission(m, k) =
        IF last = 0 THEN [this |-> a, val |-> v]
        ELSE [this |-> m.pool[last].this, val |-> m.pool[last].val]
  BY <1>1, <1>3, <1>4, <1>5, GetIs
<1>7. last \in 0..Len(m.pool)
  BY <1>5, LastIs
<1>8. ASSUME last # 0 PROVE m.pool[last].this = base + last - 1 /\ m.pool[last].val \in BOOLEAN
  <2> HIDE DEF last
  <2>1. last \in 1..Len(m.pool)
    BY <1>5, <1>7, <1>8
  <2>2. m.pool[last] \in Row
    BY <1>1, <2>1
  <2>3. m.pool[last].this = base + last - 1
    BY <1>1, <2>1 DEF Chained
  <2> QED BY <2>2, <2>3 DEF Row
<1>9. AtFork(m.fork)[k] = v
  BY DEF AtFork, v
<1>10. Over(AtFork(m.fork), m.pool, k) = IF last = 0 THEN v ELSE m.pool[last].val
  BY <1>9 DEF Over
<1> HIDE DEF last
<1>11. CASE last = 0
  BY <1>4, <1>6, <1>10, <1>11 DEF last, a, base
<1>12. CASE last # 0
  <2>1. base + last - 1 \in Nat
    BY <1>5, <1>7, <1>12
  <2>2. GetPermission(m, k).this = base + last - 1 /\ GetPermission(m, k).val = m.pool[last].val
    BY <1>6, <1>8, <1>12
  <2> QED BY <1>8, <1>10, <1>12, <2>1, <2>2 DEF last, a, base
<1> QED
  BY <1>11, <1>12

(* A recount finds the keys that the fork block and the branch granted.    *)
LEMMA HeldFork ==
  ASSUME LedgerOK, NEW m, ForkOK(m)
  PROVE  {k \in Grants : GetPermission(m, k).val} = HeldOver(AtFork(m.fork), m.pool)
<1>1. \A k \in Grants : GetPermission(m, k).val = Over(AtFork(m.fork), m.pool, k)
  BY GetFork
<1> QED
  BY <1>1 DEF HeldOver

(* A fork without rows.                                                    *)
LEMMA HeldNone ==
  ASSUME NEW fork
  PROVE  HeldOver(AtFork(fork), <<>>) = HeldAt(fork)
<1>1. ASSUME NEW k \in Grants PROVE Over(AtFork(fork), <<>>, k) = ValAt(k, fork)
  <2>1. Len(<<>>) = 0
    OBVIOUS
  <2>2. LastIn(<<>>, k, 0) = 0
    BY LastIs
  <2> QED BY <2>1, <2>2 DEF Over, AtFork
<1> QED
  BY <1>1, Zenon DEF HeldOver, HeldAt

(* Going to the fork: with a fork at the tip the count for an empty pool   *)
(* is kept, and with one below it the count comes from its index row.      *)
LEMMA ForkBegins ==
  ASSUME StoreInv, HistoryOK, NEW fork \in 0..mem.block, VerifyBegin(fork)
  PROVE  ForkOK(mem')
<1> DEFINE n == RollBackBeforeMinerVerification(mem, fork)
           c == IF mem.pool = <<>> THEN mem.count ELSE mem.cleared
           base == mem.row - Len(mem.pool)
<1>1. LedgerOK /\ UpOK(mem) /\ CountOK(mem) /\ CountedTo(db.block) /\ IndexRowsOK /\ mem' = n
  BY DEF StoreInv, HistoryOK, PointersOK, CountsOK, VerifyBegin, Down
<1>2. /\ IsMem(mem) /\ mem.block = db.block /\ Len(mem.pool) \in Nat /\ db.row \in Nat
      /\ db.row >= 1 /\ base = db.row /\ db.block \in -1..MaxBlock /\ MaxBlock \in Nat
  BY <1>1, KeysAssumption DEF UpOK, Pooled, LedgerOK
<1>3. fork \in 0..db.block /\ fork \in Nat /\ fork \in Int
  BY <1>2
<1> HIDE DEF base
<1>4. /\ IsMem(n) /\ n.copiedRow = base /\ n.fork = fork /\ n.pool = <<>>
      /\ fork = mem.block => n.block = mem.block /\ n.row = base /\ n.count = c
      /\ fork # mem.block =>
           /\ n.block = fork
           /\ n.row = Max({r \in 1..(base - 1) : ledger[r].block <= fork} \cup {0}) + 1
           /\ n.count = CountAt(n, fork)
  <2>1. Forked(mem, fork, n)
    BY <1>2, ForkIs, Zenon
  <2> HIDE DEF n
  <2> QED BY ONLY <2>1 DEF Forked, base, c
<1>5. c = Cardinality(Held(<<>>))
  BY <1>1 DEF CountOK
<1> HIDE DEF n, c
<1>6. Len(n.pool) = 0 /\ n.pool \in Seq(Row)
  BY <1>4
<1>7. ASSUME NEW k \in Grants PROVE RowAt(k, fork) \in 0..(db.row - 1)
  BY <1>1, RowAtIs
<1>8. /\ n.row \in Nat /\ n.row >= 1 /\ n.block \in Int
      /\ \A k \in Grants : RowAt(k, fork) < n.row
  <2>1. CASE fork = mem.block
    BY <1>2, <1>4, <1>7, <2>1
  <2>2. CASE fork # mem.block
    <3> DEFINE S == {r \in 1..(base - 1) : ledger[r].block <= fork} \cup {0}
               e == db.row - 1
    <3>1. e \in Nat /\ base - 1 = e
      BY <1>2
    <3>2. S \in SUBSET (0..e) /\ S # {}
      BY <3>1
    <3> HIDE DEF e
    <3>3. Max(S) \in S /\ \A q \in S : q <= Max(S)
      BY <3>1, <3>2, MaxIs
    <3>4. ASSUME NEW k \in Grants PROVE RowAt(k, fork) \in S
      BY <1>1, <1>2, <3>1, RowAtIs DEF e
    <3>5. n.row = Max(S) + 1
      BY <1>4, <2>2
    <3> HIDE DEF S
    <3>6. \A q \in S : q \in Nat
      BY <3>1, <3>2
    <3>7. Max(S) \in Nat
      BY <3>3, <3>6
    <3> QED BY <1>3, <1>4, <2>2, <3>3, <3>4, <3>5, <3>6, <3>7
  <2> QED BY <2>1, <2>2
<1>9. ASSUME NEW k \in Grants PROVE Chained(n.pool, k, RowAt(k, fork), n.row)
  BY <1>6 DEF Chained
<1>10. n.count = Cardinality(HeldAt(fork))
  <2>1. CASE fork = mem.block
    <3>1. ASSUME NEW k \in Grants PROVE ValAt(k, fork) = db.val[k]
      <4>1. k \in Keys /\ k \notin Heights
        BY <1>1, NamedKeys DEF Named
      <4>2. k \in Keys \ ((db.block + 1)..MaxBlock)
        BY <1>2, <4>1 DEF Heights
      <4> QED BY <1>1, <1>2, <2>1, <4>2, IndexFromLedger DEF IndexTrue
    <3>2. HeldAt(fork) = Held(<<>>)
      BY <3>1, HeldEmpty, Zenon DEF HeldAt
    <3> QED BY <1>4, <1>5, <2>1, <3>2
  <2>2. CASE fork # mem.block
    <3>2. GetPermission(n, fork) = [this |-> DbRead(n, fork).this, val |-> DbRead(n, fork).val]
      BY <1>4, GetEmpty
    <3>3. fork \notin Forkable
      BY <1>1, <1>3, IndexRowIs
    <3>4. DbRead(n, fork) = [this |-> db.at[fork], val |-> db.val[fork]]
      BY <3>3 DEF DbRead
    <3>5. GetPermission(n, fork).this = db.at[fork]
      BY <3>2, <3>4
    <3>6. ledger[db.at[fork]].count = Cardinality(HeldAt(fork))
      BY <1>1, <1>3 DEF CountedTo
    <3> QED BY <1>4, <2>2, <3>5, <3>6 DEF CountAt
  <2> QED BY <2>1, <2>2
<1>11. n.count = Cardinality(HeldOver(AtFork(n.fork), n.pool))
  BY <1>4, <1>10, HeldNone
<1>12. n.row - Len(n.pool) = n.row /\ Len(n.pool) < n.row /\ n.copiedRow > 0
  BY <1>2, <1>4, <1>6, <1>8
<1>13. ForkOK(n)
  BY <1>3, <1>4, <1>6, <1>8, <1>9, <1>11, <1>12 DEF ForkOK
<1> QED
  BY <1>1, <1>13

(* A grant of the branch.                                                  *)
LEMMA ForkGrant ==
  ASSUME LedgerOK, NEW m, ForkOK(m), NEW k \in Grants, NEW v \in BOOLEAN
  PROVE  LET n == SetPermission(m, k, v)
         IN ForkOK(n) /\ NewRow(m, k, v) \in Row
<1> DEFINE n == SetPermission(m, k, v)
           row == NewRow(m, k, v)
           base == m.row - Len(m.pool)
           g == GetPermission(m, k)
           d == AtFork(m.fork)
<1>1. /\ IsMem(m) /\ m.copiedRow > 0 /\ m.fork \in 0..db.block /\ m.pool \in Seq(Row)
      /\ m.row \in Nat /\ m.block \in Int /\ Len(m.pool) < m.row /\ Len(m.pool) \in Nat
      /\ m.count = Cardinality(HeldOver(d, m.pool)) /\ base \in Nat
  BY DEF ForkOK
<1>2. /\ SameFork(m, n) /\ n.pool = Append(m.pool, row) /\ n.row = m.row + 1
      /\ n.count = m.count + Delta(k, g.val, v)
  BY <1>1, SetPermissionIs
<1>3. /\ g.this = IF LastIn(m.pool, k, Len(m.pool)) = 0 THEN RowAt(k, m.fork)
                  ELSE base + LastIn(m.pool, k, Len(m.pool)) - 1
      /\ g.this \in Nat /\ g.val = Over(d, m.pool, k) /\ Over(d, m.pool, k) \in BOOLEAN
  BY GetFork
<1> HIDE DEF g, d
<1>4. row = [key |-> k, prev |-> g.this, this |-> m.row, val |-> v,
             block |-> m.block + 1, count |-> 0]
  BY DEF NewRow, g
<1> HIDE DEF row, n
<1>5. k \in Keys
  BY DEF Keys
<1>6. row \in Row /\ row.key = k /\ row.val = v /\ row.prev = g.this /\ row.this = m.row
  BY <1>1, <1>3, <1>4, <1>5 DEF Row
<1>7. n.pool \in Seq(Row) /\ Len(n.pool) = Len(m.pool) + 1
  BY <1>1, <1>2, <1>6
<1>8. n.row - Len(n.pool) = base /\ n.row \in Nat /\ Len(n.pool) < n.row
      /\ base + Len(m.pool) = m.row
  <2>1. m.row \in Nat /\ Len(m.pool) \in Nat /\ Len(m.pool) < m.row /\ n.row = m.row + 1
        /\ Len(n.pool) = Len(m.pool) + 1
    BY <1>1, <1>2, <1>7
  <2> QED BY ONLY <2>1
<1> HIDE DEF base
<1>9. ASSUME NEW j \in Grants
      PROVE  RowAt(j, m.fork) < base /\ Chained(n.pool, j, RowAt(j, m.fork), base)
  <2>1. RowAt(j, m.fork) < base /\ Chained(m.pool, j, RowAt(j, m.fork), base)
    BY DEF ForkOK, base
  <2>2. row.key = j => row.prev = IF LastIn(m.pool, j, Len(m.pool)) = 0 THEN RowAt(j, m.fork)
                                  ELSE base + LastIn(m.pool, j, Len(m.pool)) - 1
    BY <1>3, <1>6
  <2>3. row.this = base + Len(m.pool)
    BY <1>6, <1>8
  <2> DEFINE at == RowAt(j, m.fork)
  <2> HIDE DEF at
  <2>4. Chained(Append(m.pool, row), j, at, base)
    BY <1>1, <1>6, <2>1, <2>2, <2>3, ChainAppend DEF at
  <2> QED BY <1>2, <2>1, <2>4 DEF at
<1>10. Cardinality(HeldOver(d, n.pool))
         = Cardinality(HeldOver(d, m.pool)) + Delta(row.key, Over(d, m.pool, row.key), row.val)
  <2>1. row.key \in Grants => Over(d, m.pool, row.key) \in BOOLEAN
    BY <1>3, <1>6
  <2> QED BY <1>1, <1>2, <1>6, <2>1, OverAppend
<1>11. n.count = Cardinality(HeldOver(d, n.pool))
  <2>1. Delta(row.key, Over(d, m.pool, row.key), row.val) = Delta(k, g.val, v)
    BY <1>3, <1>6, Zenon
  <2> QED BY <1>1, <1>2, <1>10, <2>1
<1>12. ForkOK(n)
  BY <1>1, <1>2, <1>7, <1>8, <1>9, <1>11 DEF ForkOK, SameFork, d
<1> QED
  BY <1>6, <1>12 DEF n, row

(* A block of the branch.                                                  *)
LEMMA ForkBlock ==
  ASSUME LedgerOK, NEW m, ForkOK(m)
  PROVE  ForkOK(UpdateCounts([m EXCEPT !.block = @ + 1]))
<1> DEFINE e == [m EXCEPT !.block = @ + 1]
           n == UpdateCounts(e)
<1>1. IsMem(m) /\ m.block \in Int
  BY DEF ForkOK
<1>2. /\ IsMem(e) /\ e.pool = m.pool /\ e.row = m.row /\ e.fork = m.fork
      /\ e.copiedRow = m.copiedRow /\ e.block = m.block + 1 /\ e.count = m.count
  BY <1>1 DEF IsMem, MemFields
<1> HIDE DEF e
<1>3. ForkOK(e)
  BY <1>1, <1>2 DEF ForkOK
<1>4. /\ SameFork(e, n) /\ n.pool = e.pool /\ n.row = e.row
      /\ n.count = Cardinality({k \in Grants : GetPermission(e, k).val})
  BY <1>2, UpdateCountsIs
<1> HIDE DEF n
<1>5. n.count = Cardinality(HeldOver(AtFork(e.fork), e.pool))
  BY <1>3, <1>4, HeldFork
<1>6. ForkOK(n)
  BY <1>3, <1>4, <1>5 DEF ForkOK, SameFork
<1> QED
  BY <1>6 DEF n, e

VerifyOK == pc = "verify" => ForkOK(mem)

LEMMA StepVerify ==
  ASSUME StoreInv, HistoryOK, VerifyOK, [Next]_vars
  PROVE  VerifyOK'
<1>1. LedgerOK
  BY DEF StoreInv
<1>2. ASSUME ForkOK(mem'), UNCHANGED <<ledger, db>> PROVE VerifyOK'
  <2>1. ForkOK(mem)'
    BY <1>2 DEF ForkOK, RowAt, AtFork, ValAt, HeldOver, Over
  <2> QED BY <2>1 DEF VerifyOK
<1>3. ASSUME NEW fork \in 0..mem.block, VerifyBegin(fork) PROVE VerifyOK'
  <2>1. UNCHANGED <<ledger, db>>
    BY <1>3 DEF VerifyBegin, Disk
  <2> QED BY <1>2, <1>3, <2>1, ForkBegins
<1>4. ASSUME NEW g \in Grant, VerifyGrant(g) PROVE VerifyOK'
  <2>1. UNCHANGED <<ledger, db>> /\ mem' = SetPermission(mem, g.key, g.val) /\ ForkOK(mem)
        /\ g.key \in Grants /\ g.val \in BOOLEAN
    BY <1>4 DEF VerifyGrant, Disk, VerifyOK, Grant
  <2>2. ForkOK(mem')
    BY <1>1, <2>1, ForkGrant
  <2> QED BY <1>2, <2>1, <2>2
<1>5. CASE VerifyBlock
  <2>1. UNCHANGED <<ledger, db>> /\ mem' = UpdateCounts([mem EXCEPT !.block = @ + 1]) /\ ForkOK(mem)
    BY <1>5 DEF VerifyBlock, Disk, VerifyOK
  <2>2. ForkOK(mem')
    BY <1>1, <2>1, ForkBlock
  <2> QED BY <1>2, <2>1, <2>2
<1>6. CASE UNCHANGED vars
  <2>1. UNCHANGED <<ledger, db, mem, pc>>
    BY <1>6 DEF vars
  <2>2. pc = "verify" => VerifyOK'
    BY <1>2, <2>1 DEF VerifyOK
  <2> QED BY <2>1, <2>2 DEF VerifyOK
<1>7. CASE pc' # "verify"
  BY <1>7 DEF VerifyOK
<1> QED
  BY <1>3, <1>4, <1>5, <1>6, <1>7
  DEF Next, AcceptTx, ClearMemPool, CheckBlockPermissions, VerifyEnd, CommitBegin, CommitRow,
      CommitHead, CommitDb, CommitDbFails, CommitCounts, RollBackBegin, RollBackDb,
      RollBackDbFails, RollBackHead, Crash, Repair, Open, Down

LEMMA VerifyInvariant == Spec => [](StoreInv /\ HistoryOK /\ VerifyOK)
<1>1. Init => VerifyOK
  BY DEF Init, VerifyOK
<1>2. StoreInv /\ HistoryOK /\ VerifyOK /\ [Next]_vars => VerifyOK'
  BY StepVerify
<1> QED
  BY <1>1, <1>2, HistoryInvariant, PTL DEF Spec

(* The count that a block's index row holds is the number of addresses     *)
(* that its block left with the permission, whatever crash or roll back    *)
(* came in between, and during a verification on a fork every address      *)
(* reads as the fork block left it, however many blocks of the active      *)
(* chain have changed it since, and the count is that of a recount.        *)
THEOREM ForkReadTrueHolds == Spec => []ForkReadTrue
<1>1. ASSUME StoreInv, HistoryOK, VerifyOK PROVE ForkReadTrue
  <2>1. ASSUME pc \notin {"counts"} \cup Down, NEW h \in 0..db.block
        PROVE  ledger[db.at[h]].count = Cardinality({k \in Grants : ValAt(k, h)})
    BY <1>1, <2>1 DEF HistoryOK, CountedTo, HeldAt
  <2>2. ASSUME pc = "verify"
        PROVE  /\ mem.count = UpdateCounts(mem).count
               /\ \A k \in Forkable : DbRead(mem, k).this = RowAt(k, mem.fork)
                                      /\ DbRead(mem, k).val = ValAt(k, mem.fork)
    <3>1. LedgerOK /\ ForkOK(mem)
      BY <1>1, <2>2 DEF StoreInv, VerifyOK
    <3>2. IsMem(mem) /\ mem.copiedRow > 0 /\ mem.fork \in Nat
          /\ mem.count = Cardinality(HeldOver(AtFork(mem.fork), mem.pool))
      BY <3>1 DEF ForkOK
    <3>3. UpdateCounts(mem).count = Cardinality({k \in Grants : GetPermission(mem, k).val})
      BY <3>2, UpdateCountsIs
    <3>4. mem.count = UpdateCounts(mem).count
      BY <3>1, <3>2, <3>3, HeldFork
    <3>5. ASSUME NEW k \in Forkable
          PROVE  DbRead(mem, k).this = RowAt(k, mem.fork)
                 /\ DbRead(mem, k).val = ValAt(k, mem.fork)
      <4>1. DbRead(mem, k) = [this |-> RowAt(k, mem.fork), val |-> ValAt(k, mem.fork)]
        BY <3>1, <3>2, ForkReadIs
      <4> QED BY ONLY <4>1
    <3> QED BY <3>4, <3>5
  <2> QED BY <2>1, <2>2 DEF ForkReadTrue
<1> QED
  BY VerifyInvariant, <1>1, PTL


-----------------------------------------------------------------------------
(* Types. What is in memory keeps its type through each operation on it,   *)
(* as long as no count falls below zero and no pointer passes its rows.    *)

LEMMA MemTyped ==
  ASSUME NEW m \in MemType
  PROVE  /\ m.block \in -1..MaxBlock /\ m.row \in Nat /\ m.pool \in Seq(Row)
         /\ m.count \in Nat /\ m.cleared \in Nat /\ m.cpRow \in Nat /\ m.cpSize \in Nat
         /\ m.cpCount \in Nat /\ m.copied \in Seq(Row) /\ m.copiedRow \in Nat
         /\ m.copiedBlock \in -1..MaxBlock /\ m.copiedCount \in Nat /\ m.fork \in Nat
         /\ Len(m.pool) \in Nat /\ Len(m.copied) \in Nat
<1>1. m.pool \in Seq(Row) /\ m.copied \in Seq(Row)
  BY DEF MemType
<1>2. Len(m.pool) \in Nat /\ Len(m.copied) \in Nat
  BY <1>1
<1> QED
  BY <1>2 DEF MemType

LEMMA UpdateCountsTyped ==
  ASSUME NEW m \in MemType
  PROVE  UpdateCounts(m) \in MemType
<1> DEFINE c == Cardinality({k \in Grants : GetPermission(m, k).val})
<1>1. c \in Nat
  BY CountIs
<1>2. UpdateCounts(m) = [m EXCEPT !.count = c]
  BY DEF UpdateCounts
<1> HIDE DEF c
<1> QED
  BY <1>1, <1>2 DEF MemType

LEMMA ClearTyped ==
  ASSUME NEW m \in MemType, Len(m.pool) <= m.row
  PROVE  ClearMemPoolInternal(m) \in MemType
<1> DEFINE e == [m EXCEPT !.row = @ - Len(m.pool), !.pool = <<>>]
           u == UpdateCounts(e)
           c == IF m.pool = <<>> THEN m ELSE u
<1>1. m.row - Len(m.pool) \in Nat /\ <<>> \in Seq(Row)
  BY DEF MemType
<1>2. e \in MemType
  BY <1>1 DEF MemType
<1> HIDE DEF e
<1>3. u \in MemType
  BY <1>2, UpdateCountsTyped
<1> HIDE DEF u
<1>4. c \in MemType
  BY <1>3
<1>5. ClearMemPoolInternal(m) = [c EXCEPT !.cleared = c.count]
  BY DEF ClearMemPoolInternal, c, u, e
<1> HIDE DEF c
<1> QED
  BY <1>4, <1>5 DEF MemType

LEMMA CopyTyped ==
  ASSUME NEW m \in MemType
  PROVE  CopyMemPool(m) \in MemType
BY DEF CopyMemPool, MemType

LEMMA RestoreTyped ==
  ASSUME NEW m \in MemType, Len(m.pool) <= m.row
  PROVE  RestoreMemPool(m) \in MemType
<1> DEFINE c == ClearMemPoolInternal(m)
<1>1. c \in MemType /\ Len(m.copied) \in Nat /\ m.copied \in Seq(Row) /\ m.copiedCount \in Nat
  BY ClearTyped, MemTyped
<1> DEFINE r == c.row + Len(m.copied)
<1>2. RestoreMemPool(m) = [c EXCEPT !.pool = m.copied, !.row = r, !.count = m.copiedCount]
  BY DEF RestoreMemPool
<1> HIDE DEF c
<1>3. r \in Nat
  BY <1>1, MemTyped
<1> HIDE DEF r
<1> QED
  BY <1>1, <1>2, <1>3 DEF MemType

LEMMA CheckPointTyped ==
  ASSUME NEW m \in MemType
  PROVE  SetCheckPoint(m) \in MemType
<1>1. Len(m.pool) \in Nat
  BY DEF MemType
<1> QED
  BY <1>1 DEF SetCheckPoint, MemType

LEMMA RollBackToTyped ==
  ASSUME NEW m \in MemType, m.cpSize <= Len(m.pool)
  PROVE  RollBackToCheckPoint(m) \in MemType
<1> DEFINE p == SubSeq(m.pool, 1, m.cpSize)
<1>1. m.pool \in Seq(Row) /\ m.cpSize \in Nat
  BY DEF MemType
<1>2. p \in Seq(Row)
  <2>1. \A i \in 1..m.cpSize : m.pool[i] \in Row
    BY <1>1
  <2> QED BY <1>1, <2>1, SubSeqProperties
<1>3. RollBackToCheckPoint(m) = [m EXCEPT !.row = m.cpRow, !.pool = p, !.count = m.cpCount]
  BY DEF RollBackToCheckPoint
<1> HIDE DEF p
<1> QED
  BY <1>2, <1>3 DEF MemType

LEMMA ForgetTyped ==
  ASSUME NEW m \in MemType
  PROVE  Forget(m) \in MemType
<1>1. <<>> \in Seq(Row)
  OBVIOUS
<1> QED
  BY <1>1 DEF Forget, MemType

LEMMA UnforkTyped ==
  ASSUME NEW m \in MemType
  PROVE  RestoreAfterMinerVerification(m) \in MemType
<1> DEFINE r == m.copiedRow + Len(m.copied)
<1>1. r \in Nat /\ 0 \in -1..MaxBlock /\ 0 \in Nat
  BY MemTyped, KeysAssumption
<1>2. RestoreAfterMinerVerification(m) =
        [m EXCEPT !.pool = m.copied, !.block = m.copiedBlock, !.fork = 0, !.row = r,
                  !.copiedRow = 0, !.copiedBlock = 0, !.count = m.copiedCount]
  BY DEF RestoreAfterMinerVerification
<1> HIDE DEF r
<1> QED
  BY <1>1, <1>2 DEF MemType

(* SetPermissionInternal and CommitInternal add a row.                     *)
LEMMA SetPermissionTyped ==
  ASSUME NEW m \in MemType, NEW k, NEW v,
         SetPermission(m, k, v).pool \in Seq(Row), SetPermission(m, k, v).count \in Nat
  PROVE  SetPermission(m, k, v) \in MemType
<1> DEFINE p == Append(m.pool, NewRow(m, k, v))
           c == m.count + Delta(k, GetPermission(m, k).val, v)
           d == IF m.pool = <<>> /\ m.copiedRow = 0 THEN m.count ELSE m.cleared
           r == m.row + 1
<1>1. SetPermission(m, k, v) = [m EXCEPT !.pool = p, !.row = r, !.count = c, !.cleared = d]
  BY DEF SetPermission, NewRow
<1>2. d \in Nat /\ r \in Nat
  BY DEF MemType
<1> HIDE DEF p, c, d, r
<1>3. p \in Seq(Row) /\ c \in Nat
  BY <1>1 DEF MemType
<1> QED
  BY <1>1, <1>2, <1>3 DEF MemType

LEMMA BlockRowTyped ==
  ASSUME NEW m \in MemType, NEW k, NEW prev, BlockRow(m, k, prev).pool \in Seq(Row)
  PROVE  BlockRow(m, k, prev) \in MemType
<1> DEFINE p == Append(m.pool, [key |-> k, prev |-> prev, this |-> m.row, val |-> TRUE,
                                block |-> m.block + 1, count |-> 0])
           r == m.row + 1
<1>1. BlockRow(m, k, prev) = [m EXCEPT !.row = r, !.pool = p]
  BY DEF BlockRow
<1>2. r \in Nat
  BY DEF MemType
<1> HIDE DEF p, r
<1>3. p \in Seq(Row)
  BY <1>1 DEF MemType
<1> QED
  BY <1>1, <1>2, <1>3 DEF MemType

(* The pointers at the fork, in the state after.                           *)
LEMMA ForkTyped ==
  ASSUME NEW m \in MemType, Len(m.pool) <= m.row, NEW fork \in 0..m.block,
         RollBackBeforeMinerVerification(m, fork).row \in Nat,
         RollBackBeforeMinerVerification(m, fork).count \in Nat
  PROVE  RollBackBeforeMinerVerification(m, fork) \in MemType
<1> DEFINE p == CopyMemPool(m)
           was == IF m.pool = <<>> THEN p.count ELSE m.cleared
           base == p.row - Len(m.pool)
           c == [p EXCEPT !.count = was, !.row = base, !.pool = <<>>]
           s == [c EXCEPT !.copiedBlock = c.block, !.copiedRow = c.row, !.fork = fork]
           kept == {r \in 1..(s.row - 1) : ledger[r].block <= fork}
           top == Max(kept \cup {0}) + 1
           b == [s EXCEPT !.row = top, !.block = fork]
           at == CountAt(b, fork)
           n == IF fork = m.block THEN s ELSE [b EXCEPT !.count = at]
<1>1. p \in MemType /\ p.row = m.row
  BY CopyTyped DEF CopyMemPool, MemType
<1>2. RollBackBeforeMinerVerification(m, fork) = n
  BY DEF RollBackBeforeMinerVerification
<1> HIDE DEF p
<1>a. was \in Nat /\ base \in Nat /\ <<>> \in Seq(Row)
  BY <1>1, MemTyped
<1>b. fork \in -1..MaxBlock /\ fork \in Nat
  BY MemTyped, KeysAssumption
<1> HIDE DEF was, base
<1>3. c \in MemType
  BY <1>1, <1>a DEF MemType
<1> HIDE DEF c
<1>4. s \in MemType
  BY <1>3, <1>b DEF MemType
<1> HIDE DEF s, top
<1>5. CASE fork = m.block
  BY <1>2, <1>4, <1>5
<1>6. CASE fork # m.block
  <2>1. n = [b EXCEPT !.count = at]
    BY <1>6
  <2>2. b = [s EXCEPT !.row = top, !.block = fork]
    OBVIOUS
  <2> HIDE DEF at, b, n
  <2>3. n = [s EXCEPT !.row = top, !.block = fork, !.count = at]
    BY <1>4, <2>1, <2>2 DEF MemType
  <2>4. top \in Nat /\ at \in Nat
    BY <1>2, <1>4, <2>3 DEF MemType
  <2>5. n \in MemType
    BY <1>4, <1>b, <2>3, <2>4 DEF MemType
  <2> QED BY <1>2, <2>5
<1> QED
  BY <1>5, <1>6

(* A transaction's rows fit into the pool, and so do those it drops.       *)
LEMMA TxRowsTyped ==
  ASSUME LedgerOK, UpOK(mem), CountOK(mem), mem \in MemType,
         NEW gs \in {<<>>} \cup {<<g>> : g \in Grant},
         NEW issue \in {<<>>} \cup {<<a>> : a \in Assets}
  PROVE  LET t == TxRows(gs, issue)
         IN /\ t \in MemType /\ CpOK(t)
            /\ Len(t.pool) = Len(mem.pool) + Len(gs) + Len(issue)
<1> DEFINE begun == SetCheckPoint(mem)
           granted == IF gs = <<>> THEN begun ELSE SetPermission(begun, gs[1].key, gs[1].val)
           cp == SetCheckPoint(granted)
           t == TxRows(gs, issue)
<1>1. IsMem(mem) /\ mem.pool \in Seq(Row) /\ Len(mem.pool) \in Nat
  BY MemTyped DEF UpOK
<1>2. begun \in MemType /\ IsMem(begun) /\ begun.pool = mem.pool
  BY <1>1, CheckPointTyped, CheckPointIs DEF SameFork
<1>3. TxRows(gs, <<>>) = granted
  BY DEF TxRows
<1>4. t = IF issue = <<>> THEN granted ELSE SetPermission(cp, issue[1], TRUE)
  BY DEF TxRows
<1>5. UpOK(granted) /\ CountOK(granted)
  <2>1. <<>> \in {<<>>} \cup {<<a>> : a \in Assets}
    OBVIOUS
  <2> HIDE DEF granted
  <2> QED BY <1>3, <2>1, TxRowsUp, TxRowsCount
<1> HIDE DEF begun
<1>6. granted \in MemType /\ Len(granted.pool) = Len(mem.pool) + Len(gs)
  <2>1. granted.pool \in Seq(Row) /\ granted.count \in Nat
    <3> HIDE DEF granted
    <3>1. Held(granted.pool) \in SUBSET Grants
      BY DEF Held
    <3> QED BY <1>5, <3>1, CountIs DEF UpOK, Pooled, CountOK
  <2>2. CASE gs = <<>>
    BY <1>1, <1>2, <2>2
  <2>3. CASE gs # <<>>
    <3> DEFINE k == gs[1].key
               v == gs[1].val
               n == SetPermission(begun, k, v)
    <3>1. granted = n /\ Len(gs) = 1
      BY <2>3
    <3> HIDE DEF granted, k, v
    <3>2. n \in MemType
      BY <1>2, <2>1, <3>1, SetPermissionTyped
    <3>3. n.pool = Append(begun.pool, NewRow(begun, k, v))
      BY <1>2, SetPermissionIs
    <3> HIDE DEF n
    <3>4. Len(n.pool) = Len(mem.pool) + 1
      BY <1>1, <1>2, <3>3
    <3> QED BY <3>1, <3>2, <3>4
  <2> QED BY <2>2, <2>3
<1> HIDE DEF granted
<1>7. cp \in MemType /\ IsMem(cp) /\ cp.pool = granted.pool /\ Len(cp.pool) \in Nat
  <2>1. IsMem(granted)
    BY <1>5 DEF UpOK
  <2>2. cp \in MemType
    BY <1>6, CheckPointTyped
  <2> QED BY <2>1, <2>2, CheckPointIs, MemTyped DEF SameFork
<1> HIDE DEF cp
<1>8. UpOK(t) /\ CountOK(t) /\ CpOK(t)
  BY TxRowsUp, TxRowsCount
<1>9. t.pool \in Seq(Row) /\ t.count \in Nat
  <2> HIDE DEF t
  <2>1. Held(t.pool) \in SUBSET Grants
    BY DEF Held
  <2> QED BY <1>8, <2>1, CountIs DEF UpOK, Pooled, CountOK
<1> HIDE DEF t
<1>10. t \in MemType /\ Len(t.pool) = Len(mem.pool) + Len(gs) + Len(issue)
  <2>0. Len(mem.pool) + Len(gs) \in Nat
    BY <1>6, <1>7
  <2>1. CASE issue = <<>>
    BY <1>4, <1>6, <2>0, <2>1
  <2>2. CASE issue # <<>>
    <3> DEFINE k == issue[1]
               v == TRUE
               n == SetPermission(cp, k, v)
    <3>1. t = n /\ Len(issue) = 1
      BY <1>4, <2>2
    <3> HIDE DEF k, v
    <3>2. n \in MemType
      BY <1>7, <1>9, <3>1, SetPermissionTyped
    <3>3. n.pool = Append(cp.pool, NewRow(cp, k, v))
      BY <1>7, SetPermissionIs
    <3> HIDE DEF n
    <3>4. cp.pool \in Seq(Row)
      BY <1>7, MemTyped
    <3>5. Len(n.pool) = Len(cp.pool) + 1
      BY <3>3, <3>4
    <3> QED BY <1>6, <1>7, <2>0, <3>1, <3>2, <3>5
  <2> QED BY <2>1, <2>2
<1> QED
  BY <1>8, <1>10 DEF t

(* The rows of transactions that wait in memory are within their bound,    *)
(* and two more are on their way to the file.                              *)
SizesOK == /\ pc = "up" => Len(mem.pool) <= MaxPool
           /\ pc = "verify" => Len(mem.copied) <= MaxPool
           /\ pc = "rows" => Len(mem.pool) <= MaxPool + 2

FieldsOK == mem \in MemType /\ head \in [block : -1..MaxBlock, row : Nat]
StepArgs == /\ arg \in (-1..MaxBlock) \cup (0..(MaxPool + 2))
            /\ reply \in {"none", "accept", "reject"} /\ ops \in 0..MaxOps

(* A cut is at a row.                                                      *)
LEMMA CutTyped ==
  ASSUME NEW end \in Nat, NEW block
  PROVE  CutRow(end, block) \in Nat
<1> DEFINE S == {0} \cup {r \in 1..end : ledger[r].block <= block}
<1>1. S \in SUBSET (0..end) /\ S # {}
  OBVIOUS
<1> HIDE DEF S
<1>2. Max(S) \in S
  BY <1>1, MaxIs
<1>3. Max(S) \in 0..end
  BY <1>1, <1>2
<1>4. CutRow(end, block) = Max(S) + 1
  BY DEF CutRow, S
<1> QED
  BY <1>3, <1>4

(* Row 0 of the ledger.                                                    *)
LEMMA StepHead ==
  ASSUME LedgerOK, PointersOK, FieldsOK, [Next]_vars
  PROVE  head' \in [block : -1..MaxBlock, row : Nat]
<1>0. db.block \in -1..MaxBlock /\ db.row \in Nat /\ Len(ledger) \in Nat /\ MaxBlock \in Nat
  BY KeysAssumption DEF LedgerOK
<1>1. CASE CommitHead
  <2>1. mem.block = db.block /\ db.block < MaxBlock /\ mem.row \in Nat
        /\ head' = [block |-> mem.block + 1, row |-> mem.row]
    BY <1>1, MemTyped DEF CommitHead, PointersOK, UpOK, FieldsOK
  <2>2. mem.block + 1 \in -1..MaxBlock
    BY <1>0, <2>1
  <2> QED BY <2>1, <2>2
<1>2. CASE RollBackHead
  <2>1. head' = [block |-> db.block, row |-> db.row]
    BY <1>2 DEF RollBackHead, PointersOK
  <2> QED BY <1>0, <2>1
<1>3. CASE Repair
  <2> DEFINE cut == CutRow(Len(ledger), db.block)
  <2>1. cut \in Nat
    BY <1>0, CutTyped
  <2>2. head' = [block |-> db.block, row |-> cut]
    BY <1>3 DEF Repair
  <2> HIDE DEF cut
  <2> QED BY <1>0, <2>1, <2>2
<1>4. CASE UNCHANGED head
  BY <1>4 DEF FieldsOK
<1> QED
  BY <1>1, <1>2, <1>3, <1>4
  DEF Next, vars, Disk, AcceptTx, ClearMemPool, CheckBlockPermissions, VerifyBegin, VerifyGrant,
      VerifyBlock, VerifyEnd, CommitBegin, CommitRow, CommitDb, CommitDbFails, CommitCounts,
      RollBackBegin, RollBackDb, RollBackDbFails, Crash, Open

(* The position of an operation, its answer and the number of operations.  *)
LEMMA StepArg ==
  ASSUME LedgerOK, PointersOK, SizesOK, StepArgs, [Next]_vars
  PROVE  StepArgs'
<1>0. /\ db.block \in -1..MaxBlock /\ MaxBlock \in Nat /\ MaxPool \in Nat /\ MaxOps \in Nat
      /\ 0 \in -1..MaxBlock /\ 1 \in 0..(MaxPool + 2)
  BY KeysAssumption DEF LedgerOK
<1>1. arg' \in (-1..MaxBlock) \cup (0..(MaxPool + 2))
  <2>1. CASE CommitRow
    <3>1. arg \in 1..Len(mem.pool) /\ Len(mem.pool) <= MaxPool + 2 /\ Len(mem.pool) \in Nat
      BY <2>1 DEF CommitRow, PointersOK, SizesOK, UpOK, Pooled
    <3>2. arg' = 0 \/ (arg < Len(mem.pool) /\ arg' = arg + 1)
      BY <2>1 DEF CommitRow
    <3> QED BY <1>0, <3>1, <3>2
  <2>2. CASE CommitDbFails
    <3>1. arg' = db.block
      BY <2>2 DEF CommitDbFails, PointersOK, UpOK
    <3> QED BY <1>0, <3>1
  <2>3. ASSUME NEW block \in -1..mem.block, RollBackBegin(block)
        PROVE  arg' \in -1..MaxBlock
    <3>1. arg' = block /\ mem.block = db.block
      BY <2>3 DEF RollBackBegin, PointersOK, UpOK
    <3> QED BY <1>0, <3>1
  <2>4. CASE arg' \in {0, 1} \/ UNCHANGED arg
    BY <1>0, <2>4 DEF StepArgs
  <2> QED BY <2>1, <2>2, <2>3, <2>4
    DEF Next, vars, Disk, AcceptTx, ClearMemPool, CheckBlockPermissions, VerifyBegin,
        VerifyGrant, VerifyBlock, VerifyEnd, CommitBegin, CommitHead, CommitDb, CommitCounts,
        RollBackDb, RollBackDbFails, RollBackHead, Crash, Repair, Open
<1>2. reply' \in {"none", "accept", "reject"}
  BY DEF StepArgs, Next, vars, Disk, AcceptTx, ClearMemPool, CheckBlockPermissions, VerifyBegin,
        VerifyGrant, VerifyBlock, VerifyEnd, CommitBegin, CommitRow, CommitHead, CommitDb,
        CommitDbFails, CommitCounts, RollBackBegin, RollBackDb, RollBackDbFails, RollBackHead,
        Crash, Repair, Open
<1>3. UNCHANGED ops \/ Counted
  BY DEF Next, vars, Disk, AcceptTx, ClearMemPool, CheckBlockPermissions, VerifyBegin,
        VerifyGrant, VerifyBlock, VerifyEnd, CommitBegin, CommitRow, CommitHead, CommitDb,
        CommitDbFails, CommitCounts, RollBackBegin, RollBackDb, RollBackDbFails, RollBackHead,
        Crash, Repair, Open
<1>4. ops' \in 0..MaxOps
  BY <1>0, <1>3 DEF StepArgs, Counted
<1> QED
  BY <1>1, <1>2, <1>4 DEF StepArgs

(* What is in memory, and how many rows wait there.                        *)
LEMMA StepFields ==
  ASSUME StoreInv, HistoryOK, VerifyOK, FieldsOK, SizesOK, [Next]_vars
  PROVE  mem' \in MemType /\ SizesOK'
<1>0. /\ LedgerOK /\ PointersOK /\ mem \in MemType /\ MaxPool \in Nat
      /\ db.block \in -1..MaxBlock /\ db.row \in Nat /\ db.row >= 1 /\ MaxBlock \in Nat
  BY KeysAssumption DEF StoreInv, FieldsOK, LedgerOK
<1>mem. /\ mem.block \in -1..MaxBlock /\ mem.row \in Nat /\ mem.pool \in Seq(Row)
        /\ Len(mem.pool) \in Nat /\ Len(mem.copied) \in Nat
  BY <1>0, MemTyped
<1>up. ASSUME UpOK(mem) PROVE Len(mem.pool) <= mem.row
  BY <1>0, <1>mem, <1>up DEF UpOK
<1>none. ASSUME pc' \notin {"up", "verify", "rows"} PROVE SizesOK'
  BY <1>none DEF SizesOK
<1>empty. ASSUME mem'.pool = <<>>, pc' # "verify" PROVE SizesOK'
  <2>1. Len(mem'.pool) = 0
    BY <1>empty
  <2>2. 0 <= MaxPool /\ 0 <= MaxPool + 2
    BY <1>0
  <2> QED BY <1>empty, <2>1, <2>2 DEF SizesOK
<1>1. ASSUME NEW gs \in {<<>>} \cup {<<g>> : g \in Grant},
             NEW issue \in {<<>>} \cup {<<a>> : a \in Assets}, AcceptTx(gs, issue)
      PROVE  mem' \in MemType /\ SizesOK'
  <2> DEFINE t == TxRows(gs, issue)
             u == RollBackToCheckPoint(t)
  <2>1. /\ UpOK(mem) /\ CountOK(mem) /\ pc' = "up"
        /\ Len(mem.pool) + Len(gs) + Len(issue) <= MaxPool
        /\ mem' = Forget(t) \/ mem' = Forget(u)
    BY <1>1 DEF AcceptTx, StoreInv, PointersOK, CountsOK
  <2>2. t \in MemType /\ CpOK(t) /\ Len(t.pool) = Len(mem.pool) + Len(gs) + Len(issue)
    BY <1>0, <2>1, TxRowsTyped
  <2>3. UpOK(t)
    BY <1>0, <2>1, TxRowsUp
  <2> HIDE DEF t
  <2>4. t.cpSize \in 0..Len(t.pool) /\ t.cpSize <= Len(t.pool) /\ Len(t.pool) <= MaxPool
        /\ Len(t.pool) \in Nat /\ t.pool \in Seq(Row) /\ IsMem(t)
    BY <2>1, <2>2, <2>3, MemTyped DEF CpOK, UpOK
  <2>5. u \in MemType
    BY <2>2, <2>4, RollBackToTyped
  <2>6. IsMem(u) /\ u.pool = SubSeq(t.pool, 1, t.cpSize)
    BY <2>4, RollBackToIs DEF SameFork
  <2> HIDE DEF u
  <2>7. Len(u.pool) <= MaxPool
    <3>1. Len(SubSeq(t.pool, 1, t.cpSize)) = t.cpSize
      BY <2>4
    <3> QED BY <1>0, <2>4, <2>6, <3>1
  <2>8. PICK n \in {t, u} : mem' = Forget(n)
    BY <2>1
  <2>9. n \in MemType /\ IsMem(n) /\ Len(n.pool) <= MaxPool
    BY <2>2, <2>4, <2>5, <2>6, <2>7
  <2>10. mem' \in MemType
    BY <2>8, <2>9, ForgetTyped
  <2>11. mem'.pool = n.pool
    BY <2>8, <2>9, ForgetIs
  <2> QED BY <2>1, <2>9, <2>10, <2>11 DEF SizesOK
<1>clear. ASSUME UpOK(mem), mem' = ClearMemPoolInternal(mem), pc' # "verify"
          PROVE  mem' \in MemType /\ SizesOK'
  <2>1. mem' \in MemType
    BY <1>0, <1>clear, <1>up, ClearTyped
  <2>2. mem'.pool = <<>>
    BY <1>0, <1>clear, ClearUp
  <2> QED BY <1>clear, <1>empty, <2>1, <2>2
<1>2. CASE ClearMemPool
  BY <1>0, <1>2, <1>clear DEF ClearMemPool, PointersOK
<1>3. CASE CheckBlockPermissions
  <2> DEFINE c == CopyMemPool(mem)
             e == ClearMemPoolInternal(c)
             r == RestoreMemPool(e)
  <2>1. UpOK(mem) /\ pc' = "up" /\ mem' = Forget(r) /\ IsMem(mem) /\ Len(mem.pool) <= MaxPool
    BY <1>0, <1>3 DEF CheckBlockPermissions, PointersOK, SizesOK
  <2>2. UpOK(c) /\ c.copied = mem.pool /\ c \in MemType /\ Len(c.pool) <= c.row
    <3>1. SameFork(mem, c) /\ c.pool = mem.pool /\ c.row = mem.row /\ c.copied = mem.pool
      BY <2>1, CopyIs
    <3>2. c \in MemType
      BY <1>0, CopyTyped
    <3> HIDE DEF c
    <3> QED BY <1>up, <2>1, <3>1, <3>2, UpSame
  <2> HIDE DEF c
  <2>3. e \in MemType /\ IsMem(e) /\ e.pool = <<>> /\ e.copied = mem.pool
    <3>1. e \in MemType
      BY <2>2, ClearTyped
    <3>2. UpOK(e) /\ e.pool = <<>> /\ e.copied = mem.pool
      BY <1>0, <2>2, ClearUp
    <3> HIDE DEF e
    <3> QED BY <3>1, <3>2 DEF UpOK
  <2> HIDE DEF e
  <2>4. Len(e.pool) <= e.row /\ e.row \in Int
    BY <2>3, MemTyped
  <2>5. r \in MemType
    BY <2>3, <2>4, RestoreTyped
  <2>6. IsMem(r) /\ r.pool = mem.pool
    BY <2>3, <2>4, RestoreIs DEF SameFork
  <2> HIDE DEF r
  <2>7. mem' \in MemType
    BY <2>1, <2>5, ForgetTyped
  <2>8. mem'.pool = mem.pool
    BY <2>1, <2>6, ForgetIs
  <2> QED BY <2>1, <2>7, <2>8 DEF SizesOK
<1>fork. ASSUME pc' = "verify" PROVE mem'.row \in Nat /\ mem'.pool \in Seq(Row) /\ mem'.count \in Nat
  <2>1. ForkOK(mem)'
    BY <1>fork, StepVerify DEF VerifyOK
  <2>2. HeldOver(AtFork(mem.fork), mem.pool)' \in SUBSET Grants
    BY DEF HeldOver
  <2>3. Cardinality(HeldOver(AtFork(mem.fork), mem.pool)') \in Nat
    BY <2>2, CountIs
  <2> QED BY <2>1, <2>3 DEF ForkOK
<1>4. ASSUME NEW fork \in 0..mem.block, VerifyBegin(fork) PROVE mem' \in MemType /\ SizesOK'
  <2> DEFINE n == RollBackBeforeMinerVerification(mem, fork)
  <2>1. UpOK(mem) /\ IsMem(mem) /\ mem' = n /\ pc' = "verify" /\ Len(mem.pool) <= MaxPool
    BY <1>0, <1>4 DEF VerifyBegin, PointersOK, SizesOK
  <2>2. n.row \in Nat /\ n.count \in Nat
    BY <1>fork, <2>1
  <2>3. n \in MemType
    BY <1>0, <1>up, <2>1, <2>2, ForkTyped
  <2>4. Forked(mem, fork, n)
    BY <2>1, ForkIs, Zenon
  <2> HIDE DEF n
  <2>5. mem'.copied = mem.pool
    BY <2>1, <2>4 DEF Forked
  <2> QED BY <2>1, <2>3, <2>5 DEF SizesOK
<1>5. ASSUME NEW g \in Grant, VerifyGrant(g) PROVE mem' \in MemType /\ SizesOK'
  <2> DEFINE k == g.key
             v == g.val
             n == SetPermission(mem, k, v)
  <2>1. IsMem(mem) /\ mem' = n /\ pc' = "verify" /\ Len(mem.copied) <= MaxPool
    BY <1>0, <1>5 DEF VerifyGrant, PointersOK, SizesOK
  <2>2. n.pool \in Seq(Row) /\ n.count \in Nat
    BY <1>fork, <2>1
  <2> HIDE DEF k, v
  <2>3. n \in MemType
    BY <1>0, <2>2, SetPermissionTyped
  <2>4. n.copied = mem.copied
    BY <2>1, SetPermissionIs
  <2> HIDE DEF n
  <2> QED BY <2>1, <2>3, <2>4 DEF SizesOK
<1>6. CASE VerifyBlock
  <2> DEFINE h == mem.block + 1
             m == [mem EXCEPT !.block = h]
  <2>1. IsMem(mem) /\ mem' = UpdateCounts(m) /\ pc' = "verify" /\ Len(mem.copied) <= MaxPool
        /\ mem.block < MaxBlock
    BY <1>0, <1>6 DEF VerifyBlock, PointersOK, SizesOK
  <2>2. h \in -1..MaxBlock
    BY <1>0, <1>mem, <2>1
  <2> HIDE DEF h
  <2>3. m \in MemType
    BY <1>0, <2>2 DEF MemType
  <2>4. IsMem(m) /\ m.copied = mem.copied
    BY <2>1 DEF IsMem, MemFields
  <2> HIDE DEF m
  <2>5. mem' \in MemType
    BY <2>1, <2>3, UpdateCountsTyped
  <2>6. mem'.copied = mem.copied
    BY <2>1, <2>4, UpdateCountsIs
  <2> QED BY <2>1, <2>5, <2>6 DEF SizesOK
<1>7. CASE VerifyEnd
  <2> DEFINE n == RestoreAfterMinerVerification(mem)
  <2>1. IsMem(mem) /\ mem' = Forget(n) /\ pc' = "up" /\ Len(mem.copied) <= MaxPool
    BY <1>0, <1>7 DEF VerifyEnd, PointersOK, SizesOK
  <2>2. n \in MemType
    BY <1>0, UnforkTyped
  <2>3. IsMem(n) /\ n.pool = mem.copied
    BY <2>1, UnforkIs
  <2> HIDE DEF n
  <2>4. mem' \in MemType
    BY <2>1, <2>2, ForgetTyped
  <2>5. mem'.pool = mem.copied
    BY <2>1, <2>3, ForgetIs
  <2> QED BY <2>1, <2>4, <2>5 DEF SizesOK
<1>8. ASSUME NEW miner \in Miners, CommitBegin(miner) PROVE mem' \in MemType /\ SizesOK'
  <2> DEFINE prev == GetPermission(mem, miner).this
             signed == BlockRow(mem, miner, prev)
             next == mem.block + 1
             low == Base(signed) - 1
             done == BlockRow(signed, next, low)
  <2>1. /\ UpOK(mem) /\ mem.block < MaxBlock /\ mem' = done /\ pc' = "rows"
        /\ Len(mem.pool) <= MaxPool
    BY <1>0, <1>8 DEF CommitBegin, PointersOK, SizesOK
  <2>2. mem.block = db.block /\ db.block < MaxBlock
    BY <2>1 DEF UpOK
  <2>3. miner \in Named /\ prev \in Nat
    <3>1. miner \in Named
      BY DEF Named
    <3>2. Pooled(mem.pool) /\ mem.copiedRow = 0
      BY <2>1 DEF UpOK
    <3> QED BY <1>0, <3>1, <3>2, GetUp
  <2>4. UpOK(signed) /\ Len(signed.pool) = Len(mem.pool) + 1 /\ Base(signed) = db.row
    BY <1>0, <2>1, <2>2, <2>3, BlockRowUp
  <2>5. signed.pool \in Seq(Row)
    <3> HIDE DEF signed
    <3> QED BY <2>4 DEF UpOK, Pooled
  <2>6. signed \in MemType
    BY <1>0, <2>5, BlockRowTyped
  <2> HIDE DEF signed, prev
  <2>7. next = db.block + 1 /\ next \notin Named
    <3>1. next \in Heights
      BY <1>0, <2>1, <2>2 DEF Heights
    <3> QED BY <2>2, <3>1, KeysAssumption DEF Named
  <2>8. low \in Nat /\ low < db.row
    BY <1>0, <2>4
  <2> HIDE DEF next, low
  <2>9. UpOK(done) /\ Len(done.pool) = Len(signed.pool) + 1
    <3>1. next \in Named \cup {db.block + 1}
      BY <2>7
    <3> QED BY ONLY <1>0, <2>2, <2>4, <2>7, <2>8, <3>1, BlockRowUp
  <2>10. done.pool \in Seq(Row)
    <3> HIDE DEF done
    <3> QED BY <2>9 DEF UpOK, Pooled
  <2>11. done \in MemType
    BY <2>6, <2>10, BlockRowTyped
  <2> HIDE DEF done
  <2>12. Len(done.pool) <= MaxPool + 2
    BY <1>0, <1>mem, <2>1, <2>4, <2>9
  <2> QED BY <2>1, <2>11, <2>12 DEF SizesOK
<1>9. CASE CommitRow
  <2>1. UNCHANGED mem /\ pc' \in {"rows", "head"} /\ Len(mem.pool) <= MaxPool + 2
    BY <1>9 DEF CommitRow, SizesOK
  <2> QED BY <1>0, <2>1 DEF SizesOK
<1>10. CASE CommitHead \/ CommitDb \/ RollBackDb
  <2>1. UNCHANGED mem /\ pc' \notin {"up", "verify", "rows"}
    BY <1>10 DEF CommitHead, CommitDb, RollBackDb
  <2> QED BY <1>0, <1>none, <2>1
<1>11. CASE CommitDbFails
  <2>1. UpOK(mem) /\ mem' = ClearMemPoolInternal(mem) /\ pc' # "verify"
    BY <1>0, <1>11 DEF CommitDbFails, PointersOK
  <2> QED BY <1>clear, <2>1
<1>12. CASE CommitCounts
  <2> DEFINE m == UpdateCounts(mem)
             h == m.block + 1
  <2>1. IsMem(mem) /\ mem.block + 1 = db.block /\ pc' = "up"
        /\ mem' = [m EXCEPT !.pool = <<>>, !.block = h, !.cleared = m.count]
    BY <1>0, <1>12 DEF CommitCounts, PointersOK
  <2>2. m \in MemType
    BY <1>0, UpdateCountsTyped
  <2>3. m.block = mem.block
    BY <2>1, UpdateCountsIs DEF SameFork
  <2> HIDE DEF m
  <2>4. h \in -1..MaxBlock /\ <<>> \in Seq(Row)
    BY <1>0, <2>1, <2>3
  <2> HIDE DEF h
  <2>5. mem' \in MemType /\ mem'.pool = <<>>
    BY <2>1, <2>2, <2>4 DEF MemType
  <2> QED BY <1>empty, <2>1, <2>5
<1>13. ASSUME NEW block \in -1..mem.block, RollBackBegin(block) PROVE mem' \in MemType /\ SizesOK'
  <2>1. UpOK(mem) /\ mem' = ClearMemPoolInternal(mem) /\ pc' # "verify"
    BY <1>0, <1>13 DEF RollBackBegin, PointersOK
  <2> QED BY <1>clear, <2>1
<1>14. CASE RollBackDbFails
  <2>1. UNCHANGED mem /\ mem.pool = <<>> /\ pc' = "up"
    BY <1>0, <1>14 DEF RollBackDbFails, PointersOK
  <2> QED BY <1>0, <1>empty, <2>1
<1>opened. ASSUME NEW z \in MemType, IsMem(z), z.pool = <<>>, pc' = "up",
                  mem' = [UpdateCounts(z) EXCEPT !.cleared = UpdateCounts(z).count]
           PROVE  mem' \in MemType /\ SizesOK'
  <2> DEFINE m == UpdateCounts(z)
  <2>1. m \in MemType
    BY UpdateCountsTyped
  <2>2. m.pool = <<>>
    BY <1>opened, UpdateCountsIs
  <2>3. mem' = [m EXCEPT !.cleared = m.count]
    BY <1>opened
  <2> HIDE DEF m
  <2>4. mem' \in MemType /\ mem'.pool = <<>>
    BY <2>1, <2>2, <2>3 DEF MemType
  <2> QED BY <1>empty, <1>opened, <2>4
<1>15. CASE RollBackHead
  <2> DEFINE r == CutRow(mem.row - 1, arg)
             z == [mem EXCEPT !.block = arg, !.row = r]
  <2>1. /\ IsMem(mem) /\ arg = db.block /\ db.row = r /\ mem.pool = <<>> /\ pc' = "up"
        /\ mem' = [UpdateCounts(z) EXCEPT !.cleared = UpdateCounts(z).count]
    BY <1>0, <1>15 DEF RollBackHead, PointersOK
  <2>2. r \in Nat /\ arg \in -1..MaxBlock
    BY <1>0, <2>1
  <2> HIDE DEF r
  <2>3. z \in MemType /\ IsMem(z) /\ z.pool = <<>>
    BY <1>0, <2>1, <2>2 DEF MemType, IsMem, MemFields
  <2> HIDE DEF z
  <2> QED BY <1>opened, <2>1, <2>3
<1>zero. ZeroMem \in MemType /\ ZeroMem.pool = <<>>
  <2>1. -1 \in -1..MaxBlock /\ 0 \in -1..MaxBlock /\ 0 \in Nat /\ <<>> \in Seq(Row)
    BY <1>0
  <2> QED BY <2>1 DEF ZeroMem, MemType
<1>16. CASE Crash
  BY <1>16, <1>zero, <1>empty DEF Crash
<1>17. CASE Repair
  BY <1>0, <1>17, <1>none DEF Repair, Down
<1>18. CASE Open
  <2> DEFINE z == [ZeroMem EXCEPT !.block = db.block, !.row = db.row]
  <2>1. \/ pc' = "up" /\ mem' = [UpdateCounts(z) EXCEPT !.cleared = UpdateCounts(z).count]
        \/ pc' = "corrupted" /\ mem' = mem
    BY <1>18 DEF Open
  <2>2. z \in MemType
    BY <1>0, <1>zero DEF MemType
  <2>3. IsMem(z) /\ z.pool = <<>>
    BY DEF IsMem, MemFields, ZeroMem
  <2> HIDE DEF z
  <2> QED BY <1>0, <1>none, <1>opened, <2>1, <2>2, <2>3
<1>19. CASE UNCHANGED vars
  BY <1>0, <1>19 DEF vars, SizesOK
<1> QED
  BY <1>1, <1>2, <1>3, <1>4, <1>5, <1>6, <1>7, <1>8, <1>9, <1>10, <1>11, <1>12, <1>13, <1>14,
     <1>15, <1>16, <1>17, <1>18, <1>19 DEF Next

LEMMA TypesInvariant == Spec => [](FieldsOK /\ SizesOK /\ StepArgs)
<1>1. Init => FieldsOK /\ SizesOK /\ StepArgs
  <2> SUFFICES ASSUME Init PROVE FieldsOK /\ SizesOK /\ StepArgs
    OBVIOUS
  <2>1. /\ -1 \in -1..MaxBlock /\ 0 \in -1..MaxBlock /\ 0 \in 0..MaxOps /\ 0 <= MaxPool
        /\ 0 \in 0..(MaxPool + 2) /\ 0 \in Nat /\ 1 \in Nat /\ <<>> \in Seq(Row)
    BY KeysAssumption
  <2>2. mem \in MemType /\ mem.pool = <<>>
    BY <2>1 DEF Init, ZeroMem, MemType
  <2>3. head \in [block : -1..MaxBlock, row : Nat]
    BY <2>1 DEF Init
  <2> QED BY <2>1, <2>2, <2>3 DEF Init, FieldsOK, SizesOK, StepArgs
<1>2. /\ StoreInv /\ HistoryOK /\ VerifyOK /\ FieldsOK /\ SizesOK /\ StepArgs
      /\ [Next]_vars
      => (FieldsOK /\ SizesOK /\ StepArgs)'
  BY StepFields, StepHead, StepArg DEF FieldsOK, StoreInv
<1> QED
  BY <1>1, <1>2, StoreInvariant, HistoryInvariant, VerifyInvariant, PTL DEF Spec

(* Every field stays within its type. In particular the count that         *)
(* SetPermissionInternal decrements never falls below zero, at a fork      *)
(* neither, nor does a row number when rows are dropped, and               *)
(* CommitInternal's position stays within the rows that a block may have.  *)
THEOREM TypeOKHolds == Spec => []TypeOK
<1>1. StoreInv /\ FieldsOK /\ SizesOK /\ StepArgs => TypeOK
  BY DEF StoreInv, LedgerOK, StepsOK, FieldsOK, StepArgs, TypeOK
<1> QED
  BY <1>1, StoreInvariant, TypesInvariant, PTL
=============================================================================
