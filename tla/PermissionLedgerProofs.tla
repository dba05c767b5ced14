------------------------ MODULE PermissionLedgerProofs -----------------------
(***************************************************************************)
(* The permission store's ledger, database and memory agree, and together  *)
(* they implement PermissionLog, for every set of addresses, signers and   *)
(* assets and every bound.                                                 *)
(*                                                                         *)
(* StoreInv has four parts. LedgerOK: the rows below the database's   *)
(* end mark are those of the blocks, in the order of the blocks, each      *)
(* pointing to the one before it with its key, and the database has every  *)
(* key's last one. PointersOK: the rows in memory continue the ledger at   *)
(* the database's end mark, and are in the file by the time the batch      *)
(* names them. CountsOK: the cached count is the number of keys granted.   *)
(* StepsOK: the steps there are. What GetPermission's walk along m_PrevRow *)
(* answers is a lemma (GetIs): the last row in memory with the key, or the *)
(* database's.                                                             *)
(***************************************************************************)
EXTENDS PermissionStore, TLAPS, FiniteSetTheorems, SequenceTheorems,
        WellFoundedInduction

-----------------------------------------------------------------------------
(* Lemmas about greatest and least numbers, and about the last row of a    *)
(* key.                                                                    *)

LessThan == OpToRel(<, Nat)

(* Every set of natural numbers that is not empty has a least element.     *)
LEMMA MinIs ==
  ASSUME NEW S \in SUBSET Nat, S # {}
  PROVE  Min(S) \in S /\ \A m \in S : Min(S) <= m
<1>1. IsWellFoundedOn(LessThan, Nat)
  BY NatLessThanWellFounded, Zenon DEF LessThan
<1>2. PICK n \in S : \A m \in S : ~(<<m, n>> \in LessThan)
  BY <1>1, WFMin
<1>3. LessThan = {ss \in Nat \X Nat : ss[1] < ss[2]}
  BY Zenon DEF LessThan, OpToRel
<1>4. ASSUME NEW m \in S PROVE n <= m
  <2>1. m \in Nat /\ n \in Nat /\ <<m, n>> \notin LessThan
    BY <1>2
  <2>2. <<m, n>> \in Nat \X Nat /\ <<m, n>>[1] = m /\ <<m, n>>[2] = n
    BY <2>1
  <2>3. ~(m < n)
    BY <2>1, <2>2, <1>3
  <2> QED BY <2>1, <2>3
<1> QED
  BY <1>4 DEF Min

(* A set of natural numbers with a bound has a greatest element.           *)
LEMMA MaxIs ==
  ASSUME NEW n \in Nat, NEW S \in SUBSET (0..n), S # {}
  PROVE  Max(S) \in S /\ \A m \in S : m <= Max(S)
<1> DEFINE D == {n - x : x \in S}
<1>1. D \in SUBSET Nat /\ D # {}
  OBVIOUS
<1> HIDE DEF D
<1>2. Min(D) \in D /\ \A d \in D : Min(D) <= d
  BY <1>1, MinIs
<1>3. PICK x \in S : Min(D) = n - x
  BY <1>2 DEF D
<1>4. ASSUME NEW m \in S PROVE x >= m
  <2>1. n - m \in D
    BY DEF D
  <2> QED BY <1>2, <1>3, <2>1
<1> QED
  BY <1>4 DEF Max

(* The greatest element is the one above all others.                       *)
LEMMA MaxUnique ==
  ASSUME NEW n \in Nat, NEW S \in SUBSET (0..n), NEW x \in S, \A m \in S : m <= x
  PROVE  Max(S) = x
<1>1. Max(S) \in S /\ x <= Max(S)
  BY MaxIs
<1>2. ASSUME NEW y \in S, x <= y PROVE y = x
  <2>1. x \in Int /\ y \in Int /\ y <= x
    OBVIOUS
  <2> QED BY <1>2, <2>1
<1> QED
  BY <1>1, <1>2, Zenon

(* The last of the first n rows of f that has key k, or 0.                 *)
LastIn(f, k, n) == Max({0} \cup {i \in 1..n : f[i].key = k})

LEMMA LastIs ==
  ASSUME NEW f, NEW k, NEW n \in Nat
  PROVE  /\ LastIn(f, k, n) \in 0..n
         /\ LastIn(f, k, n) > 0 => f[LastIn(f, k, n)].key = k
         /\ \A i \in 1..n : f[i].key = k => i <= LastIn(f, k, n)
<1> DEFINE S == {0} \cup {i \in 1..n : f[i].key = k}
<1>1. S \in SUBSET (0..n) /\ S # {}
  OBVIOUS
<1> HIDE DEF S
<1>2. Max(S) \in S /\ \A m \in S : m <= Max(S)
  BY <1>1, MaxIs
<1> QED
  BY <1>1, <1>2 DEF S, LastIn

LEMMA LastUnique ==
  ASSUME NEW f, NEW k, NEW n \in Nat, NEW i \in 0..n, i > 0 => f[i].key = k,
         \A j \in 1..n : f[j].key = k => j <= i
  PROVE  LastIn(f, k, n) = i
<1>1. LastIn(f, k, n) \in 0..n
      /\ (LastIn(f, k, n) > 0 => f[LastIn(f, k, n)].key = k)
      /\ (\A j \in 1..n : f[j].key = k => j <= LastIn(f, k, n))
  BY LastIs
<1> QED
  BY <1>1

(* One row more.                                                           *)
LEMMA LastNext ==
  ASSUME NEW f, NEW k, NEW n \in Nat
  PROVE  LastIn(f, k, n + 1) = IF f[n + 1].key = k THEN n + 1 ELSE LastIn(f, k, n)
<1>1. LastIn(f, k, n) \in 0..n
      /\ (LastIn(f, k, n) > 0 => f[LastIn(f, k, n)].key = k)
      /\ (\A j \in 1..n : f[j].key = k => j <= LastIn(f, k, n))
  BY LastIs
<1>2. CASE f[n + 1].key = k
  BY <1>2, LastUnique
<1>3. CASE f[n + 1].key # k
  <2>1. \A j \in 1..(n + 1) : f[j].key = k => j \in 1..n
    BY <1>3
  <2> QED BY <1>1, <1>3, <2>1, LastUnique
<1> QED
  BY <1>2, <1>3

(* The last row depends on the keys of the first n rows alone.             *)
LEMMA LastSame ==
  ASSUME NEW f, NEW g, NEW k, NEW n \in Nat, \A i \in 1..n : f[i].key = g[i].key
  PROVE  LastIn(f, k, n) = LastIn(g, k, n)
<1>1. {i \in 1..n : f[i].key = k} = {i \in 1..n : g[i].key = k}
  OBVIOUS
<1> QED
  BY <1>1 DEF LastIn
-----------------------------------------------------------------------------
(* What GetPermission answers.                                             *)

(* The rows of a pool are numbered from base on, and those of key k are    *)
(* chained by m_PrevRow, the first one to the row the database has for k.  *)
Chained(pool, k, at, base) ==
  /\ \A i \in 1..Len(pool) : pool[i].this = base + i - 1
  /\ \A i \in 1..Len(pool) : pool[i].key = k =>
       pool[i].prev = IF LastIn(pool, k, i - 1) = 0 THEN at
                      ELSE base + LastIn(pool, k, i - 1) - 1

(* The walk along the chain ends at the last row of the key: GetPermission *)
(* answers with that row, or with the database if the pool has none.       *)
LEMMA GetIs ==
  ASSUME NEW m, NEW k, NEW base \in Nat, m.pool \in Seq(Row),
         DbRead(m, k).this \in Nat, DbRead(m, k).this < base,
         Chained(m.pool, k, DbRead(m, k).this, base)
  PROVE  LET last == LastIn(m.pool, k, Len(m.pool))
         IN GetPermission(m, k) =
              IF last = 0 THEN [this |-> DbRead(m, k).this, val |-> DbRead(m, k).val]
              ELSE [this |-> m.pool[last].this, val |-> m.pool[last].val]
<1> DEFINE pool == m.pool
           n == Len(pool)
           at == DbRead(m, k).this
           last == LastIn(pool, k, n)
           next(i) == Seek(pool, k, pool[i].this)
           Walks(w) == w = [i \in DOMAIN pool |->
                              IF next(i) = {} THEN pool[i] ELSE w[Max(next(i))]]
           ends == [i \in DOMAIN pool |-> IF pool[i].key = k THEN pool[last] ELSE pool[i]]
           first == Seek(pool, k, at)
<1>0. n \in Nat /\ DOMAIN pool = 1..n /\ at \in Nat
  OBVIOUS
<1> HIDE DEF pool, n, at
<1>1. /\ \A i \in 1..n : pool[i].this = base + i - 1
      /\ \A i \in 1..n : pool[i].key = k =>
           pool[i].prev = IF LastIn(pool, k, i - 1) = 0 THEN at
                          ELSE base + LastIn(pool, k, i - 1) - 1
      /\ at < base
  BY DEF Chained, pool, n, at
<1>2. /\ last \in 0..n /\ (last > 0 => pool[last].key = k)
      /\ \A i \in 1..n : pool[i].key = k => i <= last
  BY <1>0, LastIs
<1>3. \A i \in 1..n : /\ LastIn(pool, k, i - 1) \in 0..(i - 1)
                      /\ LastIn(pool, k, i - 1) > 0 => pool[LastIn(pool, k, i - 1)].key = k
                      /\ \A j \in 1..(i - 1) : pool[j].key = k => j <= LastIn(pool, k, i - 1)
  <2> TAKE i \in 1..n
  <2>1. i - 1 \in Nat
    BY <1>0
  <2> QED BY <2>1, LastIs
<1> HIDE DEF last
<1>4. \A i \in 1..n : next(i) = {j \in 1..n : pool[j].key = k /\ LastIn(pool, k, j - 1) = i}
  <2> TAKE i \in 1..n
  <2>1. ASSUME NEW j \in 1..n, pool[j].key = k
        PROVE  pool[j].prev = pool[i].this <=> LastIn(pool, k, j - 1) = i
    <3> DEFINE l == LastIn(pool, k, j - 1)
    <3>1. l \in 0..(j - 1) /\ pool[i].this = base + i - 1
          /\ pool[j].prev = IF l = 0 THEN at ELSE base + l - 1
      BY <1>1, <1>3, <2>1
    <3> HIDE DEF l
    <3>2. pool[j].prev = pool[i].this <=> l = i
      BY <1>0, <1>1, <3>1
    <3> QED BY <3>2 DEF l
  <2> QED BY <1>0, <2>1 DEF Seek
<1>5. \A i \in 1..n : next(i) = {} \/
        /\ pool[i].key = k /\ Max(next(i)) \in next(i)
        /\ Max(next(i)) \in 1..n /\ Max(next(i)) > i /\ pool[Max(next(i))].key = k
  <2> SUFFICES ASSUME NEW i \in 1..n, next(i) # {}
               PROVE  /\ pool[i].key = k /\ Max(next(i)) \in next(i)
                      /\ Max(next(i)) \in 1..n /\ Max(next(i)) > i
                      /\ pool[Max(next(i))].key = k
    OBVIOUS
  <2>1. next(i) \in SUBSET (0..n)
    <3>1. next(i) \subseteq 1..n
      BY <1>4
    <3> HIDE DEF next
    <3> QED BY <1>0, <3>1
  <2>2. Max(next(i)) \in next(i)
    <3> HIDE DEF next
    <3> QED BY <1>0, <2>1, MaxIs
  <2> DEFINE j == Max(next(i))
  <2>3. j \in 1..n /\ pool[j].key = k /\ LastIn(pool, k, j - 1) = i
    BY <1>4, <2>2
  <2> QED BY <1>0, <1>3, <2>2, <2>3
<1>6. \A i \in 1..n : next(i) = {} /\ pool[i].key = k => i = last
  <2> SUFFICES ASSUME NEW i \in 1..n, pool[i].key = k, i # last PROVE next(i) # {}
    OBVIOUS
  <2> DEFINE T == {j \in 1..n : pool[j].key = k /\ j > i}
  <2>1. T # {} /\ T \in SUBSET Nat
    BY <1>0, <1>2
  <2> HIDE DEF T
  <2>2. PICK j \in T : \A t \in T : j <= t
    BY <2>1, MinIs
  <2>3. j \in 1..n /\ pool[j].key = k /\ j > i
    BY <2>2 DEF T
  <2>4. \A t \in 1..(j - 1) : pool[t].key = k => t <= i
    BY <1>0, <2>2, <2>3 DEF T
  <2>5. LastIn(pool, k, j - 1) = i
    <3>1. j - 1 \in Nat /\ i \in 0..(j - 1)
      BY <1>0, <2>3
    <3> QED BY <2>4, <3>1, LastUnique
  <2> QED BY <1>4, <2>3, <2>5
<1> HIDE DEF next
<1>7. Walks(ends)
  <2>1. \A i \in 1..n : ends[i] = IF next(i) = {} THEN pool[i] ELSE ends[Max(next(i))]
    BY <1>0, <1>5, <1>6
  <2>2. ends = [i \in DOMAIN pool |-> ends[i]]
    OBVIOUS
  <2> HIDE DEF ends
  <2> QED BY <1>0, <2>1, <2>2
<1>8. ASSUME NEW w, Walks(w) PROVE w = ends
  <2>1. \A i \in 1..n : w[i] = IF next(i) = {} THEN pool[i] ELSE w[Max(next(i))]
    BY <1>0, <1>8
  <2> DEFINE S == {i \in 1..n : w[i] # ends[i]}
  <2>2. S = {}
    <3>1. SUFFICES ASSUME S # {} PROVE FALSE
      OBVIOUS
    <3>2. S \in SUBSET (0..n)
      BY <1>0
    <3> HIDE DEF S
    <3>3. PICK i \in S : \A s \in S : s <= i
      BY <1>0, <3>1, <3>2, MaxIs
    <3>4. i \in 1..n /\ w[i] # ends[i] /\ \A s \in 1..n : s > i => w[s] = ends[s]
      BY <1>0, <3>3 DEF S
    <3>5. CASE next(i) = {}
      BY <1>0, <1>6, <2>1, <3>4, <3>5
    <3>6. CASE next(i) # {}
      BY <1>0, <1>5, <2>1, <3>4, <3>6
    <3> QED BY <3>5, <3>6
  <2>3. w = [i \in 1..n |-> w[i]]
    BY <1>0, <1>8
  <2> QED BY <1>0, <2>2, <2>3
<1>9. (CHOOSE w : Walks(w)) = ends
  <2> HIDE DEF ends, Walks
  <2> QED BY <1>7, <1>8
<1>10. GetPermission(m, k) =
         LET l == IF first = {} THEN DbRead(m, k) ELSE (CHOOSE w : Walks(w))[Max(first)]
         IN [this |-> l.this, val |-> l.val]
  BY DEF GetPermission, pool, at, next
<1>11. first = {j \in 1..n : pool[j].key = k /\ LastIn(pool, k, j - 1) = 0}
  <2>1. ASSUME NEW j \in 1..n, pool[j].key = k
        PROVE  pool[j].prev = at <=> LastIn(pool, k, j - 1) = 0
    <3> DEFINE l == LastIn(pool, k, j - 1)
    <3>1. l \in 0..(j - 1) /\ pool[j].prev = IF l = 0 THEN at ELSE base + l - 1
      BY <1>1, <1>3, <2>1
    <3> HIDE DEF l
    <3>2. pool[j].prev = at <=> l = 0
      BY <1>0, <1>1, <3>1
    <3> QED BY <3>2 DEF l
  <2> QED BY <1>0, <2>1 DEF Seek
<1>12. CASE last = 0
  <2>1. first = {}
    BY <1>0, <1>2, <1>11, <1>12
  <2> QED BY <1>10, <1>12, <2>1 DEF last, pool, n
<1>13. CASE last # 0
  <2> DEFINE T == {j \in 1..n : pool[j].key = k}
  <2>1. T # {} /\ T \in SUBSET Nat
    BY <1>0, <1>2, <1>13
  <2> HIDE DEF T
  <2>2. PICK j \in T : \A t \in T : j <= t
    BY <2>1, MinIs
  <2>3. j \in 1..n /\ pool[j].key = k /\ \A t \in 1..(j - 1) : pool[t].key # k
    BY <1>0, <2>2 DEF T
  <2>4. LastIn(pool, k, j - 1) = 0
    BY <1>3, <2>3
  <2>5. first # {} /\ first \in SUBSET (0..n)
    BY <1>0, <1>11, <2>3, <2>4
  <2> HIDE DEF first
  <2>6. Max(first) \in first
    BY <1>0, <2>5, MaxIs
  <2>7. Max(first) \in 1..n /\ pool[Max(first)].key = k
    BY <1>11, <2>6
  <2>8. ends[Max(first)] = pool[last]
    BY <1>0, <2>7
  <2> HIDE DEF ends, Walks
  <2> QED BY <1>9, <1>10, <1>13, <2>5, <2>8 DEF last, pool, n
<1> QED
  BY <1>12, <1>13
-----------------------------------------------------------------------------
(* What the operations on the fields do to the rows.                       *)

MemFields == {"block", "row", "pool", "count", "cleared", "cpRow", "cpSize", "cpCount",
              "copied", "copiedRow", "copiedBlock", "copiedCount", "fork"}

IsMem(m) == m = [f \in MemFields |-> m[f]]

(* The fields that only a verification touches.                            *)
SameFork(m, n) == /\ IsMem(n) /\ n.block = m.block /\ n.fork = m.fork
                  /\ n.copiedRow = m.copiedRow /\ n.copiedBlock = m.copiedBlock

(* The row that SetPermissionInternal adds.                                *)
NewRow(m, k, v) == [key |-> k, prev |-> GetPermission(m, k).this, this |-> m.row, val |-> v,
                    block |-> m.block + 1, count |-> 0]

LEMMA SetPermissionIs ==
  ASSUME NEW m, IsMem(m), NEW k, NEW v
  PROVE  LET n == SetPermission(m, k, v)
         IN /\ SameFork(m, n)
            /\ n.pool = Append(m.pool, NewRow(m, k, v)) /\ n.row = m.row + 1
            /\ n.count = m.count + Delta(k, GetPermission(m, k).val, v)
            /\ n.cleared = IF m.pool = <<>> /\ m.copiedRow = 0 THEN m.count ELSE m.cleared
            /\ n.cpRow = m.cpRow /\ n.cpSize = m.cpSize /\ n.cpCount = m.cpCount
            /\ n.copied = m.copied /\ n.copiedCount = m.copiedCount
<1> DEFINE p == Append(m.pool, NewRow(m, k, v))
           c == m.count + Delta(k, GetPermission(m, k).val, v)
           d == IF m.pool = <<>> /\ m.copiedRow = 0 THEN m.count ELSE m.cleared
<1>1. SetPermission(m, k, v) = [m EXCEPT !.pool = p, !.row = @ + 1, !.count = c, !.cleared = d]
  BY DEF SetPermission, NewRow
<1> HIDE DEF p, c, d
<1>2. LET n == SetPermission(m, k, v)
      IN /\ SameFork(m, n) /\ n.pool = p /\ n.row = m.row + 1 /\ n.count = c /\ n.cleared = d
         /\ n.cpRow = m.cpRow /\ n.cpSize = m.cpSize /\ n.cpCount = m.cpCount
         /\ n.copied = m.copied /\ n.copiedCount = m.copiedCount
  BY <1>1 DEF IsMem, SameFork, MemFields
<1> QED
  BY <1>2 DEF p, c, d

(* UpdateCounts moves the count alone.                                     *)
LEMMA UpdateCountsIs ==
  ASSUME NEW m, IsMem(m)
  PROVE  LET n == UpdateCounts(m)
         IN /\ SameFork(m, n) /\ n.pool = m.pool /\ n.row = m.row /\ n.cleared = m.cleared
            /\ n.cpRow = m.cpRow /\ n.cpSize = m.cpSize /\ n.cpCount = m.cpCount
            /\ n.copied = m.copied /\ n.copiedCount = m.copiedCount
            /\ n.count = Cardinality({k \in Grants : GetPermission(m, k).val})
<1> DEFINE c == Cardinality({k \in Grants : GetPermission(m, k).val})
<1>1. UpdateCounts(m) = [m EXCEPT !.count = c]
  BY DEF UpdateCounts
<1> HIDE DEF c
<1>2. LET n == UpdateCounts(m)
      IN /\ SameFork(m, n) /\ n.pool = m.pool /\ n.row = m.row /\ n.cleared = m.cleared
         /\ n.cpRow = m.cpRow /\ n.cpSize = m.cpSize /\ n.cpCount = m.cpCount
         /\ n.copied = m.copied /\ n.copiedCount = m.copiedCount
         /\ n.count = c
  BY <1>1 DEF IsMem, SameFork, MemFields
<1> QED
  BY <1>2 DEF c

(* GetPermission looks at the pool, at the fork, and at whether there is   *)
(* one, and at nothing else in memory.                                     *)
LEMMA GetSame ==
  ASSUME NEW m, NEW n, m.pool = n.pool, m.copiedRow = n.copiedRow, m.fork = n.fork, NEW k
  PROVE  GetPermission(m, k) = GetPermission(n, k)
<1>1. DbRead(m, k) = DbRead(n, k)
  BY DEF DbRead
<1> QED
  BY <1>1 DEF GetPermission

(* Without rows the answer is the database's.                              *)
LEMMA GetEmpty ==
  ASSUME NEW m, m.pool = <<>>, NEW k
  PROVE  GetPermission(m, k) = [this |-> DbRead(m, k).this, val |-> DbRead(m, k).val]
<1>1. DOMAIN m.pool = {}
  OBVIOUS
<1>2. Seek(m.pool, k, DbRead(m, k).this) = {}
  BY <1>1 DEF Seek
<1> QED
  BY <1>2 DEF GetPermission

(* ClearMemPoolInternal drops the rows and their numbers.                  *)
LEMMA ClearIs ==
  ASSUME NEW m, IsMem(m), m.row \in Int
  PROVE  LET n == ClearMemPoolInternal(m)
         IN /\ SameFork(m, n) /\ n.pool = <<>> /\ n.row = m.row - Len(m.pool)
            /\ n.copied = m.copied /\ n.copiedCount = m.copiedCount
            /\ n.cleared = n.count
            /\ m.pool = <<>> => n.count = m.count
            /\ m.pool # <<>> => n.count = Cardinality({k \in Grants : DbRead(m, k).val})
<1> DEFINE e == [m EXCEPT !.row = @ - Len(m.pool), !.pool = <<>>]
           u == UpdateCounts(e)
<1>1. /\ IsMem(e) /\ SameFork(m, e) /\ e.pool = <<>> /\ e.row = m.row - Len(m.pool)
      /\ e.copied = m.copied /\ e.copiedCount = m.copiedCount
  BY DEF IsMem, SameFork, MemFields
<1> HIDE DEF e
<1>2. \A k \in Grants : GetPermission(e, k).val = DbRead(m, k).val
  <2> TAKE k \in Grants
  <2>1. DbRead(e, k) = DbRead(m, k)
    BY <1>1 DEF DbRead, SameFork
  <2> QED BY <1>1, <2>1, GetEmpty
<1>3. {k \in Grants : GetPermission(e, k).val} = {k \in Grants : DbRead(m, k).val}
  BY <1>2
<1>4. /\ SameFork(m, u) /\ u.pool = <<>> /\ u.row = m.row - Len(m.pool)
      /\ u.copied = m.copied /\ u.copiedCount = m.copiedCount
      /\ u.count = Cardinality({k \in Grants : DbRead(m, k).val})
  BY <1>1, <1>3, UpdateCountsIs DEF SameFork
<1> HIDE DEF u
<1>5. CASE m.pool = <<>>
  <2>1. ClearMemPoolInternal(m) = [m EXCEPT !.cleared = m.count]
    BY <1>5 DEF ClearMemPoolInternal
  <2>2. m.row - Len(m.pool) = m.row
    BY <1>5
  <2> QED BY <1>5, <2>1, <2>2 DEF IsMem, SameFork, MemFields
<1>6. CASE m.pool # <<>>
  <2>1. ClearMemPoolInternal(m) = [u EXCEPT !.cleared = u.count]
    BY <1>6 DEF ClearMemPoolInternal, u, e
  <2> QED BY <1>4, <1>6, <2>1 DEF IsMem, SameFork, MemFields
<1> QED
  BY <1>5, <1>6

LEMMA CopyIs ==
  ASSUME NEW m, IsMem(m)
  PROVE  LET n == CopyMemPool(m)
         IN /\ SameFork(m, n) /\ n.pool = m.pool /\ n.row = m.row /\ n.cleared = m.cleared
            /\ n.count = m.count /\ n.copied = m.pool /\ n.copiedCount = m.count
BY DEF IsMem, SameFork, MemFields, CopyMemPool

(* RestoreMemPool puts the copied rows in the place of the others.         *)
LEMMA RestoreIs ==
  ASSUME NEW m, IsMem(m), m.row \in Int
  PROVE  LET n == RestoreMemPool(m)
             c == ClearMemPoolInternal(m)
         IN /\ SameFork(m, n) /\ n.pool = m.copied
            /\ n.row = m.row - Len(m.pool) + Len(m.copied)
            /\ n.count = m.copiedCount /\ n.cleared = c.count
<1> DEFINE c == ClearMemPoolInternal(m)
<1>1. SameFork(m, c) /\ c.row = m.row - Len(m.pool) /\ c.cleared = c.count
  BY ClearIs
<1> HIDE DEF c
<1>2. RestoreMemPool(m) = [c EXCEPT !.pool = m.copied, !.row = @ + Len(m.copied),
                                    !.count = m.copiedCount]
  BY DEF RestoreMemPool, c
<1>3. LET n == RestoreMemPool(m)
      IN /\ SameFork(m, n) /\ n.pool = m.copied
         /\ n.row = m.row - Len(m.pool) + Len(m.copied)
         /\ n.count = m.copiedCount /\ n.cleared = c.count
  BY <1>1, <1>2 DEF IsMem, SameFork, MemFields
<1> QED
  BY <1>3 DEF c

LEMMA CheckPointIs ==
  ASSUME NEW m, IsMem(m)
  PROVE  LET n == SetCheckPoint(m)
         IN /\ SameFork(m, n) /\ n.pool = m.pool /\ n.row = m.row /\ n.cleared = m.cleared
            /\ n.count = m.count /\ n.cpRow = m.row /\ n.cpSize = Len(m.pool)
            /\ n.cpCount = m.count
BY DEF IsMem, SameFork, MemFields, SetCheckPoint

LEMMA RollBackToIs ==
  ASSUME NEW m, IsMem(m)
  PROVE  LET n == RollBackToCheckPoint(m)
         IN /\ SameFork(m, n) /\ n.pool = SubSeq(m.pool, 1, m.cpSize) /\ n.row = m.cpRow
            /\ n.count = m.cpCount /\ n.cleared = m.cleared
<1> DEFINE s == SubSeq(m.pool, 1, m.cpSize)
<1>1. RollBackToCheckPoint(m) = [m EXCEPT !.row = m.cpRow, !.pool = s, !.count = m.cpCount]
  BY DEF RollBackToCheckPoint
<1> HIDE DEF s
<1>2. LET n == RollBackToCheckPoint(m)
      IN /\ SameFork(m, n) /\ n.pool = s /\ n.row = m.cpRow
         /\ n.count = m.cpCount /\ n.cleared = m.cleared
  BY <1>1 DEF IsMem, SameFork, MemFields
<1> QED
  BY <1>2 DEF s

LEMMA ForgetIs ==
  ASSUME NEW m, IsMem(m)
  PROVE  LET n == Forget(m)
         IN /\ SameFork(m, n) /\ n.pool = m.pool /\ n.row = m.row /\ n.cleared = m.cleared
            /\ n.count = m.count /\ n.copied = <<>> /\ n.copiedCount = 0
            /\ n.cpRow = 0 /\ n.cpSize = 0 /\ n.cpCount = 0
BY DEF IsMem, SameFork, MemFields, Forget

LEMMA UnforkIs ==
  ASSUME NEW m, IsMem(m)
  PROVE  LET n == RestoreAfterMinerVerification(m)
         IN /\ IsMem(n) /\ n.pool = m.copied /\ n.row = m.copiedRow + Len(m.copied)
            /\ n.block = m.copiedBlock /\ n.copiedRow = 0 /\ n.copiedBlock = 0 /\ n.fork = 0
            /\ n.count = m.copiedCount /\ n.cleared = m.cleared
BY DEF IsMem, MemFields, RestoreAfterMinerVerification

(* What going to a fork leaves: the rows, the block, the number and the    *)
(* count are kept aside, and the pointers are those of the fork.           *)
Forked(m, fork, n) ==
  LET base == m.row - Len(m.pool)
  IN /\ IsMem(n) /\ n.copied = m.pool /\ n.copiedBlock = m.block
     /\ n.copiedRow = base /\ n.copiedCount = m.count /\ n.cleared = m.cleared
     /\ n.fork = fork /\ n.pool = <<>>
     /\ fork = m.block => /\ n.block = m.block /\ n.row = base
                          /\ n.count = IF m.pool = <<>> THEN m.count ELSE m.cleared
     /\ fork # m.block =>
          /\ n.block = fork
          /\ n.row = Max({r \in 1..(base - 1) : ledger[r].block <= fork} \cup {0}) + 1
          /\ n.count = CountAt(n, fork)

LEMMA ForkIs ==
  ASSUME NEW m, NEW fork, IsMem(m)
  PROVE  Forked(m, fork, RollBackBeforeMinerVerification(m, fork))
<1> DEFINE p == CopyMemPool(m)
           c0 == IF m.pool = <<>> THEN m.count ELSE m.cleared
           base == m.row - Len(m.pool)
           c == [p EXCEPT !.count = IF m.pool = <<>> THEN @ ELSE m.cleared,
                          !.row = @ - Len(m.pool), !.pool = <<>>]
           s == [c EXCEPT !.copiedBlock = c.block, !.copiedRow = c.row,
                          !.fork = fork]
           kept == {r \in 1..(s.row - 1) : ledger[r].block <= fork}
           top == Max(kept \cup {0}) + 1
           b == [s EXCEPT !.row = top, !.block = fork]
           n == IF fork = m.block THEN s
                ELSE [b EXCEPT !.count = CountAt(b, fork)]
<1>1. /\ SameFork(m, p) /\ p.row = m.row /\ p.cleared = m.cleared
      /\ p.count = m.count /\ p.copied = m.pool /\ p.copiedCount = m.count
  BY CopyIs
<1> HIDE DEF p
<1>2. /\ IsMem(c) /\ c.block = m.block /\ c.row = base /\ c.cleared = m.cleared
      /\ c.count = c0 /\ c.copied = m.pool /\ c.copiedCount = m.count /\ c.pool = <<>>
  BY <1>1 DEF IsMem, SameFork, MemFields
<1> HIDE DEF c, c0, base
<1>3. /\ IsMem(s) /\ s.block = m.block /\ s.row = base /\ s.cleared = m.cleared
      /\ s.count = c0 /\ s.copied = m.pool /\ s.copiedCount = m.count /\ s.pool = <<>>
      /\ s.copiedBlock = m.block /\ s.copiedRow = base /\ s.fork = fork
  BY <1>2 DEF IsMem, MemFields
<1>4. top = Max({r \in 1..(base - 1) : ledger[r].block <= fork} \cup {0}) + 1
  BY <1>3
<1> HIDE DEF s, top
<1>5. /\ IsMem(b) /\ b.block = fork /\ b.row = top /\ b.cleared = m.cleared
      /\ b.count = c0 /\ b.copied = m.pool /\ b.copiedCount = m.count /\ b.pool = <<>>
      /\ b.copiedBlock = m.block /\ b.copiedRow = base /\ b.fork = fork
  BY <1>3 DEF IsMem, MemFields
<1>6. RollBackBeforeMinerVerification(m, fork) = n
  BY DEF RollBackBeforeMinerVerification, n, b, top, s, c, p
<1> HIDE DEF b
<1>7. CASE fork = m.block
  <2>1. n = s
    BY <1>7
  <2>2. Forked(m, fork, s)
    BY <1>3, <1>7 DEF base, c0, Forked
  <2> QED BY <1>6, <2>1, <2>2
<1>8. CASE fork # m.block
  <2> DEFINE ca == CountAt(b, fork)
  <2>1. n = [b EXCEPT !.count = ca]
    BY <1>8
  <2> HIDE DEF n, ca
  <2>2. /\ IsMem(n) /\ n.copied = m.pool /\ n.copiedBlock = m.block
        /\ n.copiedRow = base /\ n.copiedCount = m.count /\ n.cleared = m.cleared
        /\ n.fork = fork /\ n.pool = <<>> /\ n.block = fork /\ n.row = top /\ n.count = ca
        /\ n.copiedRow = b.copiedRow /\ n.fork = b.fork /\ n.pool = b.pool
    BY <1>5, <2>1 DEF IsMem, MemFields
  <2>3. ca = CountAt(n, fork)
    <3>1. GetPermission(b, fork) = GetPermission(n, fork)
      BY <2>2, GetSame
    <3> QED BY <3>1 DEF CountAt, ca
  <2>4. Forked(m, fork, n)
    BY <1>4, <1>8, <2>2, <2>3 DEF base, c0, Forked
  <2> QED BY <1>6, <2>4
<1> QED
  BY <1>7, <1>8
-----------------------------------------------------------------------------
(* The invariant.                                                          *)

Named == Grants \cup Assets \cup Miners

(* The first n rows of f are those of the blocks up to b, in the order of  *)
(* the blocks, each pointing to the one before it with its key; a block's  *)
(* index row has the block for its key and points to a row before it.      *)
Filed(f, n, b) ==
  /\ \A r \in 1..n : f[r].block \in 0..b
  /\ \A q, r \in 1..n : q <= r => f[q].block <= f[r].block
  /\ \A r \in 1..n : f[r].key \in Named => f[r].prev = LastIn(f, f[r].key, r - 1)
  /\ \A r \in 1..n : f[r].key \in Heights => f[r].key = f[r].block /\ f[r].prev < r

(* The ledger up to the database's end mark, and the database.             *)
LedgerOK ==
  /\ ledger \in Seq(Row)
  /\ db \in [block : -1..MaxBlock, row : Nat, at : [Keys -> Nat], val : [Keys -> BOOLEAN]]
  /\ db.row >= 1 /\ db.row - 1 <= Len(ledger)
  /\ Filed(ledger, db.row - 1, db.block)
  /\ \A k \in Keys \ ((db.block + 1)..MaxBlock) :
       /\ db.at[k] = LastIn(ledger, k, db.row - 1)
       /\ db.val[k] = (db.at[k] > 0 /\ ledger[db.at[k]].val)

(* The rows of a pool on top of the database's last block.                 *)
Pooled(pool) ==
  /\ pool \in Seq(Row)
  /\ \A i \in 1..Len(pool) : /\ pool[i].this = db.row + i - 1
                             /\ pool[i].block = db.block + 1
                             /\ pool[i].key \in Named \cup {db.block + 1}
                             /\ pool[i].key \notin Named => pool[i].prev < db.row + i - 1
  /\ \A k \in Named : Chained(pool, k, db.at[k], db.row)

(* The pointers of a pool on top of the database's last block.             *)
UpOK(m) == /\ IsMem(m) /\ m.block = db.block /\ m.row = db.row + Len(m.pool)
           /\ m.copiedRow = 0 /\ Pooled(m.pool)

(* The first n rows of the pool are written.                               *)
Written(n) == /\ db.row + n - 1 <= Len(ledger)
              /\ \A i \in 1..n : ledger[db.row + i - 1] = mem.pool[i]

(* The pointers in memory at every step of an operation.                   *)
PointersOK ==
  /\ IsMem(mem)
  /\ pc \in {"up", "rows", "head", "db", "rbdb"} => UpOK(mem)
  /\ pc = "verify" => /\ mem.copiedBlock = db.block /\ mem.copiedRow = db.row
                      /\ Pooled(mem.copied)
  /\ pc = "rows" => arg \in 1..Len(mem.pool) /\ Written(arg - 1)
  /\ pc \in {"head", "db"} => Written(Len(mem.pool))
  /\ pc \in {"rows", "head", "db"} =>
       /\ Len(mem.pool) >= 2 /\ db.block < MaxBlock
       /\ mem.pool[Len(mem.pool)].key = db.block + 1
  /\ pc = "counts" =>
       /\ mem.block + 1 = db.block /\ mem.row = db.row /\ db.row >= 3
       /\ mem.copiedRow = 0 /\ mem.pool \in Seq(Row)
       /\ \A i \in 1..Len(mem.pool) : mem.pool[i].key \in Named =>
            mem.pool[i].prev < db.at[mem.pool[i].key]
  /\ pc \in {"rbdb", "rbhead"} => mem.pool = <<>>
  /\ pc = "rbdb" => arg \in -1..db.block
  /\ pc = "rbhead" => /\ mem.row - 1 \in 0..Len(ledger) /\ arg = db.block
                      /\ db.row = CutRow(mem.row - 1, arg) /\ mem.copiedRow = 0

(* What LedgerOK says of a key that is not a height.                       *)
LEMMA NamedKeys ==
  ASSUME LedgerOK, NEW k \in Named
  PROVE  /\ k \in Keys /\ k \notin Heights
         /\ db.at[k] \in Nat /\ db.at[k] < db.row /\ db.val[k] \in BOOLEAN
         /\ db.at[k] = LastIn(ledger, k, db.row - 1)
         /\ db.val[k] = (db.at[k] > 0 /\ ledger[db.at[k]].val)
<1>1. k \in Keys /\ k \notin Heights
  BY KeysAssumption DEF Keys, Named
<1>2. db.block + 1 \in 0..(MaxBlock + 1) /\ db.row - 1 \in Nat /\ MaxBlock \in Nat
      /\ db.row \in Nat /\ db.at[k] \in Nat /\ db.val[k] \in BOOLEAN
  BY <1>1, KeysAssumption DEF LedgerOK
<1>3. k \notin (db.block + 1)..MaxBlock
  BY <1>1, <1>2 DEF Heights
<1>4. db.at[k] = LastIn(ledger, k, db.row - 1)
      /\ db.val[k] = (db.at[k] > 0 /\ ledger[db.at[k]].val)
  BY <1>1, <1>3 DEF LedgerOK
<1>5. LastIn(ledger, k, db.row - 1) \in 0..(db.row - 1)
  BY <1>2, LastIs
<1> QED
  BY <1>1, <1>2, <1>4, <1>5

(* What GetPermission answers while no verification runs.                  *)
LEMMA GetUp ==
  ASSUME LedgerOK, NEW m, Pooled(m.pool), m.copiedRow = 0, NEW k \in Named
  PROVE  LET last == LastIn(m.pool, k, Len(m.pool))
         IN /\ last \in 0..Len(m.pool)
            /\ GetPermission(m, k).this = IF last = 0 THEN db.at[k] ELSE db.row + last - 1
            /\ GetPermission(m, k).val = IF last = 0 THEN db.val[k] ELSE m.pool[last].val
            /\ GetPermission(m, k).this \in Nat
            /\ GetPermission(m, k).val \in BOOLEAN
<1> DEFINE last == LastIn(m.pool, k, Len(m.pool))
<1>1. DbRead(m, k) = [this |-> db.at[k], val |-> db.val[k]]
  BY DEF DbRead
<1>2. /\ db.row \in Nat /\ db.at[k] \in Nat /\ db.at[k] < db.row /\ db.val[k] \in BOOLEAN
      /\ m.pool \in Seq(Row) /\ Chained(m.pool, k, db.at[k], db.row)
  BY NamedKeys DEF LedgerOK, Pooled
<1>3. GetPermission(m, k) =
        IF last = 0 THEN [this |-> db.at[k], val |-> db.val[k]]
        ELSE [this |-> m.pool[last].this, val |-> m.pool[last].val]
  BY <1>1, <1>2, GetIs
<1>4. Len(m.pool) \in Nat /\ last \in 0..Len(m.pool)
  BY <1>2, LastIs
<1>5. last # 0 => m.pool[last].this = db.row + last - 1 /\ m.pool[last].val \in BOOLEAN
  <2> SUFFICES ASSUME last # 0 PROVE m.pool[last].this = db.row + last - 1 /\ m.pool[last].val \in BOOLEAN
    OBVIOUS
  <2> HIDE DEF last
  <2>1. last \in 1..Len(m.pool)
    BY <1>4
  <2>2. m.pool[last] \in Row
    BY <1>2, <2>1
  <2>3. m.pool[last].this = db.row + last - 1
    BY <1>2, <2>1 DEF Chained
  <2> QED BY <2>2, <2>3 DEF Row
<1> HIDE DEF last
<1>6. /\ GetPermission(m, k).this = IF last = 0 THEN db.at[k] ELSE db.row + last - 1
      /\ GetPermission(m, k).val = IF last = 0 THEN db.val[k] ELSE m.pool[last].val
  BY <1>3, <1>5
<1>7. GetPermission(m, k).this \in Nat /\ GetPermission(m, k).val \in BOOLEAN
  BY <1>2, <1>4, <1>5, <1>6
<1> QED
  BY <1>4, <1>6, <1>7 DEF last

(* One row more on a chain.                                                *)
LEMMA ChainAppend ==
  ASSUME NEW pool \in Seq(Row), NEW row \in Row, NEW k, NEW at, NEW base \in Nat,
         Chained(pool, k, at, base), row.this = base + Len(pool),
         row.key = k => row.prev = IF LastIn(pool, k, Len(pool)) = 0 THEN at
                                   ELSE base + LastIn(pool, k, Len(pool)) - 1
  PROVE  Chained(Append(pool, row), k, at, base)
<1> DEFINE p == Append(pool, row)
           n == Len(pool)
<1>1. n \in Nat /\ Len(p) = n + 1 /\ p[n + 1] = row /\ \A i \in 1..n : p[i] = pool[i]
  OBVIOUS
<1> HIDE DEF p
<1>2. \A j \in 0..n : LastIn(p, k, j) = LastIn(pool, k, j)
  <2> TAKE j \in 0..n
  <2>1. j \in Nat /\ \A i \in 1..j : p[i].key = pool[i].key
    BY <1>1
  <2> QED BY <2>1, LastSame
<1>3. \A i \in 1..Len(p) : i \in 1..n \/ i = n + 1
  BY <1>1
<1>4. /\ \A i \in 1..n : pool[i].this = base + i - 1
      /\ \A i \in 1..n : pool[i].key = k =>
           pool[i].prev = IF LastIn(pool, k, i - 1) = 0 THEN at
                          ELSE base + LastIn(pool, k, i - 1) - 1
  BY DEF Chained
<1>5. ASSUME NEW i \in 1..Len(p) PROVE p[i].this = base + i - 1
  BY <1>1, <1>3, <1>4
<1>6. ASSUME NEW i \in 1..Len(p), p[i].key = k
      PROVE  p[i].prev = IF LastIn(p, k, i - 1) = 0 THEN at
                         ELSE base + LastIn(p, k, i - 1) - 1
  <2>1. CASE i \in 1..n
    <3>1. i - 1 \in 0..n
      BY <1>1, <2>1
    <3> QED BY <1>1, <1>2, <1>4, <1>6, <2>1, <3>1
  <2>2. CASE i = n + 1
    <3>1. i - 1 = n /\ n \in 0..n /\ p[i] = row
      BY <1>1, <2>2
    <3> QED BY <1>2, <1>6, <3>1
  <2> QED BY <1>3, <2>1, <2>2
<1>7. Chained(p, k, at, base)
  BY <1>5, <1>6 DEF Chained
<1> QED
  BY <1>7 DEF p

(* One row more on a pool.                                                 *)
LEMMA PoolAppend ==
  ASSUME LedgerOK, NEW pool, Pooled(pool), NEW row \in Row,
         row.block = db.block + 1, row.this = db.row + Len(pool),
         row.key \in Named \cup {db.block + 1},
         row.key \in Named =>
           row.prev = LET last == LastIn(pool, row.key, Len(pool))
                      IN IF last = 0 THEN db.at[row.key] ELSE db.row + last - 1,
         row.key \notin Named => row.prev < row.this
  PROVE  Pooled(Append(pool, row))
<1> DEFINE p == Append(pool, row)
           n == Len(pool)
<1>1. n \in Nat /\ p \in Seq(Row) /\ Len(p) = n + 1 /\ p[n + 1] = row
      /\ \A i \in 1..n : p[i] = pool[i]
  BY DEF Pooled
<1>2. db.row \in Nat
  BY DEF LedgerOK
<1> HIDE DEF p
<1>4. \A i \in 1..Len(p) : i \in 1..n \/ i = n + 1
  BY <1>1
<1>5. ASSUME NEW k \in Named PROVE Chained(p, k, db.at[k], db.row)
  <2>1. pool \in Seq(Row) /\ Chained(pool, k, db.at[k], db.row)
    BY DEF Pooled
  <2>2. row.key = k => row.prev = IF LastIn(pool, k, Len(pool)) = 0 THEN db.at[k]
                                  ELSE db.row + LastIn(pool, k, Len(pool)) - 1
    OBVIOUS
  <2> QED BY <1>2, <2>1, <2>2, ChainAppend DEF p
<1>6. \A i \in 1..Len(p) : /\ p[i].this = db.row + i - 1 /\ p[i].block = db.block + 1
                           /\ p[i].key \in Named \cup {db.block + 1}
                           /\ p[i].key \notin Named => p[i].prev < db.row + i - 1
  <2> TAKE i \in 1..Len(p)
  <2>1. CASE i \in 1..n
    BY <1>1, <2>1 DEF Pooled
  <2>2. CASE i = n + 1
    <3>1. p[i] = row /\ row.this = db.row + i - 1
      BY <1>1, <1>2, <2>2
    <3> QED BY <3>1
  <2> QED BY <1>4, <2>1, <2>2
<1>7. Pooled(p)
  BY <1>1, <1>5, <1>6 DEF Pooled
<1> QED
  BY <1>7 DEF p

(* Some rows less.                                                         *)
LEMMA PoolPrefix ==
  ASSUME LedgerOK, NEW pool, Pooled(pool), NEW n \in 0..Len(pool)
  PROVE  Pooled(SubSeq(pool, 1, n)) /\ Len(SubSeq(pool, 1, n)) = n
<1> DEFINE p == SubSeq(pool, 1, n)
<1>1. n \in Nat /\ p \in Seq(Row) /\ Len(p) = n /\ \A i \in 1..n : p[i] = pool[i]
      /\ Len(pool) \in Nat /\ n <= Len(pool)
  BY DEF Pooled
<1> HIDE DEF p
<1>2. ASSUME NEW k \in Named PROVE Chained(p, k, db.at[k], db.row)
  <2>1. \A i \in 1..n : LastIn(p, k, i - 1) = LastIn(pool, k, i - 1)
    <3> TAKE i \in 1..n
    <3>1. i - 1 \in Nat /\ \A j \in 1..(i - 1) : p[j].key = pool[j].key
      BY <1>1
    <3> QED BY <3>1, LastSame
  <2>2. Chained(pool, k, db.at[k], db.row)
    BY DEF Pooled
  <2>3. \A i \in 1..n : i \in 1..Len(pool)
    BY <1>1
  <2> QED BY <1>1, <2>1, <2>2, <2>3 DEF Chained
<1>3. \A i \in 1..n : /\ p[i].this = db.row + i - 1 /\ p[i].block = db.block + 1
                      /\ p[i].key \in Named \cup {db.block + 1}
                      /\ p[i].key \notin Named => p[i].prev < db.row + i - 1
  <2> TAKE i \in 1..n
  <2>1. i \in 1..Len(pool) /\ p[i] = pool[i]
    BY <1>1
  <2> QED BY <2>1 DEF Pooled
<1>4. Pooled(p)
  BY <1>1, <1>2, <1>3 DEF Pooled
<1> QED
  BY <1>1, <1>4 DEF p

LEMMA PoolEmpty == LedgerOK => Pooled(<<>>)
  BY DEF Pooled, Chained

(* SetPermissionInternal keeps the pointers in order.                      *)
LEMMA SetPermissionUp ==
  ASSUME LedgerOK, NEW m, UpOK(m), NEW k \in Named, NEW v \in BOOLEAN
  PROVE  /\ UpOK(SetPermission(m, k, v))
         /\ SetPermission(m, k, v).pool = Append(m.pool, NewRow(m, k, v))
         /\ NewRow(m, k, v) \in Row
         /\ NewRow(m, k, v).key = k /\ NewRow(m, k, v).val = v
<1> DEFINE n == SetPermission(m, k, v)
           g == GetPermission(m, k)
           row == NewRow(m, k, v)
<1>1. /\ SameFork(m, n) /\ n.pool = Append(m.pool, row) /\ n.row = m.row + 1
  BY SetPermissionIs DEF UpOK
<1>2. g.this \in Nat
      /\ g.this = LET last == LastIn(m.pool, k, Len(m.pool))
                  IN IF last = 0 THEN db.at[k] ELSE db.row + last - 1
  BY GetUp DEF UpOK
<1>3. /\ m.row = db.row + Len(m.pool) /\ m.block = db.block /\ m.pool \in Seq(Row)
      /\ Len(m.pool) \in Nat /\ db.row \in Nat /\ db.block \in Int /\ IsMem(m)
  BY DEF UpOK, LedgerOK, Pooled
<1> HIDE DEF g
<1>4. row = [key |-> k, prev |-> g.this, this |-> m.row, val |-> v,
             block |-> m.block + 1, count |-> 0]
  BY DEF NewRow, g
<1> HIDE DEF row, n
<1>5. k \in Keys
  BY NamedKeys
<1>6. row \in Row /\ row.key = k /\ row.val = v /\ row.prev = g.this
      /\ row.this = db.row + Len(m.pool) /\ row.block = db.block + 1
  BY <1>2, <1>3, <1>4, <1>5 DEF Row
<1>7. Pooled(m.pool)
  BY DEF UpOK
<1>8. Pooled(Append(m.pool, row))
  BY <1>2, <1>6, <1>7, PoolAppend
<1>9. Len(n.pool) = Len(m.pool) + 1
  BY <1>1, <1>3, <1>6
<1>10. UpOK(n)
  BY <1>1, <1>3, <1>8, <1>9 DEF UpOK, SameFork
<1> QED
  BY <1>1, <1>6, <1>10 DEF n, row

(* The end of f, from low on, is a copy of p.                              *)
Joined(f, low, p, n, high) == /\ low \in Nat /\ n \in Nat /\ high = low + n
                              /\ \A i \in 1..n : f[low + i].key = p[i].key

(* The last row of a key in a file that ends with a copy of p.             *)
LEMMA LastJoin ==
  ASSUME NEW f, NEW low, NEW p, NEW n, NEW high, Joined(f, low, p, n, high), NEW k
  PROVE  LastIn(f, k, high) = IF LastIn(p, k, n) = 0 THEN LastIn(f, k, low)
                              ELSE low + LastIn(p, k, n)
<1> DEFINE a == LastIn(f, k, low)
           b == LastIn(p, k, n)
<1>1. /\ low \in Nat /\ n \in Nat /\ high = low + n /\ high \in Nat
      /\ \A i \in 1..n : f[low + i].key = p[i].key
  BY DEF Joined
<1>2. a \in 0..low /\ (a > 0 => f[a].key = k)
      /\ \A i \in 1..low : f[i].key = k => i <= a
  BY <1>1, LastIs
<1>3. b \in 0..n /\ (b > 0 => p[b].key = k) /\ \A i \in 1..n : p[i].key = k => i <= b
  BY <1>1, LastIs
<1> HIDE DEF a, b
<1>4. \A j \in 1..high : j > low => j - low \in 1..n /\ f[j].key = p[j - low].key
  <2> SUFFICES ASSUME NEW j \in 1..high, j > low
               PROVE  j - low \in 1..n /\ f[j].key = p[j - low].key
    OBVIOUS
  <2>1. j - low \in 1..n /\ low + (j - low) = j
    BY <1>1
  <2> QED BY <1>1, <2>1
<1>5. CASE b = 0
  <2>1. \A j \in 1..high : f[j].key = k => j <= a
    <3> SUFFICES ASSUME NEW j \in 1..high, f[j].key = k PROVE j <= a
      OBVIOUS
    <3>1. CASE j > low
      <4>1. j - low <= 0
        BY <1>1, <1>3, <1>4, <1>5, <3>1
      <4> QED BY <1>1, <3>1, <4>1
    <3>2. CASE ~(j > low)
      BY <1>1, <1>2, <3>2
    <3> QED BY <3>1, <3>2
  <2>2. a \in 0..high
    BY <1>1, <1>2
  <2>3. LastIn(f, k, high) = a
    BY <1>1, <1>2, <2>1, <2>2, LastUnique
  <2> QED BY <1>5, <2>3 DEF a, b
<1>6. CASE b # 0
  <2>1. \A j \in 1..high : f[j].key = k => j <= low + b
    <3> SUFFICES ASSUME NEW j \in 1..high, f[j].key = k PROVE j <= low + b
      OBVIOUS
    <3>1. CASE j > low
      <4>1. j - low <= b
        BY <1>1, <1>3, <1>4, <3>1
      <4> QED BY <1>1, <1>3, <3>1, <4>1
    <3>2. CASE ~(j > low)
      BY <1>1, <1>3, <3>2
    <3> QED BY <3>1, <3>2
  <2>2. b \in 1..n
    BY <1>1, <1>3, <1>6
  <2>3. low + b \in 0..high /\ f[low + b].key = k
    BY <1>1, <1>3, <2>2
  <2>4. LastIn(f, k, high) = low + b
    BY <1>1, <2>1, <2>3, LastUnique
  <2> QED BY <1>6, <2>4 DEF a, b
<1> QED
  BY <1>5, <1>6

(* Completing the counts of two rows changes nothing else of the file.     *)
LEMMA SetCountsIs ==
  ASSUME NEW f \in Seq(Row), NEW r \in Int, NEW n \in Nat
  PROVE  LET g == SetCounts(f, r, n)
         IN /\ g \in Seq(Row) /\ Len(g) = Len(f)
            /\ \A q \in 1..Len(f) : /\ g[q].key = f[q].key /\ g[q].prev = f[q].prev
                                    /\ g[q].val = f[q].val /\ g[q].block = f[q].block
                                    /\ g[q].count = IF q = r \/ q = r - 1 THEN n ELSE f[q].count
<1> DEFINE h == [f EXCEPT ![r].count = n]
           g == [h EXCEPT ![r - 1].count = n]
<1>1. ASSUME NEW e \in Seq(Row), NEW s \in Int
      PROVE  LET d == [e EXCEPT ![s].count = n]
             IN /\ d \in Seq(Row) /\ Len(d) = Len(e)
                /\ \A q \in 1..Len(e) : /\ d[q].key = e[q].key /\ d[q].prev = e[q].prev
                                        /\ d[q].val = e[q].val /\ d[q].block = e[q].block
                                        /\ d[q].count = IF q = s THEN n ELSE e[q].count
  <2> DEFINE d == [e EXCEPT ![s].count = n]
             row(q) == IF q = s THEN [e[q] EXCEPT !.count = n] ELSE e[q]
  <2>1. DOMAIN e = 1..Len(e) /\ Len(e) \in Nat
    OBVIOUS
  <2>2. d = [q \in 1..Len(e) |-> row(q)]
    BY <2>1
  <2>3. ASSUME NEW q \in 1..Len(e)
        PROVE  /\ row(q) \in Row
               /\ row(q).key = e[q].key /\ row(q).prev = e[q].prev
               /\ row(q).val = e[q].val /\ row(q).block = e[q].block
               /\ row(q).count = IF q = s THEN n ELSE e[q].count
    <3>1. e[q] \in Row
      OBVIOUS
    <3> QED BY <3>1 DEF Row
  <2> HIDE DEF row, d
  <2>4. d \in Seq(Row) /\ Len(d) = Len(e) /\ \A q \in 1..Len(e) : d[q] = row(q)
    BY <2>1, <2>2, <2>3
  <2> QED BY <2>3, <2>4 DEF d
<1>2. h \in Seq(Row) /\ Len(h) = Len(f)
      /\ \A q \in 1..Len(f) : /\ h[q].key = f[q].key /\ h[q].prev = f[q].prev
                              /\ h[q].val = f[q].val /\ h[q].block = f[q].block
                              /\ h[q].count = IF q = r THEN n ELSE f[q].count
  BY <1>1
<1> HIDE DEF h
<1>3. r - 1 \in Int
  OBVIOUS
<1>4. g \in Seq(Row) /\ Len(g) = Len(h)
      /\ \A q \in 1..Len(h) : /\ g[q].key = h[q].key /\ g[q].prev = h[q].prev
                              /\ g[q].val = h[q].val /\ g[q].block = h[q].block
                              /\ g[q].count = IF q = r - 1 THEN n ELSE h[q].count
  BY <1>1, <1>2, <1>3
<1>5. SetCounts(f, r, n) = g
  BY DEF SetCounts, g, h
<1> HIDE DEF g
<1> QED
  BY <1>2, <1>4, <1>5

(* A file in which the rows up to the end mark keep all but their counts.  *)
LEMMA LedgerKept ==
  ASSUME LedgerOK, UNCHANGED db, ledger' \in Seq(Row), db.row - 1 <= Len(ledger'),
         \A r \in 1..(db.row - 1) :
           /\ ledger'[r].key = ledger[r].key /\ ledger'[r].prev = ledger[r].prev
           /\ ledger'[r].val = ledger[r].val /\ ledger'[r].block = ledger[r].block
  PROVE  LedgerOK'
<1> DEFINE n == db.row - 1
<1>1. n \in Nat
  BY DEF LedgerOK
<1>2. \A k : \A j \in 0..n : LastIn(ledger', k, j) = LastIn(ledger, k, j)
  <2> TAKE k
  <2> TAKE j \in 0..n
  <2>1. j \in Nat /\ \A i \in 1..j : ledger'[i].key = ledger[i].key
    BY <1>1
  <2> QED BY <2>1, LastSame
<1>3. \A r \in 1..n : r - 1 \in 0..n
  BY <1>1
<1>4. Filed(ledger, n, db.block)
  BY DEF LedgerOK
<1> HIDE DEF n
<1>5. \A r \in 1..n :
           /\ ledger'[r].key = ledger[r].key /\ ledger'[r].prev = ledger[r].prev
           /\ ledger'[r].val = ledger[r].val /\ ledger'[r].block = ledger[r].block
  BY DEF n
<1>6. \A r \in 1..n : ledger[r].key \in Named =>
         ledger'[r].prev = LastIn(ledger', ledger'[r].key, r - 1)
  BY <1>2, <1>3, <1>4, <1>5 DEF Filed
<1>7. Filed(ledger', n, db.block)
  <2>1. \A r \in 1..n : ledger'[r].block \in 0..db.block
    BY <1>4, <1>5 DEF Filed
  <2>2. \A q, r \in 1..n : q <= r => ledger'[q].block <= ledger'[r].block
    BY <1>4, <1>5 DEF Filed
  <2>3. \A r \in 1..n : ledger'[r].key \in Named =>
           ledger'[r].prev = LastIn(ledger', ledger'[r].key, r - 1)
    BY <1>5, <1>6
  <2>4. \A r \in 1..n : ledger'[r].key \in Heights =>
           ledger'[r].key = ledger'[r].block /\ ledger'[r].prev < r
    BY <1>4, <1>5 DEF Filed
  <2> QED BY <2>1, <2>2, <2>3, <2>4 DEF Filed
<1>8. ASSUME NEW k \in Keys \ ((db.block + 1)..MaxBlock)
      PROVE  /\ db.at[k] = LastIn(ledger', k, n)
             /\ db.val[k] = (db.at[k] > 0 /\ ledger'[db.at[k]].val)
  <2>1. db.at[k] = LastIn(ledger, k, n) /\ db.val[k] = (db.at[k] > 0 /\ ledger[db.at[k]].val)
    BY <1>8 DEF LedgerOK, n
  <2>2. db.at[k] \in 0..n
    BY <1>1, <2>1, LastIs
  <2>3. db.at[k] > 0 => ledger'[db.at[k]].val = ledger[db.at[k]].val
    BY <1>1, <1>5, <2>2
  <2>4. n \in 0..n
    BY <1>1
  <2> QED BY <1>2, <2>1, <2>3, <2>4
<1>9. db'.row - 1 = n /\ db' = db
  BY DEF n
<1> QED
  BY <1>7, <1>8, <1>9 DEF LedgerOK

(* A step leaves the rows of the blocks that the database knows.           *)
RowsKept == \A r \in 1..(db.row - 1) : /\ ledger'[r].key = ledger[r].key
                                       /\ ledger'[r].val = ledger[r].val
                                       /\ ledger'[r].block = ledger[r].block

(* Where RollBackInternal cuts: blocks are filed in order.                 *)
LEMMA CutIs ==
  ASSUME NEW n \in Nat, NEW c, Filed(ledger, n, c),
         NEW block \in Int
  PROVE  /\ CutRow(n, block) \in 1..(n + 1)
         /\ \A r \in 1..n : r < CutRow(n, block) <=> ledger[r].block <= block
<1> DEFINE S == {0} \cup {r \in 1..n : ledger[r].block <= block}
<1>1. S # {} /\ S \in SUBSET (0..n)
  OBVIOUS
<1> HIDE DEF S
<1>2. PICK x \in S : x = Max(S) /\ \A s \in S : s <= x
  BY <1>1, MaxIs
<1>3. CutRow(n, block) = x + 1
  BY <1>2 DEF CutRow, S
<1>4. x \in 0..n /\ (x > 0 => ledger[x].block <= block)
  BY <1>2 DEF S
<1>5. \A r \in 1..n : ledger[r].block <= block => r <= x
  BY <1>2 DEF S
<1>6. ASSUME NEW r \in 1..n, r <= x PROVE ledger[r].block <= block
  <2>1. x \in 1..n /\ ledger[r].block <= ledger[x].block
    BY <1>4, <1>6 DEF Filed
  <2>2. \A q \in 1..n : ledger[q].block \in 0..c
    BY DEF Filed
  <2>3. \A q \in 1..n : ledger[q].block \in Int
    BY <2>2
  <2> QED BY <1>4, <2>1, <2>3
<1> QED
  BY <1>3, <1>4, <1>5, <1>6

(* A row written beyond the end mark.                                      *)
LEMMA WriteRowIs ==
  ASSUME NEW f \in Seq(Row), NEW r \in 1..(Len(f) + 1), NEW row \in Row
  PROVE  LET g == WriteRow(f, r, row)
         IN /\ g \in Seq(Row) /\ Len(g) >= Len(f) /\ Len(g) >= r /\ g[r] = row
            /\ \A q \in 1..Len(f) : q # r => g[q] = f[q]
<1>1. CASE r <= Len(f)
  BY <1>1 DEF WriteRow
<1>2. CASE r = Len(f) + 1
  BY <1>2 DEF WriteRow
<1> QED
  BY <1>1, <1>2

(* The batch of a block: every key's last row of it, or what it had.       *)
LEMMA CommitLedger ==
  ASSUME LedgerOK, PointersOK, CommitDb
  PROVE  /\ LedgerOK'
         /\ \A i \in 1..Len(mem.pool) : mem.pool[i].key \in Named =>
              mem.pool[i].prev < db'.at[mem.pool[i].key]
         /\ db'.block = db.block + 1 /\ db'.row = db.row + Len(mem.pool)
         /\ UNCHANGED <<ledger, mem>>
         /\ \A k \in Keys : LET l == LastIn(mem.pool, k, Len(mem.pool))
                           IN db'.val[k] = IF l = 0 THEN db.val[k] ELSE mem.pool[l].val
<1> DEFINE pool == mem.pool
           n == Len(pool)
           base == db.row
           end == base - 1 + n
           last(k) == LastIn(pool, k, n)
           touched == {pool[i].key : i \in DOMAIN pool}
<1>0. UpOK(mem) /\ Written(n) /\ n >= 2 /\ db.block < MaxBlock /\ pool[n].key = db.block + 1
  BY DEF PointersOK, CommitDb
<1>1. /\ pool \in Seq(Row) /\ n \in Nat /\ DOMAIN pool = 1..n /\ base \in Nat /\ base >= 1
      /\ db.block \in -1..MaxBlock /\ MaxBlock \in Nat
      /\ ledger \in Seq(Row) /\ base + n - 1 <= Len(ledger)
      /\ mem.row = base + n /\ mem.block = db.block
      /\ \A i \in 1..n : /\ ledger[base + i - 1] = pool[i] /\ pool[i].this = base + i - 1
                         /\ pool[i].block = db.block + 1 /\ pool[i].key \in Named \cup {db.block + 1}
                         /\ pool[i].key \notin Named => pool[i].prev < base + i - 1
  <2>1. /\ pool \in Seq(Row) /\ n \in Nat /\ DOMAIN pool = 1..n
        /\ ledger \in Seq(Row) /\ db.block \in -1..MaxBlock /\ MaxBlock \in Nat
    BY <1>0, KeysAssumption DEF UpOK, Pooled, LedgerOK
  <2>2. base \in Nat /\ base >= 1 /\ mem.row = base + n /\ mem.block = db.block
    BY <1>0 DEF UpOK, Pooled, LedgerOK
  <2>3. base + n - 1 <= Len(ledger) /\ \A i \in 1..n : ledger[base + i - 1] = pool[i]
    BY <1>0, <2>1, <2>2 DEF Written
  <2>4. \A i \in 1..n : /\ pool[i].this = base + i - 1 /\ pool[i].block = db.block + 1
                        /\ pool[i].key \in Named \cup {db.block + 1}
                        /\ pool[i].key \notin Named => pool[i].prev < base + i - 1
    BY <1>0, <2>1, <2>2 DEF UpOK, Pooled
  <2> QED BY <2>1, <2>2, <2>3, <2>4
<1>2. /\ db' = [block |-> mem.block + 1, row |-> mem.row,
                at |-> [k \in Keys |-> IF k \in touched THEN pool[BatchRow(k)].this ELSE db.at[k]],
                val |-> [k \in Keys |-> IF k \in touched THEN pool[BatchRow(k)].val ELSE db.val[k]]]
      /\ UNCHANGED <<ledger, mem>>
  BY DEF CommitDb
<1> HIDE DEF pool, n, base
<1>num. n \in Nat /\ base \in Nat /\ base >= 1 /\ db.block \in -1..MaxBlock /\ MaxBlock \in Nat
  BY <1>1
<1>3. ASSUME NEW k
      PROVE  /\ last(k) \in 0..n /\ (last(k) > 0 => pool[last(k)].key = k)
             /\ \A i \in 1..n : pool[i].key = k => i <= last(k)
             /\ k \in touched <=> last(k) > 0
             /\ k \in touched => BatchRow(k) = last(k)
             /\ LastIn(ledger, k, end) = IF last(k) = 0 THEN LastIn(ledger, k, base - 1)
                                         ELSE base + last(k) - 1
  <2>1. /\ last(k) \in 0..n /\ (last(k) > 0 => pool[last(k)].key = k)
        /\ \A i \in 1..n : pool[i].key = k => i <= last(k)
    BY <1>1, LastIs
  <2> HIDE DEF last
  <2>2. k \in touched <=> last(k) > 0
    BY <1>1, <2>1
  <2>3. k \in touched => BatchRow(k) = last(k)
    <3> SUFFICES ASSUME k \in touched PROVE BatchRow(k) = last(k)
      OBVIOUS
    <3> DEFINE S == {i \in 1..n : pool[i].key = k}
    <3>1. S \in SUBSET (0..n) /\ last(k) \in S /\ \A i \in S : i <= last(k)
      BY <1>1, <2>1, <2>2
    <3> HIDE DEF S
    <3>2. Max(S) = last(k)
      BY <1>1, <3>1, MaxUnique
    <3> QED BY <1>1, <3>2 DEF BatchRow, S, pool
  <2>5. LastIn(ledger, k, end) = IF last(k) = 0 THEN LastIn(ledger, k, base - 1)
                                 ELSE base + last(k) - 1
    <3>1. Joined(ledger, base - 1, pool, n, end)
      <4>1. \A i \in 1..n : base - 1 + i = base + i - 1
        BY <1>1
      <4> QED BY <1>1, <4>1 DEF Joined
    <3> HIDE DEF end
    <3>2. LastIn(ledger, k, end) = IF LastIn(pool, k, n) = 0 THEN LastIn(ledger, k, base - 1)
                                   ELSE base - 1 + LastIn(pool, k, n)
      BY <3>1, LastJoin
    <3>3. base - 1 + last(k) = base + last(k) - 1
      BY <1>1, <2>1
    <3> QED BY <3>2, <3>3 DEF last
  <2> QED BY <2>1, <2>2, <2>3, <2>5
<1> HIDE DEF last, touched
<1>4. ASSUME NEW k \in Keys, last(k) > 0
      PROVE  db'.at[k] = base + last(k) - 1 /\ db'.val[k] = pool[last(k)].val
             /\ pool[last(k)] = ledger[base + last(k) - 1] /\ pool[last(k)] \in Row
  <2>1. last(k) \in 1..n /\ k \in touched /\ BatchRow(k) = last(k)
    BY <1>1, <1>3, <1>4
  <2>2. db'.at[k] = pool[last(k)].this /\ db'.val[k] = pool[last(k)].val
    BY <1>2, <2>1
  <2> QED BY <1>1, <2>1, <2>2
<1>5. ASSUME NEW k \in Keys, ~(last(k) > 0) PROVE db'.at[k] = db.at[k] /\ db'.val[k] = db.val[k]
  BY <1>2, <1>3, <1>5
<1>6. /\ db'.block = db.block + 1 /\ db'.row = base + n /\ db'.row - 1 = end /\ end \in Nat
      /\ db'.block \in -1..MaxBlock
  BY <1>0, <1>1, <1>2 DEF end
<1> HIDE DEF end
<1>7. \A k \in Keys : db'.at[k] \in Nat /\ db'.val[k] \in BOOLEAN
  <2> TAKE k \in Keys
  <2>1. CASE last(k) > 0
    <3>1. last(k) \in 1..n
      BY <1>1, <1>3, <2>1
    <3>2. pool[last(k)] \in Row /\ db'.at[k] = base + last(k) - 1
          /\ db'.val[k] = pool[last(k)].val
      BY <1>4, <2>1
    <3>3. pool[last(k)].val \in BOOLEAN
      BY <3>2 DEF Row
    <3>4. base + last(k) - 1 \in Nat
      BY <1>1, <3>1
    <3> QED BY <3>2, <3>3, <3>4
  <2>2. CASE ~(last(k) > 0)
    BY <1>5, <2>2 DEF LedgerOK
  <2> QED BY <2>1, <2>2
<1>8. db' \in [block : -1..MaxBlock, row : Nat, at : [Keys -> Nat], val : [Keys -> BOOLEAN]]
  <2>1. db'.at \in [Keys -> Nat] /\ db'.val \in [Keys -> BOOLEAN]
    BY <1>2, <1>7
  <2>2. DOMAIN db' = {"block", "row", "at", "val"} /\ db' = [f \in {"block", "row", "at", "val"} |-> db'[f]]
    BY <1>2
  <2>3. db'.row \in Nat
    BY <1>1, <1>6
  <2> QED BY <1>6, <2>1, <2>2, <2>3
<1>9. \A r \in 1..end : r \in 1..(base - 1) \/ \E i \in 1..n : r = base + i - 1
  <2> SUFFICES ASSUME NEW r \in 1..end, r \notin 1..(base - 1)
               PROVE  \E i \in 1..n : r = base + i - 1
    OBVIOUS
  <2>1. r - base + 1 \in 1..n /\ r = base + (r - base + 1) - 1
    BY <1>1 DEF end
  <2> QED BY <2>1
<1>10. Filed(ledger, base - 1, db.block)
  BY DEF LedgerOK, base
<1>11. Filed(ledger, end, db.block + 1)
  <2>1. ASSUME NEW r \in 1..end PROVE ledger[r].block \in 0..(db.block + 1)
    <3>1. CASE r \in 1..(base - 1)
      BY <1>1, <1>10, <3>1 DEF Filed
    <3>2. CASE \E i \in 1..n : r = base + i - 1
      <4>1. PICK i \in 1..n : r = base + i - 1
        BY <3>2
      <4>2. ledger[r].block = db.block + 1
        BY <1>1, <4>1
      <4>3. db.block + 1 \in 0..(db.block + 1)
        BY <1>1
      <4> QED BY <4>2, <4>3
    <3> QED BY <1>9, <3>1, <3>2
  <2>2. ASSUME NEW q \in 1..end, NEW r \in 1..end, q <= r
        PROVE  ledger[q].block <= ledger[r].block
    <3>1. CASE r \in 1..(base - 1)
      <4>1. q \in 1..(base - 1)
        BY <1>1, <2>2, <3>1
      <4> QED BY <1>10, <2>2, <3>1, <4>1 DEF Filed
    <3>2. CASE \E i \in 1..n : r = base + i - 1
      <4>1. ledger[r].block = db.block + 1
        BY <1>1, <3>2
      <4>2. ledger[q].block \in 0..(db.block + 1)
        BY <2>1
      <4> QED BY <1>1, <4>1, <4>2
    <3> QED BY <1>9, <3>1, <3>2
  <2>3. ASSUME NEW r \in 1..end, ledger[r].key \in Named
        PROVE  ledger[r].prev = LastIn(ledger, ledger[r].key, r - 1)
    <3>1. CASE r \in 1..(base - 1)
      BY <1>10, <2>3, <3>1 DEF Filed
    <3>2. CASE \E i \in 1..n : r = base + i - 1
      <4>1. PICK i \in 1..n : r = base + i - 1
        BY <3>2
      <4> DEFINE k == ledger[r].key
      <4>2. k \in Named /\ pool[i].key = k /\ ledger[r].prev = pool[i].prev
        BY <1>1, <2>3, <4>1
      <4> HIDE DEF k
      <4>3. Joined(ledger, base - 1, pool, i - 1, r - 1)
        <5>1. \A j \in 1..(i - 1) : base - 1 + j = base + j - 1 /\ j \in 1..n
          BY <1>1, <4>1
        <5>2. base - 1 \in Nat /\ i - 1 \in Nat /\ r - 1 = base - 1 + (i - 1)
          BY <1>1, <4>1
        <5> QED BY <1>1, <5>1, <5>2 DEF Joined
      <4> DEFINE new == LastIn(pool, k, i - 1)
      <4>4. pool[i].prev = IF new = 0 THEN db.at[k] ELSE base + new - 1
        BY <1>0, <4>2 DEF UpOK, Pooled, Chained, pool, n, base
      <4>5. new \in Nat
        <5>1. i - 1 \in Nat
          BY <1>1
        <5> QED BY <5>1, LastIs
      <4>6. db.at[k] = LastIn(ledger, k, base - 1)
        BY <4>2, NamedKeys DEF base
      <4>7. LastIn(ledger, k, r - 1) = IF new = 0 THEN LastIn(ledger, k, base - 1)
                                       ELSE base - 1 + new
        BY <4>3, LastJoin
      <4>8. base - 1 + new = base + new - 1
        BY <1>1, <4>5
      <4> QED BY <4>2, <4>4, <4>6, <4>7, <4>8 DEF k
    <3> QED BY <1>9, <3>1, <3>2
  <2>4. ASSUME NEW r \in 1..end, ledger[r].key \in Heights
        PROVE  ledger[r].key = ledger[r].block /\ ledger[r].prev < r
    <3>1. CASE r \in 1..(base - 1)
      BY <1>10, <2>4, <3>1 DEF Filed
    <3>2. CASE \E i \in 1..n : r = base + i - 1
      <4>1. \A k \in Named : k \notin Heights
        BY NamedKeys
      <4> QED BY <1>1, <2>4, <3>2, <4>1
    <3> QED BY <1>9, <3>1, <3>2
  <2> QED BY <2>1, <2>2, <2>3, <2>4 DEF Filed
<1>12. ASSUME NEW k \in Keys \ ((db.block + 2)..MaxBlock)
       PROVE  /\ db'.at[k] = LastIn(ledger, k, end)
              /\ db'.val[k] = (db'.at[k] > 0 /\ ledger[db'.at[k]].val)
  <2>1. CASE last(k) > 0
    <3>1. last(k) \in 0..n /\ LastIn(ledger, k, end) = base + last(k) - 1
      BY <1>3, <2>1
    <3>2. db'.at[k] = base + last(k) - 1 /\ db'.val[k] = pool[last(k)].val
          /\ pool[last(k)] = ledger[base + last(k) - 1] /\ pool[last(k)].val \in BOOLEAN
      BY <1>4, <2>1 DEF Row
    <3>3. base + last(k) - 1 > 0
      BY <1>1, <2>1, <3>1
    <3> QED BY <3>1, <3>2, <3>3
  <2>2. CASE ~(last(k) > 0)
    <3>1. last(k) = 0
      BY <1>1, <1>3, <2>2
    <3>2. k # db.block + 1
      <4>1. n \in 1..n /\ n > 0
        BY <1>0, <1>1
      <4>2. pool[n].key = k => n <= last(k)
        BY <1>3, <4>1
      <4>3. last(k) \in 0..n /\ n \in Nat /\ pool[n].key = db.block + 1
        BY <1>0, <1>1, <1>3 DEF pool, n
      <4> QED BY <3>1, <4>1, <4>2, <4>3
    <3>3. k \notin (db.block + 1)..MaxBlock
      BY <1>num, <1>12, <3>2
    <3>4. db.at[k] = LastIn(ledger, k, base - 1) /\ db.val[k] = (db.at[k] > 0 /\ ledger[db.at[k]].val)
      BY <1>12, <3>3 DEF LedgerOK, base
    <3>5. LastIn(ledger, k, end) = LastIn(ledger, k, base - 1)
      BY <1>3, <3>1
    <3> QED BY <1>5, <2>2, <3>4, <3>5
  <2> QED BY <2>1, <2>2
<1>13. db'.block + 1 = db.block + 2 /\ db'.row >= 1 /\ db'.row - 1 <= Len(ledger)
  BY <1>1, <1>6 DEF end
<1>14. LedgerOK'
  <2>1. Filed(ledger, db'.row - 1, db'.block)
    BY <1>6, <1>11
  <2>2. \A k \in Keys \ ((db'.block + 1)..MaxBlock) :
           /\ db'.at[k] = LastIn(ledger, k, db'.row - 1)
           /\ db'.val[k] = (db'.at[k] > 0 /\ ledger[db'.at[k]].val)
    BY <1>6, <1>12, <1>13
  <2>3. ledger' = ledger
    BY <1>2
  <2> QED BY <1>1, <1>8, <1>13, <2>1, <2>2, <2>3 DEF LedgerOK
<1>15. ASSUME NEW i \in 1..n, pool[i].key \in Named PROVE pool[i].prev < db'.at[pool[i].key]
  <2> DEFINE k == pool[i].key
             l == LastIn(pool, k, i - 1)
  <2>1. pool[i].prev = IF l = 0 THEN db.at[k] ELSE base + l - 1
    BY <1>0, <1>15 DEF UpOK, Pooled, Chained, pool, n, base
  <2>2. k \in Keys /\ db.at[k] \in Nat /\ db.at[k] < base
    BY <1>15, NamedKeys DEF base
  <2>3. i - 1 \in Nat /\ l \in 0..(i - 1)
    <3>1. i - 1 \in Nat
      BY <1>1
    <3> QED BY <3>1, LastIs
  <2> HIDE DEF l
  <2>4. last(k) \in 0..n /\ i <= last(k)
    BY <1>3
  <2>5. last(k) > 0
    BY <1>1, <2>4
  <2>6. db'.at[k] = base + last(k) - 1
    BY <1>4, <2>2, <2>5
  <2> HIDE DEF k
  <2>7. pool[i].prev < db'.at[k]
    BY <1>num, <2>1, <2>2, <2>3, <2>4, <2>6
  <2> QED BY <2>7 DEF k
<1>16. ASSUME NEW k \in Keys
       PROVE  db'.val[k] = IF last(k) = 0 THEN db.val[k] ELSE pool[last(k)].val
  <2>1. last(k) \in 0..n
    BY <1>3
  <2>2. CASE last(k) = 0
    BY <1>5, <2>2
  <2>3. CASE last(k) # 0
    <3>1. last(k) > 0
      BY <1>num, <2>1, <2>3
    <3> QED BY <1>4, <2>3, <3>1
  <2> QED BY <2>2, <2>3
<1> QED
  BY <1>2, <1>6, <1>14, <1>15, <1>16 DEF pool, n, base, last

(* The batch of a roll back: every key's last row below the cut.           *)
LEMMA RollBackLedger ==
  ASSUME LedgerOK, PointersOK, RollBackDb
  PROVE  /\ LedgerOK'
         /\ db'.block = arg /\ db'.row = CutRow(mem.row - 1, arg)
         /\ UNCHANGED <<ledger, mem, arg>>
<1> DEFINE end == mem.row - 1
           cut == CutRow(end, arg)
           dropped(k) == {r \in cut..end : ledger[r].key = k}
           low(k) == LowestRow(dropped(k))
           prev(k) == ledger[low(k)].prev
<1>1. /\ end = db.row - 1 /\ end \in Nat /\ end <= Len(ledger) /\ ledger \in Seq(Row)
      /\ arg \in -1..db.block /\ arg \in -1..MaxBlock /\ db.block \in -1..MaxBlock
      /\ MaxBlock \in Nat /\ Filed(ledger, end, db.block)
  <2>1. UpOK(mem) /\ mem.pool = <<>> /\ arg \in -1..db.block
    BY DEF PointersOK, RollBackDb
  <2>2. mem.row = db.row
    BY <2>1 DEF UpOK, LedgerOK
  <2>3. db.block \in -1..MaxBlock /\ MaxBlock \in Nat
    BY KeysAssumption DEF LedgerOK
  <2>4. arg \in -1..MaxBlock
    BY <2>1, <2>3
  <2> QED BY <2>1, <2>2, <2>3, <2>4 DEF LedgerOK
<1>2. cut \in 1..(end + 1) /\ \A r \in 1..end : r < cut <=> ledger[r].block <= arg
  <2>1. end \in Nat /\ arg \in Int /\ Filed(ledger, end, db.block)
    BY <1>1
  <2> HIDE DEF end
  <2> QED BY <2>1, CutIs
<1>3. /\ db' = [block |-> arg, row |-> cut,
                at |-> [k \in Keys |-> IF dropped(k) = {} THEN db.at[k] ELSE prev(k)],
                val |-> [k \in Keys |-> IF dropped(k) = {} THEN db.val[k]
                                        ELSE prev(k) > 0 /\ ledger[prev(k)].val]]
      /\ UNCHANGED <<ledger, mem, arg>>
  BY DEF RollBackDb
<1>num. end \in Nat /\ end <= Len(ledger) /\ Len(ledger) \in Nat /\ cut \in 1..(end + 1)
        /\ arg \in -1..MaxBlock /\ MaxBlock \in Nat
  BY <1>1, <1>2
<1> HIDE DEF cut, end
<1>4. ASSUME NEW k, dropped(k) # {}
      PROVE  /\ low(k) \in cut..end /\ ledger[low(k)].key = k
             /\ \A r \in dropped(k) : low(k) <= r
  <2>1. dropped(k) \in SUBSET Nat
    BY <1>1, <1>2
  <2>2. low(k) \in dropped(k) /\ \A r \in dropped(k) : low(k) <= r
    BY <1>4, <2>1, MinIs DEF LowestRow
  <2> QED BY <2>2
<1>5. ASSUME NEW k \in Named, dropped(k) # {}
      PROVE  prev(k) = LastIn(ledger, k, cut - 1)
  <2>1. low(k) \in 1..end /\ low(k) \in cut..end /\ low(k) - 1 \in Nat /\ cut - 1 \in Nat
        /\ ledger[low(k)].key = k
    <3>1. low(k) \in cut..end /\ ledger[low(k)].key = k
      BY <1>4, <1>5
    <3> HIDE DEF low
    <3> QED BY <1>num, <3>1
  <2> DEFINE x == LastIn(ledger, k, low(k) - 1)
  <2>2. prev(k) = x
    BY <1>1, <1>5, <2>1 DEF Filed
  <2>3. x \in 0..(low(k) - 1) /\ (x > 0 => ledger[x].key = k)
        /\ \A j \in 1..(low(k) - 1) : ledger[j].key = k => j <= x
    BY <2>1, LastIs
  <2> HIDE DEF x
  <2>4. x \in 0..(cut - 1)
    <3>1. SUFFICES ASSUME x >= cut PROVE FALSE
      BY <1>1, <1>2, <2>1, <2>3
    <3>2. x \in cut..end /\ x > 0 /\ x < low(k)
      BY <1>1, <1>2, <2>1, <2>3, <3>1
    <3>3. x \in dropped(k)
      BY <2>3, <3>2
    <3>4. low(k) <= x
      BY <1>4, <1>5, <3>3
    <3> QED BY <2>1, <3>2, <3>4
  <2>5. \A j \in 1..(cut - 1) : ledger[j].key = k => j <= x
    BY <1>1, <1>2, <2>1, <2>3
  <2>6. LastIn(ledger, k, cut - 1) = x
    BY <2>1, <2>3, <2>4, <2>5, LastUnique
  <2> QED BY <2>2, <2>6
<1>6. ASSUME NEW k, dropped(k) = {}
      PROVE  LastIn(ledger, k, cut - 1) = LastIn(ledger, k, end)
  <2> DEFINE x == LastIn(ledger, k, end)
  <2>1. x \in 0..end /\ (x > 0 => ledger[x].key = k)
        /\ \A j \in 1..end : ledger[j].key = k => j <= x
    BY <1>1, LastIs
  <2> HIDE DEF x
  <2>2. x \in 0..(cut - 1) /\ cut - 1 \in Nat
    <3>1. cut - 1 \in Nat
      BY <1>1, <1>2
    <3>2. SUFFICES ASSUME x >= cut PROVE FALSE
      BY <1>1, <1>2, <2>1, <3>1
    <3>3. x \in cut..end /\ x > 0
      BY <1>1, <1>2, <2>1, <3>2
    <3>4. x \in dropped(k)
      BY <2>1, <3>3
    <3> QED BY <1>6, <3>4
  <2>3. \A j \in 1..(cut - 1) : ledger[j].key = k => j <= x
    BY <1>1, <1>2, <2>1
  <2>4. LastIn(ledger, k, cut - 1) = x
    BY <2>1, <2>2, <2>3, LastUnique
  <2> QED BY <2>4 DEF x
<1>7. ASSUME NEW k \in Keys, dropped(k) # {}
      PROVE  prev(k) \in 0..end
  <2>1. low(k) \in 1..end /\ low(k) \in 1..Len(ledger) /\ ledger[low(k)].key = k
    <3>1. low(k) \in cut..end /\ ledger[low(k)].key = k
      BY <1>4, <1>7
    <3> HIDE DEF low
    <3> QED BY <1>num, <3>1
  <2>2. ledger[low(k)] \in Row
    BY <1>1, <2>1
  <2>3. prev(k) \in Nat
    BY <2>2 DEF Row
  <2>4. CASE k \in Named
    <3>1. cut - 1 \in Nat /\ cut - 1 <= end
      BY <1>1, <1>2
    <3>2. prev(k) \in 0..(cut - 1)
      BY <1>5, <1>7, <2>4, <3>1, LastIs
    <3> QED BY <1>1, <3>1, <3>2
  <2>5. CASE k \notin Named
    <3>1. k \in Heights
      BY <2>5 DEF Keys, Named
    <3>2. prev(k) < low(k)
      BY <1>1, <2>1, <3>1 DEF Filed
    <3> QED BY <1>1, <2>1, <2>3, <3>2
  <2> QED BY <2>4, <2>5
<1>8. ASSUME NEW k \in Keys \ ((arg + 1)..MaxBlock), dropped(k) # {} PROVE k \in Named
  <2>1. SUFFICES ASSUME k \in Heights PROVE FALSE
    BY <1>8 DEF Keys, Named
  <2>2. low(k) \in 1..end /\ ~(low(k) < cut) /\ ledger[low(k)].key = k
    <3>1. low(k) \in cut..end /\ ledger[low(k)].key = k
      BY <1>4, <1>8
    <3> HIDE DEF low
    <3> QED BY <1>num, <3>1
  <2>3. ledger[low(k)].block = k /\ ~(ledger[low(k)].block <= arg)
    BY <1>1, <1>2, <2>1, <2>2 DEF Filed
  <2> QED BY <1>1, <1>8, <2>1, <2>3 DEF Heights
<1> HIDE DEF dropped, low
<1> HIDE DEF prev
<1>9. ASSUME NEW k \in Keys
      PROVE  /\ db'.at[k] \in Nat /\ db'.val[k] \in BOOLEAN
             /\ dropped(k) = {} => db'.at[k] = db.at[k] /\ db'.val[k] = db.val[k]
             /\ dropped(k) # {} => /\ db'.at[k] = prev(k)
                                   /\ db'.val[k] = (prev(k) > 0 /\ ledger[prev(k)].val)
  <2>1. CASE dropped(k) = {}
    <3>1. db'.at[k] = db.at[k] /\ db'.val[k] = db.val[k]
      BY <1>3, <2>1
    <3>2. db.at[k] \in Nat /\ db.val[k] \in BOOLEAN
      BY DEF LedgerOK
    <3> QED BY <2>1, <3>1, <3>2
  <2>2. CASE dropped(k) # {}
    <3>1. prev(k) \in 0..end
      BY <1>7, <2>2
    <3>2. db'.at[k] = prev(k) /\ db'.val[k] = (prev(k) > 0 /\ ledger[prev(k)].val)
      BY <1>3, <2>2
    <3>3. prev(k) \in Nat
      BY <1>num, <3>1
    <3>4. (prev(k) > 0 /\ ledger[prev(k)].val) \in BOOLEAN
      OBVIOUS
    <3> QED BY <2>2, <3>2, <3>3, <3>4
  <2> QED BY <2>1, <2>2
<1>10. db' \in [block : -1..MaxBlock, row : Nat, at : [Keys -> Nat], val : [Keys -> BOOLEAN]]
  <2>1. db'.at \in [Keys -> Nat] /\ db'.val \in [Keys -> BOOLEAN]
    BY <1>3, <1>9
  <2>2. DOMAIN db' = {"block", "row", "at", "val"} /\ db' = [f \in {"block", "row", "at", "val"} |-> db'[f]]
    BY <1>3
  <2>3. db'.block \in -1..MaxBlock /\ db'.row \in Nat
    BY <1>1, <1>2, <1>3
  <2> QED BY <2>1, <2>2, <2>3
<1>11. db'.block = arg /\ db'.row = cut /\ db'.row >= 1 /\ db'.row - 1 <= Len(ledger)
       /\ cut - 1 \in Nat /\ cut - 1 <= end
  BY <1>1, <1>2, <1>3
<1>12. Filed(ledger, cut - 1, arg)
  <2>1. \A r \in 1..(cut - 1) : r \in 1..end /\ r < cut
    BY <1>1, <1>2
  <2>2. \A r \in 1..(cut - 1) : ledger[r].block \in 0..arg
    <3> TAKE r \in 1..(cut - 1)
    <3>1. r \in 1..end /\ ledger[r].block <= arg
      BY <1>2, <2>1
    <3>2. ledger[r].block \in 0..db.block
      BY <1>1, <3>1 DEF Filed
    <3> QED BY <1>1, <3>1, <3>2
  <2> QED BY <1>1, <2>1, <2>2 DEF Filed
<1>13. ASSUME NEW k \in Keys \ ((arg + 1)..MaxBlock)
       PROVE  /\ db'.at[k] = LastIn(ledger, k, cut - 1)
              /\ db'.val[k] = (db'.at[k] > 0 /\ ledger[db'.at[k]].val)
  <2>1. CASE dropped(k) = {}
    <3>1. k \in Keys \ ((db.block + 1)..MaxBlock)
      BY <1>1, <1>13
    <3>2. db.at[k] = LastIn(ledger, k, end) /\ db.val[k] = (db.at[k] > 0 /\ ledger[db.at[k]].val)
      BY <1>1, <3>1 DEF LedgerOK
    <3> QED BY <1>6, <1>9, <2>1, <3>2
  <2>2. CASE dropped(k) # {}
    <3>1. k \in Named
      BY <1>8, <2>2
    <3> QED BY <1>5, <1>9, <2>2, <3>1
  <2> QED BY <2>1, <2>2
<1>14. LedgerOK'
  <2>1. ledger' = ledger
    BY <1>3
  <2> QED BY <1>1, <1>10, <1>11, <1>12, <1>13, <2>1 DEF LedgerOK
<1> QED
  BY <1>3, <1>11, <1>14 DEF cut, end

-----------------------------------------------------------------------------
(* The callers keep the pointers in order.                                 *)

(* A count is a number: there are finitely many addresses.                 *)
LEMMA CountIs ==
  ASSUME NEW S \in SUBSET Grants
  PROVE  Cardinality(S) \in Nat /\ IsFiniteSet(S)
  BY KeysAssumption, FS_Subset, FS_CardinalityType

(* The database has not moved.                                             *)
LEMMA UpKept ==
  ASSUME UNCHANGED db, UpOK(mem')
  PROVE  UpOK(mem)'
  BY DEF UpOK, Pooled

(* The pointers after an operation that leaves the rows alone.             *)
LEMMA UpSame ==
  ASSUME NEW m, NEW n, UpOK(m), SameFork(m, n), n.pool = m.pool, n.row = m.row
  PROVE  UpOK(n)
  BY DEF UpOK, SameFork

(* The pointers with no rows.                                              *)
LEMMA UpEmpty ==
  ASSUME LedgerOK, NEW m, IsMem(m), m.block = db.block, m.row = db.row, m.copiedRow = 0,
         m.pool = <<>>
  PROVE  UpOK(m)
<1>1. db.row \in Nat
  BY DEF LedgerOK
<1> QED
  BY <1>1, PoolEmpty DEF UpOK

(* The checkpoint is at a row of the pool.                                 *)
CpOK(m) == m.cpSize \in 0..Len(m.pool) /\ m.cpRow = db.row + m.cpSize

LEMMA CheckPointUp ==
  ASSUME NEW m, UpOK(m)
  PROVE  UpOK(SetCheckPoint(m)) /\ CpOK(SetCheckPoint(m))
<1> DEFINE n == SetCheckPoint(m)
<1>1. IsMem(m) /\ m.row = db.row + Len(m.pool) /\ Len(m.pool) \in Nat
  BY DEF UpOK, Pooled
<1>2. /\ SameFork(m, n) /\ n.pool = m.pool /\ n.row = m.row
      /\ n.cpRow = m.row /\ n.cpSize = Len(m.pool)
  BY <1>1, CheckPointIs
<1> HIDE DEF n
<1>3. UpOK(n)
  BY <1>2, UpSame
<1>4. CpOK(n)
  BY <1>1, <1>2 DEF CpOK
<1> QED
  BY <1>3, <1>4 DEF n

LEMMA SetPermissionCp ==
  ASSUME LedgerOK, NEW m, UpOK(m), CpOK(m), NEW k \in Named, NEW v \in BOOLEAN
  PROVE  UpOK(SetPermission(m, k, v)) /\ CpOK(SetPermission(m, k, v))
<1> DEFINE n == SetPermission(m, k, v)
           row == NewRow(m, k, v)
<1>1. UpOK(n) /\ n.pool = Append(m.pool, row) /\ row \in Row
  BY SetPermissionUp
<1>2. IsMem(m) /\ m.pool \in Seq(Row) /\ Len(m.pool) \in Nat
  BY DEF UpOK, Pooled
<1>3. n.cpRow = m.cpRow /\ n.cpSize = m.cpSize
  BY <1>2, SetPermissionIs
<1> HIDE DEF n, row
<1>4. Len(n.pool) = Len(m.pool) + 1
  BY <1>1, <1>2
<1>5. CpOK(n)
  BY <1>2, <1>3, <1>4 DEF CpOK
<1> QED
  BY <1>1, <1>5 DEF n

LEMMA RollBackToUp ==
  ASSUME LedgerOK, NEW m, UpOK(m), CpOK(m)
  PROVE  UpOK(RollBackToCheckPoint(m))
<1> DEFINE n == RollBackToCheckPoint(m)
<1>1. IsMem(m) /\ Pooled(m.pool) /\ m.cpSize \in 0..Len(m.pool) /\ m.cpRow = db.row + m.cpSize
      /\ m.copiedRow = 0 /\ m.block = db.block
  BY DEF UpOK, CpOK
<1>2. SameFork(m, n) /\ n.pool = SubSeq(m.pool, 1, m.cpSize) /\ n.row = m.cpRow
  BY <1>1, RollBackToIs
<1> HIDE DEF n
<1>3. Pooled(n.pool) /\ Len(n.pool) = m.cpSize
  BY <1>1, <1>2, PoolPrefix
<1>4. UpOK(n)
  BY <1>1, <1>2, <1>3 DEF UpOK, SameFork
<1> QED
  BY <1>4 DEF n

LEMMA ForgetUp ==
  ASSUME NEW m, UpOK(m)
  PROVE  UpOK(Forget(m)) /\ Forget(m).pool = m.pool
<1>1. IsMem(m)
  BY DEF UpOK
<1> DEFINE n == Forget(m)
<1>2. SameFork(m, n) /\ n.pool = m.pool /\ n.row = m.row
  BY <1>1, ForgetIs
<1> HIDE DEF n
<1>3. UpOK(n) /\ n.pool = m.pool
  BY <1>2, UpSame
<1> QED
  BY <1>3 DEF n

LEMMA ClearUp ==
  ASSUME LedgerOK, NEW m, UpOK(m)
  PROVE  LET n == ClearMemPoolInternal(m)
         IN UpOK(n) /\ n.pool = <<>> /\ n.row = db.row /\ n.copied = m.copied
            /\ n.copiedCount = m.copiedCount
<1> DEFINE n == ClearMemPoolInternal(m)
<1>1. IsMem(m) /\ m.row = db.row + Len(m.pool) /\ Len(m.pool) \in Nat /\ db.row \in Nat
      /\ m.block = db.block /\ m.copiedRow = 0
  BY DEF UpOK, Pooled, LedgerOK
<1>2. m.row \in Int
  BY <1>1
<1>3. SameFork(m, n) /\ n.pool = <<>> /\ n.row = m.row - Len(m.pool) /\ n.copied = m.copied
      /\ n.copiedCount = m.copiedCount
  BY <1>1, <1>2, ClearIs
<1> HIDE DEF n
<1>4. n.row = db.row
  BY <1>1, <1>3
<1>5. UpOK(n)
  BY <1>1, <1>3, <1>4, UpEmpty DEF SameFork
<1> QED
  BY <1>3, <1>4, <1>5 DEF n

(* A transaction's rows, under their checkpoint.                           *)
LEMMA TxRowsUp ==
  ASSUME LedgerOK, UpOK(mem),
         NEW gs \in {<<>>} \cup {<<g>> : g \in Grant},
         NEW issue \in {<<>>} \cup {<<a>> : a \in Assets}
  PROVE  UpOK(TxRows(gs, issue)) /\ CpOK(TxRows(gs, issue))
<1> DEFINE begun == SetCheckPoint(mem)
           granted == IF gs = <<>> THEN begun ELSE SetPermission(begun, gs[1].key, gs[1].val)
           cp == SetCheckPoint(granted)
<1>1. UpOK(begun) /\ CpOK(begun)
  BY CheckPointUp
<1> HIDE DEF begun
<1>2. UpOK(granted) /\ CpOK(granted)
  <2>1. CASE gs = <<>>
    BY <1>1, <2>1
  <2>2. CASE gs # <<>>
    <3>1. gs[1].key \in Named /\ gs[1].val \in BOOLEAN
      BY <2>2 DEF Grant, Named
    <3> QED BY <1>1, <2>2, <3>1, SetPermissionCp
  <2> QED BY <2>1, <2>2
<1>3. TxRows(gs, issue) = IF issue = <<>> THEN granted ELSE SetPermission(cp, issue[1], TRUE)
  BY DEF TxRows, begun
<1> HIDE DEF granted
<1>4. UpOK(cp) /\ CpOK(cp)
  BY <1>2, CheckPointUp
<1> HIDE DEF cp
<1>5. CASE issue = <<>>
  BY <1>2, <1>3, <1>5
<1>6. CASE issue # <<>>
  <2>1. issue[1] \in Named
    BY <1>6 DEF Named
  <2> QED BY <1>3, <1>4, <1>6, <2>1, SetPermissionCp
<1> QED
  BY <1>5, <1>6

(* The two rows that CommitInternal adds to the block's grants.            *)
LEMMA BlockRowUp ==
  ASSUME LedgerOK, NEW m, UpOK(m), db.block < MaxBlock,
         NEW k \in Named \cup {db.block + 1}, NEW prev \in Nat,
         k \in Named => prev = GetPermission(m, k).this,
         k \notin Named => prev < db.row
  PROVE  LET n == BlockRow(m, k, prev)
         IN /\ UpOK(n) /\ Len(n.pool) = Len(m.pool) + 1 /\ n.pool[Len(n.pool)].key = k
            /\ Base(n) = db.row
<1> DEFINE row == [key |-> k, prev |-> prev, this |-> m.row, val |-> TRUE,
                   block |-> m.block + 1, count |-> 0]
           n == BlockRow(m, k, prev)
<1>1. /\ IsMem(m) /\ m.row = db.row + Len(m.pool) /\ Len(m.pool) \in Nat /\ db.row \in Nat
      /\ m.block = db.block /\ db.block \in -1..MaxBlock /\ MaxBlock \in Nat
      /\ m.copiedRow = 0 /\ Pooled(m.pool) /\ m.pool \in Seq(Row)
  BY KeysAssumption DEF UpOK, Pooled, LedgerOK
<1>2. SameFork(m, n) /\ n.pool = Append(m.pool, row) /\ n.row = m.row + 1
  BY <1>1 DEF BlockRow, SameFork, IsMem, MemFields
<1>3. row \in Row /\ row.key = k /\ row.prev = prev /\ row.this = m.row
      /\ row.block = db.block + 1
  <2>1. k \in Keys
    <3>1. db.block + 1 \in Heights
      BY <1>1 DEF Heights
    <3> QED BY <3>1 DEF Keys, Named
  <2>2. m.row \in Nat /\ m.block + 1 \in Int /\ 0 \in Nat
    BY <1>1
  <2> QED BY <1>1, <2>1, <2>2 DEF Row
<1> HIDE DEF n, row
<1>4. k \in Named => prev = LET last == LastIn(m.pool, k, Len(m.pool))
                            IN IF last = 0 THEN db.at[k] ELSE db.row + last - 1
  BY <1>1, GetUp
<1>5. k \notin Named => prev < m.row
  BY <1>1
<1>6. Pooled(Append(m.pool, row))
  BY <1>1, <1>3, <1>4, <1>5, PoolAppend
<1>7. Len(n.pool) = Len(m.pool) + 1 /\ n.pool[Len(n.pool)] = row
  BY <1>1, <1>2, <1>3
<1>8. UpOK(n)
  BY <1>1, <1>2, <1>6, <1>7 DEF UpOK, SameFork
<1>9. Base(n) = db.row
  BY <1>1, <1>2, <1>7 DEF Base
<1> QED
  BY <1>3, <1>7, <1>8, <1>9 DEF n

(* One more row is in the file.                                            *)
LEMMA CommitRowLedger ==
  ASSUME LedgerOK, PointersOK, CommitRow
  PROVE  /\ LedgerOK' /\ UNCHANGED <<db, mem>> /\ RowsKept
         /\ db.row + arg - 1 <= Len(ledger')
         /\ \A i \in 1..arg : ledger'[db.row + i - 1] = mem.pool[i]
         /\ \A q \in 1..(db.row - 1) : ledger'[q] = ledger[q]
<1> DEFINE r == Base(mem) + arg - 1
<1>1. /\ db.row \in Nat /\ db.row >= 1 /\ mem.pool \in Seq(Row) /\ Len(mem.pool) \in Nat
      /\ arg \in 1..Len(mem.pool) /\ mem.row = db.row + Len(mem.pool)
      /\ ledger \in Seq(Row) /\ db.row - 1 <= Len(ledger) /\ Len(ledger) \in Nat
      /\ Written(arg - 1)
  <2>1. UpOK(mem) /\ arg \in 1..Len(mem.pool) /\ Written(arg - 1)
    BY DEF PointersOK, CommitRow
  <2>2. mem.pool \in Seq(Row) /\ Len(mem.pool) \in Nat /\ mem.row = db.row + Len(mem.pool)
    BY <2>1 DEF UpOK, Pooled
  <2>3. /\ db.row \in Nat /\ db.row >= 1 /\ ledger \in Seq(Row) /\ db.row - 1 <= Len(ledger)
        /\ Len(ledger) \in Nat
    BY DEF LedgerOK
  <2> QED BY <2>1, <2>2, <2>3
<1>2. r = db.row + arg - 1 /\ r \in 1..(Len(ledger) + 1) /\ r > db.row - 1
  BY <1>1 DEF Base, Written
<1>3. ledger' = WriteRow(ledger, r, mem.pool[arg]) /\ UNCHANGED <<db, mem>>
  BY DEF CommitRow
<1> HIDE DEF r
<1>4. mem.pool[arg] \in Row
  BY <1>1
<1>5. /\ ledger' \in Seq(Row) /\ Len(ledger') >= Len(ledger) /\ Len(ledger') >= r
      /\ ledger'[r] = mem.pool[arg] /\ \A q \in 1..Len(ledger) : q # r => ledger'[q] = ledger[q]
  BY <1>1, <1>2, <1>3, <1>4, WriteRowIs
<1>6. LedgerOK'
  <2>1. \A q \in 1..(db.row - 1) : q \in 1..Len(ledger) /\ q # r
    BY <1>1, <1>2
  <2>2. db.row - 1 <= Len(ledger') /\ UNCHANGED db
    BY <1>1, <1>3, <1>5
  <2> QED BY <1>5, <2>1, <2>2, LedgerKept
<1>7. ASSUME NEW i \in 1..arg PROVE ledger'[db.row + i - 1] = mem.pool[i]
  <2>1. CASE i = arg
    BY <1>2, <1>5, <2>1
  <2>2. CASE i # arg
    <3>1. i \in 1..(arg - 1) /\ db.row + i - 1 \in 1..Len(ledger) /\ db.row + i - 1 # r
      BY <1>1, <1>2, <2>2 DEF Written
    <3> QED BY <1>1, <1>5, <3>1 DEF Written
  <2> QED BY <2>1, <2>2
<1>8. db.row + arg - 1 <= Len(ledger')
  BY <1>2, <1>5
<1>9. RowsKept /\ \A q \in 1..(db.row - 1) : ledger'[q] = ledger[q]
  <2>1. \A q \in 1..(db.row - 1) : q \in 1..Len(ledger) /\ q # r
    BY <1>1, <1>2
  <2> QED BY <1>5, <2>1 DEF RowsKept
<1> QED
  BY <1>3, <1>6, <1>7, <1>8, <1>9

(* The counts go into the block's last two rows.                           *)
LEMMA CountsLedger ==
  ASSUME LedgerOK, NEW c \in Nat, ledger' = SetCounts(ledger, db.row - 1, c), UNCHANGED db
  PROVE  LedgerOK' /\ RowsKept
<1>1. ledger \in Seq(Row) /\ db.row \in Nat /\ db.row - 1 <= Len(ledger) /\ Len(ledger) \in Nat
  BY DEF LedgerOK
<1>2. db.row - 1 \in Int
  BY <1>1
<1>3. /\ ledger' \in Seq(Row) /\ Len(ledger') = Len(ledger)
      /\ \A q \in 1..Len(ledger) : /\ ledger'[q].key = ledger[q].key
                                   /\ ledger'[q].prev = ledger[q].prev
                                   /\ ledger'[q].val = ledger[q].val
                                   /\ ledger'[q].block = ledger[q].block
  <2> DEFINE e == db.row - 1
             g == SetCounts(ledger, e, c)
  <2>1. e \in Int /\ ledger \in Seq(Row) /\ ledger' = g
    BY <1>1, <1>2
  <2> HIDE DEF e
  <2>2. /\ g \in Seq(Row) /\ Len(g) = Len(ledger)
        /\ \A q \in 1..Len(ledger) : /\ g[q].key = ledger[q].key /\ g[q].prev = ledger[q].prev
                                     /\ g[q].val = ledger[q].val /\ g[q].block = ledger[q].block
    BY <2>1, SetCountsIs
  <2> HIDE DEF g
  <2> QED BY <2>1, <2>2
<1>4. \A q \in 1..(db.row - 1) : q \in 1..Len(ledger)
  BY <1>1
<1>5. db.row - 1 <= Len(ledger')
  BY <1>1, <1>3
<1> QED
  BY <1>3, <1>4, <1>5, LedgerKept DEF RowsKept

(* The ledger and the database through every step.                         *)
LEMMA StepLedger ==
  ASSUME LedgerOK, PointersOK, [Next]_vars
  PROVE  LedgerOK' /\ RowsKept
<1>1. CASE UNCHANGED <<ledger, db>>
  <2>1. LedgerOK'
    BY <1>1 DEF LedgerOK, Filed
  <2> QED BY <1>1, <2>1 DEF RowsKept
<1>2. CASE CommitRow
  BY <1>2, CommitRowLedger
<1>3. CASE CommitDb
  BY <1>3, CommitLedger DEF RowsKept
<1>4. CASE CommitCounts
  <2> DEFINE m == UpdateCounts(mem)
  <2>1. IsMem(mem) /\ mem.row = db.row
    BY <1>4 DEF PointersOK, CommitCounts
  <2>2. m.row = mem.row /\ m.count = Cardinality({k \in Grants : GetPermission(mem, k).val})
    BY <2>1, UpdateCountsIs
  <2>3. ledger' = SetCounts(ledger, m.row - 1, m.count) /\ UNCHANGED db
    BY <1>4 DEF CommitCounts
  <2> HIDE DEF m
  <2>4. m.count \in Nat
    BY <2>2, CountIs
  <2> QED BY <2>1, <2>2, <2>3, <2>4, CountsLedger
<1>5. CASE RollBackDb
  BY <1>5, RollBackLedger DEF RowsKept
<1>6. CASE Open
  <2> DEFINE z == [ZeroMem EXCEPT !.block = db.block, !.row = db.row]
             m == UpdateCounts(z)
  <2>1. UNCHANGED db /\ (UNCHANGED ledger \/ ledger' = RecountLastBlock(ledger, db.row, m.count))
    BY <1>6 DEF Open
  <2>2. IsMem(z)
    BY DEF IsMem, MemFields, ZeroMem
  <2> HIDE DEF z
  <2>3. m.count \in Nat
    <3>1. m.count = Cardinality({k \in Grants : GetPermission(z, k).val})
      BY <2>2, UpdateCountsIs
    <3> QED BY <3>1, CountIs
  <2> HIDE DEF m
  <2>4. CASE UNCHANGED ledger
    BY <1>1, <2>1, <2>4
  <2>5. CASE ledger' = SetCounts(ledger, db.row - 1, m.count)
    BY <2>1, <2>3, <2>5, CountsLedger
  <2> QED BY <2>1, <2>4, <2>5 DEF RecountLastBlock
<1> QED
  BY <1>1, <1>2, <1>3, <1>4, <1>5, <1>6
  DEF Next, vars, Disk, AcceptTx, ClearMemPool, CheckBlockPermissions, VerifyBegin, VerifyGrant,
      VerifyBlock, VerifyEnd, CommitBegin, CommitHead, CommitDbFails, RollBackBegin,
      RollBackDbFails, RollBackHead, Crash, Repair

(* The pointers through every step.                                        *)
LEMMA StepPointers ==
  ASSUME LedgerOK, PointersOK, [Next]_vars
  PROVE  PointersOK'
<1>0. LedgerOK'
  BY StepLedger
<1>up. ASSUME UNCHANGED db, UpOK(mem'), pc' = "up" PROVE PointersOK'
  BY <1>up, UpKept DEF PointersOK, UpOK
<1>1. ASSUME NEW gs \in {<<>>} \cup {<<g>> : g \in Grant},
             NEW issue \in {<<>>} \cup {<<a>> : a \in Assets}, AcceptTx(gs, issue)
      PROVE  PointersOK'
  <2> DEFINE t == TxRows(gs, issue)
  <2>1. UpOK(mem) /\ UNCHANGED db /\ pc' = "up"
        /\ (mem' = Forget(t) \/ mem' = Forget(RollBackToCheckPoint(t)))
    BY <1>1 DEF AcceptTx, PointersOK, Disk
  <2>2. UpOK(t) /\ CpOK(t)
    BY <2>1, TxRowsUp
  <2> HIDE DEF t
  <2>3. UpOK(mem')
    BY <2>1, <2>2, ForgetUp, RollBackToUp
  <2> QED BY <1>up, <2>1, <2>3
<1>2. CASE ClearMemPool
  <2>1. UpOK(mem) /\ UNCHANGED db /\ pc' = "up" /\ mem' = ClearMemPoolInternal(mem)
    BY <1>2 DEF ClearMemPool, PointersOK, Disk
  <2> QED BY <1>up, <2>1, ClearUp
<1>3. CASE CheckBlockPermissions
  <2> DEFINE c == CopyMemPool(mem)
             e == ClearMemPoolInternal(c)
             r == RestoreMemPool(e)
  <2>1. UpOK(mem) /\ UNCHANGED db /\ pc' = "up" /\ mem' = Forget(r) /\ IsMem(mem)
    BY <1>3 DEF CheckBlockPermissions, PointersOK, Disk
  <2>2. UpOK(c) /\ c.copied = mem.pool
    <3>1. SameFork(mem, c) /\ c.pool = mem.pool /\ c.row = mem.row /\ c.copied = mem.pool
      BY <2>1, CopyIs
    <3> HIDE DEF c
    <3> QED BY <2>1, <3>1, UpSame
  <2> HIDE DEF c
  <2>3. UpOK(e) /\ e.pool = <<>> /\ e.row = db.row /\ e.copied = mem.pool
    BY <2>2, ClearUp
  <2> HIDE DEF e
  <2>4. UpOK(r)
    <3>1. IsMem(e) /\ e.row \in Int /\ Len(mem.pool) \in Nat /\ db.row \in Nat
      BY <2>1, <2>3 DEF UpOK, LedgerOK, Pooled
    <3>2. SameFork(e, r) /\ r.pool = mem.pool /\ r.row = e.row - Len(e.pool) + Len(mem.pool)
      BY <2>3, <3>1, RestoreIs
    <3> HIDE DEF r
    <3>3. r.row = db.row + Len(r.pool)
      BY <2>3, <3>1, <3>2
    <3> QED BY <2>1, <2>3, <3>2, <3>3 DEF UpOK, SameFork
  <2> HIDE DEF r
  <2>5. UpOK(mem')
    BY <2>1, <2>4, ForgetUp
  <2> QED BY <1>up, <2>1, <2>5
<1>ver. ASSUME UNCHANGED db, IsMem(mem'), pc' = "verify", mem'.copiedBlock = db.block,
               mem'.copiedRow = db.row, Pooled(mem'.copied)
        PROVE  PointersOK'
  BY <1>ver DEF PointersOK, Pooled
<1>4. ASSUME NEW fork \in 0..mem.block, VerifyBegin(fork) PROVE PointersOK'
  <2>1. UpOK(mem) /\ UNCHANGED db /\ pc' = "verify"
        /\ mem' = RollBackBeforeMinerVerification(mem, fork)
    BY <1>4 DEF VerifyBegin, PointersOK, Disk
  <2>2. IsMem(mem) /\ mem.block = db.block /\ mem.row = db.row + Len(mem.pool)
        /\ Pooled(mem.pool) /\ Len(mem.pool) \in Nat /\ db.row \in Nat
    BY <2>1 DEF UpOK, Pooled, LedgerOK
  <2> DEFINE n == RollBackBeforeMinerVerification(mem, fork)
  <2>3. IsMem(mem') /\ mem'.copied = mem.pool /\ mem'.copiedBlock = mem.block
        /\ mem'.copiedRow = mem.row - Len(mem.pool)
    <3>1. IsMem(mem)
      BY <2>2
    <3>2. Forked(mem, fork, n)
      BY <3>1, ForkIs, Zenon
    <3>3. mem' = n
      BY <2>1
    <3> HIDE DEF n
    <3> QED BY <3>2, <3>3 DEF Forked
  <2>4. mem'.copiedRow = db.row
    BY <2>2, <2>3
  <2> QED BY <1>ver, <2>1, <2>2, <2>3, <2>4
<1>5. ASSUME NEW g \in Grant, VerifyGrant(g) PROVE PointersOK'
  <2>1. /\ IsMem(mem) /\ UNCHANGED db /\ pc' = "verify" /\ mem' = SetPermission(mem, g.key, g.val)
        /\ mem.copiedBlock = db.block /\ mem.copiedRow = db.row /\ Pooled(mem.copied)
    BY <1>5 DEF VerifyGrant, PointersOK, Disk
  <2>2. SameFork(mem, mem') /\ mem'.copied = mem.copied
    BY <2>1, SetPermissionIs
  <2> QED BY <1>ver, <2>1, <2>2 DEF SameFork
<1>6. CASE VerifyBlock
  <2> DEFINE m == [mem EXCEPT !.block = @ + 1]
  <2>1. /\ IsMem(mem) /\ UNCHANGED db /\ pc' = "verify" /\ mem' = UpdateCounts(m)
        /\ mem.copiedBlock = db.block /\ mem.copiedRow = db.row /\ Pooled(mem.copied)
    BY <1>6 DEF VerifyBlock, PointersOK, Disk
  <2>2. IsMem(m) /\ m.copied = mem.copied /\ m.copiedBlock = mem.copiedBlock
        /\ m.copiedRow = mem.copiedRow
    BY <2>1 DEF IsMem, MemFields
  <2> HIDE DEF m
  <2>3. SameFork(m, mem') /\ mem'.copied = mem.copied
    BY <2>1, <2>2, UpdateCountsIs
  <2> QED BY <1>ver, <2>1, <2>2, <2>3 DEF SameFork
<1>7. CASE VerifyEnd
  <2> DEFINE n == RestoreAfterMinerVerification(mem)
  <2>1. /\ IsMem(mem) /\ UNCHANGED db /\ pc' = "up" /\ mem' = Forget(n)
        /\ mem.copiedBlock = db.block /\ mem.copiedRow = db.row /\ Pooled(mem.copied)
    BY <1>7 DEF VerifyEnd, PointersOK, Disk
  <2>2. /\ IsMem(n) /\ n.pool = mem.copied /\ n.row = mem.copiedRow + Len(mem.copied)
        /\ n.block = mem.copiedBlock /\ n.copiedRow = 0
    BY <2>1, UnforkIs
  <2> HIDE DEF n
  <2>3. UpOK(n)
    BY <2>1, <2>2 DEF UpOK
  <2> QED BY <1>up, <2>1, <2>3, ForgetUp
<1>8. ASSUME NEW miner \in Miners, CommitBegin(miner) PROVE PointersOK'
  <2> DEFINE prev == GetPermission(mem, miner).this
             signed == BlockRow(mem, miner, prev)
             done == BlockRow(signed, mem.block + 1, Base(signed) - 1)
  <2>1. /\ UpOK(mem) /\ mem.block < MaxBlock /\ mem' = done /\ pc' = "rows" /\ arg' = 1
        /\ UNCHANGED <<ledger, db>>
    BY <1>8 DEF CommitBegin, PointersOK, Disk
  <2>2. /\ mem.block = db.block /\ db.row \in Nat /\ db.row >= 1 /\ db.row - 1 <= Len(ledger)
        /\ Len(mem.pool) \in Nat /\ db.block \in Int
    BY <2>1, KeysAssumption DEF UpOK, Pooled, LedgerOK
  <2>3. miner \in Named /\ prev \in Nat
    <3>1. miner \in Named
      BY DEF Named
    <3>2. Pooled(mem.pool) /\ mem.copiedRow = 0
      BY <2>1 DEF UpOK
    <3> QED BY <3>1, <3>2, GetUp
  <2>4. UpOK(signed) /\ Len(signed.pool) = Len(mem.pool) + 1 /\ Base(signed) = db.row
    BY <2>1, <2>2, <2>3, BlockRowUp
  <2> HIDE DEF signed, prev
  <2> DEFINE next == mem.block + 1
             low == Base(signed) - 1
  <2>5. next = db.block + 1 /\ next \notin Named
    <3>1. next \in Heights
      BY <2>1, <2>2, KeysAssumption DEF Heights, LedgerOK
    <3> QED BY <2>2, <3>1, KeysAssumption DEF Named
  <2>6. low \in Nat /\ low < db.row
    BY <2>2, <2>4
  <2> HIDE DEF next, low
  <2>7. UpOK(done) /\ Len(done.pool) = Len(signed.pool) + 1 /\ done.pool[Len(done.pool)].key = db.block + 1
    <3> DEFINE last == BlockRow(signed, next, low)
    <3>1. next \in Named \cup {db.block + 1} /\ db.block < MaxBlock
      BY <2>1, <2>2, <2>5
    <3>2. UpOK(last) /\ Len(last.pool) = Len(signed.pool) + 1 /\ last.pool[Len(last.pool)].key = next
      BY ONLY LedgerOK, <2>4, <2>5, <2>6, <3>1, BlockRowUp
    <3>3. done = last
      BY DEF next, low
    <3> HIDE DEF last, done
    <3> QED BY <2>5, <3>2, <3>3
  <2> HIDE DEF done
  <2>8. Len(done.pool) >= 2 /\ 1 \in 1..Len(done.pool)
    BY <2>2, <2>4, <2>7
  <2>9. UpOK(mem)' /\ IsMem(mem')
    BY <2>1, <2>7, UpKept DEF UpOK
  <2>10. Written(arg - 1)'
    BY <2>1, <2>2 DEF Written
  <2> QED BY <2>1, <2>2, <2>7, <2>8, <2>9, <2>10 DEF PointersOK
<1>9. CASE CommitRow
  <2>1. /\ UNCHANGED <<db, mem>> /\ db.row + arg - 1 <= Len(ledger')
        /\ \A i \in 1..arg : ledger'[db.row + i - 1] = mem.pool[i]
    BY <1>9, CommitRowLedger
  <2>2. /\ UpOK(mem) /\ arg \in 1..Len(mem.pool) /\ Len(mem.pool) \in Nat /\ IsMem(mem)
        /\ Len(mem.pool) >= 2 /\ db.block < MaxBlock
        /\ mem.pool[Len(mem.pool)].key = db.block + 1
    BY <1>9 DEF CommitRow, PointersOK, UpOK, Pooled
  <2>3. UpOK(mem)'
    BY <2>1, <2>2, UpKept
  <2>4. CASE arg < Len(mem.pool)
    <3>1. arg' = arg + 1 /\ pc' = "rows"
      BY <1>9, <2>4 DEF CommitRow
    <3>2. arg' \in 1..Len(mem.pool) /\ arg' - 1 = arg
      BY <2>2, <2>4, <3>1
    <3>3. Written(arg - 1)'
      BY <2>1, <3>2 DEF Written
    <3> QED BY <2>1, <2>2, <2>3, <3>1, <3>2, <3>3 DEF PointersOK
  <2>5. CASE ~(arg < Len(mem.pool))
    <3>1. arg = Len(mem.pool) /\ pc' = "head"
      BY <1>9, <2>2, <2>5 DEF CommitRow
    <3>2. Written(Len(mem.pool))'
      BY <2>1, <3>1 DEF Written
    <3> QED BY <2>1, <2>2, <2>3, <3>1, <3>2 DEF PointersOK
  <2> QED BY <2>4, <2>5
<1>10. CASE CommitHead
  BY <1>10 DEF CommitHead, PointersOK, UpOK, Pooled, Written
<1>11. CASE CommitDb
  <2>1. /\ \A i \in 1..Len(mem.pool) : mem.pool[i].key \in Named =>
             mem.pool[i].prev < db'.at[mem.pool[i].key]
        /\ db'.block = db.block + 1 /\ db'.row = db.row + Len(mem.pool)
        /\ UNCHANGED <<ledger, mem>> /\ pc' = "counts"
    BY <1>11, CommitLedger DEF CommitDb
  <2>2. /\ IsMem(mem) /\ mem.block = db.block /\ mem.row = db.row + Len(mem.pool)
        /\ mem.copiedRow = 0 /\ mem.pool \in Seq(Row) /\ Len(mem.pool) >= 2
        /\ Len(mem.pool) \in Nat /\ db.row \in Nat /\ db.row >= 1
    BY <1>11 DEF CommitDb, PointersOK, UpOK, Pooled, LedgerOK
  <2>3. db'.row >= 3
    BY <2>1, <2>2
  <2> QED BY <2>1, <2>2, <2>3 DEF PointersOK
<1>rb. ASSUME UpOK(mem), UNCHANGED db, mem' = ClearMemPoolInternal(mem), pc' = "rbdb",
              arg' \in -1..db.block
       PROVE  PointersOK'
  <2>1. UpOK(mem') /\ mem'.pool = <<>>
    BY <1>rb, ClearUp
  <2>2. UpOK(mem)' /\ IsMem(mem')
    BY <1>rb, <2>1, UpKept DEF UpOK
  <2> QED BY <1>rb, <2>1, <2>2 DEF PointersOK
<1>12. CASE CommitDbFails
  <2>1. UpOK(mem) /\ UNCHANGED db /\ mem' = ClearMemPoolInternal(mem) /\ pc' = "rbdb"
        /\ arg' = mem.block
    BY <1>12 DEF CommitDbFails, PointersOK, Disk
  <2>2. arg' \in -1..db.block
    BY <2>1 DEF UpOK, LedgerOK
  <2> QED BY <1>rb, <2>1, <2>2
<1>13. CASE CommitCounts
  <2> DEFINE m == UpdateCounts(mem)
  <2>1. /\ IsMem(mem) /\ mem.block + 1 = db.block /\ mem.row = db.row /\ mem.copiedRow = 0
        /\ UNCHANGED db /\ pc' = "up"
        /\ mem' = [m EXCEPT !.pool = <<>>, !.block = @ + 1, !.cleared = m.count]
    BY <1>13 DEF CommitCounts, PointersOK
  <2>2. SameFork(mem, m) /\ m.row = mem.row
    BY <2>1, UpdateCountsIs
  <2> HIDE DEF m
  <2>3. IsMem(mem') /\ mem'.pool = <<>> /\ mem'.block = m.block + 1 /\ mem'.row = m.row
        /\ mem'.copiedRow = m.copiedRow
    BY <2>1, <2>2 DEF SameFork, IsMem, MemFields
  <2>4. UpOK(mem')
    BY <2>1, <2>2, <2>3, UpEmpty DEF SameFork
  <2> QED BY <1>up, <2>1, <2>4
<1>14. ASSUME NEW block \in -1..mem.block, RollBackBegin(block) PROVE PointersOK'
  <2>1. UpOK(mem) /\ UNCHANGED db /\ mem' = ClearMemPoolInternal(mem) /\ pc' = "rbdb"
        /\ arg' = block
    BY <1>14 DEF RollBackBegin, PointersOK, Disk
  <2>2. arg' \in -1..db.block
    BY <2>1 DEF UpOK
  <2> QED BY <1>rb, <2>1, <2>2
<1>15. CASE RollBackDb
  <2>1. db'.block = arg /\ db'.row = CutRow(mem.row - 1, arg) /\ UNCHANGED <<ledger, mem, arg>>
        /\ pc' = "rbhead"
    BY <1>15, RollBackLedger DEF RollBackDb
  <2>2. /\ IsMem(mem) /\ mem.row = db.row + Len(mem.pool) /\ mem.copiedRow = 0
        /\ mem.pool = <<>> /\ db.row \in Nat /\ db.row >= 1 /\ db.row - 1 <= Len(ledger)
        /\ Len(ledger) \in Nat
    BY <1>15 DEF RollBackDb, PointersOK, UpOK, LedgerOK
  <2>3. mem.row - 1 \in 0..Len(ledger)
    BY <2>2
  <2>4. CutRow(mem.row - 1, arg)' = CutRow(mem.row - 1, arg)
    BY <2>1 DEF CutRow
  <2> QED BY <2>1, <2>2, <2>3, <2>4 DEF PointersOK
<1>16. CASE RollBackDbFails
  <2>1. UpOK(mem) /\ UNCHANGED <<db, mem>> /\ pc' = "up"
    BY <1>16 DEF RollBackDbFails, PointersOK, Disk
  <2> QED BY <1>up, <2>1
<1>17. CASE RollBackHead
  <2> DEFINE z == [mem EXCEPT !.block = arg, !.row = CutRow(mem.row - 1, arg)]
             m == UpdateCounts(z)
  <2>1. /\ IsMem(mem) /\ arg = db.block /\ db.row = CutRow(mem.row - 1, arg)
        /\ mem.copiedRow = 0 /\ mem.pool = <<>> /\ UNCHANGED db /\ pc' = "up"
        /\ mem' = [m EXCEPT !.cleared = m.count]
    BY <1>17 DEF RollBackHead, PointersOK
  <2>2. IsMem(z) /\ z.pool = <<>> /\ z.block = db.block /\ z.row = db.row /\ z.copiedRow = 0
    BY <2>1 DEF IsMem, MemFields
  <2> HIDE DEF z
  <2>3. SameFork(z, m) /\ m.row = db.row /\ m.pool = <<>>
    BY <2>2, UpdateCountsIs
  <2> HIDE DEF m
  <2>4. IsMem(mem') /\ mem'.pool = <<>> /\ mem'.block = m.block /\ mem'.row = m.row
        /\ mem'.copiedRow = m.copiedRow
    BY <2>1, <2>3 DEF SameFork, IsMem, MemFields
  <2>5. UpOK(mem')
    BY <2>2, <2>3, <2>4, UpEmpty DEF SameFork
  <2> QED BY <1>up, <2>1, <2>5
<1>18. CASE Crash
  <2>1. IsMem(mem') /\ pc' = "down"
    BY <1>18 DEF Crash, IsMem, MemFields, ZeroMem
  <2> QED BY <2>1 DEF PointersOK
<1>19. CASE Repair
  <2>1. IsMem(mem) /\ mem' = mem /\ pc' = pc /\ pc \in {"down", "corrupted"}
    BY <1>19 DEF Repair, Down, PointersOK
  <2> QED BY <2>1 DEF PointersOK
<1>20. CASE Open
  <2> DEFINE z == [ZeroMem EXCEPT !.block = db.block, !.row = db.row]
             m == UpdateCounts(z)
  <2>1. /\ IsMem(mem) /\ UNCHANGED db
        /\ \/ pc' = "up" /\ mem' = [m EXCEPT !.cleared = m.count]
           \/ pc' = "corrupted" /\ mem' = mem
    BY <1>20 DEF Open, PointersOK
  <2>2. IsMem(z) /\ z.pool = <<>> /\ z.block = db.block /\ z.row = db.row /\ z.copiedRow = 0
    BY DEF IsMem, MemFields, ZeroMem
  <2> HIDE DEF z
  <2>3. SameFork(z, m) /\ m.row = db.row /\ m.pool = <<>>
    BY <2>2, UpdateCountsIs
  <2> HIDE DEF m
  <2>4. CASE pc' = "up" /\ mem' = [m EXCEPT !.cleared = m.count]
    <3>1. IsMem(mem') /\ mem'.pool = <<>> /\ mem'.block = m.block /\ mem'.row = m.row
          /\ mem'.copiedRow = m.copiedRow
      BY <2>3, <2>4 DEF SameFork, IsMem, MemFields
    <3>2. UpOK(mem')
      BY <2>2, <2>3, <3>1, UpEmpty DEF SameFork
    <3> QED BY <1>up, <2>1, <2>4, <3>2
  <2>5. CASE pc' = "corrupted" /\ mem' = mem
    BY <2>1, <2>5 DEF PointersOK
  <2> QED BY <2>1, <2>4, <2>5
<1>21. CASE UNCHANGED vars
  BY <1>21 DEF vars, PointersOK, UpOK, Pooled, Written, CutRow
<1> QED
  BY <1>1, <1>2, <1>3, <1>4, <1>5, <1>6, <1>7, <1>8, <1>9, <1>10, <1>11, <1>12, <1>13, <1>14,
     <1>15, <1>16, <1>17, <1>18, <1>19, <1>20, <1>21 DEF Next

LEMMA IndexInit == Init => LedgerOK /\ PointersOK
<1> SUFFICES ASSUME Init PROVE LedgerOK /\ PointersOK
  OBVIOUS
<1> USE DEF Init
<1>1. db.row = 1 /\ db.block = -1 /\ Len(ledger) = 0 /\ db.at = [k \in Keys |-> 0]
      /\ db.val = [k \in Keys |-> FALSE] /\ db.row - 1 = 0
  OBVIOUS
<1>2. Filed(ledger, 0, -1)
  BY DEF Filed
<1>3. ASSUME NEW k \in Keys PROVE LastIn(ledger, k, 0) = 0
  BY LastIs
<1>4. ledger \in Seq(Row)
  OBVIOUS
<1>5. db \in [block : -1..MaxBlock, row : Nat, at : [Keys -> Nat], val : [Keys -> BOOLEAN]]
  BY KeysAssumption
<1>6. ASSUME NEW k \in Keys \ ((db.block + 1)..MaxBlock)
      PROVE  /\ db.at[k] = LastIn(ledger, k, db.row - 1)
             /\ db.val[k] = (db.at[k] > 0 /\ ledger[db.at[k]].val)
  <2>1. db.at[k] = 0 /\ db.val[k] = FALSE /\ LastIn(ledger, k, db.row - 1) = 0
    BY <1>1, <1>3
  <2>2. ~(0 > 0)
    OBVIOUS
  <2> QED BY ONLY <2>1, <2>2, Zenon
<1>7. LedgerOK
  <2>1. Filed(ledger, db.row - 1, db.block)
    BY <1>1, <1>2
  <2>2. db.row >= 1 /\ db.row - 1 <= Len(ledger)
    BY <1>1
  <2> QED BY ONLY <1>4, <1>5, <1>6, <2>1, <2>2, Zenon DEF LedgerOK
<1>8. IsMem(mem) /\ mem.pool = <<>> /\ mem.block = db.block /\ mem.row = db.row
      /\ mem.copiedRow = 0 /\ pc = "up"
  BY DEF IsMem, MemFields, ZeroMem
<1>9. UpOK(mem)
  BY <1>7, <1>8, UpEmpty
<1> QED
  BY <1>7, <1>8, <1>9 DEF PointersOK

(* The invariant of the store.                                             *)
LEMMA IndexInvariant == Spec => [](LedgerOK /\ PointersOK)
<1>1. (LedgerOK /\ PointersOK) /\ [Next]_vars => (LedgerOK /\ PointersOK)'
  BY StepLedger, StepPointers
<1> QED
  BY IndexInit, <1>1, PTL DEF Spec

(* The ledger's order makes the database a true index of it.               *)
LEMMA IndexFromLedger ==
  ASSUME LedgerOK
  PROVE  IndexTrue
<1> SUFFICES ASSUME NEW k \in Keys \ ((db.block + 1)..MaxBlock)
             PROVE  db.at[k] = RowAt(k, db.block) /\ db.val[k] = ValAt(k, db.block)
  BY DEF IndexTrue
<1>1. \A r \in 1..(db.row - 1) : ledger[r].block <= db.block
  BY DEF LedgerOK, Filed
<1>2. {r \in 1..(db.row - 1) : ledger[r].key = k /\ ledger[r].block <= db.block}
       = {r \in 1..(db.row - 1) : ledger[r].key = k}
  BY <1>1
<1>3. RowAt(k, db.block) = LastIn(ledger, k, db.row - 1)
  BY <1>2 DEF RowAt, LastIn
<1> QED
  BY <1>3 DEF LedgerOK, ValAt

(* The database never disagrees with the ledger. In every state, those     *)
(* between the writes of Commit and of RollBackInternal and those after a  *)
(* crash included, a key's database row is the last row that the ledger    *)
(* has for the key up to the database's block, and has that row's value:   *)
(* the walk along m_PrevRow that RollBackInternal makes always ends at the *)
(* row a scan of the ledger would find.                                    *)
THEOREM IndexTrueHolds == Spec => []IndexTrue
  BY IndexInvariant, IndexFromLedger, PTL

(* Row 0 of the ledger says the block of the batch before it is written.   *)
HeadOK == /\ head.block \in Int /\ DbNeverAhead
          /\ pc = "db" => head.block = db.block + 1

LEMMA StepHeadBlock ==
  ASSUME LedgerOK, PointersOK, HeadOK, [Next]_vars
  PROVE  HeadOK'
<1>1. db.block \in Int /\ head.block \in Int /\ db.block <= head.block
  BY DEF LedgerOK, HeadOK, DbNeverAhead
<1>2. CASE CommitHead
  <2>1. UNCHANGED db /\ head' = [block |-> mem.block + 1, row |-> mem.row] /\ mem.block = db.block
    BY <1>2 DEF CommitHead, PointersOK, UpOK
  <2>2. head'.block = db.block + 1
    BY <2>1
  <2> QED BY <1>1, <2>1, <2>2 DEF HeadOK, DbNeverAhead
<1>3. CASE CommitDb
  <2>1. db'.block = db.block + 1
    BY <1>3, CommitLedger
  <2>2. UNCHANGED head /\ pc' = "counts" /\ head.block = db.block + 1
    BY <1>3 DEF CommitDb, HeadOK
  <2> QED BY <1>1, <2>1, <2>2 DEF HeadOK, DbNeverAhead
<1>4. CASE RollBackDb
  <2>1. db'.block = arg
    BY <1>4, RollBackLedger
  <2>2. UNCHANGED head /\ pc' = "rbhead" /\ arg \in -1..db.block
    BY <1>4 DEF RollBackDb, PointersOK
  <2> QED BY <1>1, <2>1, <2>2 DEF HeadOK, DbNeverAhead
<1>5. CASE RollBackHead \/ Repair
  <2>1. UNCHANGED db /\ head'.block = db.block /\ pc' # "db"
    BY <1>5 DEF RollBackHead, Repair, Down, PointersOK
  <2> QED BY <1>1, <2>1 DEF HeadOK, DbNeverAhead
<1>6. CASE UNCHANGED <<head, db>> /\ (pc' = "db" => pc = "db")
  BY <1>6 DEF HeadOK, DbNeverAhead
<1> QED
  BY <1>2, <1>3, <1>4, <1>5, <1>6
  DEF Next, vars, Disk, AcceptTx, ClearMemPool, CheckBlockPermissions, VerifyBegin, VerifyGrant,
      VerifyBlock, VerifyEnd, CommitBegin, CommitRow, CommitDbFails, CommitCounts,
      RollBackBegin, RollBackDbFails, Crash, Open

(* The database is never ahead of the ledger, whatever a crash, a failed   *)
(* batch or an unfinished verification interrupts: Initialize has a repair *)
(* for a ledger that is ahead and none for a database that is              *)
(* (permission.cpp:468), and the second case does not arise.               *)
THEOREM DatabaseNeverAhead == Spec => []DbNeverAhead
<1>1. Init => HeadOK
  BY DEF Init, HeadOK, DbNeverAhead
<1>2. LedgerOK /\ PointersOK /\ HeadOK /\ [Next]_vars => HeadOK'
  BY StepHeadBlock
<1>3. HeadOK => DbNeverAhead
  BY DEF HeadOK
<1> QED
  BY <1>1, <1>2, <1>3, IndexInvariant, PTL DEF Spec

-----------------------------------------------------------------------------
(* The cached count.                                                       *)

(* What a pool on top of the database says of a key, and the keys that it  *)
(* says are granted.                                                       *)
Value(pool, k) == LET last == LastIn(pool, k, Len(pool))
                  IN IF last = 0 THEN db.val[k] ELSE pool[last].val
Held(pool) == {k \in Grants : Value(pool, k)}

(* The count kept in memory is the number of the keys granted, and the one *)
(* kept for an empty pool that of the keys granted in the database.        *)
CountOK(m) == /\ m.count = Cardinality(Held(m.pool))
              /\ m.pool # <<>> => m.cleared = Cardinality(Held(<<>>))
CpCountOK(m) == m.cpCount = Cardinality(Held(SubSeq(m.pool, 1, m.cpSize)))

(* So is the one that is kept aside during a verification.                 *)
CountsOK ==
  /\ pc \in {"up", "rbdb"} => CountOK(mem)
  /\ pc = "verify" =>
       /\ mem.copiedCount = Cardinality(Held(mem.copied))
       /\ mem.copied # <<>> => mem.cleared = Cardinality(Held(<<>>))

(* GetPermission answers what the pool and the database say.               *)
LEMMA HeldIs ==
  ASSUME LedgerOK, NEW m, Pooled(m.pool), m.copiedRow = 0
  PROVE  /\ \A k \in Named : GetPermission(m, k).val = Value(m.pool, k)
                             /\ Value(m.pool, k) \in BOOLEAN
         /\ {k \in Grants : GetPermission(m, k).val} = Held(m.pool)
<1>1. ASSUME NEW k \in Named
      PROVE  GetPermission(m, k).val = Value(m.pool, k) /\ Value(m.pool, k) \in BOOLEAN
  BY GetUp DEF Value
<1>2. Grants \subseteq Named
  BY DEF Named
<1> QED
  BY <1>1, <1>2 DEF Held

(* The database alone.                                                     *)
LEMMA HeldEmpty == Held(<<>>) = {k \in Grants : db.val[k]}
<1>1. ASSUME NEW k PROVE Value(<<>>, k) = db.val[k]
  <2>1. Len(<<>>) = 0
    OBVIOUS
  <2>2. LastIn(<<>>, k, 0) = 0
    BY LastIs
  <2> QED BY <2>1, <2>2 DEF Value
<1> QED
  BY <1>1, Zenon DEF Held

(* The same on top of any values v.                                        *)
Over(v, pool, k) == LET last == LastIn(pool, k, Len(pool))
                    IN IF last = 0 THEN v[k] ELSE pool[last].val
HeldOver(v, pool) == {k \in Grants : Over(v, pool, k)}

(* A row more: the number of keys granted moves as the count does.         *)
LEMMA OverAppend ==
  ASSUME NEW v, NEW pool \in Seq(Row), NEW row \in Row,
         row.key \in Grants => Over(v, pool, row.key) \in BOOLEAN
  PROVE  Cardinality(HeldOver(v, Append(pool, row)))
           = Cardinality(HeldOver(v, pool)) + Delta(row.key, Over(v, pool, row.key), row.val)
<1> DEFINE p == Append(pool, row)
           n == Len(pool)
<1>1. n \in Nat /\ Len(p) = n + 1 /\ p[n + 1] = row /\ \A i \in 1..n : p[i] = pool[i]
  OBVIOUS
<1>2. ASSUME NEW k PROVE Over(v, p, k) = IF k = row.key THEN row.val ELSE Over(v, pool, k)
  <2> HIDE DEF p, n
  <2>1. LastIn(p, k, n) = LastIn(pool, k, n)
    <3>1. \A i \in 1..n : p[i].key = pool[i].key
      BY <1>1
    <3> QED BY <1>1, <3>1, LastSame
  <2>2. LastIn(p, k, n + 1) = IF p[n + 1].key = k THEN n + 1 ELSE LastIn(p, k, n)
    BY <1>1, LastNext
  <2>3. LastIn(pool, k, n) \in 0..n
    BY <1>1, LastIs
  <2>4. Over(v, pool, k) = IF LastIn(pool, k, n) = 0 THEN v[k] ELSE pool[LastIn(pool, k, n)].val
    BY DEF Over, n
  <2>5. Over(v, p, k) = IF LastIn(p, k, n + 1) = 0 THEN v[k] ELSE p[LastIn(p, k, n + 1)].val
    BY <1>1 DEF Over
  <2>6. CASE k = row.key
    BY <1>1, <2>2, <2>5, <2>6
  <2>7. CASE k # row.key
    <3>1. LastIn(p, k, n + 1) = LastIn(pool, k, n)
      BY <1>1, <2>1, <2>2, <2>7
    <3>2. CASE LastIn(pool, k, n) = 0
      BY <2>4, <2>5, <2>7, <3>1, <3>2
    <3>3. CASE LastIn(pool, k, n) # 0
      <4>1. LastIn(pool, k, n) \in 1..n
        BY <1>1, <2>3, <3>3
      <4> QED BY <1>1, <2>4, <2>5, <2>7, <3>1, <3>3, <4>1
    <3> QED BY <3>2, <3>3
  <2> QED BY <2>6, <2>7
<1> HIDE DEF p, n
<1>3. row.val \in BOOLEAN
  BY DEF Row
<1>4. /\ HeldOver(v, p) \in SUBSET Grants /\ HeldOver(v, pool) \in SUBSET Grants
      /\ IsFiniteSet(HeldOver(v, pool)) /\ Cardinality(HeldOver(v, pool)) \in Nat
  BY CountIs DEF HeldOver
<1>5. CASE row.key \notin Grants
  <2>1. HeldOver(v, p) = HeldOver(v, pool)
    BY <1>2, <1>5, Zenon DEF HeldOver
  <2>2. Delta(row.key, Over(v, pool, row.key), row.val) = 0
    BY <1>5 DEF Delta
  <2> QED BY <1>4, <2>1, <2>2 DEF p
<1>6. CASE row.key \in Grants /\ Over(v, pool, row.key) = row.val
  <2>1. HeldOver(v, p) = HeldOver(v, pool)
    BY <1>2, <1>6, Zenon DEF HeldOver
  <2>2. Delta(row.key, Over(v, pool, row.key), row.val) = 0
    BY <1>6 DEF Delta
  <2> QED BY <1>4, <2>1, <2>2 DEF p
<1>7. CASE row.key \in Grants /\ Over(v, pool, row.key) = TRUE /\ row.val = FALSE
  <2>1. row.key \in HeldOver(v, pool) /\ HeldOver(v, p) = HeldOver(v, pool) \ {row.key}
    BY <1>2, <1>7, Zenon DEF HeldOver
  <2>2. Delta(row.key, Over(v, pool, row.key), row.val) = -1
    BY <1>7 DEF Delta
  <2>3. Cardinality(HeldOver(v, pool) \ {row.key}) = Cardinality(HeldOver(v, pool)) - 1
    BY <1>4, <2>1, FS_RemoveElement
  <2> QED BY <1>4, <2>1, <2>2, <2>3 DEF p
<1>8. CASE row.key \in Grants /\ Over(v, pool, row.key) = FALSE /\ row.val = TRUE
  <2>1. row.key \notin HeldOver(v, pool) /\ HeldOver(v, p) = HeldOver(v, pool) \cup {row.key}
    BY <1>2, <1>8, Zenon DEF HeldOver
  <2>2. Delta(row.key, Over(v, pool, row.key), row.val) = 1
    BY <1>8 DEF Delta
  <2>3. Cardinality(HeldOver(v, pool) \cup {row.key}) = Cardinality(HeldOver(v, pool)) + 1
    BY <1>4, <2>1, FS_AddElement
  <2> QED BY <1>4, <2>1, <2>2, <2>3 DEF p
<1> QED
  BY <1>3, <1>5, <1>6, <1>7, <1>8

LEMMA HeldAppend ==
  ASSUME NEW pool \in Seq(Row), NEW row \in Row,
         row.key \in Grants => Value(pool, row.key) \in BOOLEAN
  PROVE  Cardinality(Held(Append(pool, row)))
           = Cardinality(Held(pool)) + Delta(row.key, Value(pool, row.key), row.val)
<1>1. ASSUME NEW p, NEW k PROVE Over(db.val, p, k) = Value(p, k)
  BY DEF Over, Value
<1>2. ASSUME NEW p PROVE HeldOver(db.val, p) = Held(p)
  BY <1>1, Zenon DEF HeldOver, Held
<1> DEFINE v == db.val
<1>3. row.key \in Grants => Over(v, pool, row.key) \in BOOLEAN
  BY <1>1
<1> HIDE DEF v
<1>4. Cardinality(HeldOver(v, Append(pool, row)))
        = Cardinality(HeldOver(v, pool)) + Delta(row.key, Over(v, pool, row.key), row.val)
  BY <1>3, OverAppend
<1>5. /\ HeldOver(v, Append(pool, row)) = Held(Append(pool, row))
      /\ HeldOver(v, pool) = Held(pool)
  BY <1>2 DEF v
<1>6. Over(v, pool, row.key) = Value(pool, row.key)
  BY <1>1 DEF v
<1>7. Delta(row.key, Over(v, pool, row.key), row.val) = Delta(row.key, Value(pool, row.key), row.val)
  BY <1>6, Zenon
<1> QED
  BY ONLY <1>4, <1>5, <1>7

(* The count is right when the pool and the counts are those of a memory   *)
(* whose count is.                                                         *)
LEMMA CountSame ==
  ASSUME NEW m, NEW n, CountOK(m), n.pool = m.pool, n.count = m.count, n.cleared = m.cleared
  PROVE  CountOK(n)
BY DEF CountOK

LEMMA CountEmpty ==
  ASSUME NEW m, m.pool = <<>>, m.count = Cardinality(Held(<<>>))
  PROVE  CountOK(m)
BY DEF CountOK

(* SetPermissionInternal moves the count with the answer.                  *)
LEMMA SetPermissionCount ==
  ASSUME LedgerOK, NEW m, UpOK(m), CountOK(m), NEW k \in Named, NEW v \in BOOLEAN
  PROVE  CountOK(SetPermission(m, k, v))
<1> DEFINE n == SetPermission(m, k, v)
           row == NewRow(m, k, v)
<1>1. IsMem(m) /\ m.copiedRow = 0 /\ Pooled(m.pool) /\ m.pool \in Seq(Row)
  BY DEF UpOK, Pooled
<1>2. n.pool = Append(m.pool, row) /\ row \in Row /\ row.key = k /\ row.val = v
  BY SetPermissionUp
<1>3. /\ n.count = m.count + Delta(k, GetPermission(m, k).val, v)
      /\ n.cleared = IF m.pool = <<>> /\ m.copiedRow = 0 THEN m.count ELSE m.cleared
  BY <1>1, SetPermissionIs
<1> HIDE DEF n, row
<1>4. GetPermission(m, k).val = Value(m.pool, k) /\ Value(m.pool, k) \in BOOLEAN
  BY <1>1, HeldIs
<1>5. Cardinality(Held(n.pool)) = Cardinality(Held(m.pool)) + Delta(k, Value(m.pool, k), v)
  BY <1>1, <1>2, <1>4, HeldAppend
<1>6. n.cleared = Cardinality(Held(<<>>))
  BY <1>1, <1>3 DEF CountOK
<1>7. CountOK(n)
  BY <1>3, <1>4, <1>5, <1>6 DEF CountOK
<1> QED
  BY <1>7 DEF n

(* The checkpoint keeps the count.                                        *)
LEMMA CheckPointCount ==
  ASSUME NEW m, UpOK(m), CountOK(m)
  PROVE  CountOK(SetCheckPoint(m)) /\ CpCountOK(SetCheckPoint(m))
<1> DEFINE n == SetCheckPoint(m)
<1>1. IsMem(m) /\ m.pool \in Seq(Row)
  BY DEF UpOK, Pooled
<1>2. /\ n.pool = m.pool /\ n.cleared = m.cleared /\ n.count = m.count
      /\ n.cpSize = Len(m.pool) /\ n.cpCount = m.count
  BY <1>1, CheckPointIs
<1> HIDE DEF n
<1>3. SubSeq(n.pool, 1, n.cpSize) = n.pool
  BY <1>1, <1>2
<1>4. CpCountOK(n)
  BY <1>2, <1>3 DEF CpCountOK, CountOK
<1>5. CountOK(n)
  BY <1>2, CountSame
<1> QED
  BY <1>4, <1>5 DEF n

LEMMA SetPermissionCpCount ==
  ASSUME LedgerOK, NEW m, UpOK(m), CpOK(m), CpCountOK(m), NEW k \in Named, NEW v \in BOOLEAN
  PROVE  CpCountOK(SetPermission(m, k, v))
<1> DEFINE n == SetPermission(m, k, v)
           row == NewRow(m, k, v)
<1>1. IsMem(m) /\ m.pool \in Seq(Row) /\ m.cpSize \in 0..Len(m.pool) /\ Len(m.pool) \in Nat
  BY DEF UpOK, Pooled, CpOK
<1>2. n.pool = Append(m.pool, row) /\ row \in Row
  BY SetPermissionUp
<1>3. n.cpSize = m.cpSize /\ n.cpCount = m.cpCount
  BY <1>1, SetPermissionIs
<1> HIDE DEF n, row
<1>4. SubSeq(n.pool, 1, n.cpSize) = SubSeq(m.pool, 1, m.cpSize)
  BY <1>1, <1>2, <1>3
<1>5. CpCountOK(n)
  BY <1>3, <1>4 DEF CpCountOK
<1> QED
  BY <1>5 DEF n

LEMMA RollBackToCount ==
  ASSUME LedgerOK, NEW m, UpOK(m), CpOK(m), CpCountOK(m), CountOK(m)
  PROVE  CountOK(RollBackToCheckPoint(m))
<1> DEFINE n == RollBackToCheckPoint(m)
<1>1. IsMem(m) /\ m.pool \in Seq(Row) /\ m.cpSize \in 0..Len(m.pool) /\ Len(m.pool) \in Nat
  BY DEF UpOK, Pooled, CpOK
<1>2. n.pool = SubSeq(m.pool, 1, m.cpSize) /\ n.count = m.cpCount /\ n.cleared = m.cleared
  BY <1>1, RollBackToIs
<1> HIDE DEF n
<1>3. n.pool # <<>> => m.pool # <<>>
  BY <1>1, <1>2
<1>4. CountOK(n)
  BY <1>2, <1>3 DEF CountOK, CpCountOK
<1> QED
  BY <1>4 DEF n

(* A transaction's rows, under their checkpoint.                           *)
LEMMA TxRowsCount ==
  ASSUME LedgerOK, UpOK(mem), CountOK(mem),
         NEW gs \in {<<>>} \cup {<<g>> : g \in Grant},
         NEW issue \in {<<>>} \cup {<<a>> : a \in Assets}
  PROVE  CountOK(TxRows(gs, issue)) /\ CpCountOK(TxRows(gs, issue))
<1> DEFINE Fit(m) == UpOK(m) /\ CpOK(m) /\ CountOK(m) /\ CpCountOK(m)
           begun == SetCheckPoint(mem)
           granted == IF gs = <<>> THEN begun ELSE SetPermission(begun, gs[1].key, gs[1].val)
           cp == SetCheckPoint(granted)
<1>a. ASSUME NEW m, Fit(m), NEW k \in Named, NEW v \in BOOLEAN
      PROVE  Fit(SetPermission(m, k, v))
  BY <1>a, SetPermissionCp, SetPermissionCount, SetPermissionCpCount
<1>1. Fit(begun)
  BY CheckPointUp, CheckPointCount
<1> HIDE DEF begun
<1>2. Fit(granted)
  <2>1. CASE gs = <<>>
    BY <1>1, <2>1
  <2>2. CASE gs # <<>>
    <3>1. gs[1].key \in Named /\ gs[1].val \in BOOLEAN
      BY <2>2 DEF Grant, Named
    <3> HIDE DEF Fit
    <3> QED BY <1>1, <1>a, <2>2, <3>1
  <2> QED BY <2>1, <2>2
<1>3. TxRows(gs, issue) = IF issue = <<>> THEN granted ELSE SetPermission(cp, issue[1], TRUE)
  BY DEF TxRows, begun
<1> HIDE DEF granted
<1>4. Fit(cp)
  BY <1>2, CheckPointUp, CheckPointCount
<1> HIDE DEF cp
<1>5. CASE issue = <<>>
  BY <1>2, <1>3, <1>5
<1>6. CASE issue # <<>>
  <2>1. issue[1] \in Named
    BY <1>6 DEF Named
  <2>2. Fit(SetPermission(cp, issue[1], TRUE))
    BY <1>4, <1>a, <2>1
  <2> QED BY <1>3, <1>6, <2>2
<1> QED
  BY <1>5, <1>6

(* ClearMemPoolInternal counts again.                                      *)
LEMMA ClearCount ==
  ASSUME LedgerOK, NEW m, UpOK(m), m.pool = <<>> => CountOK(m)
  PROVE  LET n == ClearMemPoolInternal(m)
         IN CountOK(n) /\ n.count = Cardinality(Held(<<>>)) /\ n.cleared = n.count
<1> DEFINE n == ClearMemPoolInternal(m)
<1>1. IsMem(m) /\ m.row \in Int /\ m.copiedRow = 0
  BY DEF UpOK, Pooled, LedgerOK
<1>2. /\ n.pool = <<>> /\ n.cleared = n.count
      /\ m.pool = <<>> => n.count = m.count
      /\ m.pool # <<>> => n.count = Cardinality({k \in Grants : DbRead(m, k).val})
  BY <1>1, ClearIs
<1>3. {k \in Grants : DbRead(m, k).val} = Held(<<>>)
  BY <1>1, HeldEmpty DEF DbRead
<1> HIDE DEF n
<1>4. n.count = Cardinality(Held(<<>>))
  BY <1>2, <1>3 DEF CountOK
<1>5. CountOK(n)
  BY <1>2, <1>4, CountEmpty
<1> QED
  BY <1>2, <1>4, <1>5 DEF n

(* Between the batch and the end of Commit the pool's rows are in the      *)
(* database too: none is found on top of it.                               *)
LEMMA GetCommitted ==
  ASSUME LedgerOK, NEW m, m.copiedRow = 0, m.pool \in Seq(Row),
         \A i \in 1..Len(m.pool) : m.pool[i].key \in Named =>
           m.pool[i].prev < db.at[m.pool[i].key],
         NEW k \in Named
  PROVE  GetPermission(m, k).val = db.val[k]
<1>1. db.at[k] \in Nat
  BY NamedKeys
<1>2. DbRead(m, k) = [this |-> db.at[k], val |-> db.val[k]]
  BY DEF DbRead
<1>3. ASSUME NEW i \in DOMAIN m.pool, m.pool[i].key = k PROVE m.pool[i].prev # db.at[k]
  <2>1. i \in 1..Len(m.pool) /\ m.pool[i] \in Row
    OBVIOUS
  <2>2. m.pool[i].prev \in Nat
    BY <2>1 DEF Row
  <2> QED BY <1>1, <1>3, <2>1, <2>2
<1>4. Seek(m.pool, k, DbRead(m, k).this) = {}
  BY <1>2, <1>3 DEF Seek
<1> QED
  BY <1>2, <1>4 DEF GetPermission

LEMMA GetFresh ==
  ASSUME NEW m, m.pool = <<>>, m.copiedRow = 0, NEW k
  PROVE  GetPermission(m, k).val = db.val[k]
<1>1. GetPermission(m, k) = [this |-> DbRead(m, k).this, val |-> DbRead(m, k).val]
  BY GetEmpty
<1>2. DbRead(m, k) = [this |-> db.at[k], val |-> db.val[k]]
  BY DEF DbRead
<1> QED
  BY ONLY <1>1, <1>2

LEMMA CountCommitted ==
  ASSUME LedgerOK, NEW m, m.copiedRow = 0, m.pool \in Seq(Row),
         \A i \in 1..Len(m.pool) : m.pool[i].key \in Named =>
           m.pool[i].prev < db.at[m.pool[i].key]
  PROVE  {k \in Grants : GetPermission(m, k).val} = Held(<<>>)
<1>1. ASSUME NEW k \in Grants PROVE GetPermission(m, k).val = db.val[k]
  <2>1. k \in Named
    BY DEF Named
  <2> QED BY <2>1, GetCommitted
<1> QED
  BY <1>1, HeldEmpty, Zenon

(* A count taken with an empty pool.                                       *)
LEMMA CountFresh ==
  ASSUME NEW z, IsMem(z), z.pool = <<>>, z.copiedRow = 0
  PROVE  UpdateCounts(z).pool = <<>> /\ UpdateCounts(z).count = Cardinality(Held(<<>>))
<1>1. {k \in Grants : GetPermission(z, k).val} = Held(<<>>)
  BY GetFresh, HeldEmpty
<1> DEFINE n == UpdateCounts(z)
<1>2. n.pool = z.pool /\ n.count = Cardinality({k \in Grants : GetPermission(z, k).val})
  BY UpdateCountsIs
<1> QED
  BY <1>1, <1>2

(* The counts through every step.                                          *)
LEMMA StepCounts ==
  ASSUME LedgerOK, PointersOK, CountsOK, [Next]_vars
  PROVE  CountsOK'
<1>0. LedgerOK' /\ PointersOK'
  BY StepLedger, StepPointers
<1>db. ASSUME UNCHANGED db, NEW pool PROVE Held(pool)' = Held(pool)
  BY <1>db DEF Held, Value
<1>up. ASSUME UNCHANGED db, CountOK(mem'), pc' \in {"up", "rbdb"} PROVE CountsOK'
  <2>1. Held(mem.pool)' = Held(mem'.pool) /\ Held(<<>>)' = Held(<<>>)
    BY <1>up DEF Held, Value
  <2>2. mem'.count = Cardinality(Held(mem'.pool))
        /\ (mem'.pool # <<>> => mem'.cleared = Cardinality(Held(<<>>)))
    BY <1>up DEF CountOK
  <2>3. CountOK(mem)'
    BY <2>1, <2>2 DEF CountOK
  <2> QED BY <1>up, <2>3 DEF CountsOK
<1>1. ASSUME NEW gs \in {<<>>} \cup {<<g>> : g \in Grant},
             NEW issue \in {<<>>} \cup {<<a>> : a \in Assets}, AcceptTx(gs, issue)
      PROVE  CountsOK'
  <2> DEFINE t == TxRows(gs, issue)
             back == RollBackToCheckPoint(t)
  <2>1. UpOK(mem) /\ CountOK(mem) /\ UNCHANGED db /\ pc' = "up"
        /\ (mem' = Forget(t) \/ mem' = Forget(back))
    BY <1>1 DEF AcceptTx, PointersOK, CountsOK, Disk
  <2>2. UpOK(t) /\ CpOK(t) /\ CountOK(t) /\ CpCountOK(t)
    BY <2>1, TxRowsUp, TxRowsCount
  <2> HIDE DEF t
  <2>3. UpOK(back) /\ CountOK(back)
    BY <2>2, RollBackToUp, RollBackToCount
  <2> HIDE DEF back
  <2>4. ASSUME NEW m, UpOK(m), CountOK(m) PROVE CountOK(Forget(m))
    <3>1. IsMem(m)
      BY <2>4 DEF UpOK
    <3> DEFINE n == Forget(m)
    <3>2. n.pool = m.pool /\ n.cleared = m.cleared /\ n.count = m.count
      BY <3>1, ForgetIs
    <3> HIDE DEF n
    <3>3. CountOK(n)
      BY <2>4, <3>2, CountSame
    <3> QED BY <3>3 DEF n
  <2>5. CountOK(mem')
    BY <2>1, <2>2, <2>3, <2>4
  <2> QED BY <1>up, <2>1, <2>5
<1>2. CASE ClearMemPool
  <2>1. UpOK(mem) /\ CountOK(mem) /\ UNCHANGED db /\ pc' = "up" /\ mem' = ClearMemPoolInternal(mem)
    BY <1>2 DEF ClearMemPool, PointersOK, CountsOK, Disk
  <2> QED BY <1>up, <2>1, ClearCount
<1>3. CASE CheckBlockPermissions
  <2> DEFINE c == CopyMemPool(mem)
             e == ClearMemPoolInternal(c)
             f == ClearMemPoolInternal(e)
             r == RestoreMemPool(e)
             n == Forget(r)
  <2>1. UpOK(mem) /\ CountOK(mem) /\ UNCHANGED db /\ pc' = "up" /\ mem' = n /\ IsMem(mem)
    BY <1>3 DEF CheckBlockPermissions, PointersOK, CountsOK, Disk
  <2>2. /\ SameFork(mem, c) /\ c.pool = mem.pool /\ c.row = mem.row /\ c.copied = mem.pool
        /\ c.count = mem.count /\ c.cleared = mem.cleared /\ c.copiedCount = mem.count
    BY <2>1, CopyIs
  <2> HIDE DEF c
  <2>3. UpOK(c) /\ CountOK(c)
    BY <2>1, <2>2, UpSame, CountSame
  <2>4. UpOK(e) /\ CountOK(e) /\ e.copied = mem.pool /\ e.copiedCount = mem.count
    BY <2>2, <2>3, ClearUp, ClearCount
  <2> HIDE DEF e
  <2>5. IsMem(e) /\ e.row \in Int
    BY <2>4 DEF UpOK, LedgerOK, Pooled
  <2>6. IsMem(r) /\ r.pool = mem.pool /\ r.count = mem.count /\ r.cleared = f.count
    BY <2>4, <2>5, RestoreIs DEF SameFork
  <2>7. f.count = Cardinality(Held(<<>>))
    BY <2>4, ClearCount
  <2> HIDE DEF r, f
  <2>8. n.pool = r.pool /\ n.count = r.count /\ n.cleared = r.cleared
    BY <2>6, ForgetIs
  <2> HIDE DEF n
  <2>9. CountOK(mem')
    BY <2>1, <2>6, <2>7, <2>8 DEF CountOK
  <2> QED BY <1>up, <2>1, <2>9
<1>ver. ASSUME UNCHANGED db, pc' = "verify", NEW p, NEW c, NEW z,
               mem'.copied = p, mem'.copiedCount = c, mem'.cleared = z,
               c = Cardinality(Held(p)), p # <<>> => z = Cardinality(Held(<<>>))
        PROVE  CountsOK'
  <2>1. Held(mem.copied)' = Held(p) /\ Held(<<>>)' = Held(<<>>)
    BY <1>ver DEF Held, Value
  <2> QED BY <1>ver, <2>1 DEF CountsOK
<1>4. ASSUME NEW fork \in 0..mem.block, VerifyBegin(fork) PROVE CountsOK'
  <2> DEFINE n == RollBackBeforeMinerVerification(mem, fork)
  <2>1. IsMem(mem) /\ CountOK(mem) /\ UNCHANGED db /\ pc' = "verify" /\ mem' = n
    BY <1>4 DEF VerifyBegin, PointersOK, CountsOK, Disk
  <2>2. Forked(mem, fork, n)
    BY <2>1, ForkIs, Zenon
  <2> HIDE DEF n
  <2> QED BY <1>ver, <2>1, <2>2 DEF CountOK, Forked
<1>5. ASSUME NEW g \in Grant, VerifyGrant(g) PROVE CountsOK'
  <2> DEFINE n == SetPermission(mem, g.key, g.val)
  <2>1. /\ IsMem(mem) /\ UNCHANGED db /\ pc' = "verify" /\ mem' = n
        /\ mem.copiedCount = Cardinality(Held(mem.copied)) /\ mem.copiedRow = db.row
        /\ mem.copied # <<>> => mem.cleared = Cardinality(Held(<<>>))
    BY <1>5 DEF VerifyGrant, PointersOK, CountsOK, Disk
  <2>2. mem.copiedRow # 0
    BY <2>1 DEF LedgerOK
  <2>3. n.copied = mem.copied /\ n.copiedCount = mem.copiedCount /\ n.cleared = mem.cleared
    BY <2>1, <2>2, SetPermissionIs
  <2> HIDE DEF n
  <2> QED BY <1>ver, <2>1, <2>3
<1>6. CASE VerifyBlock
  <2> DEFINE m == [mem EXCEPT !.block = @ + 1]
             n == UpdateCounts(m)
  <2>1. /\ IsMem(mem) /\ UNCHANGED db /\ pc' = "verify" /\ mem' = n
        /\ mem.copiedCount = Cardinality(Held(mem.copied))
        /\ mem.copied # <<>> => mem.cleared = Cardinality(Held(<<>>))
    BY <1>6 DEF VerifyBlock, PointersOK, CountsOK, Disk
  <2>2. IsMem(m) /\ m.copied = mem.copied /\ m.copiedCount = mem.copiedCount
        /\ m.cleared = mem.cleared
    BY <2>1 DEF IsMem, MemFields
  <2> HIDE DEF m
  <2>3. n.copied = mem.copied /\ n.copiedCount = mem.copiedCount /\ n.cleared = mem.cleared
    BY <2>2, UpdateCountsIs
  <2> HIDE DEF n
  <2> QED BY <1>ver, <2>1, <2>3
<1>7. CASE VerifyEnd
  <2> DEFINE r == RestoreAfterMinerVerification(mem)
             n == Forget(r)
  <2>1. /\ IsMem(mem) /\ UNCHANGED db /\ pc' = "up" /\ mem' = n
        /\ mem.copiedCount = Cardinality(Held(mem.copied))
        /\ mem.copied # <<>> => mem.cleared = Cardinality(Held(<<>>))
    BY <1>7 DEF VerifyEnd, PointersOK, CountsOK, Disk
  <2>2. IsMem(r) /\ r.pool = mem.copied /\ r.count = mem.copiedCount /\ r.cleared = mem.cleared
    BY <2>1, UnforkIs
  <2> HIDE DEF r
  <2>3. n.pool = r.pool /\ n.count = r.count /\ n.cleared = r.cleared
    BY <2>2, ForgetIs
  <2> HIDE DEF n
  <2>4. CountOK(mem')
    BY <2>1, <2>2, <2>3 DEF CountOK
  <2> QED BY <1>up, <2>1, <2>4
<1>none. ASSUME pc' \notin {"up", "rbdb", "verify"} PROVE CountsOK'
  BY <1>none DEF CountsOK
<1>8. ASSUME NEW miner \in Miners, CommitBegin(miner) PROVE CountsOK'
  BY <1>8, <1>none DEF CommitBegin
<1>9. CASE CommitRow
  <2>1. pc' \in {"rows", "head"}
    BY <1>9 DEF CommitRow
  <2> QED BY <2>1, <1>none
<1>10. CASE CommitHead
  BY <1>10, <1>none DEF CommitHead
<1>11. CASE CommitDb
  BY <1>11, <1>none DEF CommitDb
<1>12. CASE CommitDbFails
  <2>1. UpOK(mem) /\ UNCHANGED db /\ mem' = ClearMemPoolInternal(mem) /\ pc' = "rbdb"
        /\ Len(mem.pool) >= 2
    BY <1>12 DEF CommitDbFails, PointersOK, Disk
  <2>2. mem.pool # <<>>
    BY <2>1
  <2>3. CountOK(mem')
    BY <2>1, <2>2, ClearCount
  <2> QED BY <1>up, <2>1, <2>3
<1>13. CASE CommitCounts
  <2> DEFINE m == UpdateCounts(mem)
  <2>1. /\ IsMem(mem) /\ mem.copiedRow = 0 /\ UNCHANGED db /\ pc' = "up"
        /\ mem' = [m EXCEPT !.pool = <<>>, !.block = @ + 1, !.cleared = m.count]
        /\ mem.pool \in Seq(Row)
        /\ \A i \in 1..Len(mem.pool) : mem.pool[i].key \in Named =>
            mem.pool[i].prev < db.at[mem.pool[i].key]
    BY <1>13 DEF CommitCounts, PointersOK
  <2>2. IsMem(m) /\ m.count = Cardinality({k \in Grants : GetPermission(mem, k).val})
    BY <2>1, UpdateCountsIs DEF SameFork
  <2> HIDE DEF m
  <2>3. m.count = Cardinality(Held(<<>>))
    BY <2>1, <2>2, CountCommitted
  <2>4. mem'.pool = <<>> /\ mem'.count = m.count
    BY <2>1, <2>2 DEF IsMem, MemFields
  <2>5. CountOK(mem')
    BY <2>3, <2>4, CountEmpty
  <2> QED BY <1>up, <2>1, <2>5
<1>14. ASSUME NEW block \in -1..mem.block, RollBackBegin(block) PROVE CountsOK'
  <2>1. UpOK(mem) /\ CountOK(mem) /\ UNCHANGED db /\ mem' = ClearMemPoolInternal(mem) /\ pc' = "rbdb"
    BY <1>14 DEF RollBackBegin, PointersOK, CountsOK, Disk
  <2> QED BY <1>up, <2>1, ClearCount
<1>15. CASE RollBackDb
  BY <1>15, <1>none DEF RollBackDb
<1>16. CASE RollBackDbFails
  <2>1. CountOK(mem) /\ UNCHANGED <<db, mem>> /\ pc' = "up"
    BY <1>16 DEF RollBackDbFails, CountsOK, Disk
  <2> QED BY <1>up, <2>1
<1>fresh. ASSUME NEW z, IsMem(z), z.pool = <<>>, z.copiedRow = 0, UNCHANGED db, pc' = "up",
                 mem' = [UpdateCounts(z) EXCEPT !.cleared = UpdateCounts(z).count]
          PROVE  CountsOK'
  <2> DEFINE m == UpdateCounts(z)
  <2>1. IsMem(m) /\ m.pool = <<>> /\ m.count = Cardinality(Held(<<>>))
    BY <1>fresh, CountFresh, UpdateCountsIs DEF SameFork
  <2>2. mem' = [m EXCEPT !.cleared = m.count]
    BY <1>fresh
  <2> HIDE DEF m
  <2>3. mem'.pool = <<>> /\ mem'.count = m.count
    BY <2>1, <2>2 DEF IsMem, MemFields
  <2>4. CountOK(mem')
    BY <2>1, <2>3, CountEmpty
  <2> QED BY <1>fresh, <1>up, <2>4
<1>17. CASE RollBackHead
  <2> DEFINE z == [mem EXCEPT !.block = arg, !.row = CutRow(mem.row - 1, arg)]
  <2>1. /\ IsMem(mem) /\ mem.copiedRow = 0 /\ mem.pool = <<>> /\ UNCHANGED db /\ pc' = "up"
        /\ mem' = [UpdateCounts(z) EXCEPT !.cleared = UpdateCounts(z).count]
    BY <1>17 DEF RollBackHead, PointersOK
  <2>2. IsMem(z) /\ z.pool = <<>> /\ z.copiedRow = 0
    BY <2>1 DEF IsMem, MemFields
  <2> HIDE DEF z
  <2> QED BY <1>fresh, <2>1, <2>2
<1>18. CASE Crash
  BY <1>18, <1>none DEF Crash
<1>19. CASE Repair
  <2>1. pc' \in Down
    BY <1>19 DEF Repair
  <2> QED BY <2>1, <1>none DEF Down
<1>20. CASE Open
  <2> DEFINE z == [ZeroMem EXCEPT !.block = db.block, !.row = db.row]
  <2>1. /\ UNCHANGED db
        /\ \/ pc' = "up" /\ mem' = [UpdateCounts(z) EXCEPT !.cleared = UpdateCounts(z).count]
           \/ pc' = "corrupted"
    BY <1>20 DEF Open
  <2>2. IsMem(z) /\ z.pool = <<>> /\ z.copiedRow = 0
    BY DEF IsMem, MemFields, ZeroMem
  <2> HIDE DEF z
  <2> QED BY <1>fresh, <1>none, <2>1, <2>2
<1>21. CASE UNCHANGED vars
  BY <1>21 DEF vars, CountsOK, CountOK, Held, Value
<1> QED
  BY <1>1, <1>2, <1>3, <1>4, <1>5, <1>6, <1>7, <1>8, <1>9, <1>10, <1>11, <1>12, <1>13, <1>14,
     <1>15, <1>16, <1>17, <1>18, <1>19, <1>20, <1>21 DEF Next

LEMMA CountsInvariant == Spec => [](LedgerOK /\ PointersOK /\ CountsOK)
<1>1. Init => CountsOK
  <2> SUFFICES ASSUME Init PROVE CountsOK
    OBVIOUS
  <2>1. mem.pool = <<>> /\ mem.count = 0 /\ pc = "up"
    BY DEF Init, ZeroMem
  <2>2. Held(<<>>) = {}
    <3>1. ASSUME NEW k \in Grants PROVE db.val[k] = FALSE
      BY DEF Init, Keys
    <3> QED BY <3>1, HeldEmpty, Zenon
  <2>3. CountOK(mem)
    BY <2>1, <2>2, FS_EmptySet, CountEmpty
  <2> QED BY <2>1, <2>3 DEF CountsOK
<1>2. (LedgerOK /\ PointersOK /\ CountsOK) /\ [Next]_vars => (LedgerOK /\ PointersOK /\ CountsOK)'
  BY StepLedger, StepPointers, StepCounts
<1> QED
  BY IndexInit, <1>1, <1>2, PTL DEF Spec

(* Whenever no operation is under way, m_Row is the number that the next   *)
(* row will have in the file, the rows of m_MemPool have the numbers that  *)
(* Commit will write them at, and m_AdminCount is what a recount would     *)
(* give: a rejected transaction's RollBackToCheckPoint, a verification on  *)
(* a fork, a failed batch, a roll back and a restart all leave them true.  *)
THEOREM PointersTrueHolds == Spec => []PointersTrue
<1>1. ASSUME LedgerOK, PointersOK, CountsOK PROVE PointersTrue
  <2> SUFFICES ASSUME pc = "up"
               PROVE  /\ mem.block = db.block
                      /\ mem.row = db.row + Len(mem.pool)
                      /\ mem.count = UpdateCounts(mem).count
                      /\ \A i \in DOMAIN mem.pool : mem.pool[i].this = Base(mem) + i - 1
    BY DEF PointersTrue
  <2>1. UpOK(mem) /\ CountOK(mem)
    BY <1>1 DEF PointersOK, CountsOK
  <2>2. /\ IsMem(mem) /\ mem.block = db.block /\ mem.row = db.row + Len(mem.pool)
        /\ mem.copiedRow = 0 /\ Pooled(mem.pool) /\ mem.pool \in Seq(Row) /\ Len(mem.pool) \in Nat
    BY <2>1 DEF UpOK, Pooled
  <2>3. {k \in Grants : GetPermission(mem, k).val} = Held(mem.pool)
    BY <1>1, <2>2, HeldIs
  <2> DEFINE n == UpdateCounts(mem)
  <2>4. n.count = Cardinality({k \in Grants : GetPermission(mem, k).val})
    BY <2>2, UpdateCountsIs
  <2>5. mem.count = n.count
    BY <2>1, <2>3, <2>4 DEF CountOK
  <2>6. Base(mem) = db.row
    BY <1>1, <2>2 DEF Base, LedgerOK
  <2>7. \A i \in DOMAIN mem.pool : mem.pool[i].this = db.row + i - 1
    BY <2>2 DEF Pooled
  <2> QED BY <2>2, <2>5, <2>6, <2>7
<1> QED
  BY CountsInvariant, <1>1, PTL

-----------------------------------------------------------------------------
(* What validation sees of the store.                                      *)

(* The steps of the operations, and the only place where a transaction is  *)
(* answered.                                                               *)
StepsOK ==
  /\ pc \in {"up", "verify", "rows", "head", "db", "counts", "rbdb", "rbhead"} \cup Down
  /\ reply = "reject" => pc = "up"

LEMMA StepSteps ==
  ASSUME StepsOK, [Next]_vars
  PROVE  StepsOK'
BY DEF StepsOK, Down, Next, vars, Disk, AcceptTx, ClearMemPool, CheckBlockPermissions,
       VerifyBegin, VerifyGrant, VerifyBlock, VerifyEnd, CommitBegin, CommitRow, CommitHead,
       CommitDb, CommitDbFails, CommitCounts, RollBackBegin, RollBackDb, RollBackDbFails,
       RollBackHead, Crash, Repair, Open

StoreInv == LedgerOK /\ PointersOK /\ CountsOK /\ StepsOK

LEMMA StoreInvariant == Spec => []StoreInv
<1>1. Init => StepsOK
  BY DEF Init, StepsOK
<1>2. StepsOK /\ [Next]_vars => StepsOK'
  BY StepSteps
<1> QED
  BY <1>1, <1>2, CountsInvariant, PTL DEF Spec, StoreInv

(* The rows on top of the database that a reader sees, or will once a      *)
(* verification is over.                                                   *)
Seen == IF pc = "verify" THEN mem.copied
        ELSE IF pc \in {"up", "rows", "head", "db", "rbdb"} THEN mem.pool ELSE <<>>

LEMMA PendingIs ==
  ASSUME StoreInv
  PROVE  /\ Pending = [k \in Holders |-> Value(Seen, k)]
         /\ \A k \in Holders : Value(Seen, k) \in BOOLEAN
<1> USE DEF StoreInv
<1>1. Holders \subseteq Named /\ Grants \subseteq Named
  BY DEF Holders, Named
<1>e. ASSUME NEW k \in Named PROVE Value(<<>>, k) = db.val[k] /\ db.val[k] \in BOOLEAN
  <2>1. Len(<<>>) = 0
    OBVIOUS
  <2>2. LastIn(<<>>, k, 0) = 0
    BY LastIs
  <2>3. Value(<<>>, k) = db.val[k]
    BY <2>1, <2>2 DEF Value
  <2> QED BY <2>3, NamedKeys
<1> DEFINE m == IF mem.copiedRow > 0 THEN RestoreAfterMinerVerification(mem) ELSE mem
<1>up. ASSUME pc \notin Down,
              \A k \in Holders : GetPermission(m, k).val = Value(Seen, k)
                                 /\ Value(Seen, k) \in BOOLEAN
       PROVE  /\ Pending = [k \in Holders |-> Value(Seen, k)]
              /\ \A k \in Holders : Value(Seen, k) \in BOOLEAN
  BY <1>up DEF Pending
<1>2. CASE pc \in Down
  <2>1. Seen = <<>>
    BY <1>2 DEF Seen, Down
  <2>2. ASSUME NEW k \in Holders PROVE ValAt(k, db.block) = db.val[k]
    <3>1. k \in Keys \ ((db.block + 1)..MaxBlock)
      <4>1. k \in Keys /\ k \notin Heights
        BY <1>1, NamedKeys
      <4>2. (db.block + 1)..MaxBlock \subseteq Heights
        BY DEF LedgerOK, Heights
      <4> QED BY <4>1, <4>2
    <3> QED BY <3>1, IndexFromLedger DEF IndexTrue
  <2>3. ASSUME NEW k \in Holders
        PROVE  ValAt(k, db.block) = Value(Seen, k) /\ Value(Seen, k) \in BOOLEAN
    <3>1. k \in Named
      BY <1>1
    <3> QED BY <1>e, <2>1, <2>2, <3>1
  <2> QED BY <1>2, <2>3, Zenon DEF Pending
<1>3. CASE pc \in {"up", "rows", "head", "db", "rbdb"}
  <2>1. Seen = mem.pool /\ pc \notin Down
    BY <1>3 DEF Seen, Down
  <2>2. mem.copiedRow = 0 /\ Pooled(mem.pool)
    BY <1>3 DEF PointersOK, UpOK
  <2>3. m = mem
    BY <2>2
  <2>4. \A k \in Named : GetPermission(mem, k).val = Value(mem.pool, k)
                         /\ Value(mem.pool, k) \in BOOLEAN
    BY <2>2, HeldIs
  <2> HIDE DEF m
  <2>5. \A k \in Holders : GetPermission(m, k).val = Value(Seen, k) /\ Value(Seen, k) \in BOOLEAN
    BY <1>1, <2>1, <2>3, <2>4
  <2> QED BY <1>up, <2>1, <2>5 DEF m
<1>4. CASE pc = "verify"
  <2> DEFINE n == RestoreAfterMinerVerification(mem)
  <2>1. Seen = mem.copied /\ pc \notin Down
    BY <1>4 DEF Seen, Down
  <2>2. IsMem(mem) /\ mem.copiedRow = db.row /\ Pooled(mem.copied)
    BY <1>4 DEF PointersOK
  <2>3. m = n
    BY <2>2 DEF LedgerOK
  <2>4. n.pool = mem.copied /\ n.copiedRow = 0
    BY <2>2, UnforkIs
  <2> HIDE DEF n, m
  <2>5. \A k \in Named : GetPermission(n, k).val = Value(n.pool, k) /\ Value(n.pool, k) \in BOOLEAN
    BY <2>2, <2>4, HeldIs
  <2>6. \A k \in Holders : GetPermission(m, k).val = Value(Seen, k) /\ Value(Seen, k) \in BOOLEAN
    BY <1>1, <2>1, <2>3, <2>4, <2>5
  <2> QED BY <1>up, <2>1, <2>6 DEF m
<1>5. CASE pc \in {"counts", "rbhead"}
  <2>1. Seen = <<>> /\ pc \notin Down
    BY <1>5 DEF Seen, Down
  <2>2. m = mem /\ mem.copiedRow = 0
    BY <1>5 DEF PointersOK
  <2> HIDE DEF m
  <2>3. ASSUME NEW k \in Named PROVE GetPermission(mem, k).val = db.val[k]
    <3>1. CASE pc = "counts"
      BY <2>2, <3>1, GetCommitted DEF PointersOK
    <3>2. CASE pc = "rbhead"
      BY <2>2, <3>2, GetFresh DEF PointersOK
    <3> QED BY <1>5, <3>1, <3>2
  <2>4. \A k \in Holders : GetPermission(m, k).val = Value(Seen, k) /\ Value(Seen, k) \in BOOLEAN
    BY <1>1, <1>e, <2>1, <2>2, <2>3
  <2> QED BY <1>up, <2>1, <2>4 DEF m
<1> QED
  BY <1>2, <1>3, <1>4, <1>5 DEF StepsOK

LEMMA PendingNext ==
  (StoreInv => /\ Pending = [k \in Holders |-> Value(Seen, k)]
               /\ \A k \in Holders : Value(Seen, k) \in BOOLEAN)'
<1>1. StoreInv => /\ Pending = [k \in Holders |-> Value(Seen, k)]
                  /\ \A k \in Holders : Value(Seen, k) \in BOOLEAN
  BY PendingIs
<1> QED
  BY <1>1, PTL

(* Going to a fork, granting there and coming back leave every answer of   *)
(* GetPermission, with the memory pool applied, as it was: what            *)
(* RollBackBeforeMinerVerification keeps aside is what                     *)
(* RestoreAfterMinerVerification puts back, whatever the branch granted.   *)
THEOREM VerifyLeavesNoTraceHolds == Spec => VerifyLeavesNoTrace
<1>1. ASSUME StoreInv, StoreInv', [Next]_vars, pc' = "verify" \/ (pc = "verify" /\ pc' = "up")
      PROVE  Pending' = Pending
  <2>1. UNCHANGED db /\ Seen' = Seen
    <3>1. ASSUME NEW fork \in 0..mem.block, VerifyBegin(fork) PROVE UNCHANGED db /\ Seen' = Seen
      <4> DEFINE n == RollBackBeforeMinerVerification(mem, fork)
      <4>1. IsMem(mem) /\ UNCHANGED db /\ pc = "up" /\ pc' = "verify" /\ mem' = n
        BY <1>1, <3>1 DEF VerifyBegin, StoreInv, PointersOK, Disk
      <4>2. Forked(mem, fork, n)
        BY <4>1, ForkIs, Zenon
      <4> HIDE DEF n
      <4> QED BY <4>1, <4>2 DEF Seen, Forked
    <3>2. ASSUME NEW g \in Grant, VerifyGrant(g) PROVE UNCHANGED db /\ Seen' = Seen
      <4> DEFINE n == SetPermission(mem, g.key, g.val)
      <4>1. IsMem(mem) /\ UNCHANGED db /\ pc = "verify" /\ pc' = "verify" /\ mem' = n
        BY <1>1, <3>2 DEF VerifyGrant, StoreInv, PointersOK, Disk
      <4>2. n.copied = mem.copied
        BY <4>1, SetPermissionIs
      <4> HIDE DEF n
      <4> QED BY <4>1, <4>2 DEF Seen
    <3>3. CASE VerifyBlock
      <4> DEFINE m == [mem EXCEPT !.block = @ + 1]
                 n == UpdateCounts(m)
      <4>1. IsMem(mem) /\ UNCHANGED db /\ pc = "verify" /\ pc' = "verify" /\ mem' = n
        BY <1>1, <3>3 DEF VerifyBlock, StoreInv, PointersOK, Disk
      <4>2. IsMem(m) /\ m.copied = mem.copied
        BY <4>1 DEF IsMem, MemFields
      <4> HIDE DEF m
      <4>3. n.copied = mem.copied
        BY <4>2, UpdateCountsIs
      <4> HIDE DEF n
      <4> QED BY <4>1, <4>3 DEF Seen
    <3>4. CASE VerifyEnd
      <4> DEFINE r == RestoreAfterMinerVerification(mem)
                 n == Forget(r)
      <4>1. IsMem(mem) /\ UNCHANGED db /\ pc = "verify" /\ pc' = "up" /\ mem' = n
        BY <1>1, <3>4 DEF VerifyEnd, StoreInv, PointersOK, Disk
      <4>2. IsMem(r) /\ r.pool = mem.copied
        BY <4>1, UnforkIs
      <4> HIDE DEF r
      <4>3. n.pool = r.pool
        BY <4>2, ForgetIs
      <4> HIDE DEF n
      <4> QED BY <4>1, <4>2, <4>3 DEF Seen
    <3>5. CASE UNCHANGED vars
      BY <3>5 DEF vars, Seen
    <3> QED
      BY <1>1, <3>1, <3>2, <3>3, <3>4, <3>5
      DEF Next, Down, AcceptTx, ClearMemPool, CheckBlockPermissions, CommitBegin, CommitRow,
          CommitHead, CommitDb, CommitDbFails, CommitCounts, RollBackBegin, RollBackDb,
          RollBackDbFails, RollBackHead, Crash, Repair, Open
  <2>2. \A k \in Holders : Value(Seen, k)' = Value(Seen, k)
    BY <2>1 DEF Value
  <2>3. Holders' = Holders
    BY DEF Holders
  <2>4. Pending = [k \in Holders |-> Value(Seen, k)]
    BY <1>1, PendingIs
  <2>5. Pending' = [k \in Holders |-> Value(Seen, k)']
    BY <1>1, PendingNext
  <2> QED BY <2>2, <2>4, <2>5
<1>2. StoreInv /\ StoreInv' /\ [Next]_vars
      => [(pc' = "verify" \/ (pc = "verify" /\ pc' = "up")) => Pending' = Pending]_vars
  BY <1>1
<1> QED
  BY StoreInvariant, <1>2, PTL DEF Spec, VerifyLeavesNoTrace

(* A transaction that grants permissions and issues no asset, and is not   *)
(* accepted, leaves the rows of m_MemPool as it found them.                *)
THEOREM RejectLeavesNoTraceHolds == ASSUME Assets = {} PROVE Spec => RejectLeavesNoTrace
<1>1. ASSUME StoreInv, Next, reply' = "reject" PROVE mem'.pool = mem.pool
  <2>1. ASSUME NEW gs \in {<<>>} \cup {<<g>> : g \in Grant},
               NEW issue \in {<<>>} \cup {<<a>> : a \in Assets}, AcceptTx(gs, issue)
        PROVE  mem'.pool = mem.pool
    <3> DEFINE begun == SetCheckPoint(mem)
               t == TxRows(gs, issue)
               back == RollBackToCheckPoint(t)
               n == Forget(back)
    <3>1. UpOK(mem) /\ mem' = n
      BY <1>1, <2>1 DEF AcceptTx, StoreInv, PointersOK
    <3>2. LedgerOK /\ IsMem(mem) /\ mem.pool \in Seq(Row) /\ Len(mem.pool) \in Nat
      BY <1>1, <3>1 DEF StoreInv, UpOK, Pooled
    <3>3. UpOK(begun) /\ IsMem(begun) /\ begun.pool = mem.pool /\ begun.cpSize = Len(mem.pool)
      BY <3>1, <3>2, CheckPointUp, CheckPointIs DEF UpOK
    <3>4. t = IF gs = <<>> THEN begun ELSE SetPermission(begun, gs[1].key, gs[1].val)
      BY DEF TxRows
    <3> HIDE DEF begun, t
    <3>5. IsMem(t) /\ SubSeq(t.pool, 1, t.cpSize) = mem.pool
      <4>1. CASE gs = <<>>
        BY <3>2, <3>3, <3>4, <4>1
      <4>2. CASE gs # <<>>
        <5> DEFINE k == gs[1].key
                   v == gs[1].val
                   s == SetPermission(begun, k, v)
                   row == NewRow(begun, k, v)
        <5>1. k \in Named /\ v \in BOOLEAN
          BY <4>2 DEF Grant, Named
        <5> HIDE DEF k, v
        <5>2. s.pool = Append(begun.pool, row) /\ row \in Row
          BY <3>2, <3>3, <5>1, SetPermissionUp
        <5>3. IsMem(s) /\ s.cpSize = begun.cpSize
          BY <3>3, SetPermissionIs DEF SameFork
        <5>4. t = s
          BY <3>4, <4>2 DEF k, v
        <5> HIDE DEF s, row
        <5> QED BY <3>2, <3>3, <5>2, <5>3, <5>4
      <4> QED BY <4>1, <4>2
    <3>6. IsMem(back) /\ back.pool = SubSeq(t.pool, 1, t.cpSize)
      BY <3>5, RollBackToIs DEF SameFork
    <3> HIDE DEF back
    <3>7. n.pool = back.pool
      BY <3>6, ForgetIs
    <3> HIDE DEF n
    <3> QED BY <3>1, <3>5, <3>6, <3>7
  <2> QED
    BY <1>1, <2>1
    DEF Next, StoreInv, StepsOK, ClearMemPool, CheckBlockPermissions, VerifyBegin, VerifyGrant,
        VerifyBlock, VerifyEnd, CommitBegin, CommitRow, CommitHead, CommitDb, CommitDbFails,
        CommitCounts, RollBackBegin, RollBackDb, RollBackDbFails, RollBackHead, Crash, Repair,
        Open, Down
<1>2. StoreInv /\ [Next]_vars => [reply' = "reject" => mem'.pool = mem.pool]_vars
  BY <1>1
<1> QED
  BY StoreInvariant, <1>2, PTL DEF Spec, RejectLeavesNoTrace

-----------------------------------------------------------------------------
(* The store implements PermissionLog.                                     *)

Versions == [i \in 1..(db.block + 1) |-> [k \in Holders |-> ValAt(k, i - 1)]]

(* Sequences given by their elements.                                      *)
LEMMA AppendIs ==
  ASSUME NEW n \in Nat, NEW f, NEW g, f = [i \in 1..n |-> f[i]],
         g = [i \in 1..(n + 1) |-> g[i]], \A i \in 1..n : g[i] = f[i]
  PROVE  g = Append(f, g[n + 1])
<1> DEFINE S == {g[i] : i \in 1..(n + 1)}
<1>1. f \in Seq(S) /\ g \in Seq(S) /\ Len(f) = n /\ Len(g) = n + 1 /\ g[n + 1] \in S
  <2>1. f \in [1..n -> S] /\ g \in [1..(n + 1) -> S] /\ g[n + 1] \in S
    <3>1. \A i \in 1..n : i \in 1..(n + 1)
      OBVIOUS
    <3>2. n + 1 \in 1..(n + 1)
      OBVIOUS
    <3>3. \A i \in 1..(n + 1) : g[i] \in S
      OBVIOUS
    <3>4. \A i \in 1..n : f[i] \in S
      BY <3>1, <3>3
    <3> HIDE DEF S
    <3> QED BY <3>2, <3>3, <3>4
  <2> HIDE DEF S
  <2>2. n + 1 \in Nat
    OBVIOUS
  <2> QED BY <2>1, <2>2
<1> HIDE DEF S
<1> DEFINE e == g[n + 1]
           a == Append(f, e)
<1>2. a \in Seq(S) /\ Len(a) = n + 1 /\ \A i \in 1..(n + 1) : a[i] = g[i]
  <2> HIDE DEF e
  <2>1. e \in S /\ e = g[n + 1]
    BY <1>1 DEF e
  <2>2. a \in Seq(S) /\ Len(a) = n + 1 /\ a[n + 1] = e /\ \A i \in 1..n : a[i] = f[i]
    BY ONLY <1>1, <2>1, n \in Nat
  <2>3. \A i \in 1..(n + 1) : i = n + 1 \/ i \in 1..n
    OBVIOUS
  <2> HIDE DEF a
  <2> QED BY <2>1, <2>2, <2>3
<1> HIDE DEF a
<1>3. g = a
  BY <1>1, <1>2, SeqEqual
<1> QED
  BY <1>3 DEF a

StartOf(g, m, f, n) == /\ n \in Nat /\ m \in 0..n
                       /\ f = [i \in 1..n |-> f[i]] /\ g = [i \in 1..m |-> g[i]]
                       /\ \A i \in 1..m : g[i] = f[i]

LEMMA SubSeqIs ==
  ASSUME NEW n, NEW m, NEW f, NEW g, StartOf(g, m, f, n)
  PROVE  g = SubSeq(f, 1, m) /\ Len(f) = n /\ Len(g) = m /\ (g = <<>> <=> m = 0)
<1> DEFINE S == {f[i] : i \in 1..n}
<1>1. m \in Nat /\ f \in [1..n -> S] /\ g \in [1..m -> S] /\ n \in Nat /\ m \in 0..n
      /\ \A i \in 1..m : g[i] = f[i]
  BY DEF StartOf
<1> HIDE DEF S
<1>2. f \in Seq(S) /\ g \in Seq(S) /\ Len(f) = n /\ Len(g) = m
  BY <1>1
<1>3. Len(SubSeq(f, 1, m)) = m /\ SubSeq(f, 1, m) \in Seq(S)
      /\ \A i \in 1..m : SubSeq(f, 1, m)[i] = f[i]
  BY <1>1, <1>2
<1>4. g = SubSeq(f, 1, m)
  <2> DEFINE t == SubSeq(f, 1, m)
  <2>1. t \in Seq(S) /\ Len(g) = Len(t) /\ \A i \in 1..Len(g) : g[i] = t[i]
    BY <1>1, <1>2, <1>3
  <2> HIDE DEF t
  <2>2. g = t
    BY <1>2, <2>1, SeqEqual
  <2> QED BY <2>2 DEF t
<1>5. g = <<>> <=> m = 0
  BY <1>2
<1> QED
  BY <1>2, <1>4, <1>5

LEMMA IndexNext == (LedgerOK => IndexTrue)'
<1>1. LedgerOK => IndexTrue
  BY IndexFromLedger
<1> QED
  BY <1>1, PTL

(* The rows that make up version h: a step that leaves them leaves the     *)
(* version.                                                                *)
RowsOf(k, h) == {r \in 1..(db.row - 1) : ledger[r].key = k /\ ledger[r].block <= h}

LEMMA ValAtSame ==
  ASSUME LedgerOK, NEW k, NEW h, RowsOf(k, h)' = RowsOf(k, h),
         \A r \in RowsOf(k, h) : ledger'[r].val = ledger[r].val
  PROVE  ValAt(k, h)' = ValAt(k, h)
<1>1. RowAt(k, h)' = RowAt(k, h)
  BY DEF RowAt, RowsOf
<1>2. RowAt(k, h) > 0 => RowAt(k, h) \in RowsOf(k, h)
  <2> DEFINE S == {0} \cup RowsOf(k, h)
             n == db.row - 1
  <2>1. n \in Nat
    BY DEF LedgerOK
  <2>2. S \in SUBSET (0..n) /\ S # {}
    BY <2>1 DEF RowsOf
  <2> HIDE DEF S, n
  <2>3. Max(S) \in S
    BY <2>1, <2>2, MaxIs
  <2>4. RowAt(k, h) = Max(S)
    BY DEF RowAt, RowsOf, S
  <2> QED BY <2>3, <2>4 DEF S
<1>3. RowAt(k, h) > 0 => ledger'[RowAt(k, h)].val = ledger[RowAt(k, h)].val
  BY <1>2
<1>4. ValAt(k, h) = (RowAt(k, h) > 0 /\ ledger[RowAt(k, h)].val)
      /\ ValAt(k, h)' = (RowAt(k, h)' > 0 /\ ledger'[RowAt(k, h)'].val)
  BY DEF ValAt
<1> QED
  BY ONLY <1>1, <1>3, <1>4, Zenon

(* While the database does not move, nor does what a block left.           *)
LEMMA ValAtKept ==
  ASSUME LedgerOK, RowsKept, UNCHANGED db, NEW k, NEW h
  PROVE  ValAt(k, h)' = ValAt(k, h)
<1>1. RowsOf(k, h)' = RowsOf(k, h)
  BY DEF RowsOf, RowsKept
<1>2. \A r \in RowsOf(k, h) : ledger'[r].val = ledger[r].val
  BY DEF RowsOf, RowsKept
<1> QED BY <1>1, <1>2, ValAtSame

(* While the database does not move, nor do the versions.                  *)
LEMMA VersionsKept ==
  ASSUME LedgerOK, RowsKept, UNCHANGED db
  PROVE  Versions' = Versions
<1>1. ASSUME NEW k, NEW h PROVE ValAt(k, h)' = ValAt(k, h)
  BY ValAtKept
<1>2. Versions' = [i \in 1..(db'.block + 1) |-> [k \in Holders |-> ValAt(k, i - 1)']]
  BY DEF Versions, Holders
<1> QED
  BY <1>1, <1>2, Zenon DEF Versions

(* The batch of a commit leaves what the earlier blocks left.              *)
LEMMA ValAtCommit ==
  ASSUME StoreInv, CommitDb, NEW k, NEW h \in 0..db.block
  PROVE  ValAt(k, h)' = ValAt(k, h)
<1>1. LedgerOK /\ UpOK(mem) /\ Written(Len(mem.pool)) /\ pc = "db"
  BY DEF StoreInv, PointersOK, CommitDb
<1>2. db'.row = db.row + Len(mem.pool) /\ UNCHANGED <<ledger, mem>>
  BY CommitLedger DEF StoreInv
<1>3. /\ db.row \in Nat /\ db.row >= 1 /\ Len(mem.pool) \in Nat /\ db.block \in Int
      /\ \A i \in 1..Len(mem.pool) : ledger[db.row + i - 1].block = db.block + 1
  <2>1. /\ db.row \in Nat /\ db.row >= 1 /\ db.block \in -1..MaxBlock /\ MaxBlock \in Nat
        /\ Len(mem.pool) \in Nat
    BY <1>1, KeysAssumption DEF LedgerOK, UpOK, Pooled
  <2>2. \A i \in 1..Len(mem.pool) : ledger[db.row + i - 1] = mem.pool[i]
    BY <1>1 DEF Written
  <2>3. \A i \in 1..Len(mem.pool) : mem.pool[i].block = db.block + 1
    BY <1>1 DEF UpOK, Pooled
  <2>4. \A i \in 1..Len(mem.pool) : ledger[db.row + i - 1].block = db.block + 1
    BY ONLY <2>2, <2>3, Zenon
  <2> QED BY <2>1, <2>4
<1>4. ASSUME NEW r \in 1..(db'.row - 1), ledger[r].block <= h PROVE r \in 1..(db.row - 1)
  <2>1. CASE r >= db.row
    <3> DEFINE i == r - db.row + 1
    <3>1. i \in 1..Len(mem.pool) /\ db.row + i - 1 = r
      BY <1>2, <1>3, <2>1
    <3>2. ledger[r].block = db.block + 1
      BY <1>3, <3>1
    <3> QED BY <1>3, <1>4, <3>2
  <2> QED BY <1>2, <1>3, <2>1
<1>5. ASSUME NEW r \in 1..(db.row - 1) PROVE r \in 1..(db'.row - 1)
  BY <1>2, <1>3
<1>6. RowsOf(k, h)' = RowsOf(k, h)
  BY <1>2, <1>4, <1>5 DEF RowsOf
<1> QED BY <1>1, <1>2, <1>6, ValAtSame

(* The batch of a commit: the pending version becomes the last.            *)
LEMMA CommitVersions ==
  ASSUME StoreInv, StoreInv', CommitDb
  PROVE  Versions' = Append(Versions, Pending) /\ Pending' = Pending
<1> DEFINE n == db.block + 1
<1>1. /\ LedgerOK /\ LedgerOK' /\ UpOK(mem) /\ Written(Len(mem.pool))
      /\ pc = "db" /\ pc' = "counts"
  BY DEF StoreInv, PointersOK, CommitDb
<1>2. /\ db'.block = db.block + 1 /\ db'.row = db.row + Len(mem.pool) /\ UNCHANGED <<ledger, mem>>
      /\ \A k \in Keys : LET l == LastIn(mem.pool, k, Len(mem.pool))
                         IN db'.val[k] = IF l = 0 THEN db.val[k] ELSE mem.pool[l].val
  BY CommitLedger DEF StoreInv
<1>3. db.block \in Int /\ n \in Nat
  <2>1. db.block \in -1..MaxBlock /\ MaxBlock \in Nat
    BY <1>1, KeysAssumption DEF LedgerOK
  <2> QED BY <2>1
<1>4. ASSUME NEW k, NEW h \in 0..db.block PROVE ValAt(k, h)' = ValAt(k, h)
  BY ValAtCommit
<1>5. ASSUME NEW k \in Holders, NEW h, h = db.block + 1
      PROVE  ValAt(k, h)' = Value(Seen, k) /\ Value(Seen, k)' = Value(Seen, k)
  <2>1. k \in Keys /\ k \notin Heights /\ k \in Named
    BY <1>1, NamedKeys DEF Holders, Named
  <2>2. db'.val[k] = Value(Seen, k)
    BY <1>1, <1>2, <2>1 DEF Value, Seen
  <2>3. k \in Keys \ ((db'.block + 1)..MaxBlock)
    BY <1>1, <2>1 DEF LedgerOK, Heights
  <2>4. db'.val[k] = ValAt(k, h)'
    <3>1. IndexTrue'
      BY <1>1, IndexNext
    <3>2. db'.val[k] = ValAt(k, db.block)'
      BY <2>3, <3>1 DEF IndexTrue
    <3>3. ValAt(k, db.block)' = ValAt(k, h)'
      BY <1>2, <1>5 DEF ValAt, RowAt
    <3> QED BY <3>2, <3>3
  <2>5. Value(Seen, k)' = db'.val[k]
    <3>1. Seen' = <<>>
      BY <1>1 DEF Seen
    <3>2. Len(<<>>) = 0
      OBVIOUS
    <3>3. LastIn(<<>>, k, 0) = 0
      BY LastIs
    <3> QED BY <3>1, <3>2, <3>3 DEF Value
  <2> QED BY <2>2, <2>4, <2>5
<1>6. Pending = [k \in Holders |-> Value(Seen, k)] /\ Pending' = [k \in Holders |-> Value(Seen, k)']
  BY PendingIs, PendingNext
<1>7. Pending' = Pending
  BY <1>5, <1>6
<1>8. /\ Versions = [i \in 1..n |-> Versions[i]]
      /\ \A i \in 1..n : Versions[i] = [k \in Holders |-> ValAt(k, i - 1)]
  BY DEF Versions
<1>9. /\ Versions' = [i \in 1..(n + 1) |-> Versions'[i]]
      /\ \A i \in 1..(n + 1) : Versions'[i] = [k \in Holders |-> ValAt(k, i - 1)']
  BY <1>2, <1>3 DEF Versions, Holders
<1>10. ASSUME NEW i \in 1..n PROVE Versions'[i] = Versions[i]
  <2>1. i - 1 \in 0..db.block /\ i \in 1..(n + 1)
    BY <1>3
  <2>2. \A k \in Holders : ValAt(k, i - 1)' = ValAt(k, i - 1)
    BY <1>4, <2>1
  <2> QED BY <1>8, <1>9, <2>1, <2>2
<1>11. Versions'[n + 1] = Pending
  <2>0. db.block \in Int /\ n \in Nat
    BY <1>3
  <2>1. PICK i \in 1..(n + 1) : i = n + 1 /\ i - 1 = db.block + 1
    BY ONLY <2>0
  <2>2. Versions'[i] = [k \in Holders |-> ValAt(k, i - 1)']
    BY <1>9
  <2>3. \A k \in Holders : ValAt(k, i - 1)' = Value(Seen, k)
    BY <1>5, <2>1
  <2> QED BY <1>6, <2>1, <2>2, <2>3
<1> HIDE DEF n
<1>12. Versions' = Append(Versions, Versions'[n + 1])
  BY <1>3, <1>8, <1>9, <1>10, AppendIs
<1> QED
  BY <1>7, <1>11, <1>12

(* Where a roll back cuts.                                                 *)
LEMMA CutAt ==
  ASSUME StoreInv, RollBackDb
  PROVE  LET cut == CutRow(mem.row - 1, arg)
         IN /\ mem.row = db.row /\ arg \in -1..db.block /\ db.row \in Nat /\ db.row >= 1
            /\ db.block \in -1..MaxBlock /\ MaxBlock \in Nat
            /\ cut \in 1..db.row
            /\ \A r \in 1..(db.row - 1) : r < cut <=> ledger[r].block <= arg
<1>1. /\ mem.row = db.row /\ arg \in -1..db.block /\ db.row \in Nat /\ db.row >= 1
      /\ db.block \in -1..MaxBlock /\ MaxBlock \in Nat /\ Filed(ledger, db.row - 1, db.block)
  <2>1. UpOK(mem) /\ mem.pool = <<>> /\ arg \in -1..db.block /\ LedgerOK
    BY DEF StoreInv, PointersOK, RollBackDb
  <2>2. mem.row = db.row
    BY <2>1 DEF UpOK, LedgerOK
  <2> QED BY <2>1, <2>2, KeysAssumption DEF LedgerOK
<1> DEFINE end == db.row - 1
<1>2. end \in Nat /\ arg \in Int /\ Filed(ledger, end, db.block) /\ mem.row - 1 = end
      /\ end + 1 = db.row
  BY <1>1
<1> HIDE DEF end
<1>3. CutRow(end, arg) \in 1..(end + 1)
      /\ \A r \in 1..end : r < CutRow(end, arg) <=> ledger[r].block <= arg
  BY <1>2, CutIs
<1> QED
  BY <1>1, <1>2, <1>3 DEF end

(* The batch of a roll back leaves what the blocks up to the target left.  *)
LEMMA ValAtRollBack ==
  ASSUME StoreInv, RollBackDb, NEW k, NEW h \in 0..arg
  PROVE  ValAt(k, h)' = ValAt(k, h)
<1> DEFINE cut == CutRow(mem.row - 1, arg)
<1>1. LedgerOK /\ db'.row = cut /\ UNCHANGED <<ledger, mem>>
  BY RollBackLedger DEF StoreInv
<1>2. /\ arg \in -1..db.block /\ db.row \in Nat /\ cut \in 1..db.row /\ db.block \in -1..MaxBlock
      /\ MaxBlock \in Nat
      /\ \A r \in 1..(db.row - 1) : r < cut <=> ledger[r].block <= arg
  BY CutAt
<1> HIDE DEF cut
<1>3. ASSUME NEW r \in 1..(db.row - 1), ledger[r].block <= h PROVE r \in 1..(cut - 1)
  <2>1. ledger[r].block \in Int
    BY <1>1 DEF LedgerOK, Filed
  <2>2. ledger[r].block <= arg
    BY <1>2, <1>3, <2>1
  <2> QED BY <1>2, <2>2
<1>4. ASSUME NEW r \in 1..(cut - 1) PROVE r \in 1..(db.row - 1)
  BY <1>2
<1>5. RowsOf(k, h)' = RowsOf(k, h)
  BY <1>1, <1>3, <1>4 DEF RowsOf
<1> QED
  BY <1>1, <1>5, ValAtSame

(* The batch of a roll back: the versions up to the target stay, and the   *)
(* last of them is what a reader sees.                                     *)
LEMMA RollBackVersions ==
  ASSUME StoreInv, StoreInv', RollBackDb
  PROVE  /\ \E n \in 0..Len(Versions) : Versions' = SubSeq(Versions, 1, n)
         /\ Pending' = Log!Top(Versions)'
<1> DEFINE n == db.block + 1
           m == arg + 1
           cut == CutRow(mem.row - 1, arg)
<1>1. /\ LedgerOK /\ LedgerOK' /\ pc' = "rbhead"
      /\ db'.block = arg /\ db'.row = cut /\ UNCHANGED <<ledger, mem, arg>>
  BY RollBackLedger DEF StoreInv, RollBackDb
<1>2. arg \in -1..db.block /\ db.block \in -1..MaxBlock /\ MaxBlock \in Nat
  BY CutAt
<1>3. n \in Nat /\ m \in 0..n
  BY <1>2
<1>5. ASSUME NEW k, NEW h \in 0..arg PROVE ValAt(k, h)' = ValAt(k, h)
  BY ValAtRollBack
<1>6. /\ Versions = [i \in 1..n |-> Versions[i]]
      /\ \A i \in 1..n : Versions[i] = [k \in Holders |-> ValAt(k, i - 1)]
  BY DEF Versions
<1>7. /\ Versions' = [i \in 1..m |-> Versions'[i]]
      /\ \A i \in 1..m : Versions'[i] = [k \in Holders |-> ValAt(k, i - 1)']
  BY <1>1 DEF Versions, Holders
<1>8. ASSUME NEW i \in 1..m PROVE Versions'[i] = Versions[i]
  <2>1. i - 1 \in 0..arg /\ i \in 1..n
    BY <1>2
  <2>2. \A k \in Holders : ValAt(k, i - 1)' = ValAt(k, i - 1)
    BY <1>5, <2>1
  <2> QED BY <1>6, <1>7, <2>1, <2>2
<1> DEFINE v == Versions
           w == Versions'
<1>9. v = [i \in 1..n |-> v[i]] /\ w = [i \in 1..m |-> w[i]] /\ \A i \in 1..m : w[i] = v[i]
  BY <1>6, <1>7, <1>8
<1>10. w = SubSeq(v, 1, m) /\ Len(v) = n /\ Len(w) = m /\ (w = <<>> <=> m = 0)
  <2> HIDE DEF v, w, n, m
  <2>1. StartOf(w, m, v, n)
    BY <1>3, <1>9 DEF StartOf
  <2> QED BY <2>1, SubSeqIs
<1>11. ASSUME NEW k \in Holders, NEW h, h = arg
       PROVE  Value(Seen, k)' = ValAt(k, h)' /\ (arg = -1 => Value(Seen, k)' = FALSE)
  <2>1. k \in Keys /\ k \notin Heights /\ k \in Named
    BY <1>1, NamedKeys DEF Holders, Named
  <2>2. Value(Seen, k)' = db'.val[k]
    <3>1. Seen' = <<>>
      BY <1>1 DEF Seen
    <3>2. Len(<<>>) = 0
      OBVIOUS
    <3>3. LastIn(<<>>, k, 0) = 0
      BY LastIs
    <3> QED BY <3>1, <3>2, <3>3 DEF Value
  <2>3. k \in Keys \ ((db'.block + 1)..MaxBlock)
    BY <1>1, <2>1 DEF LedgerOK, Heights
  <2>4. db'.val[k] = ValAt(k, h)'
    <3>1. IndexTrue'
      BY <1>1, IndexNext
    <3>2. db'.val[k] = ValAt(k, db.block)'
      BY <2>3, <3>1 DEF IndexTrue
    <3>3. ValAt(k, db.block)' = ValAt(k, h)'
      BY <1>1, <1>11 DEF ValAt, RowAt
    <3> QED BY <3>2, <3>3
  <2>5. ASSUME arg = -1 PROVE db'.val[k] = FALSE
    <3>1. \A r \in 1..(db'.row - 1) : ledger'[r].block \in 0..(-1)
      BY <1>1, <2>5 DEF LedgerOK, Filed
    <3>2. RowsOf(k, h)' = {}
      BY <3>1 DEF RowsOf
    <3>3. RowAt(k, h)' = Max({0} \cup {})
      BY <3>2 DEF RowAt, RowsOf
    <3>4. Max({0} \cup {}) = 0
      BY MaxIs
    <3>5. ~(0 > 0)
      OBVIOUS
    <3>6. ValAt(k, h)' = (RowAt(k, h)' > 0 /\ ledger'[RowAt(k, h)'].val)
      BY DEF ValAt
    <3> QED BY ONLY <2>4, <3>3, <3>4, <3>5, <3>6, Zenon
  <2> QED BY <2>2, <2>4, <2>5
<1>12. Pending' = [k \in Holders |-> Value(Seen, k)']
  BY PendingNext
<1>13. Pending' = Log!Top(Versions)'
  <2>1. Log!Top(Versions)' = IF w = <<>> THEN [k \in Holders |-> FALSE] ELSE w[Len(w)]
    BY DEF Log!Top, Log!Nobody, Holders
  <2>2. CASE m = 0
    <3>1. w = <<>> /\ arg = -1
      BY <1>2, <1>10, <2>2
    <3>2. \A k \in Holders : Value(Seen, k)' = FALSE
      BY <1>11, <3>1
    <3> QED BY <1>12, <2>1, <3>1, <3>2
  <2>3. CASE m # 0
    <3>1. PICK i \in 1..m : i = m /\ i - 1 = arg
      BY <1>2, <2>3
    <3>2. w # <<>> /\ w[Len(w)] = w[i]
      BY <1>10, <2>3, <3>1
    <3>3. w[i] = [k \in Holders |-> ValAt(k, i - 1)']
      BY <1>7
    <3>4. \A k \in Holders : Value(Seen, k)' = ValAt(k, i - 1)'
      BY <1>11, <3>1
    <3> QED BY <1>12, <2>1, <3>2, <3>3, <3>4
  <2> QED BY <2>2, <2>3
<1> QED
  BY <1>3, <1>10, <1>13

(* Every step of the store is one of PermissionLog, or none.               *)
LEMMA StepLog ==
  ASSUME StoreInv, StoreInv', [Next]_vars
  PROVE  [Log!Next]_(Log!vars)
<1>1. Pending' \in Log!Version
  <2>1. /\ Pending' = [k \in Holders |-> Value(Seen, k)']
        /\ \A k \in Holders : Value(Seen, k)' \in BOOLEAN
    BY PendingNext
  <2> QED BY <2>1 DEF Log!Version
<1>2. CASE UNCHANGED db
  <2>1. Versions' = Versions
    BY <1>2, StepLedger, VersionsKept DEF StoreInv
  <2> QED BY <1>1, <2>1 DEF Log!Next, Log!Update, Versions
<1>3. CASE CommitDb
  <2>1. Versions' = Append(Versions, Pending) /\ Pending' = Pending
    BY <1>3, CommitVersions
  <2> QED BY <2>1 DEF Log!Next, Log!Commit, Versions
<1>4. CASE RollBackDb
  <2>1. /\ \E n \in 0..Len(Versions) : Versions' = SubSeq(Versions, 1, n)
        /\ Pending' = Log!Top(Versions)'
    BY <1>4, RollBackVersions
  <2> QED BY <2>1 DEF Log!Next, Log!RollBack, Versions
<1> QED
  BY <1>2, <1>3, <1>4
  DEF Next, vars, Disk, AcceptTx, ClearMemPool, CheckBlockPermissions, VerifyBegin, VerifyGrant,
      VerifyBlock, VerifyEnd, CommitBegin, CommitRow, CommitHead, CommitDbFails, CommitCounts,
      RollBackBegin, RollBackDbFails, RollBackHead, Crash, Repair, Open

LEMMA InitLog == Init => Log!Init
<1> SUFFICES ASSUME Init PROVE Log!Init
  OBVIOUS
<1>1. db.block + 1 = 0 /\ db.val = [k \in Keys |-> FALSE] /\ mem.pool = <<>> /\ pc = "up"
      /\ mem.copiedRow = 0 /\ pc \notin Down /\ ~(0 > 0)
  BY DEF Init, ZeroMem, Down
<1>2. Versions = <<>>
  BY <1>1 DEF Versions
<1>3. ASSUME NEW k \in Holders PROVE GetPermission(mem, k).val = FALSE
  <2>1. GetPermission(mem, k).val = db.val[k] /\ k \in Keys
    BY <1>1, GetFresh DEF Holders, Keys
  <2> QED BY <1>1, <2>1
<1>4. Pending = [k \in Holders |-> GetPermission(mem, k).val]
  BY <1>1 DEF Pending
<1>5. Pending = Log!Nobody
  BY <1>3, <1>4 DEF Log!Nobody
<1> QED
  BY <1>2, <1>5 DEF Log!Init, Versions

(* The ledger file, the database and the rows in memory behave as one      *)
(* version of the permissions per block and a pending one: the batch of a  *)
(* commit is the moment a block's permissions become permanent, the batch  *)
(* of a roll back the moment they are gone, and every other write, failed  *)
(* batch, crash and restart changes no version.                            *)
THEOREM Implements == Spec => LogSpec
<1>1. Init => Log!Init
  BY InitLog
<1>2. StoreInv /\ StoreInv' /\ [Next]_vars => [Log!Next]_(Log!vars)
  BY StepLog
<1> QED
  BY <1>1, <1>2, StoreInvariant, PTL DEF Spec, LogSpec, Log!Spec
=============================================================================
