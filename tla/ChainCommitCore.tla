-------------------------- MODULE ChainCommitCore ---------------------------
(***************************************************************************)
(* The inductive invariant of ChainCommit: where every store stands at     *)
(* each step of ConnectTip, DisconnectTip, FlushStateToDisk and            *)
(* LoadBlockIndexDB, proved to hold whatever crashes and whatever write    *)
(* fails. ChainCommitProofs draws the checked properties from it.          *)
(*                                                                         *)
(* What a chain is follows from ChainAssumption. That any part of a chain  *)
(* is the chain of the block it ends in (ChainParts) takes an induction    *)
(* over heights, by the least height at which it could fail.               *)
(***************************************************************************)
EXTENDS ChainCommit, WellFoundedInduction, TLAPS

-----------------------------------------------------------------------------
(* The tree of blocks.                                                     *)

LessThan == OpToRel(<, Nat)

(* Every set of natural numbers that is not empty has a least element.     *)
LEMMA LeastElement ==
  ASSUME NEW S \in SUBSET Nat, S # {}
  PROVE  \E n \in S : \A m \in S : n <= m
<1>1. IsWellFoundedOn(LessThan, Nat)
  BY NatLessThanWellFounded, Zenon DEF LessThan
<1>2. PICK n \in S : \A m \in S : ~(<<m, n>> \in LessThan)
  BY <1>1, WFMin
<1>3. LessThan = {ss \in Nat \X Nat : ss[1] < ss[2]}
  BY Zenon DEF LessThan, OpToRel
<1>4. ASSUME NEW m \in S PROVE n <= m
  <2>1. m \in Nat /\ n \in Nat /\ <<m, n>> \notin LessThan
    BY <1>2
  <2>2. <<m, n>> \in Nat \X Nat /\ <<m, n>>[1] = m /\ <<m, n>>[2] = n
    BY <2>1
  <2>3. ~(m < n)
    BY <2>1, <2>2, <1>3
  <2> QED BY <2>1, <2>3
<1> QED
  BY <1>4

(* A chain ends in its block and is one longer than that of the previous.  *)
LEMMA ChainEnds ==
  ASSUME NEW b \in Blocks
  PROVE  /\ Chain[b] \in Seq(Blocks) /\ Len(Chain[b]) \in Nat \ {0}
         /\ Chain[b][Len(Chain[b])] = b
<1>1. CASE b = Genesis
  BY <1>1, ChainAssumption
<1>2. CASE b # Genesis
  <2>1. Prev[b] \in Blocks /\ Chain[Prev[b]] \in Seq(Blocks)
    BY <1>2, ChainAssumption
  <2>2. Chain[b] = Append(Chain[Prev[b]], b)
    BY <1>2, ChainAssumption
  <2> QED
    BY <1>2, <2>1, <2>2
<1> QED
  BY <1>1, <1>2

(* The chain of a block is that of the previous block with the block at    *)
(* its end.                                                                *)
LEMMA ChainGrows ==
  ASSUME NEW b \in Blocks \ {Genesis}
  PROVE  /\ Prev[b] \in Blocks
         /\ Len(Chain[b]) = Len(Chain[Prev[b]]) + 1
         /\ Chain[b] = Append(Chain[Prev[b]], b)
         /\ \A i \in 1..Len(Chain[Prev[b]]) : Chain[b][i] = Chain[Prev[b]][i]
<1>1. Prev[b] \in Blocks /\ Chain[Prev[b]] \in Seq(Blocks)
  BY ChainAssumption
<1>2. Chain[b] = Append(Chain[Prev[b]], b)
  BY ChainAssumption
<1> QED
  BY <1>1, <1>2

(* Any part of a chain, from its start, is the chain of the block it ends  *)
(* in.                                                                     *)
LEMMA ChainParts ==
  \A b \in Blocks : \A i \in 1..Len(Chain[b]) :
     /\ Len(Chain[Chain[b][i]]) = i
     /\ \A j \in 1..i : Chain[Chain[b][i]][j] = Chain[b][j]
<1> DEFINE Good(b) == \A i \in 1..Len(Chain[b]) :
                        /\ Len(Chain[Chain[b][i]]) = i
                        /\ \A j \in 1..i : Chain[Chain[b][i]][j] = Chain[b][j]
           Bad == {k \in Nat : \E b \in Blocks : k = Len(Chain[b]) /\ ~Good(b)}
<1> SUFFICES ASSUME NEW c \in Blocks, ~Good(c) PROVE FALSE
  OBVIOUS
<1> HIDE DEF Good
<1>1. Bad \in SUBSET Nat /\ Len(Chain[c]) \in Bad
  <2>1. Len(Chain[c]) \in Nat
    BY ChainEnds
  <2> QED BY <2>1
<1>2. PICK n \in Bad : \A m \in Bad : n <= m
  <2> HIDE DEF Bad
  <2> QED BY <1>1, LeastElement
<1>3. PICK b \in Blocks : n = Len(Chain[b]) /\ ~Good(b)
  BY <1>2
<1>4. b # Genesis
  <2> SUFFICES ASSUME b = Genesis PROVE Good(b)
    BY <1>3
  <2>1. Len(Chain[b]) = 1 /\ Chain[b][1] = b
    BY ChainAssumption
  <2> QED BY <2>1 DEF Good
<1>5. /\ Prev[b] \in Blocks /\ Len(Chain[b]) = Len(Chain[Prev[b]]) + 1
      /\ Len(Chain[Prev[b]]) \in Nat
      /\ \A i \in 1..Len(Chain[Prev[b]]) : Chain[b][i] = Chain[Prev[b]][i]
      /\ Chain[b][Len(Chain[b])] = b
  <2>1. b \in Blocks \ {Genesis}
    BY <1>4
  <2>2. Prev[b] \in Blocks
    BY <2>1, ChainGrows
  <2>3. Len(Chain[Prev[b]]) \in Nat
    BY <2>2, ChainEnds
  <2>4. Chain[b][Len(Chain[b])] = b
    BY ChainEnds
  <2> QED BY <2>1, <2>3, <2>4, ChainGrows
<1>6. Good(Prev[b])
  <2>1. Len(Chain[Prev[b]]) < n
    BY <1>3, <1>5
  <2>2. Len(Chain[Prev[b]]) \notin Bad
    <3> HIDE DEF Bad
    <3> QED BY <1>1, <1>2, <2>1, <1>5
  <2> QED BY <1>5, <2>2
<1>7. Good(b)
  <2> SUFFICES ASSUME NEW i \in 1..Len(Chain[b])
      PROVE  /\ Len(Chain[Chain[b][i]]) = i
             /\ \A j \in 1..i : Chain[Chain[b][i]][j] = Chain[b][j]
    BY DEF Good
  <2>1. CASE i = Len(Chain[b])
    BY <2>1, <1>5
  <2>2. CASE i # Len(Chain[b])
    <3>1. i \in 1..Len(Chain[Prev[b]]) /\ Chain[b][i] = Chain[Prev[b]][i]
      BY <2>2, <1>5
    <3>2. \A j \in 1..i : Chain[b][j] = Chain[Prev[b]][j]
      BY <3>1, <1>5
    <3> QED BY <1>6, <3>1, <3>2 DEF Good
  <2> QED BY <2>1, <2>2
<1> QED BY <1>3, <1>7

(* Heights count from the genesis block.                                   *)
LEMMA HeightFacts ==
  ASSUME NEW b \in Blocks
  PROVE  /\ Height(b) \in Nat /\ Len(Chain[b]) = Height(b) + 1
         /\ b = Genesis => Height(b) = 0
         /\ b # Genesis => Height(Prev[b]) = Height(b) - 1
<1>1. Len(Chain[b]) \in Nat \ {0}
  BY ChainEnds
<1>2. b = Genesis => Len(Chain[b]) = 1
  <2>1. Chain[Genesis] = <<Genesis>>
    BY ChainAssumption
  <2> QED BY <2>1
<1>3. b # Genesis => Prev[b] \in Blocks /\ Len(Chain[b]) = Len(Chain[Prev[b]]) + 1
  BY ChainGrows
<1>4. b # Genesis => Len(Chain[Prev[b]]) \in Nat
  BY <1>3, ChainEnds
<1> QED
  BY <1>1, <1>2, <1>3, <1>4 DEF Height

(* Two blocks never have the same chain.                                   *)
LEMMA ChainInjective ==
  ASSUME NEW a \in Blocks, NEW b \in Blocks, Chain[a] = Chain[b]
  PROVE  a = b
  BY ChainEnds

(* The blocks of a chain.                                                  *)
LEMMA ElemsFacts ==
  ASSUME NEW b \in Blocks
  PROVE  /\ b \in Elems(Chain[b]) /\ Genesis \in Elems(Chain[b])
         /\ Elems(Chain[b]) \subseteq Blocks
         /\ b = Genesis => Elems(Chain[b]) = {Genesis}
         /\ b # Genesis => /\ Elems(Chain[b]) = Elems(Chain[Prev[b]]) \cup {b}
                           /\ b \notin Elems(Chain[Prev[b]])
<1>1. b \in Elems(Chain[b]) /\ Elems(Chain[b]) \subseteq Blocks
  BY ChainEnds DEF Elems
<1>2. Genesis \in Elems(Chain[b])
  <2>1. Chain[b][1] \in Blocks /\ 1 \in 1..Len(Chain[b])
    BY ChainEnds
  <2>2. Len(Chain[Chain[b][1]]) = 1
    BY <2>1, ChainParts
  <2>4. Chain[b][1] = Genesis
    <3> SUFFICES ASSUME Chain[b][1] # Genesis PROVE FALSE
      OBVIOUS
    <3>1. /\ Prev[Chain[b][1]] \in Blocks
          /\ 1 = Len(Chain[Prev[Chain[b][1]]]) + 1
      BY <2>1, <2>2, ChainGrows
    <3>2. Len(Chain[Prev[Chain[b][1]]]) \in Nat \ {0}
      BY <3>1, ChainEnds
    <3> QED BY <3>1, <3>2
  <2> QED BY <2>1, <2>4 DEF Elems
<1>3. b = Genesis => Elems(Chain[b]) = {Genesis}
  <2>1. Chain[Genesis] = <<Genesis>>
    BY ChainAssumption
  <2>2. Elems(<<Genesis>>) = {Genesis}
    BY DEF Elems
  <2> QED BY <2>1, <2>2
<1>4. b # Genesis => Elems(Chain[b]) = Elems(Chain[Prev[b]]) \cup {b}
  <2> SUFFICES ASSUME b # Genesis PROVE Elems(Chain[b]) = Elems(Chain[Prev[b]]) \cup {b}
    OBVIOUS
  <2>1. /\ Prev[b] \in Blocks /\ Len(Chain[b]) = Len(Chain[Prev[b]]) + 1
        /\ \A i \in 1..Len(Chain[Prev[b]]) : Chain[b][i] = Chain[Prev[b]][i]
    BY ChainGrows
  <2>2. Len(Chain[Prev[b]]) \in Nat /\ Chain[b][Len(Chain[b])] = b
    BY <2>1, ChainEnds
  <2>3. 1..Len(Chain[b]) = 1..Len(Chain[Prev[b]]) \cup {Len(Chain[b])}
    BY <2>1, <2>2
  <2> QED BY <2>1, <2>2, <2>3 DEF Elems
<1>5. b # Genesis => b \notin Elems(Chain[Prev[b]])
  <2> SUFFICES ASSUME b # Genesis, NEW i \in 1..Len(Chain[Prev[b]]), Chain[Prev[b]][i] = b
               PROVE  FALSE
    BY DEF Elems
  <2>1. Prev[b] \in Blocks /\ Len(Chain[b]) = Len(Chain[Prev[b]]) + 1
    BY ChainGrows
  <2>2. Len(Chain[Prev[b]]) \in Nat
    BY <2>1, ChainEnds
  <2>3. Len(Chain[b]) = i
    BY <2>1, ChainParts
  <2> QED BY <2>1, <2>2, <2>3
<1> QED BY <1>1, <1>2, <1>3, <1>4, <1>5

(* Every block on a chain has its own chain on it.                         *)
LEMMA ElemsNested ==
  ASSUME NEW b \in Blocks, NEW a \in Elems(Chain[b])
  PROVE  a \in Blocks /\ Elems(Chain[a]) \subseteq Elems(Chain[b])
<1>1. PICK i \in 1..Len(Chain[b]) : a = Chain[b][i]
  BY DEF Elems
<1>2. a \in Blocks
  BY ElemsFacts
<1>3. Len(Chain[a]) = i /\ \A j \in 1..i : Chain[a][j] = Chain[b][j]
  BY <1>1, ChainParts
<1>4. Len(Chain[b]) \in Nat
  BY ChainEnds
<1> QED BY <1>1, <1>2, <1>3, <1>4 DEF Elems

(* The block to connect next on the way to b.                              *)
LEMMA NextOnChain ==
  ASSUME NEW b \in Blocks, NEW a \in Elems(Chain[b]), a # b
  PROVE  LET c == Chain[b][Len(Chain[a]) + 1]
         IN c \in Elems(Chain[b]) \ {Genesis} /\ Prev[c] = a
<1> DEFINE c == Chain[b][Len(Chain[a]) + 1]
<1>1. PICK i \in 1..Len(Chain[b]) : a = Chain[b][i]
  BY DEF Elems
<1>2. a \in Blocks /\ Len(Chain[a]) = i
  BY <1>1, ChainParts, ChainEnds
<1>3. i + 1 \in 1..Len(Chain[b]) /\ c = Chain[b][i + 1]
  BY <1>1, <1>2, ChainEnds
<1>4. c \in Blocks /\ c \in Elems(Chain[b])
  BY <1>3, ChainEnds DEF Elems
<1>5. Len(Chain[c]) = i + 1 /\ Chain[c][i] = a
  BY <1>1, <1>3, ChainParts
<1> HIDE DEF c
<1>6. c # Genesis
  <2>1. c = Genesis => Height(c) = 0 /\ Len(Chain[c]) = Height(c) + 1
    BY <1>4, HeightFacts
  <2> QED BY <1>1, <1>5, <2>1
<1>7. Prev[c] \in Blocks /\ Len(Chain[c]) = Len(Chain[Prev[c]]) + 1
      /\ \A k \in 1..Len(Chain[Prev[c]]) : Chain[c][k] = Chain[Prev[c]][k]
  BY <1>4, <1>6, ChainGrows
<1>8. Len(Chain[Prev[c]]) \in Nat \ {0} /\ Chain[Prev[c]][Len(Chain[Prev[c]])] = Prev[c]
  BY <1>7, ChainEnds
<1>9. Prev[c] = a
  BY <1>1, <1>5, <1>7, <1>8
<1> QED BY <1>4, <1>6, <1>9 DEF c

(* Taking blocks off a chain.                                              *)
LEMMA RollBackFacts ==
  ASSUME NEW a \in Blocks, NEW b \in Blocks,
         a = b \/ (b # Genesis /\ a = Prev[b])
  PROVE  /\ RollBackTo(Chain[b], Height(a)) = Chain[a]
         /\ SubSeq(Chain[b], 1, Height(a) + 1) = Chain[a]
<1>0. /\ Chain[a] \in Seq(Blocks) /\ Chain[b] \in Seq(Blocks)
      /\ Height(a) + 1 = Len(Chain[a]) /\ Len(Chain[a]) \in Nat
  BY ChainEnds, HeightFacts
<1>1. /\ Len(Chain[a]) <= Len(Chain[b])
      /\ \A i \in 1..Len(Chain[a]) : Chain[a][i] = Chain[b][i]
  <2>1. CASE a = b
    BY <2>1, <1>0
  <2>2. CASE b # Genesis /\ a = Prev[b]
    <3>1. Len(Chain[b]) = Len(Chain[a]) + 1 /\ \A i \in 1..Len(Chain[a]) : Chain[b][i] = Chain[a][i]
      BY <2>2, ChainGrows
    <3> QED BY <3>1, <1>0
  <2> QED BY <2>1, <2>2
<1>2. RollBackTo(Chain[b], Height(a)) = Chain[a]
  BY <1>0, <1>1 DEF RollBackTo
<1>3. SubSeq(Chain[b], 1, Height(a) + 1) = Chain[a]
  BY <1>0, <1>1
<1> QED BY <1>2, <1>3
-----------------------------------------------------------------------------
(* The inductive invariant. Every store always holds the chain of a block. *)
(* Place says which block, at each step of the code: the stores are never  *)
(* more than one block apart, and apart in a known order.                  *)

Before(b) == IF b = Genesis THEN b ELSE Prev[b]
Near(b) == {Chain[b], Chain[Before(b)]}

CoinsAt(b) == coinsTip = b /\ coins = b

(* All the stores hold the active chain.                                   *)
Synced == /\ CoinsAt(tip)
          /\ perms = OnTip /\ entDb = OnTip /\ entRow = OnTip /\ txdb = OnTip

(* A wallet error has left the coins a block ahead of the tip.             *)
WalletLate == /\ coinsTip = coins /\ coins # Genesis /\ Prev[coins] = tip
              /\ perms \in Near(coins) /\ entDb \in Near(coins)
              /\ entRow = entDb /\ txdb = OnTip

(* After a start some of the stores lack the last block.                   *)
Lagging == /\ CoinsAt(tip) /\ tip # Genesis
           /\ {perms, entDb, txdb} \subseteq Near(tip) /\ entRow = entDb

(* ConnectTip has n of the stores behind it, in the order of its writes.   *)
Child == blk # Genesis /\ Prev[blk] = tip
Adding(n) == /\ dir = "connect" /\ Child /\ caller # "shift"
             /\ perms = Chain[IF n >= 1 THEN blk ELSE tip]
             /\ entRow = Chain[IF n >= 2 THEN blk ELSE tip]
             /\ entDb = Chain[IF n >= 3 THEN blk ELSE tip]
             /\ coinsTip = (IF n >= 4 THEN blk ELSE tip)
             /\ coins = (IF n >= 5 THEN blk ELSE tip)
             /\ txdb = Chain[IF n >= 6 THEN blk ELSE tip]

(* DisconnectTip before the coins are written.                             *)
Taking == /\ dir = "disconnect" /\ blk = tip /\ tip # Genesis
          /\ {perms, entDb, txdb} \subseteq Near(tip) /\ entRow = entDb
          /\ coins = tip
          /\ caller = "shift" => target = Prev[tip]

(* The stores are rolled back to block g: each holds it or one more.       *)
Above(y, g) == y = g \/ (y # Genesis /\ Prev[y] = g)
Dropping(g) == \E y \in Blocks :
  /\ Above(y, g)
  /\ {perms, entDb, entRow, txdb} \subseteq {Chain[y], Chain[g]}
  /\ coinsTip = coins /\ coins \in {y, g} /\ (coins # g => txdb = Chain[g])

Goal == IF dir = "final" THEN tip ELSE Prev[blk]
RollingBack == /\ dir # "connect" /\ Dropping(Goal)
               /\ dir = "disconnect" => /\ blk = tip /\ tip # Genesis /\ coins = Goal
                                        /\ caller = "shift" => target = Goal

(* What a crash may leave.                                                 *)
Spanning == \E x \in Blocks : {perms, entDb, entRow, txdb, Chain[coins]} \subseteq Near(x)
EntRowOK == \/ entRow = entDb
            \/ \E x \in Blocks \ {Genesis} : entDb = Chain[Prev[x]] /\ entRow = Chain[x]

Place ==
  /\ pc = "idle" => Synced \/ WalletLate
  /\ pc = "step" => \/ Synced /\ (caller = "shift" => target = tip)
                    \/ WalletLate /\ caller = "run" /\ oldTip = tip /\ target # tip
                    \/ Lagging /\ caller = "shift" /\ target = Prev[tip]
  /\ pc = "check" => /\ dir = "connect" /\ Child
                     /\ (Synced /\ caller # "shift") \/ (WalletLate /\ caller = "run")
  /\ pc \in {"index", "perms"} => Adding(0)
  /\ pc = "entRow" => Adding(1)
  /\ pc = "entDb" => Adding(2)
  /\ pc = "entUndo" => Adding(1) \/ Adding(2)
  /\ pc = "permUndo" => Adding(1)
  /\ pc = "flushIndex" => Adding(3) \/ (Taking /\ coinsTip = tip)
  /\ pc = "flushCoins" => Adding(4) \/ (Taking /\ coinsTip = Prev[blk])
  /\ pc \in {"wallet", "walletFile", "walletDb"} => Adding(5)
  /\ pc = "tip" => Adding(6)
  /\ pc = "erase" => Taking /\ coinsTip = tip
  /\ pc \in {"rbPerms", "rbEntDb", "rbEntRow", "rbWallet", "rbWalletDb", "dTip"} => RollingBack
  /\ pc \in {"rbPerms", "rbEntDb", "rbWallet", "rbWalletDb", "dTip"} => entRow = entDb
  /\ pc \in {"rbEntDb", "rbEntRow", "rbWallet", "rbWalletDb", "dTip"} => perms = Chain[Goal]
  /\ pc \in {"rbEntRow", "rbWallet", "rbWalletDb", "dTip"} => entDb = Chain[Goal]
  /\ pc = "rbWalletDb" => txdb # Chain[Goal]
  /\ pc = "dTip" => txdb = Chain[Goal] /\ dir = "disconnect"
  /\ pc = "activate" => Synced
  /\ pc = "final" => Dropping(tip) /\ entRow = entDb
  /\ pc = "load" => CoinsAt(tip) /\ entRow = entDb /\ Spanning
  /\ pc = "aborted" => WalletLate
  /\ pc = "refused" => ~EntitiesOpen
  /\ pc \in {"down", "refused"} => Spanning /\ EntRowOK

(* The block index knows the chain of every block in it, and so does the   *)
(* one on disk; on disk are the blocks of the coins, with their undo data. *)
Closed(S) == Genesis \in S /\ \A b \in S : Elems(Chain[b]) \subseteq S

ConnectSteps == {"check", "index", "perms", "entRow", "entDb", "entUndo", "permUndo",
                 "flushIndex", "flushCoins", "wallet", "walletFile", "walletDb", "tip"}
DisconnectSteps == {"erase", "flushIndex", "flushCoins", "rbPerms", "rbEntDb",
                    "rbEntRow", "rbWallet", "rbWalletDb", "dTip"}
TargetUsed == \/ pc = "step" \/ pc \in ConnectSteps
              \/ pc \in DisconnectSteps /\ dir = "disconnect"

IndexOK ==
  /\ Closed(blockIndex.known) /\ Closed(diskIndex.known)
  /\ diskIndex.known \subseteq blockIndex.known
  /\ diskIndex.undo \subseteq blockIndex.undo
  /\ Elems(Chain[coins]) \ {Genesis} \subseteq diskIndex.known \cap diskIndex.undo
  /\ TargetUsed => target \in blockIndex.known
  /\ pc \in ConnectSteps /\ dir = "connect" => blk \in blockIndex.known
  /\ pc \in {"perms", "entRow", "entDb", "entUndo", "permUndo", "flushIndex"}
       /\ dir = "connect" => blk \in blockIndex.undo
  /\ pc = "flushCoins" /\ dir = "connect" => blk \in diskIndex.known \cap diskIndex.undo

Types ==
  /\ blockIndex \in IndexType /\ diskIndex \in IndexType
  /\ tip \in Blocks /\ coinsTip \in Blocks /\ coins \in Blocks
  /\ target \in Blocks /\ oldTip \in Blocks /\ blk \in Blocks
  /\ pc \in Steps /\ caller \in {"run", "shift", "reactivate"}
  /\ dir \in {"connect", "disconnect", "final"}
  /\ fInvalid \in BOOLEAN /\ faults \in 0..MaxFaults

Core == Types /\ Place /\ IndexOK

(* Every block is at or just above the one before it.                      *)
LEMMA BeforeFacts ==
  ASSUME NEW b \in Blocks
  PROVE  Before(b) \in Blocks /\ Above(b, Before(b))
  BY ChainGrows DEF Before, Above

(* Where a step returns to.                                                *)
LEMMA ReturnFacts ==
  ASSUME NEW ok \in BOOLEAN, caller \in {"run", "shift", "reactivate"}
  PROVE  /\ caller = "run" => Return(ok) = "idle"
         /\ caller = "shift" => Return(ok) = "activate"
         /\ caller = "reactivate" => Return(ok) = IF ok THEN "activate" ELSE "final"
  BY DEF Return

(* Taking the lowest of three numbers.                                     *)
LEMMA LowestOfThree ==
  ASSUME NEW k \in Nat, NEW l \in Nat, NEW m \in Nat
  PROVE  LET h == Lowest({k, l, m})
         IN h \in {k, l, m} /\ h <= k /\ h <= l /\ h <= m
<1>1. \E h \in {k, l, m} : \A j \in {k, l, m} : h <= j
  <2>1. CASE k <= l /\ k <= m
    BY <2>1
  <2>2. CASE l <= k /\ l <= m
    BY <2>2
  <2>3. CASE m <= k /\ m <= l
    BY <2>3
  <2> QED BY <2>1, <2>2, <2>3
<1>2. \A j \in {k, l, m} : Lowest({k, l, m}) <= j /\ Lowest({k, l, m}) \in {k, l, m}
  BY <1>1 DEF Lowest
<1> QED BY <1>2

(* When the coins are at the tip and no two stores are more than a block   *)
(* apart, block_to_rollback is the block before the tip if one of the      *)
(* stores lacks the tip, and otherwise no store is below it.               *)
LEMMA LoadFacts ==
  ASSUME Types, CoinsAt(tip), entRow = entDb, Spanning
  PROVE  IF blockToRollback < Height(tip)
         THEN Lagging /\ OnTip[blockToRollback + 1] = Prev[tip]
         ELSE Dropping(tip)
<1> DEFINE p == Len(perms) - 1
           e == Len(entDb) - 1
           w == Len(txdb) - 1
<1>1. PICK x \in Blocks : {perms, entDb, entRow, txdb, Chain[coins]} \subseteq Near(x)
  BY DEF Spanning
<1>2. Before(x) \in Blocks /\ Above(x, Before(x))
  BY BeforeFacts
<1>3. /\ Height(x) \in Nat /\ Len(Chain[x]) = Height(x) + 1
      /\ Height(Before(x)) \in Nat /\ Len(Chain[Before(x)]) = Height(Before(x)) + 1
  BY <1>2, HeightFacts
<1>4. p \in Nat /\ e \in Nat /\ w \in Nat
  BY <1>1, <1>3 DEF Near
<1>5. blockToRollback = Lowest({p, e, w})
  BY DEF blockToRollback, WalletBlock
<1>6. /\ blockToRollback \in {p, e, w} /\ blockToRollback <= p
      /\ blockToRollback <= e /\ blockToRollback <= w
  BY <1>4, <1>5, LowestOfThree
<1>7. tip \in Blocks /\ (tip = x \/ tip = Before(x))
  <2>1. tip \in Blocks /\ Chain[tip] \in Near(x)
    BY <1>1 DEF Types, CoinsAt
  <2> QED BY <2>1, <1>2, ChainInjective DEF Near
<1>8. CASE x = Before(x)
  <2>1. perms = OnTip /\ entDb = OnTip /\ entRow = OnTip /\ txdb = OnTip
    BY <1>1, <1>7, <1>8 DEF Near, OnTip
  <2>2. ~(blockToRollback < Height(tip))
    BY <1>3, <1>6, <1>7, <1>8, <2>1 DEF OnTip
  <2>3. Dropping(tip)
    BY <2>1, <1>7 DEF Dropping, Above, CoinsAt, OnTip
  <2> QED BY <2>2, <2>3
<1>9. CASE x # Before(x)
  <2>1. x # Genesis /\ Before(x) = Prev[x]
    BY <1>9 DEF Before
  <2>2. Height(Prev[x]) = Height(x) - 1
    BY <2>1, HeightFacts
  <2>3. CASE tip = Before(x)
    <3>1. ~(blockToRollback < Height(tip))
      <4>1. perms \in {Chain[x], Chain[tip]} /\ entDb \in {Chain[x], Chain[tip]}
            /\ txdb \in {Chain[x], Chain[tip]}
        BY <1>1, <2>3 DEF Near
      <4>2. Len(Chain[x]) = Height(tip) + 2 /\ Len(Chain[tip]) = Height(tip) + 1 /\ Height(tip) \in Nat
        BY <1>3, <2>1, <2>2, <2>3
      <4>3. p >= Height(tip) /\ e >= Height(tip) /\ w >= Height(tip)
        BY <4>1, <4>2
      <4> HIDE DEF p, e, w
      <4> QED BY <1>6, <4>2, <4>3, <1>4
    <3>2. Dropping(tip)
      BY <1>1, <2>1, <2>3 DEF Dropping, Above, CoinsAt, Near
    <3> QED BY <3>1, <3>2
  <2>4. CASE tip = x
    <3>1. CASE blockToRollback < Height(tip)
      <4>1. Lagging
        BY <1>1, <2>1, <2>4 DEF Lagging, CoinsAt
      <4>2. blockToRollback + 1 = Len(Chain[Prev[x]])
        BY <1>1, <1>3, <1>6, <2>1, <2>2, <2>4, <3>1 DEF Near
      <4>3. Prev[x] \in Blocks /\ Chain[x][Len(Chain[Prev[x]])] = Chain[Prev[x]][Len(Chain[Prev[x]])]
        <5>1. Prev[x] \in Blocks /\ Len(Chain[Prev[x]]) \in 1..Len(Chain[Prev[x]])
          BY <2>1, <1>2, ChainEnds
        <5> QED BY <5>1, <2>1, ChainGrows
      <4>4. Chain[Prev[x]][Len(Chain[Prev[x]])] = Prev[x]
        BY <4>3, ChainEnds
      <4> QED BY <3>1, <4>1, <4>2, <4>3, <4>4, <2>4 DEF OnTip
    <3>2. CASE ~(blockToRollback < Height(tip))
      <4>1. perms = Chain[x] /\ entDb = Chain[x] /\ txdb = Chain[x]
        BY <1>1, <1>3, <1>6, <2>1, <2>2, <2>4, <3>2 DEF Near
      <4>2. Dropping(tip)
        BY <4>1, <2>4 DEF Dropping, Above, CoinsAt
      <4> QED BY <3>2, <4>2
    <3> QED BY <3>1, <3>2
  <2> QED BY <1>7, <2>3, <2>4
<1> QED BY <1>8, <1>9

(* The next block on the way to the target is a child of the tip.          *)
LEMMA BeginConnectFacts ==
  ASSUME Types, BeginConnect
  PROVE  /\ tip # target /\ blk' \in Elems(Chain[target])
         /\ blk' \in Blocks \ {Genesis} /\ Prev[blk'] = tip
<1>1. target \in Blocks /\ tip \in Elems(Chain[target]) /\ tip # target
  BY DEF Types, BeginConnect, StepDone
<1>2. blk' = Chain[target][Len(Chain[tip]) + 1]
  BY DEF BeginConnect, OnTip
<1>3. blk' \in Elems(Chain[target]) \ {Genesis} /\ Prev[blk'] = tip
  BY <1>1, <1>2, NextOnChain
<1>4. Elems(Chain[target]) \subseteq Blocks
  BY <1>1, ElemsFacts
<1> QED BY <1>1, <1>3, <1>4

(* One step keeps the types of the variables that steer the code.          *)
LEMMA TypesStep ==
  ASSUME Types, Place, [Next]_vars
  PROVE  Types'
<1> USE DEF walletVars, indexVars, coinVars, storeVars, addrVars, poolVars, stepVars
<1>r. /\ Return(TRUE) \in {"idle", "activate", "final"}
      /\ Return(FALSE) \in {"idle", "activate", "final"}
  BY ReturnFacts DEF Types
<1>s. {"idle", "activate", "final", "down", "index", "entRow", "walletFile",
       "walletDb", "tip"} \subseteq Steps
  BY DEF Steps, Down
<1>f. Fault => faults' \in 0..MaxFaults
  BY ChainAssumption DEF Fault, Types
<1>i. Invalid => /\ blockIndex' \in IndexType /\ fInvalid' \in BOOLEAN
                 /\ pc' \in Steps
  BY <1>r, <1>s DEF Invalid, Types, IndexType
<1>1. ASSUME NEW b \in Blocks \ {Genesis}, AcceptBlock(b) PROVE Types'
  BY <1>1 DEF AcceptBlock, Types, IndexType
<1>2. ASSUME NEW t \in Txs, AcceptTx(t) PROVE Types'
  BY <1>2 DEF AcceptTx, Types
<1>3. ASSUME NEW b \in Blocks, Activate(b) PROVE Types'
  BY <1>3 DEF Activate, BeginStep, Types, Steps
<1>4. CASE PeriodicFlush
  BY <1>4 DEF PeriodicFlush, Types
<1>5. CASE BeginDisconnect
  BY <1>5, <1>r, <1>s DEF BeginDisconnect, Types, Steps, Down
<1>6. CASE BeginConnect
  <2>1. blk' \in Blocks
    BY <1>6, BeginConnectFacts
  <2> QED BY <1>6, <2>1 DEF BeginConnect, Types, Steps
<1>7. CASE Replay
  BY <1>7, <1>r, <1>s DEF Replay, Types
<1>8. CASE Connecting
  <2>1. CASE RefuseMiner
    BY <2>1, <1>r, <1>s DEF RefuseMiner, Invalid, Types, IndexType
  <2>2. CASE ConnectAborts
    BY <2>2 DEF ConnectAborts, Types, Steps, Down
  <2>3. CASE CheckTxs
    BY <2>3, <1>i, <1>r, <1>s DEF CheckTxs, Types
  <2>4. CASE WriteIndexes
    BY <2>4 DEF WriteIndexes, Types, IndexType, Steps
  <2>5. CASE CommitPerms
    BY <2>5, <1>i, <1>s, <1>f DEF CommitPerms, Types
  <2>6. CASE CommitEntRow
    BY <2>6, <1>f DEF CommitEntRow, Types, Steps
  <2>7. CASE CommitEntDb
    BY <2>7, <1>f DEF CommitEntDb, Types, Steps
  <2>8. CASE UndoEntRow
    BY <2>8 DEF UndoEntRow, Types, Steps
  <2>9. CASE UndoPerms
    BY <2>9, <1>r, <1>s DEF UndoPerms, Invalid, Types, IndexType
  <2>10. CASE FlushIndex
    <3>1. dir # "connect" => blk # Genesis
      BY <2>10 DEF FlushIndex, Place, Adding, Taking
    <3>2. blk # Genesis => Prev[blk] \in Blocks
      BY ChainGrows DEF Types
    <3> QED BY <2>10, <3>1, <3>2 DEF FlushIndex, FlushDirty, Types, Steps
  <2>11. CASE FlushCoins
    BY <2>11 DEF FlushCoins, Types, Steps
  <2>12. CASE WalletAddBlock
    BY <2>12, <1>r, <1>s, <1>f DEF WalletAddBlock, Types
  <2>13. CASE WalletCommitFile
    BY <2>13, <1>r, <1>s, <1>f DEF WalletCommitFile, Types
  <2>14. CASE WalletCommitDb
    BY <2>14, <1>r, <1>s, <1>f DEF WalletCommitDb, Types
  <2>15. CASE UpdateTip
    BY <2>15 DEF UpdateTip, Types, Steps
  <2> QED
    BY <1>8, <2>1, <2>2, <2>3, <2>4, <2>5, <2>6, <2>7, <2>8, <2>9, <2>10, <2>11,
       <2>12, <2>13, <2>14, <2>15 DEF Connecting
<1>9. CASE Disconnecting
  <2>1. CASE EraseIndex
    BY <2>1 DEF EraseIndex, Types, Steps
  <2>2. CASE RollBackPerms
    BY <2>2 DEF RollBackPerms, Types, Steps
  <2>3. CASE RollBackEntDb
    BY <2>3 DEF RollBackEntDb, Types, Steps
  <2>4. CASE RollBackEntRow
    BY <2>4 DEF RollBackEntRow, Types, Steps
  <2>5. CASE RollBackWallet
    BY <2>5 DEF RollBackWallet, AfterRollBack, Types, Steps
  <2>6. CASE RollBackWalletDb
    BY <2>6 DEF RollBackWalletDb, AfterRollBack, Types, Steps
  <2>7. CASE Resurrect
    <3>1. blk # Genesis
      BY <2>7 DEF Resurrect, Place, RollingBack
    <3>2. blk # Genesis => Prev[blk] \in Blocks
      BY ChainGrows DEF Types
    <3> QED BY <2>7, <3>1, <3>2 DEF Resurrect, Types, Steps
  <2> QED
    BY <1>9, <2>1, <2>2, <2>3, <2>4, <2>5, <2>6, <2>7 DEF Disconnecting
<1>10. CASE Load
  <2>1. IF blockToRollback < Height(tip)
        THEN Lagging /\ OnTip[blockToRollback + 1] = Prev[tip] ELSE Dropping(tip)
    BY <1>10, LoadFacts DEF Load, Place
  <2>2. tip # Genesis => Prev[tip] \in Blocks
    BY ChainGrows DEF Types
  <2>3. blockToRollback < Height(tip) => OnTip[blockToRollback + 1] \in Blocks
    BY <2>1, <2>2 DEF Lagging
  <2> QED BY <1>10, <2>3 DEF Load, BeginStep, Types, Steps
<1>11. CASE Reactivate
  BY <1>11 DEF Reactivate, BeginStep, Better, Candidates, Types, IndexType, Steps
<1>12. CASE FinalRollBack
  BY <1>12 DEF FinalRollBack, Types, Steps
<1>13. CASE Crash
  BY <1>13, <1>s, <1>f, ChainAssumption DEF Crash, Types
<1>14. CASE Refuse
  BY <1>14 DEF Refuse, Types, Steps, Down
<1>15. CASE Start
  BY <1>15 DEF Start, Types, Steps
<1>16. CASE UNCHANGED vars
  BY <1>16 DEF vars, Types
<1> QED
  BY <1>1, <1>2, <1>3, <1>4, <1>5, <1>6, <1>7, <1>8, <1>9, <1>10, <1>11, <1>12,
     <1>13, <1>14, <1>15, <1>16 DEF Next, Running

(* Rolling a store back to block g that holds g or one block more.         *)
LEMMA RollFacts ==
  ASSUME NEW y \in Blocks, NEW g \in Blocks, Above(y, g),
         NEW s \in {Chain[y], Chain[g]}
  PROVE  /\ RollBackTo(s, Height(g)) = Chain[g]
         /\ SubSeq(s, 1, Height(g) + 1) = Chain[g]
         /\ Height(g) < Len(s) - 1 <=> s # Chain[g]
<1>1. RollBackTo(Chain[g], Height(g)) = Chain[g] /\ SubSeq(Chain[g], 1, Height(g) + 1) = Chain[g]
  BY RollBackFacts
<1>2. RollBackTo(Chain[y], Height(g)) = Chain[g] /\ SubSeq(Chain[y], 1, Height(g) + 1) = Chain[g]
  BY RollBackFacts DEF Above
<1>3. Height(g) \in Nat /\ Len(Chain[g]) = Height(g) + 1 /\ Len(Chain[y]) = Height(y) + 1
  BY HeightFacts
<1>4. y # g => Height(g) = Height(y) - 1 /\ Height(y) \in Nat
  BY HeightFacts DEF Above
<1>5. y # g => Chain[y] # Chain[g]
  BY ChainInjective
<1> QED BY <1>1, <1>2, <1>3, <1>4, <1>5

(* RollBack is asked for the height of the block the stores are to end at. *)
LEMMA GoalFacts ==
  ASSUME Types, RollingBack
  PROVE  Goal \in Blocks /\ rollTo = Height(Goal)
<1>1. CASE dir = "final"
  BY <1>1 DEF Types, Goal, rollTo
<1>2. CASE dir # "final"
  <2>1. blk \in Blocks \ {Genesis}
    BY <1>2 DEF Types, RollingBack
  <2>2. Prev[blk] \in Blocks
    BY <2>1, ChainGrows
  <2>3. Height(Prev[blk]) = Height(blk) - 1
    BY <2>1, HeightFacts
  <2> QED BY <1>2, <2>2, <2>3 DEF Goal, rollTo
<1> QED BY <1>1, <1>2

(* At every moment no two stores are more than one block apart, and row 0  *)
(* of the entity ledger is that of the database or one block ahead.        *)
LEMMA PlaceSpans ==
  ASSUME Types, Place
  PROVE  Spanning /\ EntRowOK
<1> USE DEF OnTip
<1>t. tip \in Blocks /\ coins \in Blocks /\ blk \in Blocks
  BY DEF Types
<1>1. ASSUME Synced PROVE Spanning /\ EntRowOK
  BY <1>1, <1>t DEF Synced, CoinsAt, Spanning, EntRowOK, Near
<1>2. ASSUME WalletLate PROVE Spanning /\ EntRowOK
  BY <1>2, <1>t DEF WalletLate, Spanning, EntRowOK, Near, Before
<1>3. ASSUME Lagging PROVE Spanning /\ EntRowOK
  BY <1>3, <1>t DEF Lagging, CoinsAt, Spanning, EntRowOK, Near
<1>4. ASSUME NEW n \in 0..6, Adding(n) PROVE Spanning /\ EntRowOK
  <2>1. /\ blk \in Blocks \ {Genesis} /\ Prev[blk] = tip /\ Near(blk) = {Chain[blk], Chain[tip]}
    BY <1>4, <1>t DEF Adding, Child, Near, Before
  <2>2. {perms, entDb, entRow, txdb, Chain[coins]} \subseteq {Chain[blk], Chain[tip]}
    BY <1>4 DEF Adding
  <2>3. entRow = entDb \/ (entDb = Chain[tip] /\ entRow = Chain[blk])
    BY <1>4 DEF Adding
  <2> QED BY <2>1, <2>2, <2>3 DEF Spanning, EntRowOK
<1>5. ASSUME Taking PROVE Spanning /\ EntRowOK
  BY <1>5, <1>t DEF Taking, Spanning, EntRowOK, Near
<1>6. ASSUME NEW g \in Blocks, Dropping(g), entRow = entDb \/ entDb = Chain[g]
      PROVE  Spanning /\ EntRowOK
  <2>1. PICK y \in Blocks : /\ Above(y, g)
                            /\ {perms, entDb, entRow, txdb} \subseteq {Chain[y], Chain[g]}
                            /\ coins \in {y, g}
    BY <1>6 DEF Dropping
  <2>2. Chain[g] \in Near(y) /\ Chain[y] \in Near(y)
    BY <2>1 DEF Above, Near, Before
  <2>3. {perms, entDb, entRow, txdb, Chain[coins]} \subseteq Near(y)
    BY <2>1, <2>2
  <2>4. EntRowOK
    BY <2>1, <1>6 DEF Above, EntRowOK
  <2> QED BY <2>3, <2>4 DEF Spanning
<1>7. CASE pc \in {"idle", "step", "check", "activate", "aborted"}
  <2>1. Synced \/ WalletLate \/ Lagging
    BY <1>7 DEF Place
  <2> QED BY <2>1, <1>1, <1>2, <1>3
<1>8. CASE pc \in {"index", "perms", "entRow", "entDb", "entUndo", "permUndo",
                   "wallet", "walletFile", "walletDb", "tip"}
  <2>1. \E n \in 0..6 : Adding(n)
    <3>1. Adding(0) \/ Adding(1) \/ Adding(2) \/ Adding(5) \/ Adding(6)
      BY <1>8 DEF Place
    <3> HIDE DEF Adding
    <3> QED BY <3>1
  <2> QED BY <2>1, <1>4
<1>9. CASE pc \in {"flushIndex", "flushCoins", "erase"}
  <2>1. Adding(3) \/ Adding(4) \/ Taking
    BY <1>9 DEF Place
  <2>2. Taking \/ \E n \in 0..6 : Adding(n)
    BY <2>1
  <2> QED BY <2>2, <1>4, <1>5
<1>10. CASE pc \in {"rbPerms", "rbEntDb", "rbEntRow", "rbWallet", "rbWalletDb", "dTip"}
  <2>1. RollingBack /\ (entRow = entDb \/ entDb = Chain[Goal])
    BY <1>10 DEF Place
  <2>2. Goal \in Blocks
    BY <2>1, GoalFacts
  <2> QED BY <2>1, <2>2, <1>6 DEF RollingBack
<1>11. CASE pc = "final"
  BY <1>11, <1>6, <1>t DEF Place
<1>12. CASE pc \in {"load", "down", "refused"}
  BY <1>12 DEF Place, EntRowOK
<1>13. pc \in {"idle", "step", "check", "activate", "aborted"}
         \cup {"index", "perms", "entRow", "entDb", "entUndo", "permUndo",
                   "wallet", "walletFile", "walletDb", "tip"}
         \cup {"flushIndex", "flushCoins", "erase"}
         \cup {"rbPerms", "rbEntDb", "rbEntRow", "rbWallet", "rbWalletDb", "dTip"}
         \cup {"final", "load", "down", "refused"}
  BY DEF Types, Steps, Down
<1> QED BY <1>7, <1>8, <1>9, <1>10, <1>11, <1>12, <1>13

(* What a block that fails returns to, with the stores untouched.          *)
LEMMA InvalidPlace ==
  ASSUME Types, Invalid, Synced', tip' = tip, caller' = caller, caller # "shift"
  PROVE  Place'
<1>1. pc' \in {"idle", "activate"}
  BY ReturnFacts DEF Types, Invalid
<1> QED BY <1>1 DEF Place

(* One step keeps every store in its place.                                *)
LEMMA PlaceStep ==
  ASSUME Types, Types', Core, [Next]_vars
  PROVE  Place'
<1> USE DEF walletVars, indexVars, coinVars, storeVars, addrVars, poolVars, stepVars
<1>t. Place /\ tip \in Blocks /\ coins \in Blocks /\ blk \in Blocks /\ target \in Blocks
      /\ caller \in {"run", "shift", "reactivate"} /\ dir \in {"connect", "disconnect", "final"}
  BY DEF Types, Core
<1>r. /\ caller = "run" => Return(TRUE) = "idle" /\ Return(FALSE) = "idle"
      /\ caller = "reactivate" => Return(TRUE) = "activate" /\ Return(FALSE) = "final"
  BY <1>t, ReturnFacts
<1> DEFINE Kept == /\ tip' = tip /\ coinsTip' = coinsTip /\ coins' = coins /\ perms' = perms
                   /\ entDb' = entDb /\ entRow' = entRow /\ txdb' = txdb
<1>c. Kept => /\ Synced => Synced'
              /\ WalletLate => WalletLate'
  BY DEF Synced, WalletLate, CoinsAt, OnTip, Near, Before
<1> HIDE DEF Kept
<1>1. ASSUME NEW b \in Blocks \ {Genesis}, AcceptBlock(b) PROVE Place'
  <2>1. Kept /\ pc = "idle" /\ pc' = "idle"
    BY <1>1 DEF AcceptBlock, Kept
  <2>2. Synced' \/ WalletLate'
    BY <2>1, <1>t, <1>c DEF Place
  <2> QED BY <2>1, <2>2 DEF Place
<1>2. ASSUME NEW t \in Txs, AcceptTx(t) PROVE Place'
  <2>1. Kept /\ pc = "idle" /\ pc' = "idle"
    BY <1>2 DEF AcceptTx, AddTxs, Kept
  <2>2. Synced' \/ WalletLate'
    BY <2>1, <1>t, <1>c DEF Place
  <2> QED BY <2>1, <2>2 DEF Place
<1>3. ASSUME NEW b \in Blocks, Activate(b) PROVE Place'
  <2>1. /\ pc = "idle" /\ b # tip /\ pc' = "step" /\ caller' = "run" /\ target' = b /\ oldTip' = tip
        /\ Kept
    BY <1>3 DEF Activate, BeginStep, Kept
  <2>2. Synced' \/ WalletLate'
    BY <2>1, <1>c, <1>t DEF Place
  <2> QED BY <2>1, <2>2 DEF Place, Kept
<1>4. CASE PeriodicFlush
  <2>1. coinsTip = coins
    BY <1>4, <1>t DEF PeriodicFlush, Place, Synced, WalletLate, CoinsAt
  <2>2. Kept /\ pc = "idle" /\ pc' = "idle"
    BY <1>4, <2>1 DEF PeriodicFlush, Kept
  <2>3. Synced' \/ WalletLate'
    BY <2>2, <1>t, <1>c DEF Place
  <2> QED BY <2>2, <2>3 DEF Place
<1>5. CASE BeginDisconnect
  <2>1. /\ pc = "step" /\ tip \notin Elems(Chain[target])
        /\ blk' = tip /\ dir' = "disconnect" /\ tip' = tip /\ coinsTip' = coinsTip
        /\ caller' = caller /\ target' = target
    BY <1>5 DEF BeginDisconnect
  <2>2. tip # target /\ tip # Genesis
    BY <2>1, <1>t, ElemsFacts
  <2>3. CASE WalletLate
    <3>1. coinsTip # tip
      <4>1. coins # Genesis /\ coins \in Blocks /\ Prev[coins] = tip /\ coinsTip = coins
        BY <2>3, <1>t DEF WalletLate
      <4> QED BY <4>1, HeightFacts
    <3>2. WalletLate' /\ pc' = "aborted"
      <4>1. Kept /\ pc' = "aborted"
        BY <1>5, <3>1 DEF BeginDisconnect, Kept
      <4> QED BY <4>1, <2>3, <1>c
    <3> QED BY <3>2 DEF Place
  <2>4. CASE ~WalletLate
    <3>1. /\ CoinsAt(tip) /\ {perms, entDb, txdb} \subseteq Near(tip) /\ entRow = entDb
          /\ caller = "shift" => target = Prev[tip]
      BY <2>1, <2>2, <2>4, <1>t DEF Place, Synced, Lagging, Near, OnTip
    <3>2. tip \in blockIndex.undo
      <4>1. tip \in Elems(Chain[coins]) \ {Genesis}
        BY <2>2, <3>1, <1>t, ElemsFacts DEF CoinsAt
      <4> QED BY <4>1 DEF Core, IndexOK
    <3>3. pc' = "erase"
      BY <1>5, <3>1, <3>2 DEF BeginDisconnect, CoinsAt
    <3>4. Taking' /\ coinsTip' = tip'
      BY <1>5, <2>1, <2>2, <3>1 DEF BeginDisconnect, Taking, CoinsAt, Near, Before
    <3> QED BY <3>3, <3>4 DEF Place
  <2> QED BY <2>3, <2>4
<1>6. CASE BeginConnect
  <2>1. tip # target /\ Prev[blk'] = tip /\ blk' # Genesis
    BY <1>6, BeginConnectFacts
  <2>2. /\ pc = "step" /\ tip \in Elems(Chain[target]) /\ dir' = "connect"
        /\ pc' = "check" /\ tip' = tip /\ caller' = caller
    BY <1>6 DEF BeginConnect
  <2>3. ~Lagging \/ target # Prev[tip]
    BY <2>2, <1>t, ElemsFacts DEF Lagging
  <2>4. (Synced /\ caller # "shift") \/ (WalletLate /\ caller = "run")
    BY <2>1, <2>2, <2>3, <1>t DEF Place
  <2>5. (Synced' /\ caller # "shift") \/ (WalletLate' /\ caller = "run")
    <3>1. Kept
      BY <1>6 DEF BeginConnect, Kept
    <3> QED BY <2>4, <3>1, <1>c
  <2>6. Child'
    BY <2>1, <2>2 DEF Child
  <2> QED BY <2>2, <2>5, <2>6 DEF Place
<1>7. CASE Replay
  <2>1. pc = "step" /\ tip \in Elems(Chain[target]) /\ pc' = Return(TRUE) /\ StepDone
    BY <1>7 DEF Replay
  <2>2. ~(WalletLate /\ oldTip = tip /\ target # tip)
    BY <2>1, <1>t, HeightFacts DEF StepDone
  <2>3. ~(Lagging /\ target = Prev[tip])
    BY <2>1, <1>t, ElemsFacts DEF Lagging
  <2>4. Synced
    BY <2>1, <2>2, <2>3, <1>t DEF Place
  <2>5. Synced'
    <3>1. Kept
      BY <1>7 DEF Replay, AddTxs, Kept
    <3> QED BY <2>4, <3>1, <1>c
  <2>6. pc' \in {"idle", "activate"}
    BY <2>1, <1>t, ReturnFacts
  <2> QED BY <2>5, <2>6 DEF Place
<1>8. CASE Connecting
  <2>1. CASE RefuseMiner
    <3>1. Kept /\ pc = "check" /\ pc' = Return(TRUE)
      BY <2>1 DEF RefuseMiner, Invalid, Kept
    <3>2. (Synced' /\ caller # "shift") \/ (WalletLate' /\ caller = "run")
      BY <3>1, <1>c, <1>t DEF Place
    <3>3. pc' = "idle" \/ (pc' = "activate" /\ Synced')
      BY <3>1, <3>2, <1>t, <1>r
    <3> QED BY <3>2, <3>3 DEF Place
  <2>2. CASE ConnectAborts
    <3>1. ~Synced
      BY <2>2, <1>t DEF ConnectAborts, Place, Child, Synced, CoinsAt
    <3>2. Kept /\ pc = "check" /\ pc' = "aborted"
      BY <2>2 DEF ConnectAborts, Kept
    <3>3. WalletLate'
      BY <3>1, <3>2, <1>c, <1>t DEF Place
    <3> QED BY <3>2, <3>3 DEF Place
  <2>3. CASE CheckTxs
    <3>1. coinsTip = tip
      BY <2>3, <1>t DEF CheckTxs, Place, Child
    <3>2. ~WalletLate
      BY <3>1, <1>t, HeightFacts DEF WalletLate
    <3>3. Synced /\ caller # "shift" /\ dir = "connect" /\ Child
      BY <2>3, <3>2, <1>t DEF CheckTxs, Place
    <3>4. CASE blk \in BadTx
      <4>1. Kept /\ Invalid /\ tip' = tip /\ caller' = caller
        BY <2>3, <3>4 DEF CheckTxs, Kept
      <4> QED BY <4>1, <3>3, <1>c, InvalidPlace
    <3>5. CASE blk \notin BadTx /\ blk \in BadCoinbase
      <4>1. Kept /\ pc' = Return(FALSE) /\ caller' = caller
        BY <2>3, <3>5 DEF CheckTxs, Kept
      <4>2. Synced' /\ pc' \in {"idle", "final"}
        BY <4>1, <3>3, <1>t, <1>r, <1>c
      <4>3. Dropping(tip)' /\ entRow' = entDb'
        BY <4>2 DEF Synced, CoinsAt, Dropping, Above, OnTip, Types
      <4> QED BY <4>2, <4>3 DEF Place
    <3>6. CASE blk \notin BadTx \cup BadCoinbase
      <4>1. pc' = "index"
        BY <2>3, <3>6 DEF CheckTxs
      <4>2. Adding(0)'
        BY <2>3, <3>3 DEF CheckTxs, Adding, Child, Synced, CoinsAt, OnTip
      <4> QED BY <4>1, <4>2 DEF Place
    <3> QED BY <3>4, <3>5, <3>6
  <2>4. CASE WriteIndexes
    <3>1. Adding(0)'
      BY <2>4, <1>t DEF WriteIndexes, Place, Adding, Child
    <3>2. pc' = "perms"
      BY <2>4 DEF WriteIndexes
    <3> QED BY <3>1, <3>2 DEF Place
  <2>5. CASE CommitPerms
    <3>1. Adding(0)
      BY <2>5, <1>t DEF CommitPerms, Place
    <3>2. CASE perms' = Append(perms, blk) /\ pc' = "entRow"
      <4>1. perms' = Chain[blk]
        BY <3>1, <3>2, <1>t, ChainGrows DEF Adding, Child
      <4>2. Adding(1)'
        BY <2>5, <3>1, <4>1 DEF CommitPerms, Adding, Child
      <4> QED BY <3>2, <4>2 DEF Place
    <3>3. CASE Invalid /\ UNCHANGED perms
      <4>1. Synced' /\ caller' = caller /\ tip' = tip /\ caller # "shift"
        BY <2>5, <3>1, <3>3 DEF CommitPerms, Adding, Synced, CoinsAt, OnTip
      <4> QED BY <3>3, <4>1, InvalidPlace
    <3> QED BY <2>5, <3>2, <3>3 DEF CommitPerms
  <2>6. CASE CommitEntRow
    <3>1. Adding(1)
      BY <2>6, <1>t DEF CommitEntRow, Place
    <3>2. CASE entRow' = Append(entDb, blk) /\ pc' = "entDb"
      <4>1. entRow' = Chain[blk]
        BY <3>1, <3>2, <1>t, ChainGrows DEF Adding, Child
      <4>2. Adding(2)'
        BY <2>6, <3>1, <4>1 DEF CommitEntRow, Adding, Child
      <4> QED BY <3>2, <4>2 DEF Place
    <3>3. CASE pc' = "entUndo" /\ UNCHANGED entRow
      <4>1. Adding(1)'
        BY <2>6, <3>1, <3>3 DEF CommitEntRow, Adding, Child
      <4> QED BY <3>3, <4>1 DEF Place
    <3> QED BY <2>6, <3>2, <3>3 DEF CommitEntRow
  <2>7. CASE CommitEntDb
    <3>1. Adding(2)
      BY <2>7, <1>t DEF CommitEntDb, Place
    <3>2. CASE entDb' = entRow /\ pc' = "flushIndex"
      <4>1. Adding(3)'
        BY <2>7, <3>1, <3>2 DEF CommitEntDb, Adding, Child
      <4> QED BY <3>2, <4>1 DEF Place
    <3>3. CASE pc' = "entUndo" /\ UNCHANGED entDb
      <4>1. Adding(2)'
        BY <2>7, <3>1, <3>3 DEF CommitEntDb, Adding, Child
      <4> QED BY <3>3, <4>1 DEF Place
    <3> QED BY <2>7, <3>2, <3>3 DEF CommitEntDb
  <2>8. CASE UndoEntRow
    <3>1. Adding(1) \/ Adding(2)
      BY <2>8, <1>t DEF UndoEntRow, Place
    <3>2. Adding(1)'
      BY <2>8, <3>1 DEF UndoEntRow, Adding, Child
    <3> QED BY <2>8, <3>2 DEF UndoEntRow, Place
  <2>9. CASE UndoPerms
    <3>1. Adding(1)
      BY <2>9, <1>t DEF UndoPerms, Place
    <3>2. perms = Chain[blk] /\ blk \in Blocks \ {Genesis} /\ Prev[blk] = tip
      BY <3>1, <1>t DEF Adding, Child
    <3>3. Len(perms) - 2 = Height(tip)
      BY <3>2, HeightFacts
    <3>4. perms' = Chain[tip]
      BY <2>9, <3>2, <3>3, <1>t, RollBackFacts DEF UndoPerms, UndonePerms
    <3>5. Synced' /\ caller' = caller /\ tip' = tip /\ caller # "shift" /\ Invalid
      BY <2>9, <3>1, <3>4 DEF UndoPerms, Adding, Synced, CoinsAt, OnTip
    <3> QED BY <3>5, InvalidPlace
  <2>10. CASE FlushIndex
    <3>1. CASE dir = "connect"
      <4>1. Adding(3)
        BY <2>10, <3>1, <1>t DEF FlushIndex, Place, Taking
      <4>2. Adding(4)'
        BY <2>10, <3>1, <4>1 DEF FlushIndex, Adding, Child
      <4> QED BY <2>10, <4>2 DEF FlushIndex, Place
    <3>2. CASE dir # "connect"
      <4>1. Taking
        BY <2>10, <3>2, <1>t DEF FlushIndex, Place, Adding
      <4>2. Taking' /\ coinsTip' = Prev[blk']
        BY <2>10, <3>2, <4>1 DEF FlushIndex, Taking, Near, Before
      <4> QED BY <2>10, <4>2 DEF FlushIndex, Place
    <3> QED BY <3>1, <3>2
  <2>11. CASE FlushCoins
    <3>1. CASE dir = "connect"
      <4>1. Adding(4)
        BY <2>11, <3>1, <1>t DEF FlushCoins, Place, Taking
      <4>2. Adding(5)'
        BY <2>11, <3>1, <4>1 DEF FlushCoins, Adding, Child
      <4> QED BY <2>11, <3>1, <4>2 DEF FlushCoins, Place
    <3>2. CASE dir # "connect"
      <4>1. Taking /\ coinsTip = Prev[blk]
        BY <2>11, <3>2, <1>t DEF FlushCoins, Place, Adding
      <4>2. pc' = "rbPerms" /\ entRow' = entDb'
        BY <2>11, <3>2, <4>1 DEF FlushCoins, Taking
      <4>3. Near(blk) = {Chain[blk], Chain[Prev[blk]]} /\ Above(blk, Prev[blk])
        BY <4>1 DEF Near, Before, Above, Taking
      <4>4. Goal' = Prev[blk] /\ dir' = "disconnect" /\ blk' = tip' /\ tip' # Genesis
            /\ coins' = Goal' /\ (caller' = "shift" => target' = Goal')
        BY <2>11, <4>1 DEF FlushCoins, Taking, Goal
      <4>5. Dropping(Goal)'
        BY <2>11, <4>1, <4>3, <4>4, <1>t DEF FlushCoins, Dropping, Taking, Above
      <4>6. RollingBack'
        BY <4>4, <4>5 DEF RollingBack
      <4> QED BY <4>2, <4>6 DEF Place
    <3> QED BY <3>1, <3>2
  <2>12. CASE WalletAddBlock \/ WalletCommitFile \/ (WalletCommitDb /\ txdb' = txdb)
    <3>1. Adding(5)
      BY <2>12, <1>t DEF WalletAddBlock, WalletCommitFile, WalletCommitDb, Place
    <3>2. UNCHANGED <<tip, coinsTip, coins, perms, entDb, entRow, txdb, blk, dir, caller>>
      BY <2>12 DEF WalletAddBlock, WalletCommitFile, WalletCommitDb, AddBlockTxs, CommitFile
    <3>3. pc' \in {"walletFile", "walletDb"} \/ pc' = Return(FALSE)
      <4>1. Append(txdb, blk) # txdb
        BY <3>1, <1>t, ChainGrows, ChainInjective, HeightFacts DEF Adding, Child
      <4> QED BY <2>12, <4>1 DEF WalletAddBlock, WalletCommitFile, WalletCommitDb, CommitDb
    <3>4. CASE pc' \in {"walletFile", "walletDb"}
      <4>1. Adding(5)'
        BY <3>1, <3>2 DEF Adding, Child
      <4> QED BY <3>4, <4>1 DEF Place
    <3>5. CASE pc' = Return(FALSE)
      <4>1. WalletLate'
        BY <3>1, <3>2 DEF Adding, Child, WalletLate, Near, OnTip, Before
      <4>2. Dropping(tip)'
        BY <3>1, <3>2, <1>t DEF Adding, Child, Dropping, Above
      <4>3. entRow' = entDb' /\ caller # "shift"
        BY <3>1, <3>2 DEF Adding
      <4>4. pc' \in {"idle", "final"}
        BY <3>5, <4>3, <1>t, <1>r
      <4> QED BY <4>1, <4>2, <4>3, <4>4 DEF Place
    <3> QED BY <3>3, <3>4, <3>5
  <2>14. CASE WalletCommitDb /\ txdb' # txdb
    <3>1. Adding(5)
      BY <2>14, <1>t DEF WalletCommitDb, Place
    <3>2. txdb' = Append(txdb, blk) /\ pc' = "tip"
      BY <2>14 DEF WalletCommitDb, CommitDb, CommitDbFails
    <3>3. txdb' = Chain[blk]
      BY <3>1, <3>2, <1>t, ChainGrows DEF Adding, Child
    <3>4. Adding(6)'
      BY <2>14, <3>1, <3>3 DEF WalletCommitDb, Adding, Child
    <3> QED BY <3>2, <3>4 DEF Place
  <2>15. CASE UpdateTip
    <3>1. Adding(6)
      BY <2>15, <1>t DEF UpdateTip, Place
    <3>2. Synced' /\ pc' = "step" /\ caller' # "shift"
      BY <2>15, <3>1 DEF UpdateTip, Adding, Synced, CoinsAt, OnTip
    <3> QED BY <3>2 DEF Place
  <2> QED
    BY <1>8, <2>1, <2>2, <2>3, <2>4, <2>5, <2>6, <2>7, <2>8, <2>9, <2>10, <2>11,
       <2>12, <2>14, <2>15 DEF Connecting
<1>9. CASE Disconnecting
  <2> DEFINE SameGoal == tip' = tip /\ blk' = blk /\ dir' = dir /\ caller' = caller /\ target' = target
  <2>g. RollingBack => Goal \in Blocks /\ rollTo = Height(Goal)
    BY GoalFacts
  <2>h. SameGoal => Goal' = Goal
    BY DEF Goal
  <2>r. ASSUME RollingBack
        PROVE  /\ RollBackTo(perms, rollTo) = Chain[Goal]
               /\ RollBackTo(entDb, rollTo) = Chain[Goal]
               /\ SubSeq(txdb, 1, rollTo + 1) = Chain[Goal]
               /\ RollsBack(rollTo) <=> txdb # Chain[Goal]
    <3>1. PICK y \in Blocks : /\ Above(y, Goal)
                              /\ perms \in {Chain[y], Chain[Goal]} /\ entDb \in {Chain[y], Chain[Goal]}
                              /\ txdb \in {Chain[y], Chain[Goal]}
      BY <2>r DEF RollingBack, Dropping
    <3>2. Goal \in Blocks /\ rollTo = Height(Goal)
      BY <2>r, <2>g
    <3> QED BY <3>1, <3>2, RollFacts DEF RollsBack, WalletBlock
  <2>k. ASSUME RollingBack, SameGoal, coinsTip' = coinsTip, coins' = coins,
               perms' \in {perms, Chain[Goal]}, entDb' \in {entDb, Chain[Goal]},
               entRow' \in {entRow, entDb, Chain[Goal]}, txdb' \in {txdb, Chain[Goal]}
        PROVE  RollingBack'
    <3>1. PICK y \in Blocks :
            /\ Above(y, Goal)
            /\ {perms, entDb, entRow, txdb} \subseteq {Chain[y], Chain[Goal]}
            /\ coinsTip = coins /\ coins \in {y, Goal} /\ (coins # Goal => txdb = Chain[Goal])
      BY <2>k DEF RollingBack, Dropping
    <3>2. Goal' = Goal
      BY <2>k, <2>h
    <3>3. /\ {perms', entDb', entRow', txdb'} \subseteq {Chain[y], Chain[Goal]}
          /\ coinsTip' = coins' /\ coins' \in {y, Goal} /\ (coins' # Goal => txdb' = Chain[Goal])
      BY <3>1, <2>k
    <3>4. Dropping(Goal)'
      BY <3>1, <3>2, <3>3 DEF Dropping, Above
    <3> QED BY <2>k, <3>2, <3>4 DEF RollingBack
  <2>1. CASE EraseIndex
    <3>1. Taking /\ coinsTip = tip
      BY <2>1, <1>t DEF EraseIndex, Place
    <3>2. Taking' /\ coinsTip' = tip'
      BY <2>1, <3>1 DEF EraseIndex, Taking, Near, Before
    <3> QED BY <2>1, <3>2 DEF EraseIndex, Place
  <2>2. CASE RollBackPerms
    <3>1. RollingBack /\ entRow = entDb
      BY <2>2, <1>t DEF RollBackPerms, Place
    <3>2. /\ perms' = Chain[Goal] /\ pc' = "rbEntDb" /\ SameGoal
          /\ entDb' = entDb /\ entRow' = entRow /\ txdb' = txdb /\ coinsTip' = coinsTip /\ coins' = coins
      BY <2>2, <3>1, <2>r DEF RollBackPerms
    <3>3. RollingBack' /\ Goal' = Goal
      BY <3>1, <3>2, <2>k, <2>h
    <3> QED BY <3>1, <3>2, <3>3 DEF Place
  <2>3. CASE RollBackEntDb
    <3>1. RollingBack /\ entRow = entDb /\ perms = Chain[Goal]
      BY <2>3, <1>t DEF RollBackEntDb, Place
    <3>2. /\ entDb' = Chain[Goal] /\ pc' = "rbEntRow" /\ SameGoal
          /\ perms' = perms /\ entRow' = entRow /\ txdb' = txdb /\ coinsTip' = coinsTip /\ coins' = coins
      BY <2>3, <3>1, <2>r DEF RollBackEntDb, RolledEnt
    <3>3. RollingBack' /\ Goal' = Goal
      BY <3>1, <3>2, <2>k, <2>h
    <3> QED BY <3>1, <3>2, <3>3 DEF Place
  <2>4. CASE RollBackEntRow
    <3>1. RollingBack /\ perms = Chain[Goal] /\ entDb = Chain[Goal]
      BY <2>4, <1>t DEF RollBackEntRow, Place
    <3>2. /\ entRow' = entDb /\ pc' = "rbWallet" /\ SameGoal
          /\ perms' = perms /\ entDb' = entDb /\ txdb' = txdb /\ coinsTip' = coinsTip /\ coins' = coins
      BY <2>4, <3>1 DEF RollBackEntRow, RolledRow
    <3>3. RollingBack' /\ Goal' = Goal
      BY <3>1, <3>2, <2>k, <2>h
    <3> QED BY <3>1, <3>2, <3>3 DEF Place
  <2>a. ASSUME RollingBack, SameGoal, perms = Chain[Goal], entDb = Chain[Goal], entRow = entDb,
               coinsTip' = coinsTip, coins' = coins, perms' = perms, entDb' = entDb,
               entRow' = entRow, txdb' = Chain[Goal], pc' = AfterRollBack
        PROVE  Place'
    <3>1. RollingBack' /\ Goal' = Goal
      BY <2>a, <2>k, <2>h
    <3>2. CASE dir = "final"
      <4>1. Goal = tip /\ pc' = "idle"
        BY <2>a, <3>2 DEF Goal, AfterRollBack
      <4>2. coinsTip = coins /\ (coins = tip \/ (coins # Genesis /\ Prev[coins] = tip))
        BY <2>a, <4>1 DEF RollingBack, Dropping, Above
      <4>3. Synced' \/ WalletLate'
        BY <2>a, <4>1, <4>2 DEF Synced, WalletLate, CoinsAt, OnTip, Near, Before
      <4> QED BY <4>1, <4>3 DEF Place
    <3>3. CASE dir # "final"
      <4>1. dir' = "disconnect" /\ pc' = "dTip"
        BY <2>a, <3>3, <1>t DEF AfterRollBack, RollingBack
      <4> QED BY <2>a, <4>1, <3>1 DEF Place
    <3> QED BY <3>2, <3>3
  <2>5. CASE RollBackWallet
    <3>1. RollingBack /\ perms = Chain[Goal] /\ entDb = Chain[Goal] /\ entRow = entDb
      BY <2>5, <1>t DEF RollBackWallet, Place
    <3>2. /\ SameGoal /\ perms' = perms /\ entDb' = entDb /\ entRow' = entRow /\ txdb' = txdb
          /\ coinsTip' = coinsTip /\ coins' = coins
      BY <2>5 DEF RollBackWallet, RollBackFile
    <3>3. CASE txdb = Chain[Goal]
      <4>1. pc' = AfterRollBack
        BY <2>5, <3>3, <3>1, <2>r DEF RollBackWallet
      <4> QED BY <3>1, <3>2, <3>3, <4>1, <2>a
    <3>4. CASE txdb # Chain[Goal]
      <4>1. pc' = "rbWalletDb"
        BY <2>5, <3>4, <3>1, <2>r DEF RollBackWallet
      <4>2. RollingBack' /\ Goal' = Goal
        BY <3>1, <3>2, <2>k, <2>h
      <4> QED BY <3>1, <3>2, <3>4, <4>1, <4>2 DEF Place
    <3> QED BY <3>3, <3>4
  <2>6. CASE RollBackWalletDb
    <3>1. RollingBack /\ perms = Chain[Goal] /\ entDb = Chain[Goal] /\ entRow = entDb
      BY <2>6, <1>t DEF RollBackWalletDb, Place
    <3>2. /\ SameGoal /\ perms' = perms /\ entDb' = entDb /\ entRow' = entRow
          /\ coinsTip' = coinsTip /\ coins' = coins
          /\ txdb' = Chain[Goal] /\ pc' = AfterRollBack
      BY <2>6, <3>1, <2>r DEF RollBackWalletDb, RollBackDb
    <3> QED BY <3>1, <3>2, <2>a
  <2>7. CASE Resurrect
    <3>1. /\ RollingBack /\ perms = Chain[Goal] /\ entDb = Chain[Goal] /\ entRow = entDb
          /\ txdb = Chain[Goal] /\ dir = "disconnect"
      BY <2>7, <1>t DEF Resurrect, Place
    <3>2. Goal = Prev[blk] /\ coinsTip = Goal /\ coins = Goal /\ (caller = "shift" => target = Goal)
      BY <3>1 DEF Goal, RollingBack, Dropping
    <3>3. /\ tip' = Goal /\ pc' = "step" /\ caller' = caller /\ target' = target
          /\ perms' = perms /\ entDb' = entDb /\ entRow' = entRow /\ txdb' = txdb
          /\ coinsTip' = coinsTip /\ coins' = coins
      BY <2>7, <3>2 DEF Resurrect, AddTxs
    <3>4. Synced' /\ (caller' = "shift" => target' = tip')
      BY <3>1, <3>2, <3>3 DEF Synced, CoinsAt, OnTip
    <3> QED BY <3>3, <3>4 DEF Place
  <2> QED
    BY <1>9, <2>1, <2>2, <2>3, <2>4, <2>5, <2>6, <2>7 DEF Disconnecting
<1>10. CASE Load
  <2>1. CoinsAt(tip) /\ entRow = entDb /\ Spanning
    BY <1>10, <1>t DEF Load, Place
  <2>2. IF blockToRollback < Height(tip)
        THEN Lagging /\ OnTip[blockToRollback + 1] = Prev[tip] ELSE Dropping(tip)
    BY <2>1, LoadFacts
  <2>3. CASE blockToRollback < Height(tip)
    <3>1. pc' = "step" /\ caller' = "shift" /\ target' = Prev[tip] /\ tip' = tip
      BY <1>10, <2>2, <2>3 DEF Load, BeginStep
    <3>2. Lagging'
      BY <1>10, <2>2, <2>3 DEF Load, Lagging, CoinsAt, Near, Before
    <3> QED BY <3>1, <3>2 DEF Place
  <2>4. CASE ~(blockToRollback < Height(tip))
    <3>1. pc' = "final" /\ entRow' = entDb'
      BY <1>10, <2>1, <2>4 DEF Load
    <3>2. Dropping(tip)'
      BY <1>10, <2>2, <2>4 DEF Load, Dropping, Above
    <3> QED BY <3>1, <3>2 DEF Place
  <2> QED BY <2>3, <2>4
<1>11. CASE Reactivate
  <2>1. Synced /\ Kept
    BY <1>11, <1>t DEF Reactivate, Place, Kept
  <2>2. Synced'
    BY <2>1, <1>c
  <2>3. CASE pc' = "step" /\ caller' = "reactivate"
    BY <2>2, <2>3 DEF Place
  <2>4. CASE pc' = "final"
    <3>1. Dropping(tip)' /\ entRow' = entDb'
      BY <2>2 DEF Synced, CoinsAt, Dropping, Above, OnTip, Types
    <3> QED BY <2>4, <3>1 DEF Place
  <2> QED BY <1>11, <2>3, <2>4 DEF Reactivate, BeginStep
<1>12. CASE FinalRollBack
  <2>1. Dropping(tip) /\ entRow = entDb
    BY <1>12, <1>t DEF FinalRollBack, Place
  <2>2. dir' = "final" /\ pc' = "rbPerms" /\ Goal' = tip /\ entRow' = entDb'
    BY <1>12, <2>1 DEF FinalRollBack, Goal
  <2>3. Dropping(Goal)'
    BY <1>12, <2>1, <2>2 DEF FinalRollBack, Dropping, Above
  <2> QED BY <2>2, <2>3 DEF Place, RollingBack
<1>13. CASE Crash
  <2>1. Spanning /\ EntRowOK
    BY <1>t, PlaceSpans
  <2>2. Spanning' /\ EntRowOK'
    BY <1>13, <2>1 DEF Crash, LoseWallet, Spanning, EntRowOK, Near, Before
  <2> QED BY <1>13, <2>2 DEF Crash, Place
<1>14. CASE Refuse
  <2>1. Spanning /\ EntRowOK
    BY <1>t, PlaceSpans
  <2>2. Spanning' /\ EntRowOK'
    BY <1>14, <2>1 DEF Refuse, Spanning, EntRowOK, Near, Before
  <2>3. pc' = "refused" /\ ~EntitiesOpen'
    BY <1>14 DEF Refuse, EntitiesOpen, LedgerRows
  <2> QED BY <2>2, <2>3 DEF Place
<1>15. CASE Start
  <2>1. Spanning
    BY <1>t, PlaceSpans
  <2>2. Spanning'
    BY <1>15, <2>1 DEF Start, OpenWallet, Spanning, Near, Before
  <2>3. pc' = "load" /\ CoinsAt(tip)' /\ entRow' = entDb'
    BY <1>15 DEF Start, CoinsAt
  <2> QED BY <2>2, <2>3 DEF Place
<1>16. CASE UNCHANGED vars
  BY <1>16, <1>t DEF vars, Place, Synced, WalletLate, Lagging, Adding, Child, Taking, Above,
     Dropping, Goal, RollingBack, Spanning, EntRowOK, CoinsAt, OnTip, Near, Before,
     EntitiesOpen, LedgerRows
<1> QED
  BY <1>1, <1>2, <1>3, <1>4, <1>5, <1>6, <1>7, <1>8, <1>9, <1>10, <1>11, <1>12,
     <1>13, <1>14, <1>15, <1>16 DEF Next, Running

(* One step keeps the block indexes, in memory and on disk, complete.      *)
LEMMA IndexStep ==
  ASSUME Core, Types', [Next]_vars
  PROVE  IndexOK'
<1> USE DEF walletVars, indexVars, coinVars, storeVars, addrVars, poolVars, stepVars
<1> DEFINE Undone == {"perms", "entRow", "entDb", "entUndo", "permUndo", "flushIndex"}
           Sets == /\ Closed(blockIndex.known) /\ Closed(diskIndex.known)
                   /\ diskIndex.known \subseteq blockIndex.known
                   /\ diskIndex.undo \subseteq blockIndex.undo
                   /\ Elems(Chain[coins]) \ {Genesis} \subseteq diskIndex.known \cap diskIndex.undo
           Uses == /\ TargetUsed => target \in blockIndex.known
                   /\ pc \in ConnectSteps /\ dir = "connect" => blk \in blockIndex.known
                   /\ pc \in Undone /\ dir = "connect" => blk \in blockIndex.undo
                   /\ pc = "flushCoins" /\ dir = "connect" =>
                        blk \in diskIndex.known \cap diskIndex.undo
<1>t. /\ Place /\ tip \in Blocks /\ coins \in Blocks /\ blk \in Blocks /\ target \in Blocks
      /\ caller \in {"run", "shift", "reactivate"} /\ dir \in {"connect", "disconnect", "final"}
      /\ blockIndex \in IndexType /\ diskIndex \in IndexType
  BY DEF Types, Core
<1>i. Sets /\ Uses
  BY DEF Core, IndexOK
<1>j. Sets' /\ Uses' => IndexOK'
  BY DEF IndexOK
<1>k. blockIndex' = blockIndex /\ diskIndex' = diskIndex /\ coins' = coins => Sets'
  BY <1>i DEF Closed
<1>r. /\ Return(TRUE) \in {"idle", "activate", "final"}
      /\ Return(FALSE) \in {"idle", "activate", "final"}
  BY <1>t, ReturnFacts
<1>n. pc' \in {"idle", "activate", "final", "aborted", "down", "refused", "load"} => Uses'
  BY DEF TargetUsed, ConnectSteps, DisconnectSteps
<1>v. ASSUME Invalid, diskIndex' = diskIndex, coins' = coins PROVE IndexOK'
  <2>1. blockIndex'.known = blockIndex.known /\ blockIndex'.undo = blockIndex.undo
    BY <1>v, <1>t DEF Invalid, IndexType
  <2>2. Sets'
    BY <1>v, <1>i, <2>1 DEF Closed
  <2>3. Uses'
    BY <1>v, <1>r, <1>n DEF Invalid
  <2> QED BY <2>2, <2>3, <1>j
<1> USE DEF ConnectSteps, DisconnectSteps, TargetUsed
<1>1. ASSUME NEW b \in Blocks \ {Genesis}, AcceptBlock(b) PROVE IndexOK'
  <2>1. /\ blockIndex'.known = blockIndex.known \cup {b} /\ blockIndex'.undo = blockIndex.undo
        /\ Prev[b] \in blockIndex.known /\ diskIndex' = diskIndex /\ coins' = coins /\ pc' = "idle"
    BY <1>1, <1>t DEF AcceptBlock, IndexType
  <2>2. Elems(Chain[b]) = Elems(Chain[Prev[b]]) \cup {b}
    BY ElemsFacts
  <2>3. Sets'
    BY <1>i, <2>1, <2>2 DEF Closed
  <2> QED BY <2>1, <2>3, <1>j, <1>n
<1>2. ASSUME NEW t \in Txs, AcceptTx(t) PROVE IndexOK'
  BY <1>2, <1>j, <1>k, <1>n DEF AcceptTx
<1>3. ASSUME NEW b \in Blocks, Activate(b) PROVE IndexOK'
  <2>1. b \in blockIndex.known /\ pc' = "step" /\ target' = b
    BY <1>3 DEF Activate, Candidates, BeginStep
  <2>2. Sets' /\ blockIndex' = blockIndex
    BY <1>3, <1>k DEF Activate
  <2> QED BY <2>1, <2>2, <1>j
<1>4. CASE PeriodicFlush
  <2>1. coins' = coins /\ diskIndex' = blockIndex /\ blockIndex' = blockIndex /\ pc' = "idle"
    BY <1>4, <1>t DEF PeriodicFlush, Place, Synced, WalletLate, CoinsAt
  <2>2. Sets'
    BY <1>i, <2>1 DEF Closed
  <2> QED BY <2>1, <2>2, <1>j, <1>n
<1>5. CASE BeginDisconnect
  <2>1. Sets'
    BY <1>5, <1>k DEF BeginDisconnect
  <2>2. Uses'
    BY <1>5, <1>i, <1>r DEF BeginDisconnect
  <2> QED BY <2>1, <2>2, <1>j
<1>6. CASE BeginConnect
  <2>1. Sets' /\ blockIndex' = blockIndex /\ target' = target /\ pc = "step" /\ pc' = "check"
    BY <1>6, <1>k DEF BeginConnect
  <2>2. target \in blockIndex.known /\ blk' \in Elems(Chain[target])
    BY <1>6, <2>1, <1>i, BeginConnectFacts DEF Core
  <2>3. blk' \in blockIndex.known
    BY <2>2, <1>i DEF Closed
  <2> QED BY <2>1, <2>2, <2>3, <1>j
<1>7. CASE Replay
  BY <1>7, <1>j, <1>k, <1>n, <1>r DEF Replay
<1>8. CASE Connecting
  <2>1. CASE RefuseMiner
    BY <2>1, <1>v DEF RefuseMiner
  <2>2. CASE ConnectAborts
    BY <2>2, <1>j, <1>k, <1>n DEF ConnectAborts
  <2>3. CASE CheckTxs
    <3>1. CASE blk \in BadTx
      BY <2>3, <3>1, <1>v DEF CheckTxs
    <3>2. CASE blk \notin BadTx
      <4>1. UNCHANGED <<blockIndex, diskIndex, coins>>
        BY <2>3, <3>2 DEF CheckTxs
      <4>2. CASE blk \in BadCoinbase
        BY <2>3, <3>2, <4>1, <4>2, <1>r, <1>j, <1>k, <1>n DEF CheckTxs
      <4>3. CASE blk \notin BadCoinbase
        BY <2>3, <3>2, <4>1, <4>3, <1>i, <1>j, <1>k DEF CheckTxs
      <4> QED BY <4>2, <4>3
    <3> QED BY <3>1, <3>2
  <2>4. CASE WriteIndexes
    <3>1. /\ blockIndex'.known = blockIndex.known /\ blockIndex'.undo = blockIndex.undo \cup {blk}
          /\ diskIndex' = diskIndex /\ coins' = coins /\ pc' = "perms" /\ pc = "index"
          /\ target' = target /\ blk' = blk /\ dir' = dir
      BY <2>4, <1>t DEF WriteIndexes, IndexType
    <3>2. Sets'
      BY <1>i, <3>1 DEF Closed
    <3>3. Uses'
      BY <1>i, <3>1
    <3> QED BY <3>2, <3>3, <1>j
  <2>5. CASE CommitPerms
    <3>1. CASE pc' = "entRow" /\ UNCHANGED blockIndex
      BY <2>5, <3>1, <1>i, <1>j, <1>k DEF CommitPerms
    <3>2. CASE Invalid
      BY <2>5, <3>2, <1>v DEF CommitPerms
    <3> QED BY <2>5, <3>1, <3>2 DEF CommitPerms
  <2>6. CASE CommitEntRow
    BY <2>6, <1>i, <1>j, <1>k DEF CommitEntRow
  <2>7. CASE CommitEntDb
    BY <2>7, <1>i, <1>j, <1>k DEF CommitEntDb
  <2>8. CASE UndoEntRow
    BY <2>8, <1>i, <1>j, <1>k DEF UndoEntRow
  <2>9. CASE UndoPerms
    BY <2>9, <1>v DEF UndoPerms
  <2>10. CASE FlushIndex
    <3>1. /\ diskIndex' = blockIndex /\ blockIndex' = blockIndex /\ coins' = coins
          /\ pc = "flushIndex" /\ pc' = "flushCoins" /\ target' = target /\ blk' = blk /\ dir' = dir
      BY <2>10 DEF FlushIndex, FlushDirty
    <3>2. Sets'
      BY <1>i, <3>1 DEF Closed
    <3>3. Uses'
      BY <1>i, <3>1
    <3> QED BY <3>2, <3>3, <1>j
  <2>11. CASE FlushCoins
    <3>1. /\ diskIndex' = diskIndex /\ blockIndex' = blockIndex /\ coins' = coinsTip
          /\ pc = "flushCoins" /\ target' = target /\ blk' = blk /\ dir' = dir
          /\ pc' = IF dir = "connect" THEN "wallet" ELSE "rbPerms"
      BY <2>11 DEF FlushCoins
    <3>2. Elems(Chain[coinsTip]) \subseteq Elems(Chain[coins]) \cup {blk}
          /\ (dir # "connect" => Elems(Chain[coinsTip]) \subseteq Elems(Chain[coins]))
      <4>1. CASE Adding(4)
        BY <4>1, <1>t, ElemsFacts DEF Adding, Child
      <4>2. CASE Taking /\ coinsTip = Prev[blk]
        BY <4>2, <1>t, ElemsFacts DEF Taking
      <4> QED BY <3>1, <4>1, <4>2, <1>t DEF Place
    <3>3. Sets'
      BY <1>i, <3>1, <3>2, <1>t DEF Closed
    <3>4. Uses'
      BY <1>i, <3>1
    <3> QED BY <3>3, <3>4, <1>j
  <2>12. CASE WalletAddBlock
    BY <2>12, <1>i, <1>j, <1>k, <1>r DEF WalletAddBlock
  <2>13. CASE WalletCommitFile
    BY <2>13, <1>i, <1>j, <1>k, <1>r DEF WalletCommitFile
  <2>14. CASE WalletCommitDb
    BY <2>14, <1>i, <1>j, <1>k, <1>r DEF WalletCommitDb
  <2>15. CASE UpdateTip
    BY <2>15, <1>i, <1>j, <1>k DEF UpdateTip
  <2> QED
    BY <1>8, <2>1, <2>2, <2>3, <2>4, <2>5, <2>6, <2>7, <2>8, <2>9, <2>10, <2>11,
       <2>12, <2>13, <2>14, <2>15 DEF Connecting
<1>9. CASE Disconnecting
  <2>1. CASE EraseIndex
    <3>1. Taking
      BY <2>1, <1>t DEF EraseIndex, Place
    <3> QED BY <2>1, <3>1, <1>i, <1>j, <1>k DEF EraseIndex, Taking
  <2>2. CASE RollBackPerms
    BY <2>2, <1>i, <1>j, <1>k DEF RollBackPerms
  <2>3. CASE RollBackEntDb
    BY <2>3, <1>i, <1>j, <1>k DEF RollBackEntDb
  <2>4. CASE RollBackEntRow
    BY <2>4, <1>i, <1>j, <1>k DEF RollBackEntRow
  <2>5. CASE RollBackWallet
    BY <2>5, <1>i, <1>j, <1>k DEF RollBackWallet, AfterRollBack
  <2>6. CASE RollBackWalletDb
    BY <2>6, <1>i, <1>j, <1>k DEF RollBackWalletDb, AfterRollBack
  <2>7. CASE Resurrect
    <3>1. dir = "disconnect"
      BY <2>7, <1>t DEF Resurrect, Place
    <3> QED BY <2>7, <3>1, <1>i, <1>j, <1>k DEF Resurrect
  <2> QED
    BY <1>9, <2>1, <2>2, <2>3, <2>4, <2>5, <2>6, <2>7 DEF Disconnecting
<1>10. CASE Load
  <2>1. Sets' /\ blockIndex' = blockIndex
    BY <1>10, <1>k DEF Load
  <2>2. CoinsAt(tip) /\ entRow = entDb /\ Spanning
    BY <1>10, <1>t DEF Load, Place
  <2>3. IF blockToRollback < Height(tip)
        THEN Lagging /\ OnTip[blockToRollback + 1] = Prev[tip] ELSE Dropping(tip)
    BY <2>2, LoadFacts DEF Core
  <2>4. CASE blockToRollback < Height(tip)
    <3>1. tip \in Blocks \ {Genesis} /\ coins = tip
      BY <2>2, <2>3, <2>4, <1>t DEF Lagging, CoinsAt
    <3>2. Prev[tip] \in Elems(Chain[coins])
      <4>1. Prev[tip] \in Blocks
        BY <3>1, ChainGrows
      <4>2. Prev[tip] \in Elems(Chain[Prev[tip]])
        BY <4>1, ElemsFacts
      <4> QED BY <3>1, <4>2, ElemsFacts
    <3>3. Prev[tip] \in blockIndex.known
      BY <3>2, <1>i DEF Closed
    <3>4. pc' = "step" /\ target' = Prev[tip]
      BY <1>10, <2>3, <2>4 DEF Load, BeginStep
    <3> QED BY <2>1, <3>3, <3>4, <1>j
  <2>5. CASE ~(blockToRollback < Height(tip))
    BY <1>10, <2>1, <2>5, <1>j, <1>n DEF Load
  <2> QED BY <2>4, <2>5
<1>11. CASE Reactivate
  <2>1. Sets' /\ blockIndex' = blockIndex
    BY <1>11, <1>k DEF Reactivate
  <2>2. pc' = "final" \/ (pc' = "step" /\ target' \in blockIndex.known)
    BY <1>11 DEF Reactivate, Better, Candidates, BeginStep
  <2> QED BY <2>1, <2>2, <1>j, <1>n
<1>12. CASE FinalRollBack
  BY <1>12, <1>j, <1>k DEF FinalRollBack
<1>13. CASE Crash
  <2>1. blockIndex' = diskIndex /\ diskIndex' = diskIndex /\ coins' = coins /\ pc' = "down"
    BY <1>13 DEF Crash
  <2>2. Sets'
    BY <2>1, <1>i DEF Closed
  <2> QED BY <2>1, <2>2, <1>j, <1>n
<1>14. CASE Refuse
  BY <1>14, <1>j, <1>k, <1>n DEF Refuse
<1>15. CASE Start
  <2>1. blockIndex' = diskIndex /\ diskIndex' = diskIndex /\ coins' = coins /\ pc' = "load"
    BY <1>15 DEF Start
  <2>2. Sets'
    BY <2>1, <1>i DEF Closed
  <2> QED BY <2>1, <2>2, <1>j, <1>n
<1>16. CASE UNCHANGED vars
  BY <1>16, <1>i, <1>j, <1>k DEF vars
<1> QED
  BY <1>1, <1>2, <1>3, <1>4, <1>5, <1>6, <1>7, <1>8, <1>9, <1>10, <1>11, <1>12,
     <1>13, <1>14, <1>15, <1>16 DEF Next, Running

(* The invariant is inductive.                                             *)
LEMMA CoreStep ==
  ASSUME Core, [Next]_vars
  PROVE  Core'
<1>1. Types'
  BY TypesStep DEF Core
<1> QED BY <1>1, PlaceStep, IndexStep DEF Core

(* A node that has been started once satisfies it.                         *)
LEMMA CoreInit == Init => Core
<1> SUFFICES ASSUME Init PROVE Core
  OBVIOUS
<1>1. Genesis \in Blocks /\ MaxFaults \in Nat /\ Elems(Chain[Genesis]) = {Genesis}
  BY ChainAssumption, ElemsFacts
<1>2. Types
  <2>1. blockIndex \in IndexType /\ diskIndex \in IndexType
    BY <1>1 DEF Init, EmptyIndex, IndexType
  <2>2. pc \in Steps /\ faults \in 0..MaxFaults
    BY <1>1 DEF Init, Steps
  <2> QED BY <1>1, <2>1, <2>2 DEF Init, Types
<1>3. Place
  BY <1>1 DEF Init, Place, Synced, CoinsAt, OnTip
<1>4. IndexOK
  BY <1>1 DEF Init, IndexOK, Closed, EmptyIndex, TargetUsed, ConnectSteps, DisconnectSteps
<1> QED BY <1>2, <1>3, <1>4 DEF Core

(* A node that is stopped or started at any moment keeps its stores within *)
(* a block of each other, in the order the code writes them.               *)
THEOREM CoreInvariant == Spec => []Core
<1>1. Init => Core
  BY CoreInit
<1>2. Core /\ [Next]_vars => Core'
  BY CoreStep
<1> QED BY <1>1, <1>2, PTL DEF Spec
=============================================================================
