----------------------------- MODULE OrphanTxs ------------------------------
(***************************************************************************)
(* Transactions that wait for a parent (core/main.cpp:                     *)
(* mapOrphanTransactions, mapOrphanTransactionsByPrev and the "tx"         *)
(* message), with the part of the memory pool they are waiting for.        *)
(*                                                                         *)
(* A transaction is told apart by its parents and by whether it would be   *)
(* refused once it has them. An output has one spender, and a block of the *)
(* active chain is never so old that setBlockTransactions has lost it.     *)
(***************************************************************************)
EXTENDS Naturals, Sequences, FiniteSets, SequencesExt, Functions

CONSTANTS
  Txs,
  Parents,      \* the transactions that the inputs of a transaction name
  HashOrder,    \* Txs in the order of their hashes
  BadTxs,       \* refused by AcceptToMemoryPool
  DoSTxs,       \* those of them that count against the sender
  LargeTxs,     \* more than 5000 bytes
  MaxOrphans    \* -maxorphantx

ASSUME OrphanAssumption ==
  /\ Parents \in [Txs -> SUBSET Txs]
  /\ HashOrder \in Seq(Txs) /\ IsInjective(HashOrder) /\ ToSet(HashOrder) = Txs
  /\ DoSTxs \subseteq BadTxs /\ BadTxs \subseteq Txs /\ LargeTxs \subseteq Txs
  /\ MaxOrphans \in Nat

VARIABLES
  orphans,    \* from: mapOrphanTransactions with fromPeer; byPrev:
              \* mapOrphanTransactionsByPrev
  pool        \* transactions in the memory pool

orphanVars == <<orphans, pool>>

InitOrphans == orphans = [from |-> <<>>, byPrev |-> <<>>] /\ pool = {}

(* The helpers take the two maps as s and return the new ones.             *)
Orphans(s) == DOMAIN s.from
Prevs(s, u) == IF u \in DOMAIN s.byPrev THEN s.byPrev[u] ELSE {}

AddOrphanTx(s, t, peer) ==
  IF t \in Orphans(s) \cup LargeTxs THEN s
  ELSE [from |-> [u \in Orphans(s) \cup {t} |-> IF u = t THEN peer ELSE s.from[u]],
        byPrev |-> [u \in DOMAIN s.byPrev \cup Parents[t] |->
                      IF u \in Parents[t] THEN Prevs(s, u) \cup {t} ELSE s.byPrev[u]]]

(* Mutant: the second map is forgotten.                                    *)
EraseOrphanTxOnce(s, S) == [s EXCEPT !.from = Restrict(@, DOMAIN @ \ S)]

(* EraseOrphanTx of every transaction of S that is an orphan.              *)
EraseOrphanTx(s, S) ==
  LET shorter == [u \in DOMAIN s.byPrev |-> s.byPrev[u] \ S]
  IN [from |-> Restrict(s.from, Orphans(s) \ S),
      byPrev |-> Restrict(shorter, {u \in DOMAIN shorter : shorter[u] # {}})]

EraseOrphansFor(s, peer) == EraseOrphanTx(s, {t \in Orphans(s) : s.from[t] = peer})

(* Mutant: one orphan too many.                                            *)
LimitOrphanTxSizeLater(s) ==
  IF Cardinality(Orphans(s)) <= MaxOrphans + 1 THEN {s}
  ELSE {EraseOrphanTx(s, S) : S \in {S \in SUBSET Orphans(s) :
                                  Cardinality(Orphans(s) \ S) = MaxOrphans + 1}}

(* LimitOrphanTxSize: random orphans are evicted.                          *)
LimitOrphanTxSize(s) ==
  IF Cardinality(Orphans(s)) <= MaxOrphans THEN {s}
  ELSE {EraseOrphanTx(s, S) : S \in {S \in SUBSET Orphans(s) :
                                  Cardinality(Orphans(s) \ S) = MaxOrphans}}

-----------------------------------------------------------------------------
(* The loop over vWorkQueue of the "tx" handler. at has the queue, the     *)
(* memory pool, vEraseQueue and setMisbehaving.                            *)

(* One orphan that spends an output of the transaction just accepted.      *)
TryOrphan(s, mined, at, o) ==
  IF s.from[o] \in at.misbehaving THEN at
  ELSE IF o \in at.pool THEN [at EXCEPT !.erase = @ \cup {o}]
  ELSE IF ~(Parents[o] \subseteq at.pool \cup mined) THEN at
  ELSE IF o \in BadTxs
       THEN [at EXCEPT !.erase = @ \cup {o},
                       !.misbehaving = @ \cup (IF o \in DoSTxs THEN {s.from[o]} ELSE {})]
  ELSE [at EXCEPT !.pool = @ \cup {o}, !.erase = @ \cup {o}, !.work = Append(@, o)]

(* Mutant: the orphans of an orphan that is accepted are not looked at.    *)
WorkOnFirst(s, mined, at, i) ==
  LET tried[j \in 0..Len(HashOrder)] ==
        IF j = 0 THEN at
        ELSE IF HashOrder[j] \notin Prevs(s, at.work[i]) THEN tried[j - 1]
        ELSE TryOrphan(s, mined, tried[j - 1], HashOrder[j])
  IN IF i > 1 THEN at ELSE tried[Len(HashOrder)]

(* The i-th element of the queue: the orphans that spend an output of it,  *)
(* in the order of their hashes.                                           *)
WorkOn(s, mined, at, i) ==
  LET tried[j \in 0..Len(HashOrder)] ==
        IF j = 0 THEN at
        ELSE IF HashOrder[j] \notin Prevs(s, at.work[i]) THEN tried[j - 1]
        ELSE TryOrphan(s, mined, tried[j - 1], HashOrder[j])
  IN IF i > Len(at.work) THEN at ELSE tried[Len(HashOrder)]

ProcessOrphans(s, mined, t) ==
  LET worked[i \in 0..Len(HashOrder)] ==
        IF i = 0 THEN [work |-> <<t>>, pool |-> pool \cup {t},
                       erase |-> {}, misbehaving |-> {}]
        ELSE WorkOn(s, mined, worked[i - 1], i)
  IN worked[Len(HashOrder)]

(* "tx" from a peer: kept as an orphan, refused, or accepted with the      *)
(* orphans that it completes. punished are the peers whose score goes up.  *)
ReceiveTx(peer, t, mined, punished) ==
  /\ t \notin pool \cup mined
  /\ \/ /\ ~(Parents[t] \subseteq pool \cup mined)
        /\ orphans' \in LimitOrphanTxSize(AddOrphanTx(orphans, t, peer))
        /\ punished = {} /\ UNCHANGED pool
     \/ /\ Parents[t] \subseteq pool \cup mined /\ t \in BadTxs
        /\ punished = IF t \in DoSTxs THEN {peer} ELSE {}
        /\ UNCHANGED orphanVars
     \/ /\ Parents[t] \subseteq pool \cup mined /\ t \notin BadTxs
        /\ LET done == ProcessOrphans(orphans, mined, t)
           IN /\ pool' = done.pool
              /\ orphans' = EraseOrphanTx(orphans, done.erase)
              /\ punished = done.misbehaving

(* Mutant: the memory pool keeps the transactions of the block.            *)
ConnectTxsKeepsPool(mined, minedNow) ==
  /\ orphans' = EraseOrphanTx(orphans, minedNow \ mined)
  /\ pool' = pool

(* ConnectTip and DisconnectTip: the transactions of the blocks leave the  *)
(* memory pool and the orphans, or come back to the memory pool.           *)
ConnectTxs(mined, minedNow) ==
  /\ orphans' = EraseOrphanTx(orphans, minedNow \ mined)
  /\ pool' = (pool \cup mined) \ minedNow

-----------------------------------------------------------------------------
(* Properties.                                                             *)

(* The two maps name the same orphans, and the second has no empty entry:  *)
(* a hash found by way of its parent is always in mapOrphanTransactions,   *)
(* where the code reads it with operator[], which would create it.         *)
OrphanMapsAgree ==
  /\ DOMAIN orphans.byPrev = UNION {Parents[t] : t \in Orphans(orphans)}
  /\ \A u \in DOMAIN orphans.byPrev :
       orphans.byPrev[u] = {t \in Orphans(orphans) : u \in Parents[t]}

(* The orphans are never more than -maxorphantx, whatever is sent.         *)
OrphansLimited == Cardinality(Orphans(orphans)) <= MaxOrphans
=============================================================================
