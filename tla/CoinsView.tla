------------------------------ MODULE CoinsView ------------------------------
(***************************************************************************)
(* The layered view of the unspent outputs (storage/coins.h, coins.cpp and *)
(* CCoinsViewDB of storage/txdb.cpp) as ConnectTip, DisconnectTip and      *)
(* FlushStateToDisk of core/main.cpp use it:                               *)
(*                                                                         *)
(*    db    the chainstate LevelDB, atomic batches, survives a crash       *)
(*    tip   pcoinsTip, a CCoinsViewCache over db, lives with the process   *)
(*    view  the CCoinsViewCache over tip of one ConnectTip/DisconnectTip   *)
(*                                                                         *)
(* The contents of a CCoins is opaque; only IsPruned() is told apart.      *)
(***************************************************************************)
CONSTANTS TxIds, Coins, Pruned, Blocks, NullHash,
          NotFound,   \* what GetCoins returning false leaves the caller with
          NoEntry,    \* cacheCoins.find(txid) == cacheCoins.end()
          NoTx        \* no CCoinsModifier alive

AnyCoins == Coins \cup {Pruned}
Flags == {"DIRTY", "FRESH"}
CacheEntry == [coins : AnyCoins, flags : SUBSET Flags]

ASSUME DistinctValues == /\ Pruned \notin Coins
                         /\ NotFound \notin AnyCoins
                         /\ NoEntry \notin CacheEntry
                         /\ NoTx \notin TxIds
                         /\ NullHash \notin Blocks

VARIABLES
  db,         \* 'c' records: txid -> unpruned coins, or NotFound
  dbBest,     \* 'B' record
  tip,        \* pcoinsTip->cacheCoins
  tipBest,    \* pcoinsTip->hashBlock, NullHash until it is asked for
  view,       \* view.cacheCoins
  viewBest,   \* view.hashBlock
  open,       \* a view object exists on the stack
  modifying   \* txid of the CCoinsModifier alive on view, or NoTx

vars == <<db, dbBest, tip, tipBest, view, viewBest, open, modifying>>

EmptyCache == [t \in TxIds |-> NoEntry]

(* The database holds no pruned coins, a flag set is DIRTY and FRESH at    *)
(* most, and a cache is a map from txid to such entries.                   *)
TypeOK == /\ db \in [TxIds -> Coins \cup {NotFound}]
          /\ dbBest \in Blocks \cup {NullHash}
          /\ tip \in [TxIds -> CacheEntry \cup {NoEntry}]
          /\ tipBest \in Blocks \cup {NullHash}
          /\ view \in [TxIds -> CacheEntry \cup {NoEntry}]
          /\ viewBest \in Blocks \cup {NullHash}
          /\ open \in BOOLEAN
          /\ modifying \in TxIds \cup {NoTx}
-----------------------------------------------------------------------------
(* CCoinsViewCache::FetchCoins on one entry, over what the base returned.  *)
FetchCoins(entry, found) ==
  IF entry # NoEntry \/ found = NotFound
  THEN entry
  ELSE [coins |-> found, flags |-> IF found = Pruned THEN {"FRESH"} ELSE {}]

(* CCoinsViewCache::GetCoins once the entry was fetched.                   *)
GetCoins(entry) == IF entry = NoEntry THEN NotFound ELSE entry.coins

(* Mutant: only an entry that ModifyCoins itself inserted becomes DIRTY.    *)
ModifyCoinsCleanHit(entry, found) ==
  IF entry # NoEntry
  THEN entry
  ELSE [coins |-> IF found = NotFound THEN Pruned ELSE found,
        flags |-> IF found \in {NotFound, Pruned} THEN {"DIRTY", "FRESH"}
                                                  ELSE {"DIRTY"}]

(* The entry CCoinsViewCache::ModifyCoins leaves in the cache.             *)
ModifyCoins(entry, found) ==
  IF entry # NoEntry
  THEN [entry EXCEPT !.flags = @ \cup {"DIRTY"}]
  ELSE [coins |-> IF found = NotFound THEN Pruned ELSE found,
        flags |-> IF found \in {NotFound, Pruned} THEN {"DIRTY", "FRESH"}
                                                  ELSE {"DIRTY"}]

(* ~CCoinsModifier: a fresh entry that ended up pruned is dropped.         *)
Released(entry) ==
  IF "FRESH" \in entry.flags /\ entry.coins = Pruned THEN NoEntry ELSE entry

(* Mutant: the child's erasure is taken over without asking for FRESH.     *)
BatchWriteErasesAlways(us, them) ==
  IF them = NoEntry THEN us
  ELSE IF "DIRTY" \notin them.flags THEN us
  ELSE IF them.coins = Pruned THEN NoEntry
  ELSE [coins |-> them.coins,
        flags |-> IF us = NoEntry THEN {"DIRTY", "FRESH"}
                                  ELSE us.flags \cup {"DIRTY"}]

(* Mutant: a moved-up entry is marked FRESH even where ours was not.       *)
BatchWriteAllFresh(us, them) ==
  IF them = NoEntry THEN us
  ELSE IF "DIRTY" \notin them.flags THEN us
  ELSE IF (us = NoEntry \/ "FRESH" \in us.flags) /\ them.coins = Pruned THEN NoEntry
  ELSE [coins |-> them.coins, flags |-> {"DIRTY", "FRESH"}]

(* CCoinsViewCache::BatchWrite on one entry: us is ours, them the child's. *)
BatchWrite(us, them) ==
  IF them = NoEntry THEN us
  ELSE IF "DIRTY" \notin them.flags THEN us
  ELSE IF us = NoEntry
       THEN IF them.coins = Pruned THEN NoEntry
            ELSE [coins |-> them.coins, flags |-> {"DIRTY", "FRESH"}]
  ELSE IF "FRESH" \in us.flags /\ them.coins = Pruned THEN NoEntry
  ELSE [coins |-> them.coins, flags |-> us.flags \cup {"DIRTY"}]

(* Mutant: a fully spent output is written instead of erased.              *)
BatchWriteCoinsKeeps(record, them) ==
  IF them = NoEntry THEN record
  ELSE IF "DIRTY" \notin them.flags THEN record ELSE them.coins

(* CCoinsViewDB::BatchWrite on one record (BatchWriteCoins).               *)
BatchWriteCoins(record, them) ==
  IF them = NoEntry THEN record
  ELSE IF "DIRTY" \notin them.flags THEN record
  ELSE IF them.coins = Pruned THEN NotFound
  ELSE them.coins

(* GetBestBlock of a cache whose own hash may not be filled in yet.        *)
GetBestBlock(own, base) == IF own = NullHash THEN base ELSE own

(* The tip's cache after a read of t reached it from the view above.       *)
TipAfterRead(t) == [tip EXCEPT ![t] = FetchCoins(tip[t], db[t])]
-----------------------------------------------------------------------------
Init == /\ db = [t \in TxIds |-> NotFound] /\ dbBest = NullHash
        /\ tip = EmptyCache /\ tipBest = NullHash
        /\ view = EmptyCache /\ viewBest = NullHash
        /\ open = FALSE /\ modifying = NoTx

(* CCoinsViewCache view(pcoinsTip) in ConnectTip and DisconnectTip.        *)
OpenView == /\ ~open
            /\ open' = TRUE
            /\ view' = EmptyCache /\ viewBest' = NullHash
            /\ UNCHANGED <<db, dbBest, tip, tipBest, modifying>>

(* A read on pcoinsTip itself (AlreadyHave, mempool.check, RPC).           *)
TipRead(t) == /\ tip' = TipAfterRead(t)
              /\ UNCHANGED <<db, dbBest, tipBest, view, viewBest, open, modifying>>

(* AccessCoins/HaveCoins/GetCoins on the view; a miss reads through tip.   *)
ViewRead(t) ==
  /\ open
  /\ view[t] = NoEntry
  /\ tip' = TipAfterRead(t)
  /\ view' = [view EXCEPT ![t] = FetchCoins(NoEntry, GetCoins(tip'[t]))]
  /\ UNCHANGED <<db, dbBest, tipBest, viewBest, open, modifying>>

(* view.ModifyCoins(t): creates the CCoinsModifier.                        *)
ViewModify(t) ==
  /\ open /\ modifying = NoTx
  /\ tip' = IF view[t] = NoEntry THEN TipAfterRead(t) ELSE tip
  /\ view' = [view EXCEPT ![t] = ModifyCoins(@, GetCoins(tip'[t]))]
  /\ modifying' = t
  /\ UNCHANGED <<db, dbBest, tipBest, viewBest, open>>

(* Spend, FromTx, Clear or an undo write through the modifier.             *)
ViewMutate(c) ==
  /\ modifying # NoTx
  /\ view' = [view EXCEPT ![modifying].coins = c]
  /\ UNCHANGED <<db, dbBest, tip, tipBest, viewBest, open, modifying>>

(* ~CCoinsModifier.                                                        *)
ViewRelease ==
  /\ modifying # NoTx
  /\ view' = [view EXCEPT ![modifying] = Released(@)]
  /\ modifying' = NoTx
  /\ UNCHANGED <<db, dbBest, tip, tipBest, viewBest, open>>

(* view.GetBestBlock(): fills the hash of the view and of tip on the way.  *)
ViewGetBestBlock ==
  /\ open
  /\ viewBest = NullHash
  /\ tipBest' = GetBestBlock(tipBest, dbBest)
  /\ viewBest' = tipBest'
  /\ UNCHANGED <<db, dbBest, tip, view, open, modifying>>

(* view.SetBestBlock(b), at the end of ConnectBlock and DisconnectBlock.   *)
ViewSetBestBlock(b) ==
  /\ open
  /\ viewBest' = b
  /\ UNCHANGED <<db, dbBest, tip, tipBest, view, open, modifying>>

(* view.Flush() of ConnectTip and DisconnectTip. Both reach it only after  *)
(* SetBestBlock, and with no modifier alive.                               *)
ViewFlush ==
  /\ open /\ modifying = NoTx
  /\ viewBest # NullHash
  /\ tip' = [t \in TxIds |-> BatchWrite(tip[t], view[t])]
  /\ tipBest' = viewBest
  /\ view' = EmptyCache
  /\ UNCHANGED <<db, dbBest, viewBest, open, modifying>>

(* The view goes out of scope: after its flush, or because ConnectBlock    *)
(* failed or only a trial (TestBlockValidity, CreateNewBlock) was wanted.  *)
ViewDestroy ==
  /\ open /\ modifying = NoTx
  /\ view' = EmptyCache /\ viewBest' = NullHash
  /\ open' = FALSE
  /\ UNCHANGED <<db, dbBest, tip, tipBest, modifying>>

(* Mutant: the cache is written out in the middle of a block.              *)
TipFlushAnytime ==
  /\ db' = [t \in TxIds |-> BatchWriteCoins(db[t], tip[t])]
  /\ dbBest' = IF tipBest # NullHash THEN tipBest ELSE dbBest
  /\ tip' = EmptyCache
  /\ UNCHANGED <<tipBest, view, viewBest, open, modifying>>

(* pcoinsTip->Flush() of FlushStateToDisk, called with no view alive.      *)
TipFlush ==
  /\ ~open
  /\ db' = [t \in TxIds |-> BatchWriteCoins(db[t], tip[t])]
  /\ dbBest' = IF tipBest # NullHash THEN tipBest ELSE dbBest
  /\ tip' = EmptyCache
  /\ UNCHANGED <<tipBest, view, viewBest, open, modifying>>

(* The process dies; the batch of TipFlush is all there or not at all.     *)
Crash ==
  /\ tip' = EmptyCache /\ tipBest' = NullHash
  /\ view' = EmptyCache /\ viewBest' = NullHash
  /\ open' = FALSE /\ modifying' = NoTx
  /\ UNCHANGED <<db, dbBest>>

Next == \/ OpenView
        \/ \E t \in TxIds : TipRead(t) \/ ViewRead(t) \/ ViewModify(t)
        \/ \E c \in AnyCoins : ViewMutate(c)
        \/ ViewRelease \/ ViewGetBestBlock
        \/ \E b \in Blocks : ViewSetBestBlock(b)
        \/ ViewFlush \/ ViewDestroy \/ TipFlush \/ Crash

Spec == Init /\ [][Next]_vars
-----------------------------------------------------------------------------
(* The contents each layer stands for, caches resolved.                    *)
DbCoins(t) == IF db[t] = NotFound THEN Pruned ELSE db[t]
TipCoins(t) == IF tip[t] = NoEntry THEN DbCoins(t) ELSE tip[t].coins
ViewCoins(t) == IF view[t] = NoEntry THEN TipCoins(t) ELSE view[t].coins

TipBest == GetBestBlock(tipBest, dbBest)
ViewBest == GetBestBlock(viewBest, TipBest)

Durable == [coins |-> [t \in TxIds |-> DbCoins(t)], best |-> dbBest]
Committed == [coins |-> [t \in TxIds |-> TipCoins(t)], best |-> TipBest]
Working == [coins |-> [t \in TxIds |-> ViewCoins(t)], best |-> ViewBest]

Store == INSTANCE CoinStore WITH
  durable <- Durable, committed <- Committed, working <- Working

(* The three layers behave as one store with atomic commits: whatever the  *)
(* order of reads, modifications and flushes, no spent output comes back,  *)
(* no new one is lost, and contents and best block move together.          *)
StoreSpec == Store!Spec

(* CCoinsCacheEntry::Flags of the tip: FRESH says that the database has no *)
(* such record, a missing DIRTY that it has the same one.                  *)
TipFlagsTrue == \A t \in TxIds : tip[t] # NoEntry =>
  /\ "FRESH" \in tip[t].flags => db[t] = NotFound
  /\ "DIRTY" \notin tip[t].flags => tip[t].coins = DbCoins(t)

(* The same of the view over the tip, which has it from its own base.      *)
ViewFlagsTrue == \A t \in TxIds : view[t] # NoEntry =>
  /\ "FRESH" \in view[t].flags => TipCoins(t) = Pruned
  /\ "DIRTY" \notin view[t].flags => view[t].coins = TipCoins(t)

(* The assertion of BatchWrite, over every view that could be flushed: an  *)
(* unpruned modified entry the tip does not hold is FRESH ("if the         *)
(* grandparent did have it, we would have pulled it in at first GetCoins").*)
BatchWriteAssert == \A t \in TxIds :
  (view[t] # NoEntry /\ tip[t] = NoEntry) =>
     ("DIRTY" \in view[t].flags /\ view[t].coins # Pruned
        => "FRESH" \in view[t].flags)
=============================================================================
