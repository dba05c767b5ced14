--------------------------- MODULE CoinsViewProofs ---------------------------
(* Proofs about CoinsView for every set of transactions, contents and      *)
(* blocks: the cache flags tell the truth, the assertion of BatchWrite     *)
(* holds, and the layers implement CoinStore.                              *)
EXTENDS CoinsView, TLAPS

(* A view entry that is not FRESH came through the tip and is still there. *)
ViewEntriesBacked == \A t \in TxIds :
  (view[t] # NoEntry /\ "FRESH" \notin view[t].flags) => tip[t] # NoEntry

(* Between views nothing is left of the last one.                          *)
ClosedViewEmpty == open = FALSE =>
  /\ \A t \in TxIds : view[t] = NoEntry
  /\ viewBest = NullHash
  /\ modifying = NoTx

(* A modifier points at a cached entry that is already DIRTY.              *)
ModifierHeld == modifying # NoTx =>
  /\ view[modifying] # NoEntry
  /\ "DIRTY" \in view[modifying].flags

IInv == /\ TypeOK /\ TipFlagsTrue /\ ViewFlagsTrue
        /\ ViewEntriesBacked /\ ClosedViewEmpty /\ ModifierHeld
-----------------------------------------------------------------------------
(* Init leaves every cache empty, so every flag claim holds vacuously.     *)
LEMMA InitIInv == Init => IInv
  BY DistinctValues
  DEF Init, IInv, TypeOK, TipFlagsTrue, ViewFlagsTrue, ViewEntriesBacked,
      ClosedViewEmpty, ModifierHeld, EmptyCache

(* Filling the tip from the database changes no contents and keeps every   *)
(* claim the flags make: a read through the tip is invisible.              *)
LEMMA TipReadInvisible ==
  ASSUME IInv, NEW t \in TxIds, NEW tp, tp = TipAfterRead(t)
  PROVE  /\ tp \in [TxIds -> CacheEntry \cup {NoEntry}]
         /\ \A s \in TxIds : tip[s] # NoEntry => tp[s] = tip[s]
         /\ \A s \in TxIds : tip[s] = NoEntry /\ tp[s] # NoEntry =>
              /\ tp[s].coins = db[s] /\ tp[s].coins # Pruned
              /\ tp[s].flags = {}
              /\ db[s] # NotFound
         /\ tp[t] = NoEntry => db[t] = NotFound
  BY DistinctValues
  DEF IInv, TypeOK, TipAfterRead, FetchCoins, CacheEntry, Flags, AnyCoins

(* Every operation of the stack keeps the invariant: one case per action.  *)
LEMMA StepIInv == IInv /\ [Next]_vars => IInv'
<1> SUFFICES ASSUME IInv, [Next]_vars PROVE IInv'
  OBVIOUS
<1> USE DistinctValues
<1>1. CASE OpenView
  BY <1>1 DEF IInv, TypeOK, TipFlagsTrue, ViewFlagsTrue, ViewEntriesBacked,
       ClosedViewEmpty, ModifierHeld, OpenView, EmptyCache, DbCoins
<1>2. ASSUME NEW t \in TxIds, TipRead(t) PROVE IInv'
  <2>1. /\ tip' \in [TxIds -> CacheEntry \cup {NoEntry}]
        /\ \A s \in TxIds : tip[s] # NoEntry => tip'[s] = tip[s]
        /\ \A s \in TxIds : tip[s] = NoEntry /\ tip'[s] # NoEntry =>
             tip'[s].coins = db[s] /\ tip'[s].flags = {} /\ db[s] # NotFound
    BY <1>2, TipReadInvisible DEF TipRead
  <2>2. UNCHANGED <<db, dbBest, tipBest, view, viewBest, open, modifying>>
    BY <1>2 DEF TipRead
  <2> QED
    BY <2>1, <2>2
    DEF IInv, TypeOK, TipFlagsTrue, ViewFlagsTrue, ViewEntriesBacked, ClosedViewEmpty,
        ModifierHeld, DbCoins, TipCoins
<1>3. ASSUME NEW t \in TxIds, ViewRead(t) PROVE IInv'
  BY <1>3, TipReadInvisible
  DEF IInv, TypeOK, TipFlagsTrue, ViewFlagsTrue, ViewEntriesBacked, ClosedViewEmpty,
      ModifierHeld, ViewRead, DbCoins, TipCoins, CacheEntry, AnyCoins, Flags,
      FetchCoins, GetCoins
<1>4. ASSUME NEW t \in TxIds, ViewModify(t) PROVE IInv'
  BY <1>4, TipReadInvisible
  DEF IInv, TypeOK, TipFlagsTrue, ViewFlagsTrue, ViewEntriesBacked, ClosedViewEmpty,
      ModifierHeld, ViewModify, DbCoins, TipCoins, CacheEntry, AnyCoins, Flags,
      ModifyCoins, GetCoins
<1>5. ASSUME NEW c \in AnyCoins, ViewMutate(c) PROVE IInv'
  BY <1>5
  DEF IInv, TypeOK, TipFlagsTrue, ViewFlagsTrue, ViewEntriesBacked, ClosedViewEmpty,
      ModifierHeld, ViewMutate, DbCoins, TipCoins, CacheEntry, AnyCoins, Flags
<1>6. CASE ViewRelease
  BY <1>6
  DEF IInv, TypeOK, TipFlagsTrue, ViewFlagsTrue, ViewEntriesBacked, ClosedViewEmpty,
      ModifierHeld, ViewRelease, Released, DbCoins, TipCoins
<1>7. CASE ViewGetBestBlock
  BY <1>7
  DEF IInv, TypeOK, TipFlagsTrue, ViewFlagsTrue, ViewEntriesBacked, ClosedViewEmpty,
      ModifierHeld, ViewGetBestBlock, GetBestBlock, DbCoins, TipCoins
<1>8. ASSUME NEW b \in Blocks, ViewSetBestBlock(b) PROVE IInv'
  BY <1>8
  DEF IInv, TypeOK, TipFlagsTrue, ViewFlagsTrue, ViewEntriesBacked, ClosedViewEmpty,
      ModifierHeld, ViewSetBestBlock, DbCoins, TipCoins
<1>9. CASE ViewFlush
  BY <1>9
  DEF IInv, TypeOK, TipFlagsTrue, ViewFlagsTrue, ViewEntriesBacked, ClosedViewEmpty,
      ModifierHeld, ViewFlush, BatchWrite, EmptyCache, DbCoins, TipCoins,
      CacheEntry, AnyCoins, Flags
<1>10. CASE ViewDestroy
  BY <1>10
  DEF IInv, TypeOK, TipFlagsTrue, ViewFlagsTrue, ViewEntriesBacked, ClosedViewEmpty,
      ModifierHeld, ViewDestroy, EmptyCache, DbCoins
<1>11. CASE TipFlush
  BY <1>11
  DEF IInv, TypeOK, TipFlagsTrue, ViewFlagsTrue, ViewEntriesBacked, ClosedViewEmpty,
      ModifierHeld, TipFlush, BatchWriteCoins, EmptyCache, CacheEntry, AnyCoins
<1>12. CASE Crash
  BY <1>12
  DEF IInv, TypeOK, TipFlagsTrue, ViewFlagsTrue, ViewEntriesBacked, ClosedViewEmpty,
      ModifierHeld, Crash, EmptyCache
<1>13. CASE UNCHANGED vars
  BY <1>13
  DEF IInv, TypeOK, TipFlagsTrue, ViewFlagsTrue, ViewEntriesBacked, ClosedViewEmpty,
      ModifierHeld, vars, DbCoins, TipCoins
<1> QED
  BY <1>1, <1>2, <1>3, <1>4, <1>5, <1>6, <1>7, <1>8, <1>9, <1>10, <1>11, <1>12,
     <1>13 DEF Next

(* The inductive invariant of the whole stack.                            *)
LEMMA SpecIInv == Spec => []IInv
  BY InitIInv, StepIInv, PTL DEF Spec

(* Every reachable state of the view stack is well typed.                  *)
THEOREM TypeCorrect == Spec => []TypeOK
  BY SpecIInv, PTL DEF IInv

(* FRESH and DIRTY of pcoinsTip always say the truth about the database.   *)
THEOREM TipFlagsTrueHolds == Spec => []TipFlagsTrue
  BY SpecIInv, PTL DEF IInv

(* FRESH and DIRTY of the block's view always say the truth about          *)
(* pcoinsTip.                                                              *)
THEOREM ViewFlagsTrueHolds == Spec => []ViewFlagsTrue
  BY SpecIInv, PTL DEF IInv

(* The assertion in CCoinsViewCache::BatchWrite cannot fail.               *)
THEOREM BatchWriteAssertHolds == Spec => []BatchWriteAssert
<1>1. IInv => BatchWriteAssert
  BY DEF IInv, ViewEntriesBacked, BatchWriteAssert
<1> QED
  BY <1>1, SpecIInv, PTL

(* The initial caches stand for the empty store.                           *)
LEMMA InitStore == Init => Store!Init
<1> SUFFICES ASSUME Init PROVE Store!Init
  OBVIOUS
<1>1. \A t \in TxIds : DbCoins(t) = Pruned /\ TipCoins(t) = Pruned /\ ViewCoins(t) = Pruned
  BY DEF Init, EmptyCache, DbCoins, TipCoins, ViewCoins
<1>2. dbBest = NullHash /\ TipBest = NullHash /\ ViewBest = NullHash
  BY DEF Init, GetBestBlock, TipBest, ViewBest
<1> QED
  BY <1>1, <1>2 DEF Store!Init, Store!Version, Durable, Committed, Working

(* Updating one field, or one component of one field, of a version.         *)
LEMMA VersionExcept ==
  ASSUME NEW C, NEW B, NEW b, NEW t, NEW c
  PROVE  /\ [[coins |-> C, best |-> B] EXCEPT !.best = b] = [coins |-> C, best |-> b]
         /\ [[coins |-> C, best |-> B] EXCEPT !.coins[t] = c]
              = [coins |-> [C EXCEPT ![t] = c], best |-> B]
  OBVIOUS

(* Every step of the caches is a step of the store or invisible to it.     *)
LEMMA StepStore == IInv /\ IInv' /\ [Next]_vars => [Store!Next]_(Store!vars)
<1> SUFFICES ASSUME IInv, IInv', [Next]_vars PROVE [Store!Next]_(Store!vars)
  OBVIOUS
<1> USE DistinctValues
<1> USE DEF Durable, Committed, Working
<1>a. ASSUME Durable' = Durable, Committed' = Committed, Working' = Working
      PROVE  [Store!Next]_(Store!vars)
  BY <1>a DEF Store!vars
<1>1. CASE OpenView
  <2>1. \A t \in TxIds : DbCoins(t)' = DbCoins(t) /\ TipCoins(t)' = TipCoins(t)
                        /\ ViewCoins(t)' = ViewCoins(t)
    BY <1>1 DEF OpenView, IInv, ClosedViewEmpty, EmptyCache, DbCoins, TipCoins, ViewCoins
  <2>2. dbBest' = dbBest /\ TipBest' = TipBest /\ ViewBest' = ViewBest
    BY <1>1 DEF OpenView, IInv, ClosedViewEmpty, TipBest, ViewBest
  <2> QED BY <2>1, <2>2, <1>a
<1>2. ASSUME NEW t \in TxIds, TipRead(t) PROVE [Store!Next]_(Store!vars)
  <2>1. \A s \in TxIds : DbCoins(s)' = DbCoins(s) /\ TipCoins(s)' = TipCoins(s)
    BY <1>2, TipReadInvisible DEF TipRead, DbCoins, TipCoins
  <2>2. \A s \in TxIds : ViewCoins(s)' = ViewCoins(s)
    BY <1>2, <2>1 DEF TipRead, ViewCoins
  <2>3. dbBest' = dbBest /\ TipBest' = TipBest /\ ViewBest' = ViewBest
    BY <1>2 DEF TipRead, TipBest, ViewBest
  <2> QED BY <2>1, <2>2, <2>3, <1>a
<1>3. ASSUME NEW t \in TxIds, ViewRead(t) PROVE [Store!Next]_(Store!vars)
  <2>1. \A s \in TxIds : DbCoins(s)' = DbCoins(s) /\ TipCoins(s)' = TipCoins(s)
    BY <1>3, TipReadInvisible DEF ViewRead, DbCoins, TipCoins
  <2>2. \A s \in TxIds : ViewCoins(s)' = ViewCoins(s)
    BY <1>3, <2>1, TipReadInvisible
    DEF ViewRead, IInv, TypeOK, ViewCoins, TipCoins, DbCoins, FetchCoins, GetCoins,
        CacheEntry, AnyCoins
  <2>3. dbBest' = dbBest /\ TipBest' = TipBest /\ ViewBest' = ViewBest
    BY <1>3 DEF ViewRead, TipBest, ViewBest
  <2> QED BY <2>1, <2>2, <2>3, <1>a
<1>4. ASSUME NEW t \in TxIds, ViewModify(t) PROVE [Store!Next]_(Store!vars)
  <2>1. \A s \in TxIds : DbCoins(s)' = DbCoins(s) /\ TipCoins(s)' = TipCoins(s)
    BY <1>4, TipReadInvisible DEF ViewModify, DbCoins, TipCoins
  <2>2. ASSUME NEW s \in TxIds PROVE ViewCoins(s)' = ViewCoins(s)
    <3>1. CASE s # t
      BY <1>4, <2>1, <3>1 DEF ViewModify, IInv, TypeOK, ViewCoins
    <3>2. CASE s = t /\ view[t] # NoEntry
      BY <1>4, <3>2 DEF ViewModify, ModifyCoins, IInv, TypeOK, ModifierHeld, ViewCoins,
                        CacheEntry
    <3>3. CASE s = t /\ view[t] = NoEntry
      <4>1. view'[t] # NoEntry
        BY <1>4 DEF ViewModify, IInv, ModifierHeld
      <4>2. view'[t].coins = IF GetCoins(tip'[t]) = NotFound THEN Pruned ELSE GetCoins(tip'[t])
        BY <1>4, <3>3 DEF ViewModify, ModifyCoins, IInv, TypeOK
      <4>3. view'[t].coins = TipCoins(t)'
        BY <1>4, <3>3, <4>2, TipReadInvisible
        DEF ViewModify, GetCoins, TipCoins, DbCoins, IInv, TypeOK, CacheEntry
      <4> QED BY <2>1, <3>3, <4>1, <4>3 DEF ViewCoins
    <3> QED BY <3>1, <3>2, <3>3
  <2>3. dbBest' = dbBest /\ TipBest' = TipBest /\ ViewBest' = ViewBest
    BY <1>4 DEF ViewModify, TipBest, ViewBest
  <2> QED BY <2>1, <2>2, <2>3, <1>a
<1>5. ASSUME NEW c \in AnyCoins, ViewMutate(c) PROVE [Store!Next]_(Store!vars)
  <2>1. /\ \A s \in TxIds : DbCoins(s)' = DbCoins(s) /\ TipCoins(s)' = TipCoins(s)
        /\ \A s \in TxIds : ViewCoins(s)' = IF s = modifying THEN c ELSE ViewCoins(s)
    BY <1>5 DEF ViewMutate, IInv, TypeOK, ModifierHeld, DbCoins, TipCoins, ViewCoins,
                CacheEntry
  <2>2. dbBest' = dbBest /\ TipBest' = TipBest /\ ViewBest' = ViewBest
    BY <1>5 DEF ViewMutate, TipBest, ViewBest
  <2>3. modifying \in TxIds
    BY <1>5 DEF ViewMutate, IInv, TypeOK
  <2>4. Working' = [Working EXCEPT !.coins[modifying] = c]
    <3>1. [s \in TxIds |-> ViewCoins(s)'] =
            [[s \in TxIds |-> ViewCoins(s)] EXCEPT ![modifying] = c]
      BY <2>1
    <3> DEFINE C == [s \in TxIds |-> ViewCoins(s)]
    <3>2. Working = [coins |-> C, best |-> ViewBest]
      OBVIOUS
    <3>3. Working' = [coins |-> [C EXCEPT ![modifying] = c], best |-> ViewBest]
      BY <2>2, <3>1
    <3> HIDE DEF Working, C
    <3> QED BY <3>2, <3>3, VersionExcept
  <2>5. Store!Write(modifying, c)
    BY <2>1, <2>2, <2>4 DEF Store!Write
  <2> QED BY <2>3, <2>5 DEF Store!Next, AnyCoins
<1>6. CASE ViewRelease
  <2>1. \A s \in TxIds : DbCoins(s)' = DbCoins(s) /\ TipCoins(s)' = TipCoins(s)
                        /\ ViewCoins(s)' = ViewCoins(s)
    BY <1>6 DEF ViewRelease, Released, IInv, TypeOK, ViewFlagsTrue, DbCoins, TipCoins,
                ViewCoins
  <2>2. dbBest' = dbBest /\ TipBest' = TipBest /\ ViewBest' = ViewBest
    BY <1>6 DEF ViewRelease, TipBest, ViewBest
  <2> QED BY <2>1, <2>2, <1>a
<1>7. CASE ViewGetBestBlock
  <2>1. \A s \in TxIds : DbCoins(s)' = DbCoins(s) /\ TipCoins(s)' = TipCoins(s)
                        /\ ViewCoins(s)' = ViewCoins(s)
    BY <1>7 DEF ViewGetBestBlock, DbCoins, TipCoins, ViewCoins
  <2>2. dbBest' = dbBest /\ TipBest' = TipBest /\ ViewBest' = ViewBest
    BY <1>7 DEF ViewGetBestBlock, GetBestBlock, TipBest, ViewBest
  <2> QED BY <2>1, <2>2, <1>a
<1>8. ASSUME NEW b \in Blocks, ViewSetBestBlock(b) PROVE [Store!Next]_(Store!vars)
  <2>1. \A s \in TxIds : DbCoins(s)' = DbCoins(s) /\ TipCoins(s)' = TipCoins(s)
                        /\ ViewCoins(s)' = ViewCoins(s)
    BY <1>8 DEF ViewSetBestBlock, DbCoins, TipCoins, ViewCoins
  <2>2. dbBest' = dbBest /\ TipBest' = TipBest /\ ViewBest' = b
    BY <1>8 DEF ViewSetBestBlock, GetBestBlock, TipBest, ViewBest
  <2>3. Working' = [Working EXCEPT !.best = b]
    <3> DEFINE C == [s \in TxIds |-> ViewCoins(s)]
    <3>1. Working = [coins |-> C, best |-> ViewBest]
      OBVIOUS
    <3>2. Working' = [coins |-> C, best |-> b]
      BY <2>1, <2>2
    <3> HIDE DEF Working, C
    <3> QED BY <3>1, <3>2, VersionExcept
  <2>4. Store!Label(b)
    BY <2>1, <2>2, <2>3 DEF Store!Label
  <2> QED BY <2>4 DEF Store!Next
<1>9. CASE ViewFlush
  <2>1. ASSUME NEW s \in TxIds
        PROVE  DbCoins(s)' = DbCoins(s) /\ TipCoins(s)' = ViewCoins(s)
    <3>1. tip'[s] = BatchWrite(tip[s], view[s]) /\ db' = db
      BY <1>9 DEF ViewFlush
    <3>2. tip'[s] \in CacheEntry \cup {NoEntry} /\ tip[s] \in CacheEntry \cup {NoEntry}
          /\ view[s] \in CacheEntry \cup {NoEntry}
      BY DEF IInv, TypeOK
    <3>3. CASE view[s] = NoEntry
      BY <3>1, <3>3 DEF BatchWrite, DbCoins, TipCoins, ViewCoins
    <3>4. CASE view[s] # NoEntry /\ "DIRTY" \notin view[s].flags
      BY <3>1, <3>4 DEF BatchWrite, IInv, ViewFlagsTrue, DbCoins, TipCoins, ViewCoins
    <3>5. CASE view[s] # NoEntry /\ "DIRTY" \in view[s].flags /\ tip[s] = NoEntry
      <4>1. "FRESH" \in view[s].flags /\ DbCoins(s) = Pruned
        BY <3>5 DEF IInv, ViewEntriesBacked, ViewFlagsTrue, TipCoins
      <4>2. CASE view[s].coins = Pruned
        BY <3>1, <3>5, <4>1, <4>2 DEF BatchWrite, DbCoins, TipCoins, ViewCoins
      <4>3. CASE view[s].coins # Pruned
        <5>1. tip'[s] = [coins |-> view[s].coins, flags |-> {"DIRTY", "FRESH"}]
          BY <3>1, <3>5, <4>3 DEF BatchWrite
        <5>2. tip'[s] # NoEntry
          BY <5>1, <3>2, <3>5 DEF CacheEntry, Flags
        <5> QED
          BY <3>1, <3>5, <5>1, <5>2 DEF DbCoins, TipCoins, ViewCoins
      <4> QED BY <4>2, <4>3
    <3>6. CASE view[s] # NoEntry /\ "DIRTY" \in view[s].flags /\ tip[s] # NoEntry
      <4>1. CASE "FRESH" \in tip[s].flags /\ view[s].coins = Pruned
        BY <3>1, <3>6, <4>1 DEF BatchWrite, IInv, TipFlagsTrue, DbCoins, TipCoins, ViewCoins
      <4>2. CASE ~("FRESH" \in tip[s].flags /\ view[s].coins = Pruned)
        <5>1. tip'[s] = [coins |-> view[s].coins, flags |-> tip[s].flags \cup {"DIRTY"}]
          BY <3>1, <3>6, <4>2 DEF BatchWrite
        <5>2. tip'[s] # NoEntry
          BY <5>1, <3>2, <3>6 DEF CacheEntry, Flags
        <5> QED
          BY <3>1, <3>6, <5>1, <5>2 DEF DbCoins, TipCoins, ViewCoins
      <4> QED BY <4>1, <4>2
    <3> QED BY <3>3, <3>4, <3>5, <3>6
  <2>2. \A s \in TxIds : ViewCoins(s)' = ViewCoins(s)
    BY <1>9, <2>1 DEF ViewFlush, EmptyCache, ViewCoins
  <2>3. dbBest' = dbBest /\ TipBest' = ViewBest /\ ViewBest' = ViewBest
    BY <1>9 DEF ViewFlush, GetBestBlock, TipBest, ViewBest
  <2>4. Store!Commit
    BY <2>1, <2>2, <2>3 DEF Store!Commit
  <2> QED BY <2>4 DEF Store!Next
<1>10. CASE ViewDestroy
  <2>1. \A s \in TxIds : DbCoins(s)' = DbCoins(s) /\ TipCoins(s)' = TipCoins(s)
                        /\ ViewCoins(s)' = TipCoins(s)
    BY <1>10 DEF ViewDestroy, EmptyCache, DbCoins, TipCoins, ViewCoins
  <2>2. dbBest' = dbBest /\ TipBest' = TipBest /\ ViewBest' = TipBest
    BY <1>10 DEF ViewDestroy, GetBestBlock, TipBest, ViewBest
  <2>3. Store!Abort
    BY <2>1, <2>2 DEF Store!Abort
  <2> QED BY <2>3 DEF Store!Next
<1>11. CASE TipFlush
  <2>1. \A s \in TxIds : DbCoins(s)' = TipCoins(s) /\ TipCoins(s)' = TipCoins(s)
    BY <1>11 DEF TipFlush, BatchWriteCoins, EmptyCache, IInv, TypeOK, TipFlagsTrue,
                 DbCoins, TipCoins, CacheEntry, AnyCoins
  <2>2. \A s \in TxIds : ViewCoins(s) = TipCoins(s) /\ ViewCoins(s)' = TipCoins(s)
    BY <1>11, <2>1 DEF TipFlush, IInv, ClosedViewEmpty, ViewCoins
  <2>3. dbBest' = TipBest /\ TipBest' = TipBest /\ ViewBest = TipBest /\ ViewBest' = TipBest
    BY <1>11 DEF TipFlush, IInv, ClosedViewEmpty, GetBestBlock, TipBest, ViewBest
  <2>4. Store!Persist
    BY <2>1, <2>2, <2>3 DEF Store!Persist
  <2> QED BY <2>4 DEF Store!Next
<1>12. CASE Crash
  <2>1. \A s \in TxIds : DbCoins(s)' = DbCoins(s) /\ TipCoins(s)' = DbCoins(s)
                        /\ ViewCoins(s)' = DbCoins(s)
    BY <1>12 DEF Crash, EmptyCache, DbCoins, TipCoins, ViewCoins
  <2>2. dbBest' = dbBest /\ TipBest' = dbBest /\ ViewBest' = dbBest
    BY <1>12 DEF Crash, GetBestBlock, TipBest, ViewBest
  <2>3. Store!Crash
    BY <2>1, <2>2 DEF Store!Crash
  <2> QED BY <2>3 DEF Store!Next
<1>13. CASE UNCHANGED vars
  BY <1>13, <1>a DEF vars, DbCoins, TipCoins, ViewCoins, TipBest, ViewBest
<1> QED
  BY <1>1, <1>2, <1>3, <1>4, <1>5, <1>6, <1>7, <1>8, <1>9, <1>10, <1>11, <1>12,
     <1>13 DEF Next

(* The cached layers implement the store with atomic commits: reading      *)
(* through, flushing and crashing at any point lose or resurrect nothing.  *)
THEOREM Implements == Spec => StoreSpec
<1>1. Init => Store!Init
  BY InitStore
<1>2. IInv /\ IInv' /\ [Next]_vars => [Store!Next]_(Store!vars)
  BY StepStore
<1> QED
  BY <1>1, <1>2, SpecIInv, PTL DEF Spec, StoreSpec, Store!Spec
=============================================================================
