------------------------- MODULE ChainCommitProofs --------------------------
(***************************************************************************)
(* The checked properties of ChainCommit, for every tree of blocks, every  *)
(* set of transactions and any number of faults. The invariant Core of     *)
(* ChainCommitCore places the stores; AddrOK, WalletOK and PoolsOK add the *)
(* address index, the wallet's outputs and the pools, each inductive where *)
(* Core holds.                                                             *)
(***************************************************************************)
EXTENDS ChainCommitCore

-----------------------------------------------------------------------------
(* What follows for the stores.                                            *)

(* Of a chain and the chain of the previous block, one is a part of the    *)
(* other, and not the other way round.                                     *)
LEMMA PrefixFacts ==
  ASSUME NEW x \in Blocks
  PROVE  /\ \A s, t \in Near(x) : Prefix(s, t) \/ Prefix(t, s)
         /\ x # Genesis => /\ Prefix(Chain[Prev[x]], Chain[x])
                           /\ ~Prefix(Chain[x], Chain[Prev[x]])
<1>1. Len(Chain[x]) \in Nat
  BY ChainEnds
<1>2. Prefix(Chain[x], Chain[x])
  BY <1>1 DEF Prefix
<1>3. ASSUME x # Genesis
      PROVE  /\ Prefix(Chain[Prev[x]], Chain[x]) /\ ~Prefix(Chain[x], Chain[Prev[x]])
             /\ Prefix(Chain[Prev[x]], Chain[Prev[x]])
  <2>1. /\ Prev[x] \in Blocks /\ Len(Chain[x]) = Len(Chain[Prev[x]]) + 1
        /\ \A i \in 1..Len(Chain[Prev[x]]) : Chain[x][i] = Chain[Prev[x]][i]
    BY <1>3, ChainGrows
  <2>2. Len(Chain[Prev[x]]) \in Nat
    BY <2>1, ChainEnds
  <2> QED BY <2>1, <2>2 DEF Prefix
<1> QED BY <1>2, <1>3 DEF Near, Before

(* When the lock is free and the coins are at the tip, all the stores are. *)
LEMMA RestSynced ==
  ASSUME Core, AtRest
  PROVE  Synced
<1>1. WalletLate => coins \in Blocks \ {Genesis} /\ Prev[coins] = coins
  BY DEF Core, Types, AtRest, WalletLate
<1>2. ~WalletLate
  BY <1>1, HeightFacts
<1> QED BY <1>2 DEF Core, Place, AtRest

(* The checked property StoresAgree: whenever the lock is free the coins,  *)
(* the permissions, the entities and the wallet hold exactly the blocks of *)
(* the active chain.                                                       *)
THEOREM StoresAgreeHolds == Spec => []StoresAgree
<1>1. Core => StoresAgree
  BY RestSynced DEF StoresAgree, Synced, CoinsAt
<1> QED BY <1>1, CoreInvariant, PTL

(* The checked property CrashRecoverable: what a crash leaves at any       *)
(* moment, any two stores hold a chain and a part of it, and the block     *)
(* index on disk has every block of the coins, with its undo data.         *)
THEOREM CrashRecoverableHolds == Spec => []CrashRecoverable
<1>1. Core => CrashRecoverable
  <2> SUFFICES ASSUME Core PROVE CrashRecoverable
    OBVIOUS
  <2>1. PICK x \in Blocks : {perms, entDb, entRow, txdb, Chain[coins]} \subseteq Near(x)
    BY PlaceSpans DEF Core, Spanning
  <2>2. \A s, t \in {perms, entDb, entRow, txdb, Chain[coins]} : Prefix(s, t) \/ Prefix(t, s)
    BY <2>1, PrefixFacts
  <2> QED BY <2>2 DEF Core, IndexOK, CrashRecoverable
<1> QED BY <1>1, CoreInvariant, PTL

(* A block without entities adds no row to the entity ledger.              *)
LEMMA LedgerRowsFacts ==
  ASSUME NEW x \in Blocks \ {Genesis}, x \notin IssuesEntity
  PROVE  LedgerRows(Chain[x]) = LedgerRows(Chain[Prev[x]])
<1>1. /\ Prev[x] \in Blocks /\ Len(Chain[x]) = Len(Chain[Prev[x]]) + 1
      /\ \A i \in 1..Len(Chain[Prev[x]]) : Chain[x][i] = Chain[Prev[x]][i]
  BY ChainGrows
<1>2. Len(Chain[Prev[x]]) \in Nat /\ Chain[x][Len(Chain[x])] = x
  BY <1>1, ChainEnds
<1>3. {i \in 1..Len(Chain[x]) : Chain[x][i] \in IssuesEntity}
        = {i \in 1..Len(Chain[Prev[x]]) : Chain[Prev[x]][i] \in IssuesEntity}
  BY <1>1, <1>2
<1> QED BY <1>3 DEF LedgerRows

(* The checked property StopsExplained: the assertions on the best block   *)
(* fail only where a wallet error left the coins a block ahead, and an     *)
(* entity store that is refused was caught between row 0 and its database  *)
(* by a block with entities.                                               *)
THEOREM StopsExplainedHolds == Spec => []StopsExplained
<1>1. Core => StopsExplained
  <2> SUFFICES ASSUME Core PROVE StopsExplained
    OBVIOUS
  <2>1. ASSUME pc = "aborted"
        PROVE  coins # Genesis /\ Prev[coins] = tip /\ ~Prefix(Chain[coins], txdb)
    <3>1. coins \in Blocks \ {Genesis} /\ Prev[coins] = tip /\ txdb = Chain[Prev[coins]]
      BY <2>1 DEF Core, Types, Place, WalletLate, OnTip
    <3> QED BY <3>1, PrefixFacts
  <2>2. ASSUME pc = "refused"
        PROVE  /\ Len(entRow) = Len(entDb) + 1 /\ Prefix(entDb, entRow)
               /\ entRow[Len(entRow)] \in IssuesEntity
    <3>1. EntRowOK /\ Spanning /\ ~EntitiesOpen
      BY <2>2 DEF Core, Place
    <3>2. Len(entDb) \in Nat
      <4>1. PICK y \in Blocks : entDb \in Near(y)
        BY <3>1 DEF Spanning
      <4> QED BY <4>1, BeforeFacts, ChainEnds DEF Near
    <3>3. entRow # entDb
      BY <3>1, <3>2 DEF EntitiesOpen
    <3>4. PICK x \in Blocks \ {Genesis} : entDb = Chain[Prev[x]] /\ entRow = Chain[x]
      BY <3>1, <3>3 DEF EntRowOK
    <3>5. Len(entRow) = Len(entDb) + 1 /\ Prefix(entDb, entRow)
      BY <3>4, ChainGrows, PrefixFacts
    <3>6. x \in IssuesEntity
      BY <3>1, <3>2, <3>4, <3>5, LedgerRowsFacts DEF EntitiesOpen
    <3>7. entRow[Len(entRow)] = x
      BY <3>4, ChainEnds
    <3> QED BY <3>5, <3>6, <3>7
  <2> QED BY <2>1, <2>2 DEF StopsExplained
<1> QED BY <1>1, CoreInvariant, PTL

-----------------------------------------------------------------------------
(* The address index.                                                      *)

(* The address index differs from the chain of the coins by torn blocks.   *)
AddrOK ==
  /\ addrIndex \subseteq Blocks /\ torn \subseteq Blocks
  /\ LET chain == Elems(Chain[coins]) \ {Genesis}
     IN (addrIndex \ chain) \cup (chain \ addrIndex) \subseteq torn
  /\ pc \in {"perms", "entRow", "entDb", "entUndo", "permUndo", "flushIndex", "flushCoins"}
       /\ dir = "connect" => blk \in addrIndex
  /\ pc \in {"flushIndex", "flushCoins"} /\ dir = "disconnect" => blk \notin addrIndex

(* One step keeps the address index in line with the coins.                *)
LEMMA AddrStep ==
  ASSUME Core, AddrOK, [Next]_vars
  PROVE  AddrOK'
<1> USE DEF walletVars, indexVars, coinVars, storeVars, addrVars, poolVars, stepVars
<1> DEFINE Written == {"perms", "entRow", "entDb", "entUndo", "permUndo",
                       "flushIndex", "flushCoins"}
           Rows == /\ addrIndex \subseteq Blocks /\ torn \subseteq Blocks
                   /\ LET chain == Elems(Chain[coins]) \ {Genesis}
                      IN (addrIndex \ chain) \cup (chain \ addrIndex) \subseteq torn
           Entry == /\ pc \in Written /\ dir = "connect" => blk \in addrIndex
                    /\ pc \in {"flushIndex", "flushCoins"} /\ dir = "disconnect" =>
                         blk \notin addrIndex
<1>t. /\ Place /\ tip \in Blocks /\ coins \in Blocks /\ blk \in Blocks
      /\ caller \in {"run", "shift", "reactivate"} /\ dir \in {"connect", "disconnect", "final"}
  BY DEF Types, Core
<1>i. Rows /\ Entry
  BY DEF AddrOK
<1>j. Rows' /\ Entry' => AddrOK'
  BY DEF AddrOK
<1>k. addrIndex' = addrIndex /\ torn' = torn /\ coins' = coins => Rows'
  BY <1>i
<1>r. /\ Return(TRUE) \in {"idle", "activate", "final"}
      /\ Return(FALSE) \in {"idle", "activate", "final"}
  BY <1>t, ReturnFacts
<1>1. ASSUME NEW b \in Blocks \ {Genesis}, AcceptBlock(b) PROVE AddrOK'
  BY <1>1, <1>j, <1>k DEF AcceptBlock
<1>2. ASSUME NEW t \in Txs, AcceptTx(t) PROVE AddrOK'
  BY <1>2, <1>j, <1>k DEF AcceptTx
<1>3. ASSUME NEW b \in Blocks, Activate(b) PROVE AddrOK'
  BY <1>3, <1>j, <1>k DEF Activate, BeginStep
<1>4. CASE PeriodicFlush
  <2>1. coins' = coins
    BY <1>4, <1>t DEF PeriodicFlush, Place, Synced, WalletLate, CoinsAt
  <2> QED BY <1>4, <2>1, <1>j, <1>k DEF PeriodicFlush
<1>5. CASE BeginDisconnect
  BY <1>5, <1>j, <1>k, <1>r DEF BeginDisconnect
<1>6. CASE BeginConnect
  BY <1>6, <1>j, <1>k DEF BeginConnect
<1>7. CASE Replay
  BY <1>7, <1>j, <1>k, <1>r DEF Replay
<1>8. CASE Connecting
  <2>1. CASE RefuseMiner
    BY <2>1, <1>j, <1>k, <1>r DEF RefuseMiner, Invalid
  <2>2. CASE ConnectAborts
    BY <2>2, <1>j, <1>k DEF ConnectAborts
  <2>3. CASE CheckTxs
    BY <2>3, <1>j, <1>k, <1>r DEF CheckTxs, Invalid
  <2>4. CASE WriteIndexes
    <3>1. addrIndex' = addrIndex \cup {blk} /\ torn' = torn \cup {blk} /\ coins' = coins
          /\ pc' = "perms" /\ blk' = blk
      BY <2>4 DEF WriteIndexes
    <3>2. Rows'
      BY <3>1, <1>i, <1>t
    <3> QED BY <3>1, <3>2, <1>j
  <2>5. CASE CommitPerms
    BY <2>5, <1>i, <1>j, <1>k, <1>r DEF CommitPerms, Invalid
  <2>6. CASE CommitEntRow
    BY <2>6, <1>i, <1>j, <1>k DEF CommitEntRow
  <2>7. CASE CommitEntDb
    <3>1. dir = "connect"
      BY <2>7, <1>t DEF CommitEntDb, Place, Adding
    <3> QED BY <2>7, <3>1, <1>i, <1>j, <1>k DEF CommitEntDb
  <2>8. CASE UndoEntRow
    BY <2>8, <1>i, <1>j, <1>k DEF UndoEntRow
  <2>9. CASE UndoPerms
    BY <2>9, <1>j, <1>k, <1>r DEF UndoPerms, Invalid
  <2>10. CASE FlushIndex
    BY <2>10, <1>i, <1>j, <1>k DEF FlushIndex
  <2>11. CASE FlushCoins
    <3>1. /\ addrIndex' = addrIndex /\ torn' = torn \ {blk} /\ coins' = coinsTip
          /\ pc = "flushCoins" /\ pc' \in {"wallet", "rbPerms"}
      BY <2>11 DEF FlushCoins
    <3>2. Rows'
      <4>1. CASE Adding(4)
        <5>1. blk # Genesis /\ coins = tip /\ coinsTip = blk /\ Prev[blk] = tip /\ blk \in addrIndex
          BY <4>1, <3>1, <1>i DEF Adding, Child
        <5>2. Elems(Chain[coins']) = Elems(Chain[coins]) \cup {blk}
          BY <5>1, <3>1, <1>t, ElemsFacts
        <5> QED BY <5>1, <5>2, <3>1, <1>i
      <4>2. CASE Taking /\ coinsTip = Prev[blk]
        <5>1. blk # Genesis /\ coins = blk /\ coinsTip = Prev[blk] /\ blk \notin addrIndex
          BY <4>2, <3>1, <1>i DEF Taking
        <5>2. /\ Elems(Chain[coins]) = Elems(Chain[coins']) \cup {blk}
              /\ blk \notin Elems(Chain[coins'])
          BY <5>1, <3>1, <1>t, ElemsFacts
        <5> QED BY <5>1, <5>2, <3>1, <1>i
      <4> QED BY <3>1, <4>1, <4>2, <1>t DEF Place
    <3> QED BY <3>1, <3>2, <1>j
  <2>12. CASE WalletAddBlock
    BY <2>12, <1>j, <1>k, <1>r DEF WalletAddBlock
  <2>13. CASE WalletCommitFile
    BY <2>13, <1>j, <1>k, <1>r DEF WalletCommitFile
  <2>14. CASE WalletCommitDb
    BY <2>14, <1>j, <1>k, <1>r DEF WalletCommitDb
  <2>15. CASE UpdateTip
    BY <2>15, <1>j, <1>k DEF UpdateTip
  <2> QED
    BY <1>8, <2>1, <2>2, <2>3, <2>4, <2>5, <2>6, <2>7, <2>8, <2>9, <2>10, <2>11,
       <2>12, <2>13, <2>14, <2>15 DEF Connecting
<1>9. CASE Disconnecting
  <2>1. CASE EraseIndex
    <3>1. Taking
      BY <2>1, <1>t DEF EraseIndex, Place
    <3>2. /\ addrIndex' = addrIndex \ {blk} /\ torn' = torn \cup {blk} /\ coins' = coins
          /\ dir' = "disconnect" /\ blk' = blk
      BY <2>1, <3>1 DEF EraseIndex, ErasedIndex, Taking
    <3>3. Rows'
      BY <3>2, <1>i, <1>t
    <3> QED BY <3>2, <3>3, <1>j
  <2>2. CASE RollBackPerms
    BY <2>2, <1>j, <1>k DEF RollBackPerms
  <2>3. CASE RollBackEntDb
    BY <2>3, <1>j, <1>k DEF RollBackEntDb
  <2>4. CASE RollBackEntRow
    BY <2>4, <1>j, <1>k DEF RollBackEntRow
  <2>5. CASE RollBackWallet
    BY <2>5, <1>j, <1>k DEF RollBackWallet, AfterRollBack
  <2>6. CASE RollBackWalletDb
    BY <2>6, <1>j, <1>k DEF RollBackWalletDb, AfterRollBack
  <2>7. CASE Resurrect
    BY <2>7, <1>j, <1>k DEF Resurrect
  <2> QED
    BY <1>9, <2>1, <2>2, <2>3, <2>4, <2>5, <2>6, <2>7 DEF Disconnecting
<1>10. CASE Load
  BY <1>10, <1>j, <1>k DEF Load, BeginStep
<1>11. CASE Reactivate
  BY <1>11, <1>j, <1>k DEF Reactivate, BeginStep
<1>12. CASE FinalRollBack
  BY <1>12, <1>j, <1>k DEF FinalRollBack
<1>13. CASE Crash
  BY <1>13, <1>j, <1>k DEF Crash
<1>14. CASE Refuse
  BY <1>14, <1>j, <1>k DEF Refuse
<1>15. CASE Start
  BY <1>15, <1>j, <1>k DEF Start
<1>16. CASE UNCHANGED vars
  BY <1>16, <1>i, <1>j, <1>k DEF vars
<1> QED
  BY <1>1, <1>2, <1>3, <1>4, <1>5, <1>6, <1>7, <1>8, <1>9, <1>10, <1>11, <1>12,
     <1>13, <1>14, <1>15, <1>16 DEF Next, Running

(* The address index is that of the coins, but for the torn blocks.        *)
LEMMA AddrInvariant == Spec => []AddrOK
<1>1. Init => AddrOK
  <2>1. Elems(Chain[Genesis]) = {Genesis}
    BY ChainAssumption, ElemsFacts
  <2> QED BY <2>1 DEF Init, AddrOK
<1>2. Core /\ AddrOK /\ [Next]_vars => AddrOK'
  BY AddrStep
<1> QED BY <1>1, <1>2, CoreInvariant, PTL DEF Spec

(* The checked property AddressIndexExact: at rest the address index has   *)
(* the entries of the active chain and no others, torn blocks aside.       *)
THEOREM AddressIndexExactHolds == Spec => []AddressIndexExact
<1>1. Core /\ AddrOK => AddressIndexExact
  BY RestSynced DEF AddressIndexExact, AddrOK, Synced, CoinsAt, OnTip
<1> QED BY <1>1, CoreInvariant, AddrInvariant, PTL

-----------------------------------------------------------------------------
(* The wallet.                                                             *)

(* m_UTXOs follows the wallet's database, but for the two steps between    *)
(* the memory and the database, and for what a wallet error leaves.        *)
WalletOK ==
  /\ UtxoFileTrue
  /\ pc \in {"idle", "step", "check", "final"} /\ coinsTip = tip => UtxosTrue
  /\ pc \in {"rbPerms", "rbEntDb", "rbEntRow", "rbWallet"}
       /\ (dir = "disconnect" \/ coinsTip = tip) => UtxosTrue
  /\ pc \in {"load", "activate", "index", "perms", "entRow", "entDb", "entUndo",
             "permUndo", "flushIndex", "flushCoins", "wallet", "tip", "erase", "dTip"}
       => UtxosTrue
  /\ pc \in {"walletFile", "walletDb"} =>
       utxos = [blocks |-> Chain[blk], txs |-> {}] /\ txpool = {}
  /\ pc = "walletDb" =>
       Height(blk) \in DOMAIN utxoFile /\ utxoFile[Height(blk)] = utxos
  /\ pc = "rbWalletDb" =>
       /\ utxos = [blocks |-> Chain[Goal], txs |-> {}]
       /\ Height(Goal) \in DOMAIN utxoFile /\ utxoFile[Height(Goal)] = utxos

(* Where m_UTXOs must be the database's blocks with the pool on top.       *)
TrueNow ==
  \/ pc \in {"idle", "step", "check", "final"} /\ coinsTip = tip
  \/ /\ pc \in {"rbPerms", "rbEntDb", "rbEntRow", "rbWallet"}
     /\ dir = "disconnect" \/ coinsTip = tip
  \/ pc \in {"load", "activate", "index", "perms", "entRow", "entDb", "entUndo",
             "permUndo", "flushIndex", "flushCoins", "wallet", "tip", "erase", "dTip"}

Between == {"walletFile", "walletDb", "rbWalletDb"}

(* Steps that leave the wallet alone.                                      *)
LEMMA WalletKept ==
  ASSUME WalletOK, UNCHANGED walletVars, pc' \notin Between, TrueNow' => TrueNow
  PROVE  WalletOK'
<1>1. UtxoFileTrue' /\ (UtxosTrue => UtxosTrue')
  BY DEF WalletOK, walletVars, UtxoFileTrue, UtxosTrue, WalletBlock
<1>2. TrueNow => UtxosTrue
  BY DEF WalletOK, TrueNow
<1>3. TrueNow' => UtxosTrue'
  BY <1>1, <1>2
<1> QED BY <1>1, <1>3 DEF WalletOK, TrueNow, Between

(* Transactions that reach the memory pool.                                *)
LEMMA WalletAdds ==
  ASSUME WalletOK, NEW S, AddTxs(S), pc' \notin Between, TrueNow' => TrueNow
  PROVE  WalletOK'
<1>1. UtxoFileTrue'
  BY DEF WalletOK, AddTxs, UtxoFileTrue, WalletBlock
<1>2. TrueNow => UtxosTrue
  BY DEF WalletOK, TrueNow
<1>3. UtxosTrue => UtxosTrue'
  BY DEF UtxosTrue, AddTxs
<1>4. TrueNow' => UtxosTrue'
  BY <1>2, <1>3
<1> QED BY <1>1, <1>4 DEF WalletOK, TrueNow, Between

(* One step keeps the wallet's files and m_UTXOs in line with its          *)
(* database.                                                               *)
LEMMA WalletStep ==
  ASSUME Core, Core', WalletOK, [Next]_vars
  PROVE  WalletOK'
<1> USE DEF indexVars, coinVars, storeVars, addrVars, poolVars, stepVars
<1>t. /\ Types /\ Place /\ Place' /\ tip \in Blocks /\ coins \in Blocks /\ blk \in Blocks
      /\ caller \in {"run", "shift", "reactivate"} /\ dir \in {"connect", "disconnect", "final"}
  BY DEF Types, Core
<1>r. /\ Return(TRUE) \in {"idle", "activate", "final"}
      /\ Return(FALSE) \in {"idle", "activate", "final"}
      /\ caller # "shift" => Return(FALSE) \in {"idle", "final"}
  BY <1>t, ReturnFacts
<1>a. pc' = "activate" => coinsTip' = tip'
  BY <1>t DEF Place, Synced, CoinsAt
<1>n. ASSUME NEW b \in Blocks \ {Genesis} PROVE Prev[b] # b
  BY HeightFacts
<1>1. ASSUME NEW b \in Blocks \ {Genesis}, AcceptBlock(b) PROVE WalletOK'
  BY <1>1, WalletKept DEF AcceptBlock, TrueNow, Between
<1>2. ASSUME NEW t \in Txs, AcceptTx(t) PROVE WalletOK'
  BY <1>2, WalletAdds DEF AcceptTx, TrueNow, Between
<1>3. ASSUME NEW b \in Blocks, Activate(b) PROVE WalletOK'
  BY <1>3, WalletKept DEF Activate, BeginStep, TrueNow, Between
<1>4. CASE PeriodicFlush
  BY <1>4, WalletKept DEF PeriodicFlush, TrueNow, Between
<1>5. CASE BeginDisconnect
  <2>1. pc' \notin Between /\ (TrueNow' => TrueNow)
    BY <1>5, <1>r, <1>a DEF BeginDisconnect, TrueNow, Between
  <2> QED BY <1>5, <2>1, WalletKept DEF BeginDisconnect
<1>6. CASE BeginConnect
  BY <1>6, WalletKept DEF BeginConnect, TrueNow, Between
<1>7. CASE Replay
  <2>1. pc' \notin Between /\ (TrueNow' => TrueNow)
    BY <1>7, <1>r, <1>a DEF Replay, TrueNow, Between
  <2> QED BY <1>7, <2>1, WalletAdds DEF Replay
<1>8. CASE Connecting
  <2>1. CASE RefuseMiner
    <3>1. pc' \notin Between /\ (TrueNow' => TrueNow)
      BY <2>1, <1>r, <1>a DEF RefuseMiner, Invalid, TrueNow, Between
    <3> QED BY <2>1, <3>1, WalletKept DEF RefuseMiner
  <2>2. CASE ConnectAborts
    BY <2>2, WalletKept DEF ConnectAborts, TrueNow, Between
  <2>3. CASE CheckTxs
    <3>1. coinsTip = tip
      BY <2>3, <1>t DEF CheckTxs, Place, Child
    <3>2. pc' \notin Between /\ (TrueNow' => TrueNow)
      BY <2>3, <3>1, <1>r DEF CheckTxs, Invalid, TrueNow, Between
    <3> QED BY <2>3, <3>2, WalletKept DEF CheckTxs
  <2>4. CASE WriteIndexes
    BY <2>4, WalletKept DEF WriteIndexes, TrueNow, Between
  <2>5. CASE CommitPerms
    <3>1. pc' \notin Between /\ TrueNow
      BY <2>5, <1>r DEF CommitPerms, Invalid, TrueNow, Between
    <3> QED BY <2>5, <3>1, WalletKept DEF CommitPerms
  <2>6. CASE CommitEntRow
    BY <2>6, WalletKept DEF CommitEntRow, TrueNow, Between
  <2>7. CASE CommitEntDb
    BY <2>7, WalletKept DEF CommitEntDb, TrueNow, Between
  <2>8. CASE UndoEntRow
    BY <2>8, WalletKept DEF UndoEntRow, TrueNow, Between
  <2>9. CASE UndoPerms
    <3>1. pc' \notin Between /\ TrueNow
      BY <2>9, <1>r DEF UndoPerms, Invalid, TrueNow, Between
    <3> QED BY <2>9, <3>1, WalletKept DEF UndoPerms
  <2>10. CASE FlushIndex
    BY <2>10, WalletKept DEF FlushIndex, TrueNow, Between
  <2>11. CASE FlushCoins
    <3>1. pc' \notin Between /\ TrueNow
      BY <2>11 DEF FlushCoins, TrueNow, Between
    <3> QED BY <2>11, <3>1, WalletKept DEF FlushCoins
  <2>b. ASSUME Adding(5)
        PROVE  /\ Append(txdb, blk) = Chain[blk] /\ txdb = Chain[tip]
               /\ WalletBlock \in Nat /\ WalletBlock + 1 = Height(blk)
               /\ coinsTip = blk /\ blk # tip /\ caller # "shift"
               /\ Len(Chain[blk]) = Height(blk) + 1
    <3>1. blk \in Blocks \ {Genesis} /\ Prev[blk] = tip /\ txdb = Chain[tip] /\ coinsTip = blk
          /\ caller # "shift"
      BY <2>b, <1>t DEF Adding, Child
    <3>2. /\ Append(txdb, blk) = Chain[blk] /\ Len(Chain[tip]) = Height(tip) + 1 /\ Height(tip) \in Nat
          /\ Height(tip) = Height(blk) - 1 /\ Len(Chain[blk]) = Height(blk) + 1
          /\ Height(blk) \in Nat
      BY <3>1, <1>t, ChainGrows, HeightFacts
    <3>3. blk # tip
      BY <3>1, <1>n
    <3> QED BY <3>1, <3>2, <3>3 DEF WalletBlock
  <2>w. ASSUME Adding(5), tip' = tip, coinsTip' = coinsTip,
               pc' = Return(FALSE), UtxoFileTrue'
        PROVE  WalletOK'
    <3>1. pc' \in {"idle", "final"} /\ coinsTip' # tip'
      BY <2>w, <2>b, <1>r
    <3> QED BY <2>w, <3>1 DEF WalletOK
  <2>12. CASE WalletAddBlock
    <3>1. Adding(5) /\ UtxosTrue /\ UtxoFileTrue
      BY <2>12, <1>t DEF WalletAddBlock, Place, WalletOK
    <3>2. BeforeCommit = [blocks |-> txdb, txs |-> {}]
      BY <3>1 DEF BeforeCommit, LoadUTXOMap, UtxosTrue, UtxoFileTrue
    <3>3. utxos' = [blocks |-> Chain[blk], txs |-> {}] /\ txpool' = {}
          /\ txdb' = txdb /\ utxoFile' = utxoFile
      BY <2>12, <3>1, <3>2, <2>b DEF WalletAddBlock, AddBlockTxs
    <3>4. UtxoFileTrue'
      BY <3>1, <3>3 DEF UtxoFileTrue, WalletBlock
    <3>5. CASE pc' = "walletFile"
      <4>1. blk' = blk
        BY <2>12 DEF WalletAddBlock
      <4> QED BY <3>3, <3>4, <3>5, <4>1 DEF WalletOK
    <3>6. CASE pc' = Return(FALSE)
      BY <2>12, <3>1, <3>4, <3>6, <2>w DEF WalletAddBlock
    <3> QED BY <2>12, <3>5, <3>6 DEF WalletAddBlock
  <2>13. CASE WalletCommitFile
    <3>1. Adding(5) /\ UtxoFileTrue /\ utxos = [blocks |-> Chain[blk], txs |-> {}] /\ txpool = {}
      BY <2>13, <1>t DEF WalletCommitFile, Place, WalletOK
    <3>2. /\ txdb' = txdb /\ utxos' = utxos /\ txpool' = txpool /\ blk' = blk
          /\ SaveUTXOMap(Height(blk), utxos)
      BY <2>13, <3>1, <2>b DEF WalletCommitFile, CommitFile
    <3>3. WalletBlock \in Nat /\ WalletBlock + 1 = Height(blk) /\ WalletBlock' = WalletBlock
      BY <3>1, <3>2, <2>b DEF WalletBlock
    <3>4. /\ Height(blk) \in DOMAIN utxoFile' /\ utxoFile'[Height(blk)] = utxos
          /\ \A k \in DOMAIN utxoFile : k # Height(blk) =>
                k \in DOMAIN utxoFile' /\ utxoFile'[k] = utxoFile[k]
      BY <3>2, <3>3 DEF SaveUTXOMap
    <3>5. UtxoFileTrue'
      BY <3>1, <3>2, <3>3, <3>4 DEF UtxoFileTrue
    <3>6. CASE pc' = "walletDb"
      BY <3>1, <3>2, <3>4, <3>5, <3>6 DEF WalletOK, Height
    <3>7. CASE pc' = Return(FALSE)
      BY <2>13, <3>1, <3>5, <3>7, <2>w DEF WalletCommitFile
    <3> QED BY <2>13, <3>6, <3>7 DEF WalletCommitFile
  <2>14. CASE WalletCommitDb
    <3>1. /\ Adding(5) /\ UtxoFileTrue /\ utxos = [blocks |-> Chain[blk], txs |-> {}]
          /\ txpool = {} /\ Height(blk) \in DOMAIN utxoFile /\ utxoFile[Height(blk)] = utxos
      BY <2>14, <1>t DEF WalletCommitDb, Place, WalletOK
    <3>2. CASE CommitDb(blk) /\ pc' = "tip"
      <4>1. txdb' = Chain[blk] /\ txpool' = {} /\ utxos' = utxos /\ utxoFile' = utxoFile
        BY <3>1, <3>2, <2>b DEF CommitDb
      <4>2. WalletBlock' = Height(blk)
        BY <4>1, <3>1, <2>b DEF WalletBlock, Height
      <4>3. UtxoFileTrue' /\ UtxosTrue'
        BY <4>1, <4>2, <3>1 DEF UtxoFileTrue, UtxosTrue
      <4> QED BY <3>2, <4>3 DEF WalletOK
    <3>3. CASE CommitDbFails /\ pc' = Return(FALSE)
      <4>1. UtxoFileTrue'
        BY <3>1, <3>3 DEF CommitDbFails, UtxoFileTrue, WalletBlock
      <4> QED BY <2>14, <3>1, <3>3, <4>1, <2>w DEF WalletCommitDb
    <3> QED BY <2>14, <3>2, <3>3 DEF WalletCommitDb
  <2>15. CASE UpdateTip
    <3>1. Adding(6) /\ UtxoFileTrue /\ UtxosTrue
      BY <2>15, <1>t DEF UpdateTip, Place, WalletOK
    <3>2. txdb = Chain[blk] /\ Height(blk) \in Nat /\ WalletBlock = Height(blk)
      BY <3>1, <1>t, HeightFacts DEF Adding, WalletBlock
    <3>3. /\ utxoFile' = [k \in DOMAIN utxoFile \ {Height(blk) - 1 - Window} |-> utxoFile[k]]
          /\ txdb' = txdb /\ txpool' = txpool /\ utxos' = utxos /\ pc' = "step"
      BY <2>15 DEF UpdateTip, CleanUpAfterBlock
    <3>4. Height(blk) - 1 - Window # Height(blk) /\ WalletBlock' = WalletBlock
      BY <3>2, <3>3, ChainAssumption DEF WalletBlock
    <3>5. UtxoFileTrue' /\ UtxosTrue'
      BY <3>1, <3>2, <3>3, <3>4 DEF UtxoFileTrue, UtxosTrue
    <3> QED BY <3>3, <3>5 DEF WalletOK
  <2> QED
    BY <1>8, <2>1, <2>2, <2>3, <2>4, <2>5, <2>6, <2>7, <2>8, <2>9, <2>10, <2>11,
       <2>12, <2>13, <2>14, <2>15 DEF Connecting
<1>9. CASE Disconnecting
  <2>1. CASE EraseIndex
    BY <2>1, WalletKept DEF EraseIndex, TrueNow, Between
  <2>2. CASE RollBackPerms
    BY <2>2, WalletKept DEF RollBackPerms, TrueNow, Between
  <2>3. CASE RollBackEntDb
    BY <2>3, WalletKept DEF RollBackEntDb, TrueNow, Between
  <2>4. CASE RollBackEntRow
    BY <2>4, WalletKept DEF RollBackEntRow, TrueNow, Between
  <2>g. ASSUME RollingBack
        PROVE  \E y \in Blocks :
                 /\ Above(y, Goal) /\ txdb \in {Chain[y], Chain[Goal]}
                 /\ coinsTip # Goal => txdb = Chain[Goal]
                 /\ Goal \in Blocks /\ rollTo = Height(Goal) /\ dir # "connect"
                 /\ dir = "disconnect" => coinsTip = Goal
                 /\ dir = "final" => Goal = tip
    BY <2>g, <1>t, GoalFacts DEF RollingBack, Dropping, Goal
  <2>5. CASE RollBackWallet
    <3>1. RollingBack
      BY <2>5, <1>t DEF RollBackWallet, Place
    <3>2. PICK y \in Blocks :
                 /\ Above(y, Goal) /\ txdb \in {Chain[y], Chain[Goal]}
                 /\ coinsTip # Goal => txdb = Chain[Goal]
                 /\ Goal \in Blocks /\ rollTo = Height(Goal) /\ dir # "connect"
                 /\ dir = "disconnect" => coinsTip = Goal
                 /\ dir = "final" => Goal = tip
      BY <3>1, <2>g
    <3>3. /\ SubSeq(txdb, 1, rollTo + 1) = Chain[Goal]
          /\ RollsBack(rollTo) <=> txdb # Chain[Goal]
      BY <3>2, RollFacts DEF RollsBack, WalletBlock
    <3>4. CASE ~RollsBack(rollTo)
      <4>1. UNCHANGED walletVars /\ pc' = AfterRollBack
        BY <2>5, <3>4 DEF RollBackWallet
      <4>2. pc' \notin Between /\ (TrueNow' => TrueNow)
        BY <2>5, <3>2, <4>1, <1>t DEF RollBackWallet, AfterRollBack, TrueNow, Between
      <4> QED BY <4>1, <4>2, WalletKept
    <3>5. CASE RollsBack(rollTo)
      <4>1. UtxosTrue /\ UtxoFileTrue
        BY <2>5, <3>2, <3>3, <3>5, <1>t DEF RollBackWallet, WalletOK
      <4>2. RolledMap(rollTo) = [blocks |-> Chain[Goal], txs |-> {}]
        BY <4>1, <3>3 DEF RolledMap, UtxosTrue
      <4>3. /\ utxos' = [blocks |-> Chain[Goal], txs |-> {}]
            /\ SaveUTXOMap(Height(Goal), utxos') /\ txdb' = txdb /\ pc' = "rbWalletDb"
            /\ Goal' = Goal
        BY <2>5, <3>5, <3>2, <4>2 DEF RollBackWallet, RollBackFile, Goal
      <4>4. Height(Goal) \in Nat /\ WalletBlock # Height(Goal) /\ WalletBlock' = WalletBlock
            /\ Len(Chain[Goal]) = Height(Goal) + 1
        BY <3>2, <3>5, <4>3, HeightFacts DEF RollsBack, WalletBlock
      <4>5. /\ Height(Goal) \in DOMAIN utxoFile' /\ utxoFile'[Height(Goal)] = utxos'
            /\ \A k \in DOMAIN utxoFile : k # Height(Goal) =>
                  k \in DOMAIN utxoFile' /\ utxoFile'[k] = utxoFile[k]
        BY <4>3, <4>4 DEF SaveUTXOMap
      <4>6. UtxoFileTrue'
        BY <4>1, <4>3, <4>4, <4>5 DEF UtxoFileTrue
      <4>7. Height(Goal)' = Height(Goal)
        BY <4>3 DEF Height
      <4> QED BY <4>3, <4>5, <4>6, <4>7 DEF WalletOK
    <3> QED BY <3>4, <3>5
  <2>6. CASE RollBackWalletDb
    <3>1. RollingBack
      BY <2>6, <1>t DEF RollBackWalletDb, Place
    <3>2. PICK y \in Blocks :
                 /\ Above(y, Goal) /\ txdb \in {Chain[y], Chain[Goal]}
                 /\ coinsTip # Goal => txdb = Chain[Goal]
                 /\ Goal \in Blocks /\ rollTo = Height(Goal) /\ dir # "connect"
                 /\ dir = "disconnect" => coinsTip = Goal
                 /\ dir = "final" => Goal = tip
      BY <3>1, <2>g
    <3>3. SubSeq(txdb, 1, rollTo + 1) = Chain[Goal]
      BY <3>2, RollFacts
    <3>4. /\ utxos = [blocks |-> Chain[Goal], txs |-> {}]
          /\ Height(Goal) \in DOMAIN utxoFile /\ utxoFile[Height(Goal)] = utxos
      BY <2>6 DEF RollBackWalletDb, WalletOK
    <3>5. /\ txdb' = Chain[Goal] /\ txpool' = {} /\ utxos' = utxos /\ utxoFile' = utxoFile
          /\ pc' \in {"idle", "dTip"}
      BY <2>6, <3>3 DEF RollBackWalletDb, RollBackDb, AfterRollBack
    <3>6. WalletBlock' = Height(Goal)
      BY <3>2, <3>5, HeightFacts DEF WalletBlock
    <3>7. UtxoFileTrue' /\ UtxosTrue'
      BY <3>4, <3>5, <3>6 DEF UtxoFileTrue, UtxosTrue
    <3> QED BY <3>5, <3>7 DEF WalletOK
  <2>7. CASE Resurrect
    <3>1. pc' \notin Between /\ TrueNow
      BY <2>7 DEF Resurrect, TrueNow, Between
    <3> QED BY <2>7, <3>1, WalletAdds DEF Resurrect
  <2> QED
    BY <1>9, <2>1, <2>2, <2>3, <2>4, <2>5, <2>6, <2>7 DEF Disconnecting
<1>10. CASE Load
  <2>1. pc' \notin Between /\ TrueNow
    BY <1>10 DEF Load, BeginStep, TrueNow, Between
  <2> QED BY <1>10, <2>1, WalletKept DEF Load
<1>11. CASE Reactivate
  <2>1. pc' \notin Between /\ TrueNow
    BY <1>11 DEF Reactivate, BeginStep, TrueNow, Between
  <2> QED BY <1>11, <2>1, WalletKept DEF Reactivate
<1>12. CASE FinalRollBack
  BY <1>12, WalletKept DEF FinalRollBack, TrueNow, Between
<1>13. CASE Crash
  <2>1. UtxoFileTrue' /\ pc' = "down"
    BY <1>13 DEF Crash, LoseWallet, WalletOK, UtxoFileTrue, WalletBlock
  <2> QED BY <2>1 DEF WalletOK
<1>14. CASE Refuse
  BY <1>14, WalletKept DEF Refuse, TrueNow, Between
<1>15. CASE Start
  <2>1. UtxoFileTrue
    BY DEF WalletOK
  <2>2. pc' = "load" /\ utxos' = [blocks |-> txdb, txs |-> {}] /\ txpool' = {}
        /\ txdb' = txdb /\ utxoFile' = utxoFile
    BY <1>15, <2>1 DEF Start, OpenWallet, LoadUTXOMap, UtxoFileTrue
  <2>3. UtxoFileTrue' /\ UtxosTrue'
    BY <2>1, <2>2 DEF UtxoFileTrue, UtxosTrue, WalletBlock
  <2> QED BY <2>2, <2>3 DEF WalletOK
<1>16. CASE UNCHANGED vars
  BY <1>16 DEF vars, walletVars, WalletOK, UtxoFileTrue, UtxosTrue, WalletBlock, Goal, Height
<1> QED
  BY <1>1, <1>2, <1>3, <1>4, <1>5, <1>6, <1>7, <1>8, <1>9, <1>10, <1>11, <1>12,
     <1>13, <1>14, <1>15, <1>16 DEF Next, Running

(* The wallet's files and memory follow its database at every step.        *)
LEMMA WalletInvariant == Spec => []WalletOK
<1>1. Init => WalletOK
  <2> SUFFICES ASSUME Init PROVE WalletOK
    OBVIOUS
  <2>1. Height(Genesis) = 0 /\ Len(Chain[Genesis]) = Height(Genesis) + 1
    BY ChainAssumption, HeightFacts
  <2>2. txdb = Chain[Genesis] /\ txpool = {} /\ pc = "idle"
        /\ utxos = [blocks |-> txdb, txs |-> {}] /\ utxoFile = [k \in {0} |-> utxos]
    BY DEF Init, OnTip
  <2>3. WalletBlock = 0
    BY <2>1, <2>2 DEF WalletBlock
  <2> QED BY <2>2, <2>3 DEF WalletOK, UtxoFileTrue, UtxosTrue
<1>2. Core /\ Core' /\ WalletOK /\ [Next]_vars => WalletOK'
  BY WalletStep
<1> QED BY <1>1, <1>2, CoreInvariant, PTL DEF Spec

-----------------------------------------------------------------------------
(* The pools.                                                              *)

(* The memory pool, the permission pool and the wallet's pool, by step.     *)
FinalSteps == {"rbPerms", "rbEntDb", "rbEntRow", "rbWallet", "rbWalletDb"}

PoolsOK ==
  /\ coinsTip = tip /\ ~NotReplayed =>
       /\ pc \in {"idle", "activate", "final"} => mempool \subseteq txpool
       /\ pc \in FinalSteps \ {"rbWalletDb"} /\ dir = "final" => mempool \subseteq txpool
       /\ pc = "idle" /\ dir # "final" => permPool = mempool
  /\ coinsTip = tip /\ txdb # OnTip =>
       /\ pc = "final" => mempool = {}
       /\ pc \in FinalSteps /\ dir = "final" => mempool = {}
  /\ pc \in {"down", "load"} => mempool = {}
  /\ pc \in FinalSteps \ {"rbPerms"} => permPool = {}

(* One step keeps the pools of the permission store and of the wallet in   *)
(* line with the memory pool.                                              *)
LEMMA PoolsStep ==
  ASSUME Core, Core', PoolsOK, [Next]_vars
  PROVE  PoolsOK'
<1> USE DEF walletVars, indexVars, coinVars, storeVars, addrVars, poolVars, stepVars, NotReplayed
<1>t. /\ Place /\ Place' /\ tip \in Blocks /\ coins \in Blocks /\ blk \in Blocks
      /\ caller \in {"run", "shift", "reactivate"} /\ dir \in {"connect", "disconnect", "final"}
  BY DEF Types, Core
<1>r. /\ Return(TRUE) \in {"idle", "activate"}
      /\ Return(FALSE) \in {"idle", "activate", "final"}
      /\ caller # "shift" => Return(FALSE) \in {"idle", "final"}
  BY <1>t, ReturnFacts
<1>n. ASSUME NEW b \in Blocks \ {Genesis} PROVE Prev[b] # b
  BY HeightFacts
<1>q. pc' \notin {"idle", "activate", "final", "down", "load"} \cup FinalSteps => PoolsOK'
  BY DEF PoolsOK, FinalSteps
<1>v. ASSUME Invalid PROVE PoolsOK'
  <2>1. fInvalid' = TRUE /\ pc' \in {"idle", "activate"}
    BY <1>v, <1>r DEF Invalid
  <2> QED BY <2>1 DEF PoolsOK, FinalSteps
<1>w. ASSUME Adding(5), tip' = tip, coinsTip' = coinsTip, pc' = Return(FALSE) PROVE PoolsOK'
  <2>1. blk # tip /\ coinsTip = blk /\ caller # "shift"
    BY <1>w, <1>t, <1>n DEF Adding, Child
  <2>2. pc' \in {"idle", "final"} /\ coinsTip' # tip'
    BY <1>w, <2>1, <1>r
  <2> QED BY <2>2 DEF PoolsOK, FinalSteps
<1>1. ASSUME NEW b \in Blocks \ {Genesis}, AcceptBlock(b) PROVE PoolsOK'
  BY <1>1 DEF AcceptBlock, PoolsOK, FinalSteps
<1>2. ASSUME NEW t \in Txs, AcceptTx(t) PROVE PoolsOK'
  BY <1>2 DEF AcceptTx, AddTxs, PoolsOK, FinalSteps
<1>3. ASSUME NEW b \in Blocks, Activate(b) PROVE PoolsOK'
  BY <1>3, <1>q DEF Activate, BeginStep, FinalSteps
<1>4. CASE PeriodicFlush
  BY <1>4 DEF PeriodicFlush, PoolsOK, FinalSteps
<1>5. CASE BeginDisconnect
  <2>1. pc' \in {"erase", "aborted"}
    <3>1. coinsTip = tip => tip \in blockIndex.undo
      <4> SUFFICES ASSUME coinsTip = tip PROVE tip \in blockIndex.undo
        OBVIOUS
      <4>1. coins = tip
        BY <1>5, <1>t DEF BeginDisconnect, Place, Synced, WalletLate, Lagging, CoinsAt
      <4>2. tip # Genesis /\ tip \in Elems(Chain[coins])
        BY <1>5, <4>1, <1>t, ElemsFacts DEF BeginDisconnect, Core, Types
      <4> QED BY <4>2 DEF Core, IndexOK
    <3> QED BY <1>5, <3>1 DEF BeginDisconnect
  <2> QED BY <2>1, <1>q DEF FinalSteps
<1>6. CASE BeginConnect
  BY <1>6, <1>q DEF BeginConnect, FinalSteps
<1>7. CASE Replay
  <2>1. pc' \in {"idle", "activate"} /\ permPool' = mempool' /\ mempool' \subseteq txpool'
    BY <1>7, <1>r DEF Replay, ReplayCleared, AddTxs
  <2> QED BY <2>1 DEF PoolsOK, FinalSteps
<1>8. CASE Connecting
  <2>1. CASE RefuseMiner
    BY <2>1, <1>v DEF RefuseMiner
  <2>2. CASE ConnectAborts
    BY <2>2, <1>q DEF ConnectAborts, FinalSteps
  <2>3. CASE CheckTxs
    <3>1. CASE Invalid \/ pc' = "index"
      BY <3>1, <1>v, <1>q DEF FinalSteps
    <3>2. CASE blk \in BadCoinbase /\ pc' = Return(FALSE) /\ blk' = blk
      <4>1. Synced /\ caller # "shift"
        <5>1. coinsTip = tip /\ (Synced \/ WalletLate) /\ (Synced => caller # "shift" \/ WalletLate)
          BY <2>3, <1>t DEF CheckTxs, Place, Child
        <5>2. ~WalletLate
          BY <5>1, <1>t, <1>n DEF WalletLate
        <5> QED BY <5>1, <5>2
      <4>2. NotReplayed' /\ pc' \in {"idle", "final"}
        BY <3>2, <4>1, <1>r DEF NotReplayed
      <4>3. tip' = coinsTip' /\ txdb' = OnTip'
        BY <2>3, <4>1 DEF CheckTxs, Synced, CoinsAt, OnTip
      <4> QED BY <4>2, <4>3 DEF PoolsOK, FinalSteps
    <3> QED BY <2>3, <3>1, <3>2 DEF CheckTxs
  <2>4. CASE WriteIndexes
    BY <2>4, <1>q DEF WriteIndexes, FinalSteps
  <2>5. CASE CommitPerms
    <3>1. Invalid \/ pc' = "entRow"
      BY <2>5 DEF CommitPerms
    <3> QED BY <3>1, <1>v, <1>q DEF FinalSteps
  <2>6. CASE CommitEntRow
    BY <2>6, <1>q DEF CommitEntRow, FinalSteps
  <2>7. CASE CommitEntDb
    BY <2>7, <1>q DEF CommitEntDb, FinalSteps
  <2>8. CASE UndoEntRow
    BY <2>8, <1>q DEF UndoEntRow, FinalSteps
  <2>9. CASE UndoPerms
    BY <2>9, <1>v DEF UndoPerms
  <2>10. CASE FlushIndex
    BY <2>10, <1>q DEF FlushIndex, FinalSteps
  <2>11. CASE FlushCoins
    <3>1. pc' = "wallet" \/ (pc' = "rbPerms" /\ dir' = "disconnect")
      BY <2>11, <1>t DEF FlushCoins, Place, Adding, Taking
    <3> QED BY <3>1, <1>q DEF PoolsOK, FinalSteps
  <2>12. CASE WalletAddBlock
    <3>1. Adding(5) /\ tip' = tip /\ coinsTip' = coinsTip
          /\ (pc' = "walletFile" \/ pc' = Return(FALSE))
      BY <2>12, <1>t DEF WalletAddBlock, Place
    <3> QED BY <3>1, <1>w, <1>q DEF FinalSteps
  <2>13. CASE WalletCommitFile
    <3>1. Adding(5) /\ tip' = tip /\ coinsTip' = coinsTip
          /\ (pc' = "walletDb" \/ pc' = Return(FALSE))
      BY <2>13, <1>t DEF WalletCommitFile, Place
    <3> QED BY <3>1, <1>w, <1>q DEF FinalSteps
  <2>14. CASE WalletCommitDb
    <3>1. Adding(5) /\ tip' = tip /\ coinsTip' = coinsTip
          /\ (pc' = "tip" \/ pc' = Return(FALSE))
      BY <2>14, <1>t DEF WalletCommitDb, Place
    <3> QED BY <3>1, <1>w, <1>q DEF FinalSteps
  <2>15. CASE UpdateTip
    BY <2>15, <1>q DEF UpdateTip, FinalSteps
  <2> QED
    BY <1>8, <2>1, <2>2, <2>3, <2>4, <2>5, <2>6, <2>7, <2>8, <2>9, <2>10, <2>11,
       <2>12, <2>13, <2>14, <2>15 DEF Connecting
<1>9. CASE Disconnecting
  <2>1. CASE EraseIndex
    BY <2>1, <1>q DEF EraseIndex, FinalSteps
  <2>2. CASE RollBackPerms
    BY <2>2 DEF RollBackPerms, PoolsOK, FinalSteps, OnTip
  <2>3. CASE RollBackEntDb
    BY <2>3 DEF RollBackEntDb, PoolsOK, FinalSteps, OnTip
  <2>4. CASE RollBackEntRow
    BY <2>4 DEF RollBackEntRow, PoolsOK, FinalSteps, OnTip
  <2>5. CASE RollBackWallet
    <3>1. /\ pc = "rbWallet" /\ pc' \in {"rbWalletDb", AfterRollBack}
          /\ mempool' = mempool /\ permPool' = permPool /\ txpool' = txpool /\ txdb' = txdb
          /\ tip' = tip /\ coinsTip' = coinsTip /\ dir' = dir /\ fInvalid' = fInvalid /\ blk' = blk
      BY <2>5 DEF RollBackWallet, RollBackFile
    <3>2. pc' \in {"rbWalletDb", "dTip"} \/ (pc' = "idle" /\ dir = "final")
      BY <3>1 DEF AfterRollBack
    <3> QED BY <3>1, <3>2 DEF PoolsOK, FinalSteps, OnTip
  <2>6. CASE RollBackWalletDb
    <3>1. /\ pc = "rbWalletDb" /\ pc' = AfterRollBack
          /\ mempool' = mempool /\ permPool' = permPool
          /\ tip' = tip /\ coinsTip' = coinsTip /\ dir' = dir /\ fInvalid' = fInvalid
      BY <2>6 DEF RollBackWalletDb
    <3>2. dir = "final" => txdb # OnTip
      BY <3>1, <1>t DEF Place, Goal, OnTip
    <3>3. pc' = "dTip" \/ (pc' = "idle" /\ dir = "final")
      BY <3>1 DEF AfterRollBack
    <3> QED BY <3>1, <3>2, <3>3 DEF PoolsOK, FinalSteps
  <2>7. CASE Resurrect
    BY <2>7, <1>q DEF Resurrect, FinalSteps
  <2> QED
    BY <1>9, <2>1, <2>2, <2>3, <2>4, <2>5, <2>6, <2>7 DEF Disconnecting
<1>10. CASE Load
  BY <1>10 DEF Load, BeginStep, PoolsOK, FinalSteps
<1>11. CASE Reactivate
  <2>1. pc' = "step" \/ (pc' = "final" /\ fInvalid' = fInvalid)
    BY <1>11 DEF Reactivate, BeginStep
  <2>2. Synced /\ pc = "activate" /\ UNCHANGED <<mempool, permPool, txpool, txdb, tip, coinsTip, blk>>
    BY <1>11, <1>t DEF Reactivate, Place
  <2>3. txdb' = OnTip'
    BY <2>2 DEF Synced, OnTip
  <2> QED BY <2>1, <2>2, <2>3 DEF PoolsOK, FinalSteps
<1>12. CASE FinalRollBack
  BY <1>12 DEF FinalRollBack, PoolsOK, FinalSteps, OnTip
<1>13. CASE Crash
  BY <1>13 DEF Crash, PoolsOK, FinalSteps
<1>14. CASE Refuse
  BY <1>14, <1>q DEF Refuse, FinalSteps
<1>15. CASE Start
  BY <1>15 DEF Start, PoolsOK, FinalSteps
<1>16. CASE UNCHANGED vars
  BY <1>16 DEF vars, PoolsOK, FinalSteps, OnTip
<1> QED
  BY <1>1, <1>2, <1>3, <1>4, <1>5, <1>6, <1>7, <1>8, <1>9, <1>10, <1>11, <1>12,
     <1>13, <1>14, <1>15, <1>16 DEF Next, Running

(* The pools are in line with the memory pool at every step.               *)
LEMMA PoolsInvariant == Spec => []PoolsOK
<1>1. Init => PoolsOK
  BY DEF Init, PoolsOK, FinalSteps, OnTip, NotReplayed
<1>2. Core /\ Core' /\ PoolsOK /\ [Next]_vars => PoolsOK'
  BY PoolsStep
<1> QED BY <1>1, <1>2, CoreInvariant, PTL DEF Spec

(* Whose rows are in the permission pool, at every step: CommitPerms clears*)
(* those of the block it connects before the memory pool loses the block's *)
(* transactions, so that only a refused block leaves rows behind.          *)
Cleared == {"entRow", "entDb", "entUndo", "permUndo", "wallet"}

RowsOK ==
  /\ permPool \subseteq mempool \cup BadTx \cup BadCoinbase
                     \cup (IF pc \in {"index", "perms"} THEN {blk} ELSE {})
  /\ pc \in Cleared \/ (pc \in {"flushIndex", "flushCoins"} /\ dir = "connect")
       => permPool = {}

(* One step keeps rows of other transactions out of the permission pool.   *)
LEMMA RowsStep ==
  ASSUME Core, Core', RowsOK, [Next]_vars
  PROVE  RowsOK'
<1> USE DEF walletVars, indexVars, coinVars, storeVars, addrVars, poolVars, stepVars, Cleared
<1>t. /\ Place /\ Place' /\ blk \in Blocks
      /\ caller \in {"run", "shift", "reactivate"}
  BY DEF Types, Core
<1>r. Return(TRUE) \in {"idle", "activate"} /\ Return(FALSE) \in {"idle", "activate", "final"}
  BY <1>t, ReturnFacts
<1>e. permPool' = {} => RowsOK'
  BY DEF RowsOK
<1>m. ASSUME permPool' = mempool',
             pc' \notin Cleared \cup {"flushIndex", "flushCoins", "index", "perms"}
      PROVE  RowsOK'
  BY <1>m DEF RowsOK
<1>k. ASSUME permPool' = permPool, mempool \subseteq mempool', pc \notin {"index", "perms"},
             pc' \notin Cleared, pc' \in {"flushIndex", "flushCoins"} => dir' # "connect"
      PROVE  RowsOK'
  BY <1>k DEF RowsOK
<1>1. ASSUME NEW b \in Blocks \ {Genesis}, AcceptBlock(b) PROVE RowsOK'
  BY <1>1, <1>k DEF AcceptBlock
<1>2. ASSUME NEW t \in Txs, AcceptTx(t) PROVE RowsOK'
  BY <1>2 DEF AcceptTx, AddTxs, RowsOK
<1>3. ASSUME NEW b \in Blocks, Activate(b) PROVE RowsOK'
  BY <1>3, <1>k DEF Activate, BeginStep
<1>4. CASE PeriodicFlush
  BY <1>4, <1>k DEF PeriodicFlush
<1>5. CASE BeginDisconnect
  BY <1>5, <1>k, <1>r DEF BeginDisconnect
<1>6. CASE BeginConnect
  BY <1>6, <1>k DEF BeginConnect
<1>7. CASE Replay
  BY <1>7, <1>m, <1>r DEF Replay, ReplayCleared
<1>8. CASE Connecting
  <2>1. CASE RefuseMiner
    BY <2>1, <1>k, <1>r DEF RefuseMiner, Invalid
  <2>2. CASE ConnectAborts
    BY <2>2, <1>k DEF ConnectAborts
  <2>3. CASE CheckTxs
    <3>1. permPool' = {blk} /\ blk' = blk
          /\ (blk \in BadTx \cup BadCoinbase \/ pc' = "index")
      BY <2>3 DEF CheckTxs
    <3>2. pc' \in {"idle", "activate", "final", "index"}
      BY <2>3, <1>r DEF CheckTxs, Invalid
    <3> QED BY <3>1, <3>2 DEF RowsOK
  <2>4. CASE WriteIndexes
    BY <2>4 DEF WriteIndexes, RowsOK
  <2>5. CASE CommitPerms
    BY <2>5, <1>e DEF CommitPerms
  <2>6. CASE CommitEntRow
    BY <2>6, <1>e DEF CommitEntRow, RowsOK
  <2>7. CASE CommitEntDb
    BY <2>7, <1>e DEF CommitEntDb, RowsOK
  <2>8. CASE UndoEntRow
    BY <2>8, <1>e DEF UndoEntRow, RowsOK
  <2>9. CASE UndoPerms
    BY <2>9, <1>e DEF UndoPerms
  <2>10. CASE FlushIndex
    BY <2>10 DEF FlushIndex, RowsOK
  <2>11. CASE FlushCoins
    BY <2>11 DEF FlushCoins, RowsOK
  <2>12. CASE WalletAddBlock
    BY <2>12, <1>e DEF WalletAddBlock, RowsOK
  <2>13. CASE WalletCommitFile
    BY <2>13, <1>k, <1>r DEF WalletCommitFile
  <2>14. CASE WalletCommitDb
    BY <2>14, <1>k, <1>r DEF WalletCommitDb
  <2>15. CASE UpdateTip
    BY <2>15, <1>k DEF UpdateTip
  <2> QED
    BY <1>8, <2>1, <2>2, <2>3, <2>4, <2>5, <2>6, <2>7, <2>8, <2>9, <2>10, <2>11,
       <2>12, <2>13, <2>14, <2>15 DEF Connecting
<1>9. CASE Disconnecting
  <2>1. CASE EraseIndex
    BY <2>1, <1>k, <1>t DEF EraseIndex, Place, Taking
  <2>2. CASE RollBackPerms
    BY <2>2, <1>e DEF RollBackPerms
  <2>3. CASE RollBackEntDb
    BY <2>3, <1>k DEF RollBackEntDb
  <2>4. CASE RollBackEntRow
    BY <2>4, <1>k DEF RollBackEntRow
  <2>5. CASE RollBackWallet
    <3>1. /\ pc = "rbWallet" /\ pc' \in {"rbWalletDb", AfterRollBack}
          /\ mempool' = mempool /\ permPool' = permPool
      BY <2>5 DEF RollBackWallet, RollBackFile
    <3>2. pc' \in {"rbWalletDb", "dTip", "idle"}
      BY <3>1 DEF AfterRollBack
    <3> QED BY <3>1, <3>2, <1>k
  <2>6. CASE RollBackWalletDb
    BY <2>6, <1>k DEF RollBackWalletDb, AfterRollBack
  <2>7. CASE Resurrect
    BY <2>7, <1>m DEF Resurrect
  <2> QED
    BY <1>9, <2>1, <2>2, <2>3, <2>4, <2>5, <2>6, <2>7 DEF Disconnecting
<1>10. CASE Load
  BY <1>10, <1>k DEF Load, BeginStep
<1>11. CASE Reactivate
  BY <1>11, <1>k DEF Reactivate, BeginStep
<1>12. CASE FinalRollBack
  BY <1>12, <1>k DEF FinalRollBack
<1>13. CASE Crash
  BY <1>13, <1>e DEF Crash
<1>14. CASE Refuse
  BY <1>14, <1>k DEF Refuse, Down
<1>15. CASE Start
  BY <1>15, <1>e DEF Start
<1>16. CASE UNCHANGED vars
  BY <1>16 DEF vars, RowsOK
<1> QED
  BY <1>1, <1>2, <1>3, <1>4, <1>5, <1>6, <1>7, <1>8, <1>9, <1>10, <1>11, <1>12,
     <1>13, <1>14, <1>15, <1>16 DEF Next, Running

(* The permission pool holds no other rows at every step.                  *)
LEMMA RowsInvariant == Spec => []RowsOK
<1>1. Init => RowsOK
  BY DEF Init, RowsOK, Cleared
<1>2. Core /\ Core' /\ RowsOK /\ [Next]_vars => RowsOK'
  BY RowsStep
<1> QED BY <1>1, <1>2, CoreInvariant, PTL DEF Spec

(* The checked property PermPoolReplayed: with the lock free the permission*)
(* pool holds rows of the memory pool and of a refused block only, and all *)
(* of the memory pool's after a step that came to its replay.              *)
THEOREM PermPoolReplayedHolds == Spec => []PermPoolReplayed
<1>1. PoolsOK /\ RowsOK => PermPoolReplayed
  BY DEF PoolsOK, RowsOK, PermPoolReplayed, AtRest
<1> QED BY <1>1, PoolsInvariant, RowsInvariant, PTL

(* The checked property WalletFollows: the file a start would read is      *)
(* always that of the wallet's database, and at rest the wallet spends     *)
(* from the outputs of the active chain with its pool applied.             *)
THEOREM WalletFollowsHolds == Spec => []WalletFollows
<1>1. WalletOK /\ PoolsOK => WalletFollows
  BY DEF WalletOK, PoolsOK, WalletFollows, AtRest, NotReplayed
<1> QED BY <1>1, WalletInvariant, PoolsInvariant, PTL

-----------------------------------------------------------------------------
(* Types.                                                                  *)

(* The types of the wallet and of the pools.                               *)
WalletTypes == /\ mempool \subseteq Txs /\ permPool \subseteq Txs \cup Blocks
               /\ txpool \subseteq Txs /\ utxos \in OutputsType
               /\ DOMAIN utxoFile \subseteq Nat
               /\ \A k \in DOMAIN utxoFile : utxoFile[k] \in OutputsType

(* One step keeps the types of the wallet and of the pools.                *)
LEMMA WalletTypesStep ==
  ASSUME Core, Core', WalletOK, WalletOK', WalletTypes, [Next]_vars
  PROVE  WalletTypes'
<1> USE DEF indexVars, coinVars, storeVars, addrVars, poolVars, stepVars
<1> DEFINE Pools == mempool \subseteq Txs /\ permPool \subseteq Txs \cup Blocks
           Wallet == /\ txpool \subseteq Txs /\ utxos \in OutputsType
                     /\ DOMAIN utxoFile \subseteq Nat
                     /\ \A k \in DOMAIN utxoFile : utxoFile[k] \in OutputsType
<1>t. /\ Types /\ Place /\ tip \in Blocks /\ coins \in Blocks /\ blk \in Blocks
      /\ TxsOf[blk] \subseteq Txs
  BY ChainAssumption DEF Types, Core
<1>i. Pools /\ Wallet
  BY DEF WalletTypes
<1>j. Pools' /\ Wallet' => WalletTypes'
  BY DEF WalletTypes
<1>w. UNCHANGED walletVars => Wallet'
  BY <1>i DEF walletVars
<1>p. mempool' = mempool /\ permPool' = permPool => Pools'
  BY <1>i
<1>a. ASSUME NEW S \in SUBSET Txs, AddTxs(S) PROVE Wallet'
  BY <1>a, <1>i DEF AddTxs, OutputsType
<1>o. ASSUME NEW b \in Blocks PROVE [blocks |-> Chain[b], txs |-> {}] \in OutputsType
  BY ChainEnds DEF OutputsType, Content
<1>s. ASSUME NEW b \in Blocks, NEW m \in OutputsType, SaveUTXOMap(Height(b), m),
             utxos' \in OutputsType, txpool' \subseteq Txs
      PROVE  Wallet'
  <2>1. Height(b) \in Nat
    BY HeightFacts
  <2> QED BY <1>s, <2>1, <1>i DEF SaveUTXOMap
<1>1. ASSUME NEW b \in Blocks \ {Genesis}, AcceptBlock(b) PROVE WalletTypes'
  BY <1>1, <1>w, <1>p, <1>j DEF AcceptBlock
<1>2. ASSUME NEW t \in Txs, AcceptTx(t) PROVE WalletTypes'
  <2>1. Wallet'
    BY <1>2, <1>a DEF AcceptTx
  <2>2. Pools'
    BY <1>2, <1>i DEF AcceptTx
  <2> QED BY <2>1, <2>2, <1>j
<1>3. ASSUME NEW b \in Blocks, Activate(b) PROVE WalletTypes'
  BY <1>3, <1>w, <1>p, <1>j DEF Activate
<1>4. CASE PeriodicFlush
  BY <1>4, <1>w, <1>p, <1>j DEF PeriodicFlush
<1>5. CASE BeginDisconnect
  BY <1>5, <1>w, <1>p, <1>j DEF BeginDisconnect
<1>6. CASE BeginConnect
  BY <1>6, <1>w, <1>p, <1>j DEF BeginConnect
<1>7. CASE Replay
  <2>1. PICK S \in SUBSET mempool : mempool' = S /\ permPool' = S /\ AddTxs(S)
    BY <1>7 DEF Replay, ReplayCleared
  <2> QED BY <2>1, <1>i, <1>a, <1>j
<1>8. CASE Connecting
  <2>1. CASE RefuseMiner
    BY <2>1, <1>w, <1>p, <1>j DEF RefuseMiner
  <2>2. CASE ConnectAborts
    BY <2>2, <1>w, <1>p, <1>j DEF ConnectAborts
  <2>3. CASE CheckTxs
    BY <2>3, <1>w, <1>i, <1>t, <1>j DEF CheckTxs
  <2>4. CASE WriteIndexes
    BY <2>4, <1>w, <1>p, <1>j DEF WriteIndexes
  <2>5. CASE CommitPerms
    BY <2>5, <1>w, <1>i, <1>j DEF CommitPerms
  <2>6. CASE CommitEntRow
    BY <2>6, <1>w, <1>p, <1>j DEF CommitEntRow
  <2>7. CASE CommitEntDb
    BY <2>7, <1>w, <1>p, <1>j DEF CommitEntDb
  <2>8. CASE UndoEntRow
    BY <2>8, <1>w, <1>p, <1>j DEF UndoEntRow
  <2>9. CASE UndoPerms
    BY <2>9, <1>w, <1>i, <1>j DEF UndoPerms
  <2>10. CASE FlushIndex
    BY <2>10, <1>w, <1>p, <1>j DEF FlushIndex
  <2>11. CASE FlushCoins
    BY <2>11, <1>w, <1>p, <1>j DEF FlushCoins
  <2>12. CASE WalletAddBlock
    <3>1. Pools'
      BY <2>12, <1>i DEF WalletAddBlock
    <3>2. BeforeCommit \in OutputsType
      <4>1. UtxoFileTrue
        BY DEF WalletOK
      <4> QED BY <4>1, <1>i DEF BeforeCommit, LoadUTXOMap, UtxoFileTrue
    <3>3. utxos' \in OutputsType
      <4>1. utxos' = [BeforeCommit EXCEPT !.blocks = Append(BeforeCommit.blocks, blk)]
        BY <2>12 DEF WalletAddBlock, AddBlockTxs
      <4>2. BeforeCommit.blocks \in Seq(Blocks)
        BY <3>2 DEF OutputsType, Content
      <4>3. Append(BeforeCommit.blocks, blk) \in Seq(Blocks)
        BY <4>2, <1>t
      <4> QED BY <3>2, <4>1, <4>3 DEF OutputsType, Content
    <3>4. Wallet'
      BY <2>12, <3>3, <1>i DEF WalletAddBlock, AddBlockTxs
    <3> QED BY <3>1, <3>4, <1>j
  <2>13. CASE WalletCommitFile
    <3>1. Pools'
      BY <2>13, <1>p DEF WalletCommitFile
    <3>2. txdb = Chain[tip] /\ blk \in Blocks \ {Genesis} /\ Prev[blk] = tip
      BY <2>13, <1>t DEF WalletCommitFile, Place, Adding, Child
    <3>3. WalletBlock + 1 = Height(blk)
      BY <3>2, <1>t, HeightFacts DEF WalletBlock
    <3>4. SaveUTXOMap(Height(blk), utxos) /\ utxos' = utxos /\ txpool' = txpool
      BY <2>13, <3>3 DEF WalletCommitFile, CommitFile
    <3>5. Wallet'
      BY <3>4, <1>i, <1>t, <1>s
    <3> QED BY <3>1, <3>5, <1>j
  <2>14. CASE WalletCommitDb
    BY <2>14, <1>i, <1>j, <1>p DEF WalletCommitDb, CommitDb, CommitDbFails
  <2>15. CASE UpdateTip
    BY <2>15, <1>i, <1>j, <1>p DEF UpdateTip, CleanUpAfterBlock
  <2> QED
    BY <1>8, <2>1, <2>2, <2>3, <2>4, <2>5, <2>6, <2>7, <2>8, <2>9, <2>10, <2>11,
       <2>12, <2>13, <2>14, <2>15 DEF Connecting
<1>9. CASE Disconnecting
  <2>1. CASE EraseIndex
    BY <2>1, <1>w, <1>p, <1>j DEF EraseIndex
  <2>2. CASE RollBackPerms
    BY <2>2, <1>w, <1>i, <1>j DEF RollBackPerms
  <2>3. CASE RollBackEntDb
    BY <2>3, <1>w, <1>p, <1>j DEF RollBackEntDb
  <2>4. CASE RollBackEntRow
    BY <2>4, <1>w, <1>p, <1>j DEF RollBackEntRow
  <2>5. CASE RollBackWallet
    <3>1. Pools'
      BY <2>5, <1>p DEF RollBackWallet
    <3>2. CASE ~RollsBack(rollTo)
      BY <2>5, <3>1, <3>2, <1>w, <1>j DEF RollBackWallet
    <3>3. CASE RollsBack(rollTo)
      <4>1. Goal \in Blocks /\ rollTo = Height(Goal)
        BY <2>5, <1>t, GoalFacts DEF RollBackWallet, Place
      <4>2. pc' = "rbWalletDb" /\ utxos' = RolledMap(rollTo) /\ txpool' = txpool
            /\ SaveUTXOMap(Height(Goal), utxos') /\ Goal' = Goal
        BY <2>5, <3>3, <4>1 DEF RollBackWallet, RollBackFile, Goal
      <4>3. utxos' = [blocks |-> Chain[Goal], txs |-> {}]
        BY <4>2 DEF WalletOK
      <4>4. utxos' \in OutputsType
        BY <4>1, <4>3, <1>o
      <4>5. Wallet'
        BY <4>1, <4>2, <4>4, <1>i, <1>s
      <4> QED BY <3>1, <4>5, <1>j
    <3> QED BY <3>2, <3>3
  <2>6. CASE RollBackWalletDb
    BY <2>6, <1>i, <1>j, <1>p DEF RollBackWalletDb, RollBackDb
  <2>7. CASE Resurrect
    <3>1. PICK S \in SUBSET (mempool \cup TxsOf[blk]) : mempool' = S /\ permPool' = S /\ AddTxs(S)
      BY <2>7 DEF Resurrect
    <3> QED BY <3>1, <1>i, <1>t, <1>a, <1>j
  <2> QED
    BY <1>9, <2>1, <2>2, <2>3, <2>4, <2>5, <2>6, <2>7 DEF Disconnecting
<1>10. CASE Load
  BY <1>10, <1>w, <1>p, <1>j DEF Load
<1>11. CASE Reactivate
  BY <1>11, <1>w, <1>p, <1>j DEF Reactivate
<1>12. CASE FinalRollBack
  BY <1>12, <1>w, <1>p, <1>j DEF FinalRollBack
<1>13. CASE Crash
  <2>1. NoOutputs \in OutputsType
    BY DEF NoOutputs, OutputsType, Content
  <2> QED BY <1>13, <2>1, <1>i, <1>j DEF Crash, LoseWallet
<1>14. CASE Refuse
  BY <1>14, <1>w, <1>p, <1>j DEF Refuse
<1>15. CASE Start
  <2>1. UtxoFileTrue
    BY DEF WalletOK
  <2> QED BY <1>15, <2>1, <1>i, <1>j DEF Start, OpenWallet, LoadUTXOMap, UtxoFileTrue
<1>16. CASE UNCHANGED vars
  BY <1>16, <1>w, <1>p, <1>j DEF vars
<1> QED
  BY <1>1, <1>2, <1>3, <1>4, <1>5, <1>6, <1>7, <1>8, <1>9, <1>10, <1>11, <1>12,
     <1>13, <1>14, <1>15, <1>16 DEF Next, Running

(* The wallet and the pools always have their types.                       *)
LEMMA WalletTypesInvariant == Spec => []WalletTypes
<1>1. Init => WalletTypes
  <2> SUFFICES ASSUME Init PROVE WalletTypes
    OBVIOUS
  <2>1. Chain[Genesis] \in Seq(Blocks)
    BY ChainAssumption
  <2>2. utxos \in OutputsType
    BY <2>1 DEF Init, OnTip, OutputsType, Content
  <2> QED BY <2>2 DEF Init, WalletTypes
<1>2. Core /\ Core' /\ WalletOK /\ WalletOK' /\ WalletTypes /\ [Next]_vars => WalletTypes'
  BY WalletTypesStep
<1> QED BY <1>1, <1>2, CoreInvariant, WalletInvariant, PTL DEF Spec

(* The checked property TypeOK: every variable has its type; no store is   *)
(* ever rolled back upwards, to a block it does not hold.                  *)
THEOREM TypeOKHolds == Spec => []TypeOK
<1>1. Core /\ AddrOK /\ WalletTypes => TypeOK
  <2> SUFFICES ASSUME Core, AddrOK, WalletTypes PROVE TypeOK
    OBVIOUS
  <2>1. PICK x \in Blocks : {perms, entDb, entRow, txdb, Chain[coins]} \subseteq Near(x)
    BY PlaceSpans DEF Core, Spanning
  <2>2. Chain[x] \in Content /\ Chain[Before(x)] \in Content
    BY BeforeFacts, ChainEnds DEF Content
  <2>3. {perms, entDb, entRow, txdb} \subseteq Content
    BY <2>1, <2>2 DEF Near
  <2> QED BY <2>3 DEF Core, Types, AddrOK, WalletTypes, TypeOK
<1> QED BY <1>1, CoreInvariant, AddrInvariant, WalletTypesInvariant, PTL
=============================================================================
