---------------------------- MODULE ChainCommit -----------------------------
(***************************************************************************)
(* How a block reaches the disk, and how a node comes back after a crash   *)
(* (core/main.cpp: ActivateBestChainStep, ConnectTip, DisconnectTip,       *)
(* FlushStateToDisk, LoadBlockIndexDB).                                    *)
(*                                                                         *)
(* A block is written to the address index, the permission store, the      *)
(* entity store, the block index, the coins and the wallet, one after the  *)
(* other. No transaction spans them. After a start the coins say what the  *)
(* tip is, and LoadBlockIndexDB brings the others to it by comparing       *)
(* heights. Everything runs under cs_main, so a step here is what happens  *)
(* between two writes, and a crash of the process may fall between any     *)
(* two steps, those of the recovery included.                              *)
(*                                                                         *)
(* The content of a store is the sequence of the blocks committed to it.   *)
(* The permission store is used as PermissionLog promises it (a commit and *)
(* a roll back are atomic). Which block to activate is ChainState's        *)
(* subject: here any known block may be the target. A failed flush ends    *)
(* the process and is a crash. A roll back that fails, -rescan, -reindex   *)
(* and VerifyDB are left out.                                              *)
(***************************************************************************)
EXTENDS WalletTxs, FiniteSets

CONSTANTS
  Blocks, Genesis, NoBlock,
  Prev,          \* hashPrevBlock of every block but the genesis block
  Chain,         \* the blocks from the genesis block to a block
  BadMiner,      \* CheckBlockPermissions fails
  BadTx,         \* a transaction is refused, or a check after them fails
  BadCoinbase,   \* only the coinbase is refused
  IssuesEntity,  \* blocks with a row for the entity ledger
  Txs,           \* transactions that reach the memory pool
  TxsOf,         \* the ones of them that a block contains
  MaxFaults      \* bound: crashes and failing writes

ASSUME ChainAssumption ==
  /\ Genesis \in Blocks /\ NoBlock \notin Blocks
  /\ Prev \in [Blocks \ {Genesis} -> Blocks]
  /\ Chain \in [Blocks -> Seq(Blocks)]
  /\ Chain[Genesis] = <<Genesis>>
  /\ \A b \in Blocks \ {Genesis} : Chain[b] = Append(Chain[Prev[b]], b)
  /\ Genesis \notin BadMiner \cup BadTx \cup BadCoinbase
  /\ TxsOf \in [Blocks -> SUBSET Txs]
  /\ Window \in Nat /\ MaxFaults \in Nat

VARIABLES
  blockIndex,  \* mapBlockIndex: known, with undo data, failed
  diskIndex,   \* the same in blocks/index
  tip,         \* chainActive.Tip()
  coinsTip,    \* pcoinsTip->GetBestBlock()
  coins,       \* the best block of the coin database
  perms,       \* blocks in the permission store
  entDb,       \* blocks in the entity database
  entRow,      \* blocks up to row 0 of the entity ledger
  addrIndex,   \* blocks with entries in the address index
  torn,        \* blocks whose entries there were written or erased by a
               \* connect or disconnect that has not reached the coins
  mempool,     \* transactions in the memory pool
  permPool,    \* transactions and blocks with rows in the permission pool
  pc,          \* the step that is next
  caller,      \* who runs ActivateBestChainStep
  target,      \* pindexMostWork
  oldTip,      \* pindexOldTip
  blk,         \* the block ConnectTip or DisconnectTip works on
  dir,         \* "connect", "disconnect", or "final" at the end of a start
  fInvalid,    \* fInvalidFound of the last step
  faults

indexVars == <<blockIndex, diskIndex>>
coinVars == <<coinsTip, coins>>
storeVars == <<perms, entDb, entRow>>
addrVars == <<addrIndex, torn>>
poolVars == <<mempool, permPool>>
stepVars == <<caller, target, oldTip, blk, dir>>
vars == <<walletVars, indexVars, tip, coinVars, storeVars, addrVars, poolVars,
          pc, stepVars, fInvalid, faults>>

Elems(s) == {s[i] : i \in 1..Len(s)}
Height(b) == Len(Chain[b]) - 1
OnTip == Chain[tip]
Candidates == {b \in blockIndex.known : Elems(Chain[b]) \cap blockIndex.failed = {}}

(* RollBack(block) of the permission and the entity store: the number of   *)
(* blocks is set to the one asked for, whatever it was.                    *)
RollBackTo(s, block) ==
  [i \in 1..(block + 1) |-> IF i <= Len(s) THEN s[i] ELSE NoBlock]

EmptyIndex == [known |-> {Genesis}, undo |-> {}, failed |-> {}]

(* The genesis block is everywhere: a node that has been started once.     *)
Init ==
  /\ blockIndex = EmptyIndex /\ diskIndex = EmptyIndex
  /\ tip = Genesis /\ coinsTip = Genesis /\ coins = Genesis
  /\ perms = OnTip /\ entDb = OnTip /\ entRow = OnTip
  /\ addrIndex = {} /\ torn = {} /\ mempool = {} /\ permPool = {}
  /\ txdb = OnTip /\ txpool = {}
  /\ utxos = [blocks |-> OnTip, txs |-> {}]
  /\ utxoFile = [k \in {0} |-> utxos]
  /\ pc = "idle" /\ caller = "run" /\ target = Genesis /\ oldTip = Genesis
  /\ blk = Genesis /\ dir = "connect" /\ fInvalid = FALSE /\ faults = 0

-----------------------------------------------------------------------------
(* What happens while nobody activates a chain.                            *)

(* AcceptBlock: a block whose parent is stored.                            *)
AcceptBlock(b) ==
  /\ pc = "idle" /\ b \notin blockIndex.known /\ Prev[b] \in blockIndex.known
  /\ blockIndex' = [blockIndex EXCEPT !.known = @ \cup {b}]
  /\ UNCHANGED <<walletVars, diskIndex, tip, coinVars, storeVars, addrVars,
                 poolVars, pc, stepVars, fInvalid, faults>>

(* AcceptToMemoryPool: the permission rows, the pool and the wallet.       *)
AcceptTx(t) ==
  /\ pc = "idle" /\ t \notin mempool
  /\ \A i \in 1..Len(OnTip) : t \notin TxsOf[OnTip[i]]
  /\ mempool' = mempool \cup {t} /\ permPool' = permPool \cup {t}
  /\ AddTxs({t})
  /\ UNCHANGED <<indexVars, tip, coinVars, storeVars, addrVars, pc, stepVars,
                 fInvalid, faults>>

(* FlushStateToDisk at the end of ActivateBestChain and at shutdown.       *)
PeriodicFlush ==
  /\ pc = "idle"
  /\ diskIndex' = blockIndex /\ coins' = coinsTip
  /\ UNCHANGED <<walletVars, blockIndex, tip, coinsTip, storeVars, addrVars,
                 poolVars, pc, stepVars, fInvalid, faults>>

-----------------------------------------------------------------------------
(* ActivateBestChainStep.                                                  *)

BeginStep(who, b) ==
  /\ pc' = "step" /\ caller' = who /\ target' = b /\ oldTip' = tip
  /\ fInvalid' = FALSE

Activate(b) ==
  /\ pc = "idle" /\ b \in Candidates \ {tip}
  /\ BeginStep("run", b)
  /\ UNCHANGED <<walletVars, indexVars, tip, coinVars, storeVars, addrVars,
                 poolVars, blk, dir, faults>>

(* Where control goes when the step returns ok.                            *)
Return(ok) == CASE caller = "run" -> "idle"
                [] caller = "shift" -> "activate"
                [] caller = "reactivate" -> IF ok THEN "activate" ELSE "final"

(* DisconnectTip begins: DisconnectBlock asserts that the view stands at   *)
(* the block, and gives up without its undo data.                          *)
BeginDisconnect ==
  /\ pc = "step" /\ tip \notin Elems(Chain[target])
  /\ blk' = tip /\ dir' = "disconnect"
  /\ pc' = IF coinsTip # tip THEN "aborted"
           ELSE IF tip \notin blockIndex.undo THEN Return(FALSE) ELSE "erase"
  /\ UNCHANGED <<walletVars, indexVars, tip, coinVars, storeVars, addrVars,
                 poolVars, caller, target, oldTip, fInvalid, faults>>

StepDone == tip = target \/ Height(tip) > Height(oldTip)

BeginConnect ==
  /\ pc = "step" /\ tip \in Elems(Chain[target]) /\ ~StepDone
  /\ blk' = Chain[target][Len(OnTip) + 1] /\ dir' = "connect"
  /\ pc' = "check"
  /\ UNCHANGED <<walletVars, indexVars, tip, coinVars, storeVars, addrVars,
                 poolVars, caller, target, oldTip, fInvalid, faults>>

(* Mutant: the pools are replayed without being cleared.                   *)
ReplayOnTop(S) == permPool \cup S

ReplayCleared(S) == S

(* The step has succeeded: the pools of the permission and the entity      *)
(* store are cleared, and ReplayMemPool accepts the transactions again.    *)
(* It takes the ones that are refused now off the memory pool.             *)
Replay ==
  /\ pc = "step" /\ tip \in Elems(Chain[target]) /\ StepDone
  /\ \E S \in SUBSET mempool :
       /\ mempool' = S /\ permPool' = ReplayCleared(S) /\ AddTxs(S)
  /\ pc' = Return(TRUE)
  /\ UNCHANGED <<indexVars, tip, coinVars, storeVars, addrVars, stepVars,
                 fInvalid, faults>>

-----------------------------------------------------------------------------
(* ConnectTip.                                                             *)

(* InvalidBlockFound, and the step ends without a replay.                  *)
Invalid ==
  /\ blockIndex' = [blockIndex EXCEPT !.failed = @ \cup {blk}]
  /\ fInvalid' = TRUE /\ pc' = Return(TRUE)

(* CheckBlockPermissions looks the miner up in the permission store: with  *)
(* the permissions of another block the answer may be any.                 *)
MinerMayFail == blk \in BadMiner \/ perms # Chain[Prev[blk]]
MinerMayPass == blk \notin BadMiner \/ perms # Chain[Prev[blk]]

RefuseMiner ==
  /\ pc = "check" /\ MinerMayFail /\ Invalid
  /\ UNCHANGED <<walletVars, diskIndex, tip, coinVars, storeVars, addrVars,
                 poolVars, stepVars, faults>>

(* The assertion that the view stands at the previous block.               *)
ConnectAborts ==
  /\ pc = "check" /\ MinerMayPass /\ coinsTip # Prev[blk]
  /\ pc' = "aborted"
  /\ UNCHANGED <<walletVars, indexVars, tip, coinVars, storeVars, addrVars,
                 poolVars, stepVars, fInvalid, faults>>

(* ClearMemPool, then the block's transactions; if one is refused the      *)
(* rows before it stay in the permission pool. A refused coinbase is not   *)
(* reported as a fault of the block: the step fails, as for an error of    *)
(* the system.                                                             *)
CheckTxs ==
  /\ pc = "check" /\ MinerMayPass /\ coinsTip = Prev[blk]
  /\ permPool' = {blk}
  /\ IF blk \in BadTx THEN Invalid
     ELSE /\ pc' = IF blk \in BadCoinbase THEN Return(FALSE) ELSE "index"
          /\ UNCHANGED <<blockIndex, fInvalid>>
  /\ UNCHANGED <<walletVars, diskIndex, tip, coinVars, storeVars, addrVars,
                 mempool, stepVars, faults>>

(* The undo data, and the indexes straight to their database.              *)
WriteIndexes ==
  /\ pc = "index"
  /\ blockIndex' = [blockIndex EXCEPT !.undo = @ \cup {blk}]
  /\ addrIndex' = addrIndex \cup {blk} /\ torn' = torn \cup {blk}
  /\ pc' = "perms"
  /\ UNCHANGED <<walletVars, diskIndex, tip, coinVars, storeVars, poolVars,
                 stepVars, fInvalid, faults>>

Fault == faults < MaxFaults /\ faults' = faults + 1

(* Permissions->Commit.                                                    *)
CommitPerms ==
  /\ pc = "perms" /\ permPool' = {}
  /\ \/ perms' = Append(perms, blk) /\ pc' = "entRow"
        /\ UNCHANGED <<blockIndex, fInvalid, faults>>
     \/ Fault /\ Invalid /\ UNCHANGED perms
  /\ UNCHANGED <<walletVars, diskIndex, tip, coinVars, entDb, entRow, addrVars,
                 mempool, stepVars>>

(* Assets->Commit: the ledger with row 0, then the database.               *)
CommitEntRow ==
  /\ pc = "entRow"
  /\ \/ entRow' = Append(entDb, blk) /\ pc' = "entDb" /\ UNCHANGED faults
     \/ Fault /\ pc' = "entUndo" /\ UNCHANGED entRow
  /\ UNCHANGED <<walletVars, indexVars, tip, coinVars, perms, entDb, addrVars,
                 poolVars, stepVars, fInvalid>>

CommitEntDb ==
  /\ pc = "entDb"
  /\ \/ entDb' = entRow /\ pc' = "flushIndex" /\ UNCHANGED faults
     \/ Fault /\ pc' = "entUndo" /\ UNCHANGED entDb
  /\ UNCHANGED <<walletVars, indexVars, tip, coinVars, perms, entRow, addrVars,
                 poolVars, stepVars, fInvalid>>

(* A failed entity commit: RollBack(m_Block) of the entity store, then     *)
(* Permissions->RollBack().                                                *)
UndoEntRow ==
  /\ pc = "entUndo"
  /\ entRow' = entDb /\ pc' = "permUndo"
  /\ UNCHANGED <<walletVars, indexVars, tip, coinVars, perms, entDb, addrVars,
                 poolVars, stepVars, fInvalid, faults>>

UndonePerms == RollBackTo(perms, Len(perms) - 2)

UndoPerms ==
  /\ pc = "permUndo"
  /\ perms' = UndonePerms /\ permPool' = {} /\ Invalid
  /\ UNCHANGED <<walletVars, diskIndex, tip, coinVars, entDb, entRow, addrVars,
                 mempool, stepVars, faults>>

FlushDirty == blockIndex

(* view.Flush() into pcoinsTip, then FlushStateToDisk(FLUSH_STATE_ALWAYS): *)
(* the dirty block index entries first, then the coins.                    *)
FlushIndex ==
  /\ pc = "flushIndex"
  /\ coinsTip' = IF dir = "connect" THEN blk ELSE Prev[blk]
  /\ diskIndex' = FlushDirty
  /\ pc' = "flushCoins"
  /\ UNCHANGED <<walletVars, blockIndex, tip, coins, storeVars, addrVars,
                 poolVars, stepVars, fInvalid, faults>>

FlushCoins ==
  /\ pc = "flushCoins"
  /\ coins' = coinsTip /\ torn' = torn \ {blk}
  /\ pc' = IF dir = "connect" THEN "wallet" ELSE "rbPerms"
  /\ UNCHANGED <<walletVars, indexVars, tip, coinsTip, storeVars, addrIndex,
                 poolVars, stepVars, fInvalid, faults>>

(* removeForBlock, then the wallet: BeforeCommit and AddTx, the file, the  *)
(* database. An error is returned and is not a fault of the block: the     *)
(* step fails with the coins ahead of chainActive.                         *)
WalletAddBlock ==
  /\ pc = "wallet"
  /\ mempool' = mempool \ TxsOf[blk]
  /\ AddBlockTxs(blk)
  /\ \/ pc' = "walletFile" /\ UNCHANGED faults
     \/ Fault /\ pc' = Return(FALSE)
  /\ UNCHANGED <<indexVars, tip, coinVars, storeVars, addrVars, permPool,
                 stepVars, fInvalid>>

WalletCommitFile ==
  /\ pc = "walletFile" /\ CommitFile
  /\ \/ pc' = "walletDb" /\ UNCHANGED faults
     \/ Fault /\ pc' = Return(FALSE)
  /\ UNCHANGED <<indexVars, tip, coinVars, storeVars, addrVars, poolVars,
                 stepVars, fInvalid>>

WalletCommitDb ==
  /\ pc = "walletDb"
  /\ \/ CommitDb(blk) /\ pc' = "tip" /\ UNCHANGED faults
     \/ Fault /\ CommitDbFails /\ pc' = Return(FALSE)
  /\ UNCHANGED <<indexVars, tip, coinVars, storeVars, addrVars, poolVars,
                 stepVars, fInvalid>>

(* CleanUpAfterBlock, UpdateTip.                                           *)
UpdateTip ==
  /\ pc = "tip"
  /\ CleanUpAfterBlock(Height(blk) - 1) /\ UNCHANGED <<txdb, txpool, utxos>>
  /\ tip' = blk /\ pc' = "step"
  /\ UNCHANGED <<indexVars, coinVars, storeVars, addrVars, poolVars, stepVars,
                 fInvalid, faults>>

-----------------------------------------------------------------------------
(* DisconnectTip.                                                          *)

(* Mutant: the entries of the block stay.                                  *)
EraseNothing == addrIndex

ErasedIndex == addrIndex \ {blk}

(* EraseAddressIndex, while the coins have changed in the view only.       *)
EraseIndex ==
  /\ pc = "erase"
  /\ addrIndex' = ErasedIndex /\ torn' = torn \cup {blk}
  /\ pc' = "flushIndex"
  /\ UNCHANGED <<walletVars, indexVars, tip, coinVars, storeVars, poolVars,
                 stepVars, fInvalid, faults>>

(* Mutant: two blocks too high.                                            *)
rollToAbove == IF dir = "final" THEN Height(tip) ELSE Height(blk) + 1

(* RollBack of the three stores, to the block before the one disconnected, *)
(* or at the end of a start to the tip. What they return is not looked at. *)
rollTo == IF dir = "final" THEN Height(tip) ELSE Height(blk) - 1

RollBackPerms ==
  /\ pc = "rbPerms"
  /\ perms' = RollBackTo(perms, rollTo) /\ permPool' = {}
  /\ pc' = "rbEntDb"
  /\ UNCHANGED <<walletVars, indexVars, tip, coinVars, entDb, entRow, addrVars,
                 mempool, stepVars, fInvalid, faults>>

(* Mutant: the entity store is not rolled back.                            *)
RollBackEntForgotten == entDb

RolledEnt == RollBackTo(entDb, rollTo)

RollBackEntDb ==
  /\ pc = "rbEntDb"
  /\ entDb' = RolledEnt /\ pc' = "rbEntRow"
  /\ UNCHANGED <<walletVars, indexVars, tip, coinVars, perms, entRow, addrVars,
                 poolVars, stepVars, fInvalid, faults>>

(* Mutant: row 0 is not written.                                           *)
RowKept == entRow

RolledRow == entDb

RollBackEntRow ==
  /\ pc = "rbEntRow"
  /\ entRow' = RolledRow /\ pc' = "rbWallet"
  /\ UNCHANGED <<walletVars, indexVars, tip, coinVars, perms, entDb, addrVars,
                 poolVars, stepVars, fInvalid, faults>>

AfterRollBack == IF dir = "final" THEN "idle" ELSE "dTip"

RollBackWallet ==
  /\ pc = "rbWallet"
  /\ IF RollsBack(rollTo)
     THEN RollBackFile(rollTo) /\ pc' = "rbWalletDb"
     ELSE UNCHANGED walletVars /\ pc' = AfterRollBack
  /\ UNCHANGED <<indexVars, tip, coinVars, storeVars, addrVars, poolVars,
                 stepVars, fInvalid, faults>>

RollBackWalletDb ==
  /\ pc = "rbWalletDb" /\ RollBackDb(rollTo) /\ pc' = AfterRollBack
  /\ UNCHANGED <<indexVars, tip, coinVars, storeVars, addrVars, poolVars,
                 stepVars, fInvalid, faults>>

(* The transactions of the block go back to the memory pool, the pool is   *)
(* replayed, UpdateTip.                                                    *)
Resurrect ==
  /\ pc = "dTip"
  /\ \E S \in SUBSET (mempool \cup TxsOf[blk]) :
       mempool' = S /\ permPool' = S /\ AddTxs(S)
  /\ tip' = Prev[blk] /\ pc' = "step"
  /\ UNCHANGED <<indexVars, coinVars, storeVars, addrVars, stepVars, fInvalid,
                 faults>>

-----------------------------------------------------------------------------
(* A crash, and the next start.                                            *)

Down == {"down", "aborted", "refused"}

(* The process is gone with all it held in memory.                         *)
Crash ==
  /\ pc \notin Down /\ Fault
  /\ pc' = "down"
  /\ blockIndex' = diskIndex /\ tip' = coins /\ coinsTip' = coins
  /\ mempool' = {} /\ permPool' = {} /\ LoseWallet
  /\ caller' = "run" /\ target' = Genesis /\ oldTip' = Genesis
  /\ blk' = Genesis /\ dir' = "connect" /\ fInvalid' = FALSE
  /\ UNCHANGED <<diskIndex, coins, storeVars, addrVars>>

(* mc_AssetDB::Initialize: the end of the ledger by the database must be   *)
(* its end by row 0, or the store is refused, and the node with it. With   *)
(* equal ends a ledger that is ahead is set back to the database.          *)
LedgerRows(s) == Cardinality({i \in 1..Len(s) : s[i] \in IssuesEntity})
EntitiesOpen == LedgerRows(entRow) = LedgerRows(entDb) /\ Len(entRow) >= Len(entDb)

Refuse ==
  /\ pc \in Down /\ ~EntitiesOpen /\ pc' = "refused"
  /\ UNCHANGED <<walletVars, indexVars, tip, coinVars, storeVars, addrVars,
                 poolVars, stepVars, fInvalid, faults>>

(* The stores are opened; LoadBlockIndexDB takes the tip from the coins.   *)
Start ==
  /\ pc \in Down /\ EntitiesOpen
  /\ entRow' = entDb /\ OpenWallet
  /\ blockIndex' = diskIndex /\ tip' = coins /\ coinsTip' = coins
  /\ mempool' = {} /\ permPool' = {} /\ fInvalid' = FALSE
  /\ pc' = "load"
  /\ UNCHANGED <<diskIndex, coins, perms, entDb, addrVars, stepVars, faults>>

(* block_to_rollback: the lowest of the three, if any two of them differ   *)
(* or one is behind the tip.                                               *)
Lowest(S) == CHOOSE h \in S : \A k \in S : h <= k

(* Mutant: the wallet is not asked.                                        *)
LowestOfTwo == Lowest({Len(perms) - 1, Len(entDb) - 1})

blockToRollback == Lowest({Len(perms) - 1, Len(entDb) - 1, WalletBlock})

(* SetLastBlock(chainActive[block_to_rollback]) if that is below the tip,  *)
(* otherwise only the final roll back.                                     *)
Load ==
  /\ pc = "load"
  /\ IF blockToRollback < Height(tip)
     THEN BeginStep("shift", OnTip[blockToRollback + 1])
     ELSE pc' = "final" /\ UNCHANGED <<caller, target, oldTip, fInvalid>>
  /\ UNCHANGED <<walletVars, indexVars, tip, coinVars, storeVars, addrVars,
                 poolVars, blk, dir, faults>>

(* Mutant: a chain as long as the active one is good enough.               *)
NotShorter == {b \in Candidates \ {tip} : Height(b) >= Height(tip)}

Better == {b \in Candidates : Height(b) > Height(tip)}

(* SetLastBlock(0): ActivateBestChain, round after round.                  *)
Reactivate ==
  /\ pc = "activate"
  /\ \/ \E b \in Better : BeginStep("reactivate", b)
     \/ Better = {} /\ pc' = "final" /\ UNCHANGED <<caller, target, oldTip, fInvalid>>
  /\ UNCHANGED <<walletVars, indexVars, tip, coinVars, storeVars, addrVars,
                 poolVars, blk, dir, faults>>

FinalRollBack ==
  /\ pc = "final" /\ dir' = "final" /\ pc' = "rbPerms"
  /\ UNCHANGED <<walletVars, indexVars, tip, coinVars, storeVars, addrVars,
                 poolVars, caller, target, oldTip, blk, fInvalid, faults>>

-----------------------------------------------------------------------------
Connecting == \/ RefuseMiner \/ ConnectAborts \/ CheckTxs \/ WriteIndexes
              \/ CommitPerms \/ CommitEntRow \/ CommitEntDb \/ UndoEntRow
              \/ UndoPerms \/ FlushIndex \/ FlushCoins \/ WalletAddBlock
              \/ WalletCommitFile \/ WalletCommitDb \/ UpdateTip

Disconnecting == \/ EraseIndex \/ RollBackPerms \/ RollBackEntDb
                 \/ RollBackEntRow \/ RollBackWallet \/ RollBackWalletDb
                 \/ Resurrect

(* The steps of the thread that holds cs_main.                             *)
Running == \/ BeginDisconnect \/ BeginConnect \/ Replay
           \/ Connecting \/ Disconnecting
           \/ Load \/ Reactivate \/ FinalRollBack

Next == \/ \E b \in Blocks \ {Genesis} : AcceptBlock(b)
        \/ \E t \in Txs : AcceptTx(t)
        \/ \E b \in Blocks : Activate(b)
        \/ PeriodicFlush \/ Running \/ Crash \/ Refuse \/ Start

Spec == Init /\ [][Next]_vars /\ WF_vars(Running)

-----------------------------------------------------------------------------
(* Properties.                                                             *)

Steps == {"idle", "step", "check", "index", "perms", "entRow", "entDb",
          "entUndo", "permUndo", "flushIndex", "flushCoins", "wallet",
          "walletFile", "walletDb", "tip", "erase", "rbPerms", "rbEntDb",
          "rbEntRow", "rbWallet", "rbWalletDb", "dTip", "load", "activate",
          "final"} \cup Down

IndexType == [known : SUBSET Blocks, undo : SUBSET Blocks, failed : SUBSET Blocks]
Content == Seq(Blocks)
OutputsType == [blocks : Content, txs : SUBSET Txs]

(* Every variable has its type. In particular no store is ever rolled back *)
(* upwards, to a block it does not hold.                                   *)
TypeOK ==
  /\ blockIndex \in IndexType /\ diskIndex \in IndexType
  /\ {tip, coinsTip, coins, target, oldTip, blk} \subseteq Blocks
  /\ {perms, entDb, entRow, txdb} \subseteq Content
  /\ addrIndex \subseteq Blocks /\ torn \subseteq Blocks
  /\ mempool \subseteq Txs /\ permPool \subseteq Txs \cup Blocks
  /\ txpool \subseteq Txs /\ utxos \in OutputsType
  /\ DOMAIN utxoFile \subseteq Nat
  /\ \A k \in DOMAIN utxoFile : utxoFile[k] \in OutputsType
  /\ pc \in Steps /\ caller \in {"run", "shift", "reactivate"}
  /\ dir \in {"connect", "disconnect", "final"}
  /\ fInvalid \in BOOLEAN /\ faults \in 0..MaxFaults

(* No wallet error has left the coins ahead of chainActive.                *)
AtRest == pc = "idle" /\ coinsTip = tip

(* Whenever the lock is free, the coins, the permissions, the entities and *)
(* the wallet hold exactly the blocks of the active chain, whatever crashed*)
(* or failed before: in particular after every start.                      *)
StoresAgree ==
  AtRest => /\ coins = tip
            /\ perms = OnTip /\ entDb = OnTip /\ entRow = OnTip /\ txdb = OnTip

Prefix(s, t) == Len(s) <= Len(t) /\ \A i \in 1..Len(s) : s[i] = t[i]

(* What a crash at this moment would leave can be brought together again.  *)
(* LoadBlockIndexDB compares heights and no hashes, which is enough only   *)
(* because any two stores hold a chain and a part of it; and every block   *)
(* in the coin database can be taken off, because the block index on disk  *)
(* knows it and where its undo data is.                                    *)
CrashRecoverable ==
  /\ \A s, t \in {perms, entDb, entRow, txdb, Chain[coins]} : Prefix(s, t) \/ Prefix(t, s)
  /\ Elems(Chain[coins]) \ {Genesis} \subseteq diskIndex.known \cap diskIndex.undo

(* The address index has the entries of the active chain, and no others,   *)
(* except for blocks whose last connect or disconnect stopped between the  *)
(* index and the coins: no start repairs those.                            *)
AddressIndexExact ==
  AtRest => LET chain == Elems(OnTip) \ {Genesis}
            IN (addrIndex \ chain) \cup (chain \ addrIndex) \subseteq torn

(* The last step met an invalid block, or the block it worked on last was  *)
(* one with a refused coinbase: it ended without a replay.                 *)
NotReplayed == fInvalid \/ blk \in BadCoinbase

(* When the lock is free the permission pool holds rows of the memory      *)
(* pool's transactions, and of no block but one that was refused for its   *)
(* transactions or its coinbase. None is missing unless the last step did  *)
(* not come to its replay, or was the roll back that ends a start.         *)
PermPoolReplayed ==
  AtRest => /\ permPool \subseteq mempool \cup BadTx \cup BadCoinbase
            /\ NotReplayed \/ dir = "final" \/ permPool = mempool

(* Between any two writes the file a start would read is that of the       *)
(* wallet's database. When the lock is free the wallet spends from the     *)
(* outputs of the active chain with its own pool applied, and after a step *)
(* that came to its replay no transaction of the memory pool is missing.   *)
WalletFollows ==
  /\ UtxoFileTrue
  /\ AtRest => UtxosTrue /\ (~NotReplayed => mempool \subseteq txpool)

(* A node is stopped by two things only. The assertions on the best block  *)
(* of the view, in ConnectBlock and DisconnectBlock, fail where a wallet   *)
(* error left the coins one block ahead of chainActive, which a crash      *)
(* never does. An entity store that is refused was caught between its row  *)
(* 0 and its database, by a block that has rows there.                     *)
StopsExplained ==
  /\ pc = "aborted" => /\ coins # Genesis /\ Prev[coins] = tip
                       /\ ~Prefix(Chain[coins], txdb)
  /\ pc = "refused" => /\ Len(entRow) = Len(entDb) + 1 /\ Prefix(entDb, entRow)
                       /\ entRow[Len(entRow)] \in IssuesEntity

(* Every start comes to an end: LoadBlockIndexDB terminates.               *)
StartEnds == (pc = "load") ~> (pc \in {"idle"} \cup Down)
=============================================================================
