----------------------------- MODULE WalletTxs ------------------------------
(***************************************************************************)
(* The wallet's record of the chain (wallet/wallettxs.cpp, wallettxdb.cpp),*)
(* in the mode that stores transactions (MC_WMD_TXS), chain import only.   *)
(*                                                                         *)
(* The transaction database changes in one LevelDB batch per block. The    *)
(* set of unspent outputs lives in memory, m_UTXOs, and in one file per    *)
(* block, wallet/utxo0_<block>.dat. The file is written before the batch,  *)
(* and after a start the file named by the database's block is read.       *)
(*                                                                         *)
(* A set of outputs is told apart by the blocks and by the unconfirmed     *)
(* transactions that were applied to get it. Subscriptions, imports, the   *)
(* raw transactions and the list of unconfirmed sends are left out.        *)
(***************************************************************************)
EXTENDS Integers, Sequences

CONSTANTS Window        \* MC_TDB_UTXO_SET_WINDOW_SIZE

VARIABLES
  txdb,      \* blocks in the transaction database; m_Block is WalletBlock
  txpool,    \* transactions with rows in m_MemPools[0]
  utxos,     \* m_UTXOs[0]
  utxoFile   \* the files, by block

walletVars == <<txdb, txpool, utxos, utxoFile>>

NoOutputs == [blocks |-> <<>>, txs |-> {}]
WalletBlock == Len(txdb) - 1

(* A file that is missing leaves the map as it is, except for block 0.     *)
LoadUTXOMap(block, current) ==
  IF block \in DOMAIN utxoFile THEN utxoFile[block]
  ELSE IF block > 0 THEN current ELSE NoOutputs

SaveUTXOMap(block, map) ==
  utxoFile' = IF block < 0 THEN utxoFile
              ELSE [k \in DOMAIN utxoFile \cup {block} |->
                      IF k = block THEN map ELSE utxoFile[k]]

(* An unconfirmed transaction (block = -1).                                *)
AddTxs(S) == /\ txpool' = txpool \cup S
             /\ utxos' = [utxos EXCEPT !.txs = @ \cup S]
             /\ UNCHANGED <<txdb, utxoFile>>

(* BeforeCommit: "Clearing all UTXO changes since last block".             *)
BeforeCommit == IF txpool = {} THEN utxos ELSE LoadUTXOMap(WalletBlock, utxos)

(* BeforeCommit, then AddTx for every transaction of block b.              *)
AddBlockTxs(b) == /\ utxos' = [BeforeCommit EXCEPT !.blocks = Append(@, b)]
                  /\ txpool' = {}
                  /\ UNCHANGED <<txdb, utxoFile>>

(* Commit: the file of the new block, then the database.                   *)
CommitFile == SaveUTXOMap(WalletBlock + 1, utxos) /\ UNCHANGED <<txdb, txpool, utxos>>

CommitDb(b) == /\ txdb' = Append(txdb, b) /\ txpool' = {}
               /\ UNCHANGED <<utxos, utxoFile>>

(* m_Database->Commit failed: RollBack(import, block - 1) in the database  *)
(* drops the rows of the pool.                                             *)
CommitDbFails == txpool' = {} /\ UNCHANGED <<txdb, utxos, utxoFile>>

CleanUpAfterBlock(prevBlock) ==
  utxoFile' = [k \in DOMAIN utxoFile \ {prevBlock - Window} |-> utxoFile[k]]

(* RollBack(block): the rows above the block and those of the pool are     *)
(* taken off m_UTXOs, the file of the block is written, then the database. *)
RollsBack(block) == block < WalletBlock

(* Mutant: the rows of the pool stay in.                                   *)
RolledMapKeepsPool(block) ==
  [blocks |-> SubSeq(utxos.blocks, 1, block + 1), txs |-> utxos.txs]

RolledMap(block) ==
  [blocks |-> SubSeq(utxos.blocks, 1, block + 1), txs |-> utxos.txs \ txpool]

RollBackFile(block) == /\ utxos' = RolledMap(block)
                       /\ SaveUTXOMap(block, RolledMap(block))
                       /\ UNCHANGED <<txdb, txpool>>

RollBackDb(block) == /\ txdb' = SubSeq(txdb, 1, block + 1) /\ txpool' = {}
                     /\ UNCHANGED <<utxos, utxoFile>>

(* The process ends, and Initialize.                                       *)
LoseWallet == txpool' = {} /\ utxos' = NoOutputs /\ UNCHANGED <<txdb, utxoFile>>

OpenWallet == /\ utxos' = LoadUTXOMap(WalletBlock, NoOutputs) /\ txpool' = {}
              /\ UNCHANGED <<txdb, utxoFile>>

-----------------------------------------------------------------------------
(* Properties.                                                             *)

(* At any moment, between any two writes, the file a start would read      *)
(* holds the outputs of exactly the blocks in the database: no block more, *)
(* no block of another branch and no unconfirmed transaction.              *)
UtxoFileTrue == /\ WalletBlock \in DOMAIN utxoFile
                /\ utxoFile[WalletBlock] = [blocks |-> txdb, txs |-> {}]

(* m_UTXOs is the database's blocks with the pool on top.                  *)
UtxosTrue == utxos = [blocks |-> txdb, txs |-> txpool]
=============================================================================
