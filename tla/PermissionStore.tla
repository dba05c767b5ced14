--------------------------- MODULE PermissionStore ---------------------------
(***************************************************************************)
(* The permission store of permissions/permission.cpp: mc_Permissions.     *)
(*                                                                         *)
(* A permission lives in three places. permissions.dat, the ledger, is a   *)
(* flat file of rows, one per grant ever committed, each pointing to the   *)
(* previous row of the same key; row 0 says which block and which row it   *)
(* ends at, and rows beyond that one are never erased. permissions.db is a *)
(* LevelDB that maps a key to its last row. Rows of transactions that are  *)
(* in no block yet sit in m_MemPool. A block's Commit writes the ledger    *)
(* row by row, then row 0, then the database in one batch; RollBack writes *)
(* the database first and row 0 afterwards; Initialize compares the two    *)
(* after a crash and tries to repair the ledger.                           *)
(*                                                                         *)
(* Every operation runs under cs_main, so the only interleaving is a crash *)
(* of the process between two writes to disk (mc_PermissionLedger writes   *)
(* through write(), so what it wrote survives the process).                *)
(*                                                                         *)
(* Simplified: a permission is on or off (no block ranges, and a vote that *)
(* has not reached consensus is a row that leaves the value as it was);    *)
(* the admin and the miner count, kept by the same statements, are one     *)
(* count.                                                                  *)
(***************************************************************************)
EXTENDS Integers, Sequences, FiniteSets, FiniteSetsExt

CONSTANTS Grants,       \* addresses that may be granted admin, null entity
          Assets,       \* per-entity permissions an asset's issue creates
          Miners,       \* addresses that sign blocks (MC_PTP_BLOCK_MINER)
          MaxBlock,     \* bound: highest block
          MaxPool,      \* bound: rows of transactions in the memory pool
          MaxRow,       \* bound: rows in the ledger
          MaxOps        \* bound: commits, roll backs and crashes

Heights == 0..MaxBlock

(* Keys of rows: permissions, block signers, and "Block h row"             *)
(* (MC_PTP_BLOCK_INDEX), which is keyed by the height.                     *)
Keys == Grants \cup Assets \cup Miners \cup Heights

(* The type of a permission is part of its key, so that the kinds of keys  *)
(* have none in common.                                                    *)
ASSUME KeysAssumption ==
  /\ {MaxBlock, MaxPool, MaxRow, MaxOps} \subseteq Nat
  /\ IsFiniteSet(Grants)
  /\ Grants \cap (Assets \cup Miners) = {}
  /\ (Grants \cup Assets \cup Miners) \cap Heights = {}

VARIABLES ledger,   \* permissions.dat from row 1 on
          head,     \* row 0 of permissions.dat: m_BlockTo and m_PrevRow
          db,       \* permissions.db: zero row, row and value of each key
          mem,      \* the fields of mc_Permissions
          pc,       \* where the running operation is
          arg,      \* its position: next row to write, or target block
          reply,    \* what AcceptHdacTransaction returned, if it just did
          ops       \* commits, roll backs and crashes so far

vars == <<ledger, head, db, mem, pc, arg, reply, ops>>

Counted == ops < MaxOps /\ ops' = ops + 1

Row == [key : Keys, prev : Nat, this : Nat, val : BOOLEAN,
        block : Int, count : Nat]

(* mc_Permissions::Zero.                                                   *)
ZeroMem == [block |-> -1, row |-> 0, pool |-> <<>>, count |-> 0, cleared |-> 0,
            cpRow |-> 0, cpSize |-> 0, cpCount |-> 0,
            copied |-> <<>>, copiedRow |-> 0, copiedBlock |-> 0,
            copiedCount |-> 0, fork |-> 0]

(* Initialize on an empty data directory.                                  *)
Init == /\ ledger = <<>>
        /\ head = [block |-> -1, row |-> 1]
        /\ db = [block |-> -1, row |-> 1, at |-> [k \in Keys |-> 0],
                 val |-> [k \in Keys |-> FALSE]]
        /\ mem = [ZeroMem EXCEPT !.row = 1]
        /\ pc = "up" /\ arg = 0 /\ reply = "none" /\ ops = 0

-----------------------------------------------------------------------------
(* Reading a permission: mc_Permissions::GetPermission.                    *)

(* Only admin, mine and block-signer rows are looked up as of m_ForkBlock. *)
Forkable == Grants \cup Miners

(* Mutant: one step back instead of a walk.                                *)
ForkRowOnce(r, fork) == IF ledger[r].block > fork /\ ledger[r].prev > 0
                        THEN ledger[r].prev ELSE r

(* The walk along m_PrevRow while a row is younger than the fork.          *)
ForkRow(r, fork) ==
  LET walk[n \in 1..(db.row - 1)] ==
        IF ledger[n].block > fork /\ ledger[n].prev > 0
        THEN walk[ledger[n].prev] ELSE n
  IN walk[r]

DbRead(m, k) ==
  IF m.copiedRow > 0 /\ k \in Forkable /\ db.at[k] > 0
  THEN LET r == ForkRow(db.at[k], m.fork)
       IN IF ledger[r].block > m.fork
          THEN [this |-> 0, val |-> FALSE]
          ELSE [this |-> r, val |-> ledger[r].val]
  ELSE [this |-> db.at[k], val |-> db.val[k]]

(* The rows of m_MemPool with this key and this m_PrevRow.                 *)
Seek(pool, k, prev) ==
  {i \in DOMAIN pool : pool[i].key = k /\ pool[i].prev = prev}

GetPermission(m, k) ==
  LET found == DbRead(m, k)
      walk[i \in DOMAIN m.pool] ==
        LET next == Seek(m.pool, k, m.pool[i].this)
        IN IF next = {} THEN m.pool[i] ELSE walk[Max(next)]
      first == Seek(m.pool, k, found.this)
      last == IF first = {} THEN found ELSE walk[Max(first)]
  IN [this |-> last.this, val |-> last.val]

UpdateCounts(m) ==
  [m EXCEPT !.count = Cardinality({k \in Grants : GetPermission(m, k).val})]

-----------------------------------------------------------------------------
(* Operations on the memory pool, each a function of the fields.           *)

(* Mutant: the count follows the value and not its change.                 *)
DeltaAlways(k, was, v) == IF k \notin Grants THEN 0 ELSE IF v THEN 1 ELSE -1

(* How the count moves when key k goes from was to v.                      *)
Delta(k, was, v) == IF k \notin Grants \/ was = v THEN 0 ELSE IF v THEN 1 ELSE -1

(* SetPermissionInternal: the row points to the row it replaces, and the   *)
(* count moves when the answer for the key does.                           *)
SetPermission(m, k, v) ==
  LET last == GetPermission(m, k)
      row == [key |-> k, prev |-> last.this, this |-> m.row, val |-> v,
              block |-> m.block + 1, count |-> 0]
  IN [m EXCEPT !.pool = Append(@, row), !.row = @ + 1,
               !.count = @ + Delta(k, last.val, v),
               !.cleared = IF m.pool = <<>> /\ m.copiedRow = 0
                           THEN m.count ELSE @]

ClearMemPoolInternal(m) ==
  LET c == IF m.pool = <<>> THEN m
           ELSE UpdateCounts([m EXCEPT !.row = @ - Len(m.pool), !.pool = <<>>])
  IN [c EXCEPT !.cleared = c.count]

CopyMemPool(m) == [m EXCEPT !.copied = m.pool, !.copiedCount = m.count]

RestoreMemPool(m) ==
  LET c == ClearMemPoolInternal(m)
  IN [c EXCEPT !.pool = m.copied, !.row = @ + Len(m.copied),
               !.count = m.copiedCount]

(* Mutant: the size of the pool is not recorded.                           *)
SetCheckPointRow(m) == [m EXCEPT !.cpRow = m.row, !.cpCount = m.count]

SetCheckPoint(m) ==
  [m EXCEPT !.cpRow = m.row, !.cpSize = Len(m.pool), !.cpCount = m.count]

(* Mutant: m_Row keeps the numbers of the rows dropped.                    *)
RollBackToCheckPointPool(m) ==
  [m EXCEPT !.pool = SubSeq(@, 1, m.cpSize), !.count = m.cpCount]

RollBackToCheckPoint(m) ==
  [m EXCEPT !.row = m.cpRow, !.pool = SubSeq(@, 1, m.cpSize),
            !.count = m.cpCount]

(* The count of a block is read from its index row.                        *)
CountAt(m, fork) == ledger[GetPermission(m, fork).this].count

(* The pointers are set back to the fork block; nothing on disk moves. The *)
(* pool, the block, the row and the count are kept aside.                  *)
RollBackBeforeMinerVerification(m, fork) ==
  LET c == [CopyMemPool(m) EXCEPT
              !.count = IF m.pool = <<>> THEN @ ELSE m.cleared,
              !.row = @ - Len(m.pool), !.pool = <<>>]
      s == [c EXCEPT !.copiedBlock = c.block, !.copiedRow = c.row,
                     !.fork = fork]
      kept == {r \in 1..(s.row - 1) : ledger[r].block <= fork}
      b == [s EXCEPT !.row = Max(kept \cup {0}) + 1, !.block = fork]
  IN IF fork = m.block THEN s
     ELSE [b EXCEPT !.count = CountAt(b, fork)]

(* Mutant: the copied rows are not put back.                               *)
RestoreAfterDropsPool(m) ==
  [m EXCEPT !.pool = <<>>, !.block = m.copiedBlock, !.fork = 0,
            !.row = m.copiedRow, !.copiedRow = 0, !.copiedBlock = 0,
            !.count = m.copiedCount]

RestoreAfterMinerVerification(m) ==
  [m EXCEPT !.pool = m.copied, !.block = m.copiedBlock, !.fork = 0,
            !.row = m.copiedRow + Len(m.copied), !.copiedRow = 0,
            !.copiedBlock = 0, !.count = m.copiedCount]

-----------------------------------------------------------------------------
(* Callers of the memory pool.                                             *)

Disk == <<ledger, head, db>>

(* The checkpoint and the copied pool are always written before they are   *)
(* read: what a finished handler leaves in them is forgotten.              *)
Forget(m) == [m EXCEPT !.cpRow = 0, !.cpSize = 0, !.cpCount = 0,
                       !.copied = <<>>, !.copiedCount = 0]

Grant == [key : Grants, val : BOOLEAN]

(* AcceptHdacTransaction: the permission outputs first, then, for an asset *)
(* issue, AcceptAssetGenesisFromPredefinedIssuers, which sets a checkpoint *)
(* of its own. Whatever fails (no admin among the inputs, an asset name    *)
(* already taken), the handler ends with RollBackToCheckPoint.             *)
TxRows(gs, issue) ==
  LET begun == SetCheckPoint(mem)
      granted == IF gs = <<>> THEN begun
                 ELSE SetPermission(begun, gs[1].key, gs[1].val)
  IN IF issue = <<>> THEN granted
     ELSE SetPermission(SetCheckPoint(granted), issue[1], TRUE)

AcceptTx(gs, issue) ==
  /\ pc = "up" /\ Len(mem.pool) + Len(gs) + Len(issue) <= MaxPool
  /\ \A i \in DOMAIN issue : GetPermission(mem, issue[i]).this = 0
  /\ \/ /\ mem' = Forget(TxRows(gs, issue))
        /\ reply' = "accept"
     \/ /\ mem' = Forget(RollBackToCheckPoint(TxRows(gs, issue)))
        /\ reply' = "reject"
  /\ UNCHANGED <<Disk, pc, arg, ops>>

ClearMemPool == /\ pc = "up"
                /\ mem' = ClearMemPoolInternal(mem)
                /\ reply' = "none" /\ UNCHANGED <<Disk, pc, arg, ops>>

(* The signer is looked up in the permissions of the tip alone.            *)
CheckBlockPermissions ==
  /\ pc = "up"
  /\ mem' = Forget(RestoreMemPool(ClearMemPoolInternal(CopyMemPool(mem))))
  /\ reply' = "none" /\ UNCHANGED <<Disk, pc, arg, ops>>

(* VerifyBlockMiner: back to the fork, the branch's grants and blocks one  *)
(* by one (StoreBlockInfo, IncrementBlock), and everything back.           *)
VerifyBegin(fork) ==
  /\ pc = "up"
  /\ mem' = RollBackBeforeMinerVerification(mem, fork)
  /\ pc' = "verify" /\ reply' = "none" /\ UNCHANGED <<Disk, arg, ops>>

VerifyGrant(g) ==
  /\ pc = "verify" /\ Len(mem.pool) < MaxPool
  /\ mem' = SetPermission(mem, g.key, g.val)
  /\ UNCHANGED <<Disk, pc, arg, reply, ops>>

VerifyBlock ==
  /\ pc = "verify" /\ mem.block < MaxBlock
  /\ mem' = UpdateCounts([mem EXCEPT !.block = @ + 1])
  /\ UNCHANGED <<Disk, pc, arg, reply, ops>>

VerifyEnd ==
  /\ pc = "verify"
  /\ mem' = Forget(RestoreAfterMinerVerification(mem))
  /\ pc' = "up" /\ UNCHANGED <<Disk, arg, reply, ops>>

-----------------------------------------------------------------------------
(* Committing a block: CommitInternal, one action per write to disk.       *)

Base(m) == m.row - Len(m.pool)      \* the ledger row of the pool's first row

BlockRow(m, k, prev) ==
  [m EXCEPT !.row = @ + 1,
            !.pool = Append(@, [key |-> k, prev |-> prev, this |-> m.row,
                                val |-> TRUE, block |-> m.block + 1,
                                count |-> 0])]

(* The signer's row and the index row join the block's grants. The index   *)
(* row's m_PrevRow is the row before the block, not a row of its key.      *)
CommitBegin(miner) ==
  /\ pc = "up" /\ mem.block < MaxBlock /\ mem.row + 1 <= MaxRow /\ Counted
  /\ LET signed == BlockRow(mem, miner, GetPermission(mem, miner).this)
     IN mem' = BlockRow(signed, mem.block + 1, Base(signed) - 1)
  /\ pc' = "rows" /\ arg' = 1 /\ reply' = "none" /\ UNCHANGED Disk

(* mc_PermissionLedger::SetRow and WriteRow.                               *)
WriteRow(file, r, row) == IF r <= Len(file) THEN [file EXCEPT ![r] = row]
                          ELSE Append(file, row)

CommitRow ==
  /\ pc = "rows"
  /\ ledger' = WriteRow(ledger, Base(mem) + arg - 1, mem.pool[arg])
  /\ IF arg < Len(mem.pool) THEN arg' = arg + 1 /\ pc' = pc
                            ELSE arg' = 0 /\ pc' = "head"
  /\ UNCHANGED <<head, db, mem, reply, ops>>

(* Mutant: row 0 is left to the next block.                                *)
CommitHeadLater == /\ pc = "head"
                   /\ pc' = "db"
                   /\ UNCHANGED <<Disk, mem, arg, reply, ops>>

CommitHead ==
  /\ pc = "head"
  /\ head' = [block |-> mem.block + 1, row |-> mem.row]
  /\ pc' = "db" /\ UNCHANGED <<ledger, db, mem, arg, reply, ops>>

(* Mutant: a key's first row wins.                                         *)
BatchRowFirst(k) == Min({i \in DOMAIN mem.pool : mem.pool[i].key = k})

(* The batch has the block's rows in order, so a key's last row wins.      *)
BatchRow(k) == Max({i \in DOMAIN mem.pool : mem.pool[i].key = k})

CommitDb ==
  /\ pc = "db"
  /\ LET touched == {mem.pool[i].key : i \in DOMAIN mem.pool}
     IN db' = [block |-> mem.block + 1, row |-> mem.row,
               at |-> [k \in Keys |-> IF k \in touched
                                      THEN mem.pool[BatchRow(k)].this
                                      ELSE db.at[k]],
               val |-> [k \in Keys |-> IF k \in touched
                                       THEN mem.pool[BatchRow(k)].val
                                       ELSE db.val[k]]]
  /\ pc' = "counts" /\ UNCHANGED <<ledger, head, mem, arg, reply, ops>>

(* The batch fails: Commit calls RollBackInternal(m_Block).                *)
CommitDbFails ==
  /\ pc = "db"
  /\ mem' = ClearMemPoolInternal(mem)
  /\ pc' = "rbdb" /\ arg' = mem.block /\ UNCHANGED <<Disk, reply, ops>>

SetCounts(file, r, n) == [file EXCEPT ![r].count = n, ![r - 1].count = n]

(* The counts are known only now, and go into the block's last two rows.   *)
CommitCounts ==
  /\ pc = "counts"
  /\ LET m == UpdateCounts(mem)
     IN /\ ledger' = SetCounts(ledger, m.row - 1, m.count)
        /\ mem' = [m EXCEPT !.pool = <<>>, !.block = @ + 1,
                            !.cleared = m.count]
  /\ pc' = "up" /\ UNCHANGED <<head, db, arg, reply, ops>>

-----------------------------------------------------------------------------
(* Rolling back: RollBackInternal. The database goes first.                *)

RollBackBegin(block) ==
  /\ pc = "up" /\ Counted
  /\ mem' = ClearMemPoolInternal(mem)
  /\ pc' = "rbdb" /\ arg' = block /\ reply' = "none" /\ UNCHANGED Disk

(* The first of the trailing rows with m_BlockReceived above the target.   *)
CutRow(end, block) ==
  Max({0} \cup {r \in 1..end : ledger[r].block <= block}) + 1

(* Mutant: the highest decides.                                            *)
LastWritten(rows) == Max(rows)

(* Walking down a key's dropped rows, the lowest is written last.          *)
LowestRow(rows) == Min(rows)

(* Each key of a dropped row is set to that row's m_PrevRow, or deleted.   *)
RollBackDb ==
  /\ pc = "rbdb"
  /\ LET cut == CutRow(mem.row - 1, arg)
         dropped(k) == {r \in cut..(mem.row - 1) : ledger[r].key = k}
         prev(k) == ledger[LowestRow(dropped(k))].prev
     IN db' = [block |-> arg, row |-> cut,
               at |-> [k \in Keys |-> IF dropped(k) = {} THEN db.at[k]
                                      ELSE prev(k)],
               val |-> [k \in Keys |-> IF dropped(k) = {} THEN db.val[k]
                                       ELSE prev(k) > 0 /\ ledger[prev(k)].val]]
  /\ pc' = "rbhead" /\ UNCHANGED <<ledger, head, mem, arg, reply, ops>>

(* The batch fails: the pointers stay where they are.                      *)
RollBackDbFails ==
  /\ pc = "rbdb"
  /\ pc' = "up" /\ arg' = 0 /\ UNCHANGED <<Disk, mem, reply, ops>>

RollBackHead ==
  /\ pc = "rbhead"
  /\ head' = [block |-> arg, row |-> CutRow(mem.row - 1, arg)]
  /\ LET m == UpdateCounts([mem EXCEPT !.block = arg, !.row = head'.row])
     IN mem' = [m EXCEPT !.cleared = m.count]
  /\ pc' = "up" /\ arg' = 0 /\ UNCHANGED <<ledger, db, reply, ops>>

-----------------------------------------------------------------------------
(* A crash, and Initialize.                                                *)

Down == {"down", "corrupted"}

Crash == /\ pc \notin Down /\ Counted
         /\ mem' = ZeroMem
         /\ pc' = "down" /\ arg' = 0 /\ reply' = "none" /\ UNCHANGED Disk

(* The ledger is ahead: row 0 is set back by a walk from the end of file.  *)
Repair ==
  /\ pc \in Down /\ db.block < head.block
  /\ head' = [block |-> db.block, row |-> CutRow(Len(ledger), db.block)]
  /\ UNCHANGED <<ledger, db, mem, pc, arg, reply, ops>>

(* The comparisons that end in MC_ERR_CORRUPTED, and the last row's key.   *)
Consistent == /\ db.block = head.block
              /\ db.row = head.row
              /\ head.row <= Len(ledger) + 1
              /\ db.row > 1 => ledger[db.row - 1].key = db.block

(* The counts of the last block are rewritten: the crash may have come     *)
(* before CommitCounts.                                                    *)
RecountLastBlock(file, end, n) ==
  IF end > 1 THEN SetCounts(file, end - 1, n) ELSE file

Open ==
  /\ pc \in Down /\ db.block >= head.block
  /\ IF Consistent
     THEN LET m == UpdateCounts([ZeroMem EXCEPT !.block = db.block,
                                                !.row = db.row])
          IN /\ mem' = [m EXCEPT !.cleared = m.count]
             /\ ledger' = RecountLastBlock(ledger, db.row, m.count)
             /\ pc' = "up"
     ELSE pc' = "corrupted" /\ UNCHANGED <<mem, ledger>>
  /\ UNCHANGED <<head, db, arg, reply, ops>>

Next ==
  \/ \E gs \in {<<>>} \cup {<<g>> : g \in Grant},
        issue \in {<<>>} \cup {<<a>> : a \in Assets} :
        gs \o issue # <<>> /\ AcceptTx(gs, issue)
  \/ ClearMemPool \/ CheckBlockPermissions
  \/ \E fork \in 0..mem.block : VerifyBegin(fork)
  \/ \E g \in Grant : VerifyGrant(g)
  \/ VerifyBlock \/ VerifyEnd
  \/ \E miner \in Miners : CommitBegin(miner)
  \/ CommitRow \/ CommitHead \/ CommitDb \/ CommitDbFails \/ CommitCounts
  \/ \E block \in -1..mem.block : RollBackBegin(block)
  \/ RollBackDb \/ RollBackDbFails \/ RollBackHead
  \/ Crash \/ Repair \/ Open

Spec == Init /\ [][Next]_vars

-----------------------------------------------------------------------------
(* Properties.                                                             *)

MemType == [block : -1..MaxBlock, row : Nat, pool : Seq(Row), count : Nat,
            cleared : Nat, cpRow : Nat, cpSize : Nat, cpCount : Nat,
            copied : Seq(Row), copiedRow : Nat, copiedBlock : -1..MaxBlock,
            copiedCount : Nat, fork : Nat]

(* The fields stay within their types; in particular a count never goes    *)
(* below zero, which SetPermissionInternal's decrement would allow.        *)
TypeOK == /\ ledger \in Seq(Row)
          /\ head \in [block : -1..MaxBlock, row : Nat]
          /\ db \in [block : -1..MaxBlock, row : Nat, at : [Keys -> Nat],
                     val : [Keys -> BOOLEAN]]
          /\ mem \in MemType
          /\ pc \in {"up", "verify", "rows", "head", "db", "counts", "rbdb",
                     "rbhead"} \cup Down
          /\ arg \in (-1..MaxBlock) \cup (0..(MaxPool + 2))
          /\ reply \in {"none", "accept", "reject"}
          /\ ops \in 0..MaxOps

(* The permissions block h left, according to the ledger alone: the last   *)
(* row of the key below the database's end mark and not younger than h.    *)
RowAt(k, h) == Max({0} \cup {r \in 1..(db.row - 1) :
                               ledger[r].key = k /\ ledger[r].block <= h})
ValAt(k, h) == RowAt(k, h) > 0 /\ ledger[RowAt(k, h)].val

(* Between any two writes to disk, and so after any crash, the database    *)
(* has for each key the last row the ledger has for it and that row's      *)
(* value: neither a commit that died nor RollBackInternal's walk along     *)
(* m_PrevRow leaves a key at a dropped row. (Index rows of dropped blocks  *)
(* are the exception: their m_PrevRow is a row of another key.)            *)
IndexTrue ==
  \A k \in Keys \ ((db.block + 1)..MaxBlock) :
     /\ db.at[k] = RowAt(k, db.block)
     /\ db.val[k] = ValAt(k, db.block)

(* Each block's index row holds the count as of that block, although rows  *)
(* are written without it and completed after the batch, or by Initialize. *)
(* While VerifyBlockMiner has set the pointers back, the count is the one  *)
(* of the fork block with the branch's grants applied, and an admin or     *)
(* signer key that the branch has not touched reads as it was at the fork, *)
(* however often the active chain changed it since.                        *)
ForkReadTrue ==
  /\ pc \notin {"counts"} \cup Down =>
       \A h \in 0..db.block :
          ledger[db.at[h]].count = Cardinality({k \in Grants : ValAt(k, h)})
  /\ pc = "verify" =>
       /\ mem.count = UpdateCounts(mem).count
       /\ \A k \in Forkable : LET read == DbRead(mem, k)
                              IN /\ read.this = RowAt(k, mem.fork)
                                 /\ read.val = ValAt(k, mem.fork)

(* m_Row and the cached count agree with the database and the pool, so     *)
(* that a new row gets the number it will have in the file; neither a      *)
(* rejected transaction nor a verification on a fork leaves them astray.   *)
PointersTrue ==
  pc = "up" => /\ mem.block = db.block
               /\ mem.row = db.row + Len(mem.pool)
               /\ mem.count = UpdateCounts(mem).count
               /\ \A i \in DOMAIN mem.pool : mem.pool[i].this = Base(mem) + i - 1

(* Whatever the crash interrupted, the database is never ahead of the      *)
(* ledger, the one case Initialize has no repair for.                      *)
DbNeverAhead == db.block <= head.block

(* Initialize brings the store up after every crash: "trying to repair"    *)
(* succeeds.                                                               *)
RepairSucceeds == pc # "corrupted"

(* A transaction that is not accepted leaves the permissions as it found   *)
(* them.                                                                   *)
RejectLeavesNoTrace == [][reply' = "reject" => mem'.pool = mem.pool]_vars

(* What GetPermission answers, or would once a verification is over.       *)
Holders == Grants \cup Assets

Pending ==
  IF pc \in Down THEN [k \in Holders |-> ValAt(k, db.block)]
  ELSE LET m == IF mem.copiedRow > 0 THEN RestoreAfterMinerVerification(mem)
                                     ELSE mem
       IN [k \in Holders |-> GetPermission(m, k).val]

(* A verification on a fork is invisible: what it keeps aside is what the  *)
(* permissions were, and what it restores at the end, whatever the branch  *)
(* granted meanwhile.                                                      *)
VerifyLeavesNoTrace ==
  [][(pc' = "verify" \/ (pc = "verify" /\ pc' = "up")) => Pending' = Pending]_vars

(* The store behaves as PermissionLog, seen through the ledger for the     *)
(* versions and through GetPermission for the pending one. A crash is a    *)
(* stuttering step or the loss of the pending version.                     *)
Log == INSTANCE PermissionLog WITH
         versions <- [i \in 1..(db.block + 1) |->
                        [k \in Holders |-> ValAt(k, i - 1)]],
         pending <- Pending

(* The store implements PermissionLog, crashes and failed batches included. *)
LogSpec == Log!Spec
=============================================================================
