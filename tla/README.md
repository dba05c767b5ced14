# TLA+ models of hdac

hdac is a permissioned blockchain node derived from MultiChain and Bitcoin Core
0.10. This directory models its core: the caches that hold the unspent outputs,
the choice of the active chain, the store that says who may do what, the commit
of a block to all the databases with the recovery after a crash, and what the
node keeps about its peers. TLC checks the models on small instances; TLAPS
proves most of the safety results for every instance.

All paths below are relative to `src/` inside the repository. The daemon `hdacd`
links `protocol/hdac` and `chainparams/hdac`; the `multichain` twins of those
directories belong to another build and are not modelled.

## 1. The system

### Inventory

| Component | State | Operations | Properties that make it correct |
|---|---|---|---|
| Coins view caches (`storage/coins.*`, `storage/txdb.cpp`) | LevelDB `chainstate`, `pcoinsTip`, one view per block, DIRTY/FRESH flags | read, modify, flush, write a batch | the flags tell the truth; layers behave as one store with atomic commits |
| Block tree and active chain (`core/main.cpp`) | `mapBlockIndex`, `setBlockIndexCandidates`, `mapBlocksUnlinked`, `chainActive`, failure flags, lock | accept header, accept block, activate, invalidate, reconsider, set last block, lock | best valid chain active; nothing invalid connected; no assertion fails; activation ends |
| Permission store (`permissions/permission.cpp`) | `permissions.dat`, `permissions.db`, memory pool, checkpoint, copied pool, counts | grant, commit, roll back, verify on a fork, initialize | file and database agree after any crash; reads on a fork see the fork; a reject leaves no trace |
| Connecting blocks (`ConnectBlock`, `DisconnectBlock`) | coins, undo files, address/spent/timestamp indexes | connect, disconnect | disconnect undoes connect, in every store |
| Crash recovery (`LoadBlockIndexDB`) | heights of coins, permissions, entities and wallet | bring all to one height | one height is found that all can reach |
| Block download (`core/main.cpp`) | `mapNodeState`, `mapBlocksInFlight`, counters | request, receive, time out, disconnect | the two views of what is in flight agree; no block is lost for ever |
| Orphan transactions | `mapOrphanTransactions`, `...ByPrev` | add, erase, evict | the maps name the same orphans; the limit holds |
| Wallet transactions (`wallet/wallettxs.cpp`, `wallettxdb.cpp`) | transaction database, unspent outputs in memory and in one file per block | commit, roll back, open | the outputs are those of the active chain with the pool applied |
| Entity database (`entities/asset.cpp`) | ledger, database, memory pool | insert, commit, roll back | as the permission store |
| Memory pool (`chain/txmempool.*`) | transactions and their spends | add, remove, replay | replay rebuilds the permission and entity pools |
| Transaction rules (`protocol/hdac/hdactx.cpp`) | none of its own | accept, reject | all or nothing |
| Mining diversity, ePoW (`chain/epow.cpp`, `pow.cpp`) | functions of the chain | who may mine, at what target | agree with their definition |
| Miner (`miner/miner.cpp`) | threads, block template | build and submit blocks | input of the chain |
| Handshake (`protocol/hdac/handshake.cpp`) | per-peer flags | verack exchange | no traffic before the exchange is complete |
| Check queue (`checkqueue.h`) | queue, counters, condition variables | add, wait | every check is done, the master wakes |
| Address manager, sockets, wallet keys and coin selection, RPC, scripts, keys, parameters, utilities | | | not concurrent state machines of interest here, or pure data |

`PROJECT.json` lists every component with its files and what is left out.

### How the parts interact

A peer's message or the miner hands a block to `ProcessNewBlock`. Under
`cs_main`, `AcceptBlockHeader` indexes the header, `AcceptBlock` stores the data,
`ReceivedBlockTransactions` links it and what waited for it, and
`VerifyBlockMiner` asks the permission store, set back to the fork, whether the
signer may mine. `ActivateBestChain` then runs in rounds. Each round takes
`cs_main`, picks a target with `FindMostWorkChain`, disconnects to the fork and
connects towards the target. `ConnectTip` works on a coins view over `pcoinsTip`
and flushes it when the block is good; the permission and entity stores commit
the block inside `ConnectBlock`; the wallet follows. `FlushStateToDisk` writes
`pcoinsTip` to LevelDB. RPC commands take `cs_main` between rounds.

The message thread comes to each peer in turn. `ProcessMessages` handles what the
peer sent; `SendMessages` judges the peer, asks it for blocks and forgets what
timed out. The socket thread deletes peers that are marked for disconnection,
which calls `FinalizeNode`. A block that connects takes its transactions out of
the memory pool and out of the orphans.

### What is hard

* Blocks, headers and commands interleave with the rounds of an activation.
* Block data arrive before their parents.
* A crash can fall between any two writes: the address index, the permission
  store, the entity store, the block index, the coins and the wallet commit the
  same block one after another, and no transaction spans them.
* After a start the stores are compared by height, never by hash.
* Peers announce, answer, fall silent and go in any order, while lists, maps,
  iterators and counters about them have to stay in step.
* The permission store has to answer for a fork without touching the disk, and
  put every field back.
* One checkpoint and one copied pool serve handlers that nest.

Every hazard, with the line where it bites and the property that covers it, is in
`PROJECT.json` under `hazards`.

## 2. Modules

| Module | Role |
|---|---|
| `CoinStore` | abstract: one store, a working version, atomic commit and persist |
| `CoinsView` | the three cache layers with their flags |
| `CoinsViewProofs` | proofs about `CoinsView` |
| `ChainState` | the block tree and the choice of the active chain |
| `ChainStateTree`, `ChainStateProofs` | facts about the tree of blocks, and proofs about `ChainState` |
| `PermissionLog` | abstract: one version of the permissions per block and a pending one |
| `PermissionStore` | ledger file, database, memory pool, crash and repair |
| `PermissionLedgerProofs` | proofs about `PermissionStore`: index, pointers, counts, refinement of `PermissionLog` |
| `PermissionForkProofs` | proofs about `PermissionStore`: reading at a fork, types |
| `WalletTxs` | the wallet's record of the chain: operations on its database and its files |
| `ChainCommit` | composes the stores: a block through all of them, crash, start up |
| `ChainCommitCore`, `ChainCommitProofs` | proofs about `ChainCommit`: the inductive invariant, and what follows |
| `BlockDownload` | the state of the peers and the blocks in flight |
| `OrphanTxs` | the orphan maps and the part of the memory pool they wait for |
| `NodePeers` | composes the last two |
| `NodePeersProofs` | proofs about `NodePeers`: the blocks in flight, the orphan maps, the work queue |
| `MCCoinsView`, `MCChainState`, `MCPermissionStore`, `MCChainCommit`, `MCNodePeers` | instances for TLC |

### CoinsView

`db`, `tip` and `view` are the LevelDB, `pcoinsTip` and the cache on the stack of
`ConnectTip` or `DisconnectTip`, each a map from txid to an entry with its
flags. The helpers `FetchCoins`, `ModifyCoins`, `Released`, `BatchWrite` and
`BatchWriteCoins` are the methods of the same names on one entry. A
`CCoinsModifier` is alive from `ViewModify` to `ViewRelease`. What a `CCoins`
contains is opaque; only `IsPruned()` is told apart. `Crash` loses `tip` and
`view`. The refinement mapping reads through the layers: `Durable` is the
database, `Committed` the tip over it, `Working` the view over both.

### ChainState

One action is one step of the thread that holds `cs_main`; `cs` says where it stands
and `cs = "free"` is the lock released. A round is `StartRound`, `FindMostWorkChain`
(one action per turn of its loop), then `DisconnectTip` and `ConnectTip` block by
block, then `RoundReturn`. Between rounds other handlers run: `AcceptHeader`,
`ReceiveBlock` with `StoreBlock`, `InvalidateBlock`, `ReconsiderBlock`,
`SetLastBlock`, `SetLockedBlock`, `RemoveLockedBlock`, `SetBannedTxs`. A block is
abstract; constants say which check it would fail. A failed assertion or a block
that cannot be read back sets `cs` to `"aborted"`.

Abstractions: `activating` is one flag for all threads that are inside
`ActivateBestChain`. The activation at the end of `RemoveLockedBlock` runs with
`cs_main` held in the code and may be interrupted in the model, which only adds
behaviours. Candidates are a set that is always in order, while the code changes
keys of the comparator in place; a `std::set` left out of order by that has no
defined behaviour and is not modelled. The outcome of the test for
idle miners in `UpdateChainMiningStatus` is nondeterministic. At most one
transaction is banned at a time. A block that `ConnectBlock` refuses without a word in
the validation state (it has a banned transaction, or `AcceptHdacTransaction` refuses
its coinbase, `BadCoinbase`) ends the activation as a system error would: the tip stays
where it stands, nothing is marked and the block stays a candidate. `SetLastBlock`
answers that error by activating the best chain. Disk errors are left to
`ChainCommit`.

### PermissionStore

`ledger` and `head` are `permissions.dat`, `db` is `permissions.db`, `mem` the
fields of `mc_Permissions`. `pc` says between which two writes the running
operation stands, so a `Crash` falls anywhere. A commit is `CommitBegin`, one
`CommitRow` per row, `CommitHead`, `CommitDb` or `CommitDbFails`,
`CommitCounts`; a roll back is `RollBackBegin`, `RollBackDb` or
`RollBackDbFails`, `RollBackHead`; a start is `Repair` and `Open`. Rows beyond
the head are never erased, as in the code. Memory operations are functions of
`mem`, named after the methods. `AcceptTx` is `AcceptHdacTransaction` with both of
its checkpoints.

Abstractions: a permission is on or off, without block range or pending votes;
the admin and the miner counts, kept by the same statements, are one count;
checkpoint and copied fields are forgotten once dead; only the process crashes,
so what `write()` took survives. `IncrementBlock`'s stored count and the mining
diversity lookups are left out.

### ChainCommit and WalletTxs

The content of a store is the sequence of the blocks committed to it, so a store
that was set to a wrong height or given a wrong block is told apart from a good
one. `pc` is the next write. `ConnectTip` is `CheckTxs`, `WriteIndexes`,
`CommitPerms`, `CommitEntRow`, `CommitEntDb`, `FlushIndex`, `FlushCoins`,
`WalletAddBlock`, `WalletCommitFile`, `WalletCommitDb`, `UpdateTip`;
`DisconnectTip` is `EraseIndex`, the roll backs, the flush and `Resurrect`. A start
is `Start` (or `Refuse`), `Load`, the disconnects it asks for, `Reactivate` and
`FinalRollBack`, and may crash like anything else. Failing writes (`Fault`) follow
the error paths of the code. `CheckTxs` has the two ways to refuse a block for its
transactions: a bad one makes the block invalid (`BadTx`), a refused coinbase is an error
that marks nothing and ends the activation without the replay (`BadCoinbase`); both leave
rows of the block in the permission pool. The permission store is used as `PermissionLog`
promises it; the target of an activation is any known valid block, since the
choice is `ChainState`'s subject. `WalletTxs` has the operations of
`mc_WalletTxs`: a set of outputs is the blocks and the unconfirmed transactions
that were applied to get it.

Left out: a roll back that fails, `-reindex`, `-rescan`, `VerifyDB`, the content
of blocks and outputs.

### BlockDownload, OrphanTxs and NodePeers

`peers` has `mapNodeState`, `mapBlocksInFlight` and `nQueuedValidatedHeaders`;
helpers named after the functions take it and return the new one. Every handler
holds `cs_main`, so a handler is one action: `ReceiveInv`, `ReceiveHeaders`,
`Block`, `Tx`, `SendMessages`, `Finalize`, and `Pause` and `Resume` for the pause
command. Timers have no values: a time-out may expire whenever its condition
holds. A peer in `Answering` answers every `getdata`; the others may do anything.
`Greedy` blocks are refused by `VerifyBlockWindow` until they are old. `BadSigned` blocks
are dropped by `ProcessNewBlock` before it calls `MarkBlockAsReceived`, so they stay in
flight. With a full send buffer `ReceiveInv` marks a block and asks for nothing.
`requested` is what peers have been asked and have not answered. Orphans are told apart by
their parents and by whether they would be refused. `ProcessOrphans` is the loop
over `vWorkQueue`.

The ban in `CheckPeer` falls on whitelisted peers only, as in the code (section 6).

Left out: the request for headers (they come unasked), preferred peers, the locked
block and banned blocks in `FindNextBlocksToDownload`, the two minutes between two
requests of `AskFor`, the handshake, and the checks of a block besides those above.

## 3. Runs

| Run | Instance | Distinct states | What it shows |
|---|---|---|---|
| `coins_view` | 2 transactions, 2 contents, 2 blocks, symmetric | 10 474 | types, both flag invariants, the assertion of `BatchWrite`, refinement of `CoinStore` |
| `chain_sync` | 7 blocks in four branches, a bad miner, a bad block below the heaviest branch, a refused coinbase, own blocks, precheck on | 406 481 | linking, soundness of the chain, no abort, best chain active unless a refused coinbase bars the way, every activation ends |
| `chain_reconsider` | 6 blocks, two branches and a spur that never gets its data, a refused coinbase on the heavier branch, invalidate and reconsider | 364 467 | nothing marked is connected, reconsider restores the best chain |
| `chain_lock` | 5 blocks, two branches, lock, setlast and a ban of the last block of one branch | 193 620 | activation ends on a tip that agrees with the lock; nothing banned is connected; no handler loops |
| `permission_store` | 1 grantable address, 1 signer, blocks 0 and 1, 2 pool rows, 7 ledger rows, 5 commits, roll backs or crashes | 561 797 | all permission properties and refinement of `PermissionLog` |
| `chain_commit` | 6 blocks in two branches (one ends with a bad transaction, one with a refused coinbase), 1 transaction, 2 crashes or failing writes | 1 029 405 | the stores agree whenever the lock is free and after every start; the permission pool follows the memory pool but for the rows of refused blocks; every start ends |
| `node_peers` | 2 peers, one of which may not answer, 5 blocks, one of them invalid and one with the wrong signer, 4 transactions in three generations, download window 1, 2 blocks in transit per peer, 2 orphans | 534 971 | what is known about blocks in flight and orphans agrees, what was marked stays asked for, and blocks arrive |
| `chain_invalidate`, `chain_setlast_invalid`, `chain_lock_hang`, `permission_repair`, `permission_reject` | small instances | | the findings of section 6 |

Why the bounds are enough. In `coins_view` one transaction can be fresh while the
other is on disk, and an output is created, overwritten, spent and created again
across two blocks; entries of different transactions do not interact. The tree of
`chain_sync` has branches of equal work with a common block, a heaviest branch
resting on an invalid block, a forbidden miner and a refused coinbase in one of two
equal branches, which are the cases the selection tells apart. In `chain_reconsider`
the coinbase is refused at the end of the heavier branch, so that reorganisations to
it stop one block short. In `permission_store` two blocks give a fork below the tip,
seven rows a key that changed twice since the fork, and five operations a commit, a
roll back, a commit, a crash and another commit. In `chain_commit` two faults give a
crash in a connect, in a disconnect or in a reorganisation followed by a crash in
the start that repairs it, or a failed wallet write followed by a crash; `Window =
1` makes the files of old blocks go. Both ways to refuse a block for its
transactions lie above blocks that connect first; the miner is refused only where a
wallet error has left the permission store at another block (`BadMiner` is empty:
such a refusal is like a bad transaction's, and leaves no rows). In `node_peers` the
window of one block lets a peer hold up the other, two blocks in transit fill a
peer's room, and three plans share the states (`Plans`: connections, unasked
messages, pauses and transactions): one with a pause, one with reconnections, one
with four transactions, enough for an orphan with an orphan and an eviction.

In the lock runs `BestChainActive` is not checked: `SetLockedBlock` and
`SetLastBlock` move the tip on purpose and do not activate afterwards. In the runs
with commands the operator is "careful": it names only blocks whose whole chain is
stored, and none while a ban keeps a block out. What happens otherwise is in
section 6.

Fairness. `ChainState!Spec` has `WF_vars(Running)`: a thread that is inside a
handler keeps running. The operating system schedules threads and `cs_main` is
released at the end of every step that leaves `cs = "free"`. Arrivals and commands
are not fair. `ChainCommit!Spec` has the same condition; a crash may come at any
step. `NodePeers!Fairness` says that time passes (a block becomes old), that the
socket thread takes away peers that are to be disconnected, that the message
thread comes to every peer until it has nothing to send, that the oldest block in
flight of a peer arrives or times out, and that a peer in `Answering` answers.
These are weak fairness of steps that are disabled once taken, and are written as
`[]<>` of the negated enabling condition, which TLC evaluates much faster. Nobody
has to end a pause. `CoinsView` and `PermissionStore` state safety only.

Every property of a passing run has a mutant in `PROJECT.json`: a changed
definition, kept beside the original and marked as a mutant, under which TLC
finds the property violated.

## 4. Properties

* `TipFlagsTrue`, `ViewFlagsTrue`: a FRESH entry is absent below, and an entry that
  is not DIRTY equals what is below.
* `BatchWriteAssert`: the assertion of `CCoinsViewCache::BatchWrite`.
* `StoreSpec`: reading, flushing and crashing lose and resurrect nothing.
* `LinkedIffStored`: `nChainTx` is set exactly when the block and all its
  ancestors are stored, whatever the order of arrival.
* `ActiveChainSound`, `FailedNotConnected`: no failed block is, or becomes, part of
  the active chain.
* `NeverAborts`: no assertion fails and every block to connect can be read (part of
  `ReconsiderRestores` and of `HandlersEnd` in the runs with commands and locks).
* `BestChainActive`: when no activation runs, no stored valid chain that agrees
  with the lock has more work than the tip, unless a candidate with as much work is
  barred by a refused coinbase just above the tip: activation tries that candidate
  first, each time, and stops there.
* `ReconsiderRestores`: with all flags taken back the best chain is active, in the sense
  of `BestChainActive`.
* `LockRespected`: an activation ends only on a tip that agrees with the lock.
* `HandlersEnd`, `ActivationEnds`: no handler loops or aborts, activations end.
* `IndexTrue`: between any two writes the database names, for every key, the last
  valid row of the ledger and its value.
* `ForkReadTrue`: each block's index row holds the count as of that block, and
  during a verification the reads and the count are those of the fork with the
  branch applied.
* `PointersTrue`: `m_Row` and the counts agree with the database and the pool.
* `DbNeverAhead`: the database is never ahead of the ledger.
* `RejectLeavesNoTrace`, `VerifyLeavesNoTrace`: a rejected transaction and a
  verification leave the pool as it was.
* `LogSpec`: the store implements `PermissionLog`, crashes and failed batches
  included.
* `BannedNotConnected`: no block with a banned transaction is connected, whoever
  connects.
* `StoresAgree`: whenever the lock is free all stores hold the active chain.
* `CrashRecoverable`: at any moment any two stores hold a chain and a part of it,
  which is why comparing heights is enough, and every block in the coin database
  can be disconnected after a crash now.
* `StopsExplained`: the only ways to an assertion and to a refused start.
* `AddressIndexExact`: the address index is that of the active chain but for blocks
  caught between the index and the coins.
* `PermPoolReplayed`: whenever the lock is free the permission pool holds rows of the
  memory pool and, beside those, only rows of blocks that were refused for a transaction
  or for their coinbase; after a step that replayed it, exactly those of the memory pool.
* `WalletFollows`: the wallet's outputs and its files follow the tip.
* `StartEnds`: `LoadBlockIndexDB` terminates.
* `InFlightAgree`: `mapBlocksInFlight` and the lists of the peers name the same
  blocks, none of them stored, so no iterator dangles.
* `CountsCover`: the counts never fall short of the lists, so the limit of blocks in
  transit holds and `nQueuedValidatedHeaders` cannot become negative. It says nothing of
  counts that are too high, nor of how long a time-out is.
* `AskedInFlight`: a block that `SendMessages` marked has been asked of its peer and not
  answered, or waits on `mapAskFor`, unless its signer is wrong. Blocks that an "inv"
  marked are left out: with a full send buffer the code never asks for them.
* `OrphanMapsAgree`, `OrphansLimited`, `OrphansResolved`: the orphan maps through any
  messages, evictions, blocks and disconnections.
* `BlocksArrive`: a block on the best chain of a peer that answers is downloaded,
  though silent peers had it in flight, though its miner was too early, and though
  blocks with a wrong signer take up room until they time out.

## 5. Proofs

TLAPS checks every theorem of the project for all values of the constants that
satisfy the named assumptions. Each inductive invariant was checked with TLC before
it was proved.

### Coins

`CoinsViewProofs` holds for every set of transactions, contents and blocks, from
the assumption `DistinctValues` alone (the marker values differ from the data).

* `TypeCorrect`, `TipFlagsTrueHolds`, `ViewFlagsTrueHolds`, `BatchWriteAssertHolds`:
  from the inductive invariant `IInv`. The flag invariants are not inductive by
  themselves. `ViewEntriesBacked` says that a view entry that is not FRESH came
  through the tip and is still there, without which flushing a view could make a
  tip entry FRESH over existing coins; `ClosedViewEmpty` says nothing is left
  between two views; `ModifierHeld` says that the entry a modifier points at is
  cached and DIRTY.
* `Implements`: `Spec => StoreSpec`. Every step maps to a step of `CoinStore` or
  leaves its variables alone; reads are the stuttering steps, by lemma
  `TipReadInvisible`.

### The block tree

`ChainStateTree` and `ChainStateProofs` hold for every tree of blocks, infinite ones
included, from `TreeAssumption` and `EndsInGenesis` (following `pprev` ends in the
genesis block, stated as: every set of blocks has one whose predecessor is outside
it). What `Height`, `Work`, `Path` and the loops along a path compute is shown with a
least counterexample: the set of blocks for which the claim fails has a first one.

Some properties are false for some commands; their theorems name the commands they
leave out, and section 6 has the runs that show why.

| Theorem | Holds for |
|---|---|
| `LinkedIffStoredHolds`, `BannedNotConnectedHolds` | every choice of commands |
| `ActivationConnectsNoFailed`: an activation never connects a failed block | every choice of commands |
| `TypeOKHolds` | every choice of commands, finitely many blocks (the bounds are cardinalities) |
| `LockRespectedHolds` | no `setlastblock`, which moves the tip without asking the lock |
| `ActiveChainSoundHolds`, `FailedNotConnectedHolds` | neither `setlastblock` nor `lockblock` (`Unaided`; findings 2 and 3) |
| `NeverAbortsHolds` | `Unaided`, and the operator is careful or neither invalidates nor bans (`Considerate`) |
| `BestChainActiveHolds` (with its exception for refused coinbases) | `Unaided`, no `invalidateblock` (finding 1), no bans, and a wallet that does not mine (mining keys, section 6): `Bystander`; `reconsiderblock` is allowed |
| `ReconsiderRestoresHolds` | `Unaided`, a careful operator (without care an assertion can fail), no bans (a ban keeps a block out with no failure flag) and a wallet that does not mine: `Undoing`; finitely many blocks |

The inductive invariant grows by layers. `Types` and `Links` say that the index is
closed under predecessor and that the linked blocks are too, that a stored block on
a linked one is linked, and that `mapBlocksUnlinked` is the rest; they need that the
block being handled has no failed and unlinked parent. `WayClear` says that during
an activation the blocks between tip and target are not failed, which is what
`FindMostWorkChain` has looked at. `Ready` says that candidates are linked and that
one lies on or above the target, so that pruning cannot empty the set. `LockKept`
follows the lock through a round. For the best chain, `Caused` says that stored
blocks are marked only for a fault of theirs or of an ancestor, and `BestKept` that
every valid linked block has a valid candidate that is not worse, that the target is
as good as any of those, and that an activation ends only when the tip is, or when
the target is barred by a refused coinbase just above the tip. Nothing is marked
then, so the target stays a candidate as good as any other; that is what `Ends` in
the property refers to.

`invalidateblock` breaks `BestKept`: it takes valid blocks out of the candidates and
marks their descendants only once `FindMostWorkChain` meets them. What survives is
`Covered`: every linked block has a candidate that is not worse, or a linked block
that carries a failure flag and is not worse; `CleanBest` is the second half of
`BestKept` for candidates with no failed block on their path. Without failure flags the
two give the best chain. `reconsiderblock` is the step that could lose `Covered`: it
clears the flags of the named block's ancestors and of what is above it, and makes
candidates only of the latter, and only of those better than the tip.
`ReconsiderCovers` shows that this is enough: an ancestor has less work than the
named block, whose own cover remains, and a failed block that is not better than the
tip is worse, because no two linked blocks have the same `nSequenceId` (`SeqDistinct`)
and the tip has not failed.

### The commit of a block

`ChainCommitCore` and `ChainCommitProofs` hold for every tree of blocks and every
number of crashes and failed writes, from `ChainAssumption`.

* `CoreInvariant`: every store always holds the chain of a block, and `Place` says
  for every `pc` of which one: `Adding(n)` is a connect with n writes behind it,
  `Taking` and `Dropping` a disconnect, `WalletLate` what a wallet error leaves,
  `Lagging` what a start finds, `Spanning` what a crash leaves. `IndexOK` says that
  the index on disk knows the blocks of the coins and has their undo data.
* `StoresAgreeHolds`, `CrashRecoverableHolds`, `StopsExplainedHolds`: from it.
* `AddressIndexExactHolds` adds `AddrOK`, `WalletFollowsHolds` adds `WalletOK`,
  `PermPoolReplayedHolds` adds `PoolsOK` and `RowsOK`, `TypeOKHolds` adds
  `WalletTypes`: what each of those holds between two writes. `PoolsOK` follows the
  memory pool into the permission pool and the wallet's wherever the replay is
  reached; `RowsOK` bounds what a step that ends without a replay leaves. `WalletOK`
  needs `Core`, since the wallet's files are found by height and are right only
  because heights determine blocks there.

### Permissions

`PermissionLedgerProofs` and `PermissionForkProofs` hold for every set of addresses,
signers and assets and every bound, from `KeysAssumption`: the bounds are natural
numbers, the grantable keys are finite, and the kinds of keys (the type is part of a
row's key) have none in common. `IndexTrue` and `PointersTrue` are far from
inductive; `StoreInv` is, and has four parts.

* `LedgerOK`: the rows below the database's end mark are those of the blocks in
  order (`Filed`), a row's `prev` is the row before it with its key, and the database
  has each key's last row and its value. Rows beyond the end mark may be anything:
  a commit that died leaves them.
* `PointersOK`: the rows in memory continue the ledger at the end mark (`Pooled`),
  so that when the batch names them they are in the file (`Written`); while the batch
  is written and not yet recorded in memory, no row in memory points at the
  database's row for its key, so that a reader finds none twice.
* `CountsOK`: the count in memory, and the one kept aside during a verification, is
  the number of keys granted.
* `StepsOK`: the values of `pc`, and that a transaction is rejected only when no
  other operation runs.

`GetIs` says what `GetPermission` answers although its walk is recursive: the last
row in memory with the key, or the database's. It is proved for every pool by a least
counterexample, on a set of row numbers.

* `IndexTrueHolds`: from `LedgerOK`. `CommitLedger` and `RollBackLedger` show that the
  two batches keep it.
* `DatabaseNeverAhead`: from `LedgerOK`, `PointersOK` and `HeadOK` (row 0 of the ledger
  is one block ahead when the batch is about to be written).
* `PointersTrueHolds`: from `PointersOK` and `CountsOK`; `HeldAppend` shows that the
  count moves with the set of keys granted.
* `VerifyLeavesNoTraceHolds`: what a reader will see once a verification is over is
  the pool kept aside (`PendingIs`).
* `RejectLeavesNoTraceHolds`: for transactions that issue no asset
  (`Assets = {}`); with assets the property is false, see `permission_reject`.
* `Implements`: the store implements `PermissionLog`. `CommitDb` is its `Commit`,
  `RollBackDb` its `RollBack`, and every other step leaves all versions alone
  (`VersionsKept`).

`PermissionForkProofs` adds two parts to the invariant.

* `HistoryOK`: every block's index row is the last row of its block (`IndexRowsOK`) and
  holds the number of keys granted then (`CountedTo`); the last block's may be missing
  from the batch to the end of the commit, and after a crash until the next start.
* `VerifyOK`: during a verification the rows that the branch added are chained to the
  rows the fork block left (`ForkOK`), and the count is that of the fork's keys with
  the branch's grants applied.

`ForkRowIs` says what the walk to a fork answers: the last row of the key that is not
younger than the fork or, if all are, one that is younger. Like `GetIs` it is proved by
a least counterexample.

* `ForkReadTrueHolds`: from `HistoryOK` and `VerifyOK`. `ForkBegins`, `ForkGrant` and
  `ForkBlock` follow a verification; `IndexRowsCommit` and `IndexRowsRollBack` show that
  a commit and a roll back leave the blocks below with their rows.
* `TypeOKHolds`: each operation on memory keeps its type (`SetPermissionTyped` and the
  other lemmas of that name) provided that its count is not below zero, which holds
  because the count is the size of a set, on the tip by `CountsOK` and at a fork by
  `VerifyOK`. `SizesOK` bounds the rows in memory and with them the position of a commit.

### Peers

`NodePeersProofs` proves every safety property of `NodePeers`, for every set of
peers, tree of blocks, set of transactions and limit, from `DownloadAssumption`,
`OrphanAssumption` and `TxsOfAssumption`.

The loops of the code (over the blocks to download, over the blocks to mark, over
`vWorkQueue` and over the orphans of one of its elements) are recursive functions on
`0..n`. Two lemmas stand for induction along them: `StepsExist`, that the function a
loop defines exists when each turn leads from states to states, and `UpTo`, that what
holds at 0 and is passed on by each turn holds at n. Both speak of sets, so that no
operator has to be instantiated, and rest on `LeastIs` (a set of natural numbers has a
least element), which is the library's well-foundedness of `<`.

* `InFlightAlwaysAgrees`, `CountsAlwaysCover`, `InFlightAlwaysAsked`: from the
  inductive invariant `DownloadInv`. `PeersInv` says of a state of the peers that
  the lists name each block once and agree with `mapBlocksInFlight` (`PeersOK`),
  that no count is short of its list or, for a peer, above the limit (`Counted`),
  that what `SendMessages` marked was asked for or has the wrong signer (`Asked`)
  and that nothing in flight is stored (`StoredFree`). `CountsCover` is not
  inductive without `InFlightAgree`: `MarkBlockAsReceived` takes one off the counts,
  which is right only if its iterator points at an element that is there once and is
  counted. The limit needs what `FindNextBlocksToDownload` returns: no more blocks
  than there is room for, none of them stored (`FoundIs`).
* `OrphanMapsAlwaysAgree`, `OrphansAlwaysLimited`: from the inductive invariant
  `OrphanInv`. The maps agree after `AddOrphanTx`, `EraseOrphanTx` of any set and
  `LimitOrphanTxSize`, so nothing has to be known about the set that the loop over
  `vWorkQueue` erases. `OrphansLimited` alone is not inductive: that an erased set
  is not larger needs that the orphans are finite, which the invariant carries.
* `OrphansAlwaysResolved`: from a loop invariant (`WorkedOn`). An orphan that has all
  its parents, one of them accepted by the loop, is erased, given up with its sender,
  or has a parent further on in the queue. The queue holds no transaction twice, so it
  fits the bound of the loop (`QueueFits`) and at the end nothing is further on.
* `TypesAlwaysOK`: adds `TxInv`, that no orphan and nothing in the memory pool is in the
  active chain, and that every orphan's sender is connected.

### Only model-checked

Liveness (`HandlersEnd`, `ActivationEnds`, `StartEnds`, `BlocksArrive`) is out of
TLAPS's reach. Every invariant and every other action property that a run expects to
hold is proved.

## 6. What the models found

1. `chain_invalidate`: after `invalidateblock` a stored valid chain with more work
   can stay inactive. The loop that should put the competing tips back inserts the
   invalidated block itself (`core/main.cpp:3785`).
2. `chain_setlast_invalid`: `setlastblock` on a descendant connects a block that was
   marked invalid: the loop over the ancestors tests the given block each time
   (`core/main.cpp:3500`).
3. `chain_lock_hang`: with a locked block, a failed common ancestor is erased while
   the candidate that stands for it stays, and `FindMostWorkChain` spins under
   `cs_main` (`core/main.cpp:3077`).
4. `permission_repair`: a crash during the commit that follows a roll back can leave
   a store that `Initialize` refuses from then on: the repair walk stops at a row of
   a block rolled back earlier (`permissions/permission.cpp:444`).
5. `permission_reject`: a rejected transaction with a grant and an asset issue leaves
   its grant in the pool, because the asset branch sets the only checkpoint again
   (`protocol/hdac/hdactx.cpp:650`).

Seen with TLC or while modelling, and not kept as runs:

* Coinbase: a reorganisation that meets a block whose coinbase `AcceptHdacTransaction`
  refuses ends with the tip at the fork, below the chain it left. `ConnectBlock` returns
  false and leaves the validation state valid (`core/main.cpp:2583`), so the step ends as
  after a system error (3256-3258), nothing is marked failed and every later activation
  tries the same block first; the comment at 3149 expects a return to the old tip. This
  is the exception in `BestChainActive`. The block's rows stay in the permission pool.
* Mining keys: on a node that may mine, `ActivateBestChain` rewrites the key of the
  tip between rounds (`core/main.cpp:3352`), and `PruneBlockIndexCandidates` compares
  with the tip of the moment. In the middle of a reorganisation that passes a block of
  equal work the old tip can be erased (3154), though the comment there says it may be
  needed; when the next block then fails, the node is left with less work than it had.
  TLC shows it with `CanMineAt = {g, x1}`, `BadTx = {x2, z1}` on three branches `x1 x2`,
  `y1`, `z1` of the genesis block; the candidates stay in order throughout.
* With an operator who is not "careful": `invalidateblock` of a block known by its
  header alone reaches the assertion at `core/main.cpp:3126` when the precheck is
  off; `setlastblock` after `invalidateblock`, or to a side branch while a ban keeps
  the best candidate out, can empty the candidates (assertion at 3158);
  `setlastblock` towards a block that does not connect repeats its loop at 3526 for
  ever; `setlastblock` on a stored block with a header-only ancestor fails to read
  it (3498-3510).
* A lock: after `setlastblock` away from the locked block, `invalidateblock` of the
  tip empties the candidates, and the activation ends with a tip off the lock, which
  is why `LockRespectedHolds` excepts `setlastblock`.
* Bans: a reorganisation that meets a banned block stops at once and leaves the tip
  there, on less work than before, until something activates again. Lifting the ban
  of a block that was refused on arrival, with its header known, puts a block
  without data among the candidates (assertion at 3126). Blocks above it keep
  `BLOCK_FAILED_CHILD`.
* Commits: a wallet error in `ConnectTip` leaves the coins one block ahead of
  `chainActive`, and the next activation fails an assertion. A crash between row 0
  of the entity ledger and the entity database, at a block with entities, leaves a
  node that does not start. The address index is repaired by nothing. A disk error
  inside `ConnectBlock` can mark a good block invalid.
* Peers: the else at `core/main.cpp:6849` binds to the inner `if`, so that with
  `fDebug <= 3` misbehaving peers are disconnected and banned if they are
  whitelisted, and no others. The end of a pause clears the list of blocks in flight
  and not `nBlocksInFlight`: the room is lost for good, which is why `BlocksArrive`
  excepts `Leaked` peers. A disconnection and the end of a pause leave the peer's
  blocks in `nQueuedValidatedHeaders` (`core/main.cpp:530`, 6972), which only drifts
  upwards, though the comment at 210 calls it the number of blocks in flight with
  validated headers. A block in flight is timed out after two and a half block
  intervals whatever the count of blocks queued before it (`core/main.cpp:6998`);
  the count is read only when a "block" message waits (7016), while the comment at
  6993 promises an allowance for every one. Time has no values in the model, so no
  property speaks of it. A block whose signer is wrong is dropped before it is off
  the list (4550): nobody is asked for it until its peer is timed out. With a full
  send buffer the "inv" handler returns between marking blocks as in flight and
  sending the getdata (5884): they were never requested, though the comment at 5870
  says that the getdata goes out later. A block that comes too early for its miner's
  window is asked for again at once, until it is old. An orphan whose parent comes
  in a block stays an orphan.

## 7. Not modelled, and the plan

Not modelled for good: sockets, RPC formatting, scripts, keys and hashes, wallet
coin selection, chain parameters, and the vendored libraries. They are pure data or
I/O. LevelDB is taken as an atomic durable batch.

Modelled only by their effect: the miner (blocks and permissions that change), ePoW
(`Greedy` blocks that are refused until they are old), transaction rules (accepted
or refused), the content of the coins (`CoinsView`) and of the entities.

Left for later: the check queue, the handshake, the request for headers, and the
functions of mining diversity and ePoW against reference definitions.
