----------------------------- MODULE ChainState -----------------------------
(***************************************************************************)
(* The block tree and the choice of the active chain (core/main.cpp):      *)
(* headers and blocks arrive in any order, ActivateBestChain moves the tip *)
(* towards the best candidate and releases cs_main between its rounds, and *)
(* an operator may invalidate, reconsider, lock, ban or select blocks.     *)
(*                                                                         *)
(* One action is one step of a thread that holds cs_main. While cs is not  *)
(* "free" the lock is held in the middle of a handler and nobody else      *)
(* moves. Blocks are abstract: the constants say which checks each of them *)
(* would fail. A failed assertion, or a block that cannot be read back,    *)
(* ends the process: cs is "aborted" and nothing moves any more. Other     *)
(* errors of the disk are not modelled here.                               *)
(***************************************************************************)
EXTENDS Naturals, FiniteSets

CONSTANTS
  Blocks, Genesis, NoBlock,
  Prev,          \* hashPrevBlock of every block but the genesis block
  Proof,         \* GetBlockProof of every block
  BadContext,    \* ContextualCheckBlock fails
  BadMiner,      \* the signer may not mine (VerifyBlockMiner, CheckBlockPermissions)
  BadTx,         \* ConnectBlock finds the block invalid
  BadCoinbase,   \* ConnectBlock would only refuse the coinbase
  MinedByMe,     \* the signer's key is in the wallet
  CanMineAt,     \* blocks after which the wallet holds the mine permission
  MinerPrecheck, \* supportminerprecheck, and not everybody may mine
  Bannable,      \* blocks with a transaction that may be banned
  Commands       \* operator commands that may be given; a "careful" operator
                 \* names only blocks whose whole chain is stored, and none
                 \* while a ban keeps a block out

ASSUME TreeAssumption ==
  /\ Genesis \in Blocks /\ NoBlock \notin Blocks
  /\ Prev \in [Blocks \ {Genesis} -> Blocks]
  /\ Proof \in [Blocks -> Nat \ {0}]
  /\ Genesis \notin BadContext \cup BadMiner \cup BadTx \cup BadCoinbase
  /\ MinerPrecheck \in BOOLEAN
  /\ Commands \subseteq {"invalidate", "reconsider", "setlast", "lock", "careful"}
  /\ Bannable \subseteq Blocks \ {Genesis}

(* A header is indexed after that of its predecessor, so that no chain of  *)
(* predecessors is endless: every set of blocks has one whose predecessor  *)
(* is not in it.                                                           *)
ASSUME EndsInGenesis ==
  \A S \in SUBSET Blocks : S # {} => \E b \in S : b = Genesis \/ Prev[b] \notin S

(* nHeight, nChainWork and the block with its ancestors.                   *)
Height[b \in Blocks] == IF b = Genesis THEN 0 ELSE 1 + Height[Prev[b]]
Work[b \in Blocks] == IF b = Genesis THEN Proof[b] ELSE Proof[b] + Work[Prev[b]]
Path[b \in Blocks] == IF b = Genesis THEN {b} ELSE {b} \cup Path[Prev[b]]

VARIABLES
  index,        \* mapBlockIndex
  haveData,     \* BLOCK_HAVE_DATA
  linked,       \* nChainTx # 0: the block and all its ancestors have data
  unlinked,     \* values of mapBlocksUnlinked, keyed by their predecessor
  failedValid,  \* BLOCK_FAILED_VALID
  failedChild,  \* BLOCK_FAILED_CHILD
  passed,       \* fPassedMinerPrecheck
  seq,          \* nSequenceId
  nextSeq,      \* nBlockSequenceId
  canMine,      \* blocks with nCanMine > 0
  minedAt,      \* nHeightMinedByMe
  candidates,   \* setBlockIndexCandidates
  tip,          \* chainActive.Tip()
  locked,       \* hLockedBlock
  banned,       \* the block with the transaction of setBannedTxs (bound: one)
  bannedBlocks, \* setBannedTxBlocks
  cs,           \* where the holder of cs_main stands, or "free"
  caller,       \* who runs ActivateBestChainStep: "activate" or "setlast"
  target,       \* pindexMostWork, or pblockindex of SetLastBlock
  oldTip,       \* pindexOldTip
  incoming,     \* the block AcceptBlock is working on
  activating    \* some thread is inside ActivateBestChain

treeVars == <<index, haveData, linked, unlinked, seq, nextSeq>>
statusVars == <<failedValid, failedChild, passed>>
minerVars == <<canMine, minedAt>>
lockVars == <<locked, banned, bannedBlocks>>
runVars == <<caller, target, oldTip, incoming>>
vars == <<treeVars, statusVars, minerVars, candidates, tip, lockVars, cs, runVars, activating>>

Failed == failedValid \cup failedChild          \* BLOCK_FAILED_MASK
ActiveChain == Path[tip]
Highest(S) == CHOOSE b \in S : \A c \in S : Height[c] <= Height[b]
LastCommonAncestor(a, b) == Highest(Path[a] \cap Path[b])
FindFork(b) == LastCommonAncestor(b, tip)
Branch(b) == Path[b] \ ActiveChain              \* the blocks above the fork
pindexLockedBlock == IF locked \in index THEN locked ELSE NoBlock

(* CBlockIndexWorkComparator: a sorts before b. Two candidates never have  *)
(* the same nSequenceId, so the comparison of pointers is left out.        *)
Worse(a, b) ==
  \/ Work[a] < Work[b]
  \/ /\ Work[a] = Work[b]
     /\ \/ a \notin canMine /\ b \in canMine
        \/ a \notin canMine /\ b \notin canMine /\ minedAt[a] > minedAt[b]
        \/ /\ (a \in canMine) = (b \in canMine)
           /\ a \in canMine \/ minedAt[a] = minedAt[b]
           /\ seq[a] > seq[b]

Init ==
  /\ index = {Genesis} /\ haveData = {Genesis} /\ linked = {Genesis}
  /\ unlinked = {} /\ failedValid = {} /\ failedChild = {}
  /\ passed = {Genesis}
  /\ seq = [b \in Blocks |-> IF b = Genesis THEN 1 ELSE 0] /\ nextSeq = 2
  /\ canMine = CanMineAt \cap {Genesis}
  /\ minedAt = [b \in Blocks |-> 0]
  /\ candidates = {Genesis} /\ tip = Genesis
  /\ locked = NoBlock /\ banned = NoBlock /\ bannedBlocks = {}
  /\ cs = "free" /\ caller = "activate" /\ target = Genesis
  /\ oldTip = Genesis /\ incoming = NoBlock /\ activating = FALSE
-----------------------------------------------------------------------------
(* AcceptBlockHeader: what makes it return true, for a block that is known *)
(* and for one that is not (ContextualCheckBlockHeader's branch check).    *)
HeaderOK(b) ==
  IF b \in index
  THEN b \notin Failed /\ Branch(Prev[b]) \cap Failed = {}
  ELSE /\ Prev[b] \in index
       /\ Prev[b] \notin Failed
       /\ Branch(Prev[b]) \cap Failed = {}

(* SetLastBlock(b) once its checks are passed: run ActivateBestChainStep   *)
(* until b is the tip.                                                     *)
StartSetLast(b) == /\ cs' = IF b = tip THEN "return" ELSE "step"
                   /\ caller' = "setlast" /\ target' = b /\ oldTip' = tip

(* The tail of AcceptBlockHeader: the header of the locked block rewinds   *)
(* the active chain to the fork; otherwise the handler goes on at next.    *)
AfterHeader(b, next) ==
  IF b \notin index /\ b = locked
  THEN StartSetLast(FindFork(b))
  ELSE cs' = next /\ UNCHANGED <<caller, target, oldTip>>

(* A header of a "headers" message.                                        *)
AcceptHeader(b) ==
  /\ cs = "free" /\ b \notin index /\ HeaderOK(b)
  /\ index' = index \cup {b}
  /\ incoming' = NoBlock
  /\ AfterHeader(b, "free")
  /\ UNCHANGED <<haveData, linked, unlinked, seq, nextSeq, statusVars, minerVars,
                 candidates, tip, lockVars, activating>>

(* ProcessNewBlock up to the accepted header.                              *)
ReceiveBlock(b) ==
  /\ cs = "free" /\ b \notin haveData \cup {banned} /\ HeaderOK(b)
  /\ index' = index \cup {b}
  /\ incoming' = b
  /\ AfterHeader(b, "store")
  /\ UNCHANGED <<haveData, linked, unlinked, seq, nextSeq, statusVars, minerVars,
                 candidates, tip, lockVars, activating>>

(* ProcessNewBlock of a block that is stored already: AcceptBlock returns   *)
(* true at once and ActivateBestChain runs.                                *)
ReceiveKnownBlock(b) ==
  /\ cs = "free" /\ b \in haveData \ {Genesis, banned} /\ HeaderOK(b)
  /\ activating' = TRUE
  /\ UNCHANGED <<treeVars, statusVars, minerVars, candidates, tip, lockVars, cs, runVars>>

(* ProcessNewBlock of a block with a banned transaction: CheckBlock fails  *)
(* before the header is looked at.                                         *)
ReceiveBannedBlock(b) ==
  /\ cs = "free" /\ b = banned
  /\ bannedBlocks' = bannedBlocks \cup {b}
  /\ UNCHANGED <<treeVars, statusVars, minerVars, candidates, tip, locked, banned, cs,
                 runVars, activating>>

(* VerifyBlockMiner(b) walks the branch from the fork upwards, marks what  *)
(* it could verify and stops at a block without data (no verdict) or with  *)
(* a miner that has no permission (rejected).                              *)
MinerExempt(b) == ~MinerPrecheck \/ b \in ActiveChain
MinerMarks(b, data) ==
  IF MinerExempt(b) THEN {b}
  ELSE IF b \notin data \/ Branch(b) \cap Failed # {} THEN {}
  ELSE {x \in Branch(b) : Branch(x) \subseteq data \ BadMiner}
MinerRejects(b, data) ==
  /\ ~MinerExempt(b) /\ b \in data
  /\ \/ Branch(b) \cap Failed # {}
     \/ \E x \in Branch(b) \cap BadMiner : Branch(x) \subseteq data

(* Mutant: mapBlocksUnlinked is not searched.                              *)
LinkingAlone(b) == {b}

(* The blocks that ReceivedBlockTransactions links when b gets its data.   *)
Linking(b) == {x \in {b} \cup unlinked :
                 b \in Path[x] /\ Path[x] \ Path[b] \subseteq unlinked}

(* ReceivedBlockTransactions: the queue hands out nSequenceId level by     *)
(* level, brothers in the order they wait in mapBlocksUnlinked.            *)
LinkOrders(L) ==
  {f \in [L -> nextSeq .. nextSeq + Cardinality(L) - 1] :
     \A x, y \in L : x # y => /\ f[x] # f[y]
                              /\ Height[x] < Height[y] => f[x] < f[y]}

(* Mutant: nBlockSequenceId is also used up by a block that has to wait.   *)
ReceivedBlockTransactionsCounts(b) ==
  LET new == IF Prev[b] \in linked THEN Linking(b) ELSE {}
  IN /\ haveData' = haveData \cup {b}
     /\ linked' = linked \cup new
     /\ unlinked' = (unlinked \cup {b}) \ new
     /\ candidates' = candidates \cup new
     /\ seq' = [x \in Blocks |-> IF x \in new \cup {b} THEN nextSeq ELSE seq[x]]
     /\ nextSeq' = nextSeq + Cardinality(new \cup {b})

(* ReceivedBlockTransactions of b.                                         *)
ReceivedBlockTransactions(b) ==
  /\ haveData' = haveData \cup {b}
  /\ IF Prev[b] \in linked
     THEN /\ linked' = linked \cup Linking(b)
          /\ unlinked' = unlinked \ Linking(b)
          /\ candidates' = candidates \cup Linking(b)
          /\ \E f \in LinkOrders(Linking(b)) :
               seq' = [x \in Blocks |-> IF x \in Linking(b) THEN f[x] ELSE seq[x]]
          /\ nextSeq' = nextSeq + Cardinality(Linking(b))
     ELSE /\ unlinked' = IF Prev[b] \in Failed THEN unlinked ELSE unlinked \cup {b}
          /\ UNCHANGED <<linked, candidates, seq, nextSeq>>

(* UpdateChainMiningStatus; idle says that some permitted miners are not   *)
(* active, which the permission database decides.                          *)
UpdateChainMiningStatus(b, idle) ==
  /\ canMine' = IF Prev[b] \in canMine /\ ~idle THEN canMine \cup {b} ELSE canMine \ {b}
  /\ minedAt' = [minedAt EXCEPT ![b] = IF b \in MinedByMe THEN Height[b]
                                                          ELSE minedAt[Prev[b]]]

(* AcceptBlock after the header, and the decision of ProcessNewBlock to    *)
(* call ActivateBestChain.                                                 *)
StoreBlock ==
  /\ cs = "store"
  /\ cs' = "free" /\ incoming' = NoBlock
  /\ IF incoming \in BadContext
     THEN /\ failedValid' = failedValid \cup {incoming}
          /\ UNCHANGED <<haveData, linked, unlinked, seq, nextSeq, candidates, passed,
                         minerVars, activating>>
     ELSE /\ ReceivedBlockTransactions(incoming)
          /\ \E idle \in BOOLEAN : UpdateChainMiningStatus(incoming, idle)
          /\ passed' = passed \cup MinerMarks(incoming, haveData')
          /\ IF MinerRejects(incoming, haveData')
             THEN /\ failedValid' = failedValid \cup {incoming}
                  /\ UNCHANGED activating
             ELSE /\ activating' = TRUE
                  /\ UNCHANGED failedValid
  /\ UNCHANGED <<index, failedChild, tip, lockVars, caller, target, oldTip>>
-----------------------------------------------------------------------------
(* The head of a round of ActivateBestChain: refresh the tip's own keys.   *)
StartRound ==
  /\ cs = "free" /\ activating
  /\ cs' = "find"
  /\ canMine' = IF tip \in CanMineAt THEN canMine \cup {tip} ELSE canMine \ {tip}
  /\ minedAt' = IF minedAt[tip] = 0 /\ tip # Genesis
                THEN [minedAt EXCEPT ![tip] = minedAt[Prev[tip]]] ELSE minedAt
  /\ UNCHANGED <<treeVars, statusVars, candidates, tip, lockVars, runVars, activating>>

(* Mutant: the locked block is not consulted.                              *)
RemapNever(c) == c

(* A candidate that does not contain the locked block stands for the last  *)
(* block it has in common with it.                                         *)
Remap(c) ==
  IF pindexLockedBlock = NoBlock \/ pindexLockedBlock \in Path[c] THEN c
  ELSE LastCommonAncestor(c, pindexLockedBlock)

(* Mutant: a candidate with a failed ancestor stays a candidate.           *)
WalkBackKeeps(best, failed) ==
  /\ IF best = tip THEN cs' = "free" /\ activating' = FALSE
     ELSE IF Branch(best) \cap failed # {} THEN UNCHANGED <<cs, activating>>
     ELSE cs' = "step" /\ UNCHANGED activating
  /\ caller' = "activate" /\ target' = best /\ oldTip' = tip
  /\ UNCHANGED <<failedChild, candidates>>

(* Mutant: the failure flags of the walked blocks are not looked at.       *)
WalkBackTrusting(best, failed) ==
  /\ IF best = tip THEN cs' = "free" /\ activating' = FALSE
                   ELSE cs' = "step" /\ UNCHANGED activating
  /\ caller' = "activate" /\ target' = best /\ oldTip' = tip
  /\ UNCHANGED <<failedChild, candidates>>

(* The walk from the chosen candidate down to the active chain, and what   *)
(* ActivateBestChain does with the result.                                 *)
WalkBack(best, failed) ==
  LET bad == Branch(best) \cap failed
      above == Branch(best) \ Path[Highest(bad)]
      walked == IF bad = {} THEN Branch(best) ELSE above \cup {Highest(bad)}
  IN IF best = tip
     THEN /\ cs' = "free" /\ activating' = FALSE
          /\ UNCHANGED <<failedChild, candidates, caller, target, oldTip>>
     ELSE IF ~(walked \subseteq haveData \cap linked)      \* the two assertions
     THEN /\ cs' = "aborted"
          /\ UNCHANGED <<failedChild, candidates, caller, target, oldTip, activating>>
     ELSE IF bad = {}
     THEN /\ cs' = "step" /\ caller' = "activate"
          /\ target' = best /\ oldTip' = tip
          /\ UNCHANGED <<failedChild, candidates, activating>>
     ELSE /\ failedChild' = failedChild \cup above
          /\ candidates' = candidates \ walked
          /\ UNCHANGED <<cs, activating, caller, target, oldTip>>

(* One turn of the loop of FindMostWorkChain: take the best candidate that *)
(* passed the miner precheck; drop it with its branch down to the failed   *)
(* block if it has one, else return it.                                    *)
FindMostWorkChain ==
  LET considered == {Remap(c) : c \in candidates}
      unchecked == considered \ passed
      nowPassed == passed \cup UNION {MinerMarks(c, haveData) : c \in unchecked}
      nowFailed == failedValid \cup {c \in unchecked : MinerRejects(c, haveData)}
      eligible == considered \cap nowPassed
  IN /\ cs = "find"
     /\ passed' = nowPassed
     /\ failedValid' = nowFailed
     /\ \/ /\ eligible = {}
           /\ cs' = "free" /\ activating' = FALSE
           /\ UNCHANGED <<failedChild, candidates, caller, target, oldTip>>
        \/ \E best \in eligible :
             /\ \A c \in eligible : ~Worse(best, c)
             /\ WalkBack(best, nowFailed \cup failedChild \cup bannedBlocks)
     /\ UNCHANGED <<treeVars, minerVars, tip, lockVars, incoming>>

(* ActivateBestChainStep, first loop: DisconnectTip down to the fork.      *)
DisconnectTip ==
  /\ cs = "step" /\ tip \notin Path[target]
  /\ tip' = Prev[tip]
  /\ cs' = IF tip' = target THEN "return" ELSE "step"
  /\ UNCHANGED <<treeVars, statusVars, minerVars, candidates, lockVars, runVars, activating>>

NextToConnect == CHOOSE b \in Path[target] : b # Genesis /\ Prev[b] = tip

(* Mutant: the tip itself is pruned too.                                   *)
PruneBlockIndexCandidatesTip(new) == {c \in candidates : Worse(new, c)}

(* PruneBlockIndexCandidates with new the tip; its assertion is that the   *)
(* result is not empty.                                                    *)
PruneBlockIndexCandidates(new) == {c \in candidates : ~Worse(c, new)}

(* Mutant: a block that failed is marked and connected all the same.       *)
ConnectTipKeepsGoing ==
  /\ cs = "step" /\ tip \in Path[target] /\ tip # target
  /\ tip' = NextToConnect
  /\ failedValid' = failedValid \cup ({tip'} \cap (BadTx \cup BadMiner))
  /\ candidates' = PruneBlockIndexCandidates(tip')
  /\ cs' = "return"
  /\ UNCHANGED <<treeVars, failedChild, passed, minerVars, lockVars, runVars, activating>>

(* Mutant: the tip is not moved to the connected block.                    *)
ConnectTipNoUpdate ==
  /\ cs = "step" /\ tip \in Path[target] /\ tip # target
  /\ cs' = "return"
  /\ UNCHANGED <<treeVars, statusVars, minerVars, candidates, tip, lockVars, runVars,
                 activating>>

(* Mutant: CheckBlock is left to the arrival of a block.                   *)
CheckBlockLater(b) == FALSE

(* CheckBlock in ConnectBlock finds a banned transaction. The state is not *)
(* made invalid, so that this counts as an error of the system.            *)
CheckBlockBans(b) == b = banned

(* The loop over the coinbases, after the other transactions: it returns   *)
(* false and says nothing in the state.                                    *)
CoinbaseRefused(b) == b \in BadCoinbase

(* ActivateBestChainStep, second loop: connect the next block. It stops    *)
(* once the tip has more work than the old one, or at an invalid block. An *)
(* error that leaves the state valid (a banned transaction, or a coinbase  *)
(* that AcceptHdacTransaction refuses) ends ActivateBestChain where the    *)
(* tip then stands; SetLastBlock calls it again.                           *)
ConnectTip ==
  /\ cs = "step" /\ tip \in Path[target] /\ tip # target
  /\ LET new == NextToConnect
     IN IF new \notin haveData                              \* ReadBlockFromDisk
        THEN /\ cs' = "aborted"
             /\ UNCHANGED <<failedValid, candidates, tip, bannedBlocks, activating>>
        ELSE IF CheckBlockBans(new)
        THEN /\ bannedBlocks' = bannedBlocks \cup {new}
             /\ cs' = "free" /\ activating' = (caller = "setlast")
             /\ UNCHANGED <<failedValid, candidates, tip>>
        ELSE IF new \in BadTx \cup BadMiner
        THEN /\ failedValid' = failedValid \cup {new}       \* InvalidBlockFound
             /\ candidates' = candidates \ {new}
             /\ cs' = "return"
             /\ UNCHANGED <<tip, bannedBlocks, activating>>
        ELSE IF CoinbaseRefused(new)
        THEN /\ cs' = "free" /\ activating' = (caller = "setlast")
             /\ UNCHANGED <<failedValid, candidates, tip, bannedBlocks>>
        ELSE /\ tip' = new
             /\ candidates' = PruneBlockIndexCandidates(new)
             /\ cs' = IF candidates' = {} THEN "aborted"
                      ELSE IF Work[new] > Work[oldTip] \/ new = target THEN "return"
                      ELSE "step"
             /\ UNCHANGED <<failedValid, bannedBlocks, activating>>
  /\ UNCHANGED <<treeVars, failedChild, passed, minerVars, locked, banned, runVars>>

(* Mutant: one round is taken to be enough.                                *)
RoundReturnOnce ==
  /\ cs = "return" /\ caller = "activate"
  /\ cs' = "free" /\ activating' = FALSE
  /\ UNCHANGED <<treeVars, statusVars, minerVars, candidates, tip, lockVars, runVars>>

(* The end of a round of ActivateBestChain: it goes on unless it reached   *)
(* its target with the mine permission it expected.                        *)
RoundReturn ==
  /\ cs = "return" /\ caller = "activate"
  /\ cs' = "free"
  /\ IF tip = target
     THEN /\ canMine' = IF tip \in CanMineAt THEN canMine \cup {tip} ELSE canMine \ {tip}
          /\ activating' = (canMine' # canMine)
     ELSE activating' = TRUE /\ UNCHANGED canMine
  /\ UNCHANGED <<treeVars, statusVars, minedAt, candidates, tip, lockVars, runVars>>

(* The loop of SetLastBlock around ActivateBestChainStep.                  *)
SetLastReturn ==
  /\ cs = "return" /\ caller = "setlast"
  /\ IF tip = target
     THEN /\ candidates' = candidates \cup {target}
          /\ cs' = IF incoming # NoBlock THEN "store" ELSE "free"
          /\ UNCHANGED oldTip
     ELSE /\ cs' = "step" /\ oldTip' = tip
          /\ UNCHANGED candidates
  /\ UNCHANGED <<treeVars, statusVars, minerVars, tip, lockVars, caller, target,
                 incoming, activating>>
-----------------------------------------------------------------------------
MayName(b) == "careful" \in Commands => b \in linked /\ bannedBlocks = {}

(* RPC invalidateblock. The loop that should put the competing tips back   *)
(* inserts the invalidated block itself (main.cpp:3785).                   *)
InvalidateBlock(b) ==
  LET removed == IF b \in ActiveChain THEN ActiveChain \ Path[Prev[b]] ELSE {}
      newTip == IF b \in ActiveChain THEN Prev[b] ELSE tip
      failed == Failed \cup {b} \cup removed
      again == {x \in linked \ failed : Worse(newTip, x)}
  IN /\ cs = "free" /\ "invalidate" \in Commands
     /\ b \in index \ {Genesis} /\ MayName(b)
     /\ tip' = newTip
     /\ failedValid' = failedValid \cup {b}
     /\ failedChild' = failedChild \cup removed
     /\ candidates' = (candidates \ ({b} \cup removed))
                        \cup (IF again # {} THEN {b} ELSE {})
     /\ activating' = TRUE
     /\ UNCHANGED <<treeVars, passed, minerVars, lockVars, cs, runVars>>

(* Mutant: the flags are cleared, the candidates forgotten.                *)
ReconsiderBlockForgets(b) ==
  /\ cs = "free" /\ "reconsider" \in Commands
  /\ b \in index /\ MayName(b)
  /\ failedValid' = {x \in failedValid : b \notin Path[x] /\ x \notin Path[b]}
  /\ failedChild' = {x \in failedChild : b \notin Path[x] /\ x \notin Path[b]}
  /\ activating' = TRUE
  /\ UNCHANGED <<treeVars, passed, minerVars, candidates, tip, lockVars, cs, runVars>>

(* RPC reconsiderblock.                                                    *)
ReconsiderBlock(b) ==
  LET below == {x \in index \cap Failed : b \in Path[x]}
  IN /\ cs = "free" /\ "reconsider" \in Commands
     /\ b \in index /\ MayName(b)
     /\ failedValid' = failedValid \ (below \cup Path[b])
     /\ failedChild' = failedChild \ (below \cup Path[b])
     /\ candidates' = candidates \cup {x \in below \cap linked : Worse(tip, x)}
     /\ activating' = TRUE
     /\ UNCHANGED <<treeVars, passed, minerVars, tip, lockVars, cs, runVars>>

(* The checks of SetLastBlock. The loop over the branch tests the flags of *)
(* b itself every time, never those of b's ancestors (main.cpp:3501).      *)
SetLastAccepts(b) == b \in ActiveChain \/ (b \notin Failed /\ b \in haveData)

(* RPC setlastblock.                                                       *)
SetLastBlock(b) ==
  /\ cs = "free" /\ "setlast" \in Commands
  /\ b \in index /\ MayName(b) /\ SetLastAccepts(b)
  /\ StartSetLast(b)
  /\ incoming' = NoBlock
  /\ UNCHANGED <<treeVars, statusVars, minerVars, candidates, tip, lockVars, activating>>

(* SetLockedBlock: the block to switch to when h is on another branch. It  *)
(* is the top of what is stored below h, or a deepest valid descendant.    *)
LockWalk(h) ==
  LET stored == {x \in Path[h] : x \in ActiveChain \/ x \in haveData}
      above == {x \in linked \ Failed : h \in Path[x] /\ Worse(h, x)}
  IN IF h \in haveData /\ above # {}
     THEN {x \in above : \A y \in above : x \in Path[y] => y = x}
     ELSE {Highest(stored)}

(* Runtime parameter lockblock set to h.                                   *)
SetLockedBlock(h) ==
  /\ cs = "free" /\ "lock" \in Commands /\ (h \in index => MayName(h))
  /\ locked' = h
  /\ incoming' = NoBlock
  /\ IF h \in index /\ h \notin ActiveChain
     THEN \E w \in LockWalk(h) : SetLastAccepts(w) /\ StartSetLast(w)
     ELSE UNCHANGED <<cs, caller, target, oldTip>>
  /\ UNCHANGED <<treeVars, statusVars, minerVars, candidates, tip, banned,
                 bannedBlocks, activating>>

(* lockblock removed: SetLastBlock(0) activates the best chain.            *)
RemoveLockedBlock ==
  /\ cs = "free" /\ locked # NoBlock
  /\ locked' = NoBlock
  /\ activating' = TRUE
  /\ UNCHANGED <<treeVars, statusVars, minerVars, candidates, tip, banned, bannedBlocks,
                 cs, runVars>>

(* Runtime parameter bantx: a new list, of the transaction of b or empty.  *)
(* The blocks the old list kept out are candidates again, whether they are *)
(* stored or not; a careful operator waits until they are. Nothing is      *)
(* activated, and BLOCK_FAILED_CHILD stays on the blocks above them.       *)
SetBannedTxs(b) ==
  /\ cs = "free"
  /\ "careful" \in Commands => bannedBlocks \cap index \subseteq linked
  /\ candidates' = candidates \cup (bannedBlocks \cap index)
  /\ banned' = b /\ bannedBlocks' = {}
  /\ UNCHANGED <<treeVars, statusVars, minerVars, tip, locked, cs, runVars, activating>>
-----------------------------------------------------------------------------
(* Steps of a thread that is inside a handler.                             *)
Running == \/ StoreBlock \/ StartRound \/ FindMostWorkChain
           \/ DisconnectTip \/ ConnectTip \/ RoundReturn \/ SetLastReturn

Next == \/ Running
        \/ \E b \in Blocks : \/ AcceptHeader(b) \/ ReceiveBlock(b) \/ ReceiveKnownBlock(b)
                             \/ InvalidateBlock(b) \/ ReconsiderBlock(b)
                             \/ SetLastBlock(b) \/ SetLockedBlock(b)
        \/ RemoveLockedBlock
        \/ \E b \in Bannable : ReceiveBannedBlock(b)
        \/ Bannable # {} /\ \E b \in Bannable \cup {NoBlock} : SetBannedTxs(b)

(* A thread that is inside a handler keeps running; arrivals and commands  *)
(* come when they come.                                                    *)
Spec == Init /\ [][Next]_vars /\ WF_vars(Running)
-----------------------------------------------------------------------------
(* The flags and the sets name indexed blocks only, data precede linking,  *)
(* and nBlockSequenceId counts the blocks linked so far.                   *)
TypeOK ==
  /\ index \subseteq Blocks /\ haveData \subseteq index /\ linked \subseteq index
  /\ unlinked \subseteq haveData
  /\ failedValid \subseteq index /\ failedChild \subseteq index /\ passed \subseteq index
  /\ seq \in [Blocks -> 0 .. Cardinality(Blocks)]
  /\ nextSeq \in 1 .. Cardinality(Blocks) + 1
  /\ canMine \subseteq Blocks /\ minedAt \in [Blocks -> 0 .. Cardinality(Blocks)]
  /\ candidates \subseteq index /\ tip \in index
  /\ {locked, banned} \subseteq Blocks \cup {NoBlock} /\ bannedBlocks \subseteq Blocks
  /\ cs \in {"free", "store", "find", "step", "return", "aborted"}
  /\ caller \in {"activate", "setlast"}
  /\ target \in index /\ oldTip \in index
  /\ incoming \in index \cup {NoBlock}
  /\ activating \in BOOLEAN

Quiet == cs = "free" /\ ~activating

(* CBlockIndex::nChainTx is nonzero "if and only if transactions for this  *)
(* block and all its parents are available": data that arrives before its  *)
(* parent's waits in mapBlocksUnlinked and is never forgotten.             *)
LinkedIffStored == \A b \in Blocks : b \in linked <=> Path[b] \subseteq haveData

(* The active chain is made of stored blocks none of which has failed.     *)
ActiveChainSound == ActiveChain \subseteq linked \ Failed

(* No assertion fails and every block that is to be connected can be read: *)
(* a candidate's path to the active chain has all its data, connecting     *)
(* leaves a candidate, and SetLastBlock never starts on a branch of which  *)
(* only the end is stored.                                                 *)
NeverAborts == cs # "aborted"

Allowed(b) == \/ pindexLockedBlock = NoBlock
              \/ pindexLockedBlock \in Path[b] \/ b \in Path[pindexLockedBlock]
Faultless(b) == Path[b] \cap (Failed \cup BadTx \cup BadMiner \cup BadCoinbase) = {}
(* Activation gave up on c: the first block on its way from the tip has a  *)
(* coinbase that is refused.                                               *)
Barred(c) == /\ Path[c] \cap Failed = {}
             /\ \E x \in Path[c] \cap BadCoinbase : Prev[x] = tip
(* What activation ends with: the tip, or a candidate it gave up on.       *)
Ends == {tip} \cup {c \in candidates : Barred(c)}

(* ActivateBestChain: "Find the best known block, and make it the tip":    *)
(* when nobody is activating, no stored chain of valid blocks that agrees  *)
(* with the lock has more work than the active one, unless a candidate     *)
(* with as much work as that chain is barred by a refused coinbase just    *)
(* above the tip: every activation tries that candidate first.             *)
BestChainActive ==
  Quiet => \A b \in linked :
    Faultless(b) /\ Allowed(b) => \E t \in Ends : Work[b] <= Work[t]

(* reconsiderblock "can be used to undo the effects of invalidateblock":   *)
(* once no block carries a failure flag the best chain is active again, as *)
(* BestChainActive has it, and no assertion fails on the way there and     *)
(* back.                                                                   *)
ReconsiderRestores == NeverAborts /\ (Failed = {} => BestChainActive)

(* -lockblock: "Blocks on branches without this block will be rejected":   *)
(* ActivateBestChain never ends on a tip that is neither on the way to the *)
(* locked block nor past it, wherever setlastblock had put the tip before. *)
LockRespected == [][activating /\ ~activating' => Allowed(tip)']_vars

(* A block marked invalid is not connected: whatever connects a block,     *)
(* that block carries no failure flag.                                     *)
FailedNotConnected == [][\A b \in Path[tip'] \ Path[tip] : b \notin Failed]_vars

(* -bantx: a block with a banned transaction is not connected, whether it  *)
(* arrived before or after the ban, and whatever connects it: activation,  *)
(* setlastblock, or the switch to a locked block.                          *)
BannedNotConnected == [][banned \notin Path[tip'] \ Path[tip]]_vars

(* "The result is either failure or an activated best chain": a thread     *)
(* that holds cs_main in the middle of a handler does not loop in it, and  *)
(* does not end in a failed assertion.                                     *)
HandlersEnd == (cs # "free") ~> (cs = "free")

(* Every activation ends: equal chains do not take turns as the tip, and   *)
(* failed candidates are used up.                                          *)
ActivationEnds == activating ~> Quiet
=============================================================================
