-------------------------- MODULE ChainStateProofs --------------------------
(***************************************************************************)
(* Theorems about ChainState, for every tree of blocks and every set of    *)
(* bad, bannable and own blocks. What a theorem needs to know about the    *)
(* commands the operator gives is an assumption of that theorem.           *)
(***************************************************************************)
EXTENDS ChainStateTree, FiniteSetTheorems

(* A block that AcceptBlock goes on with: from its header on, or, when the *)
(* header was that of the locked block, once the chain is rewound.         *)
Handling == \/ cs = "store"
            \/ cs \in {"step", "return"} /\ caller = "setlast" /\ incoming # NoBlock

(* What every variable holds, but for the counters.                        *)
Types ==
  /\ index \subseteq Blocks /\ Genesis \in index
  /\ \A b \in index \ {Genesis} : Prev[b] \in index
  /\ haveData \subseteq index
  /\ failedValid \subseteq index /\ failedChild \subseteq index /\ passed \subseteq index
  /\ canMine \subseteq Blocks
  /\ candidates \subseteq index /\ tip \in index
  /\ {locked, banned} \subseteq Blocks \cup {NoBlock} /\ bannedBlocks \subseteq Blocks
  /\ cs \in {"free", "store", "find", "step", "return", "aborted"}
  /\ caller \in {"activate", "setlast"}
  /\ target \in index /\ oldTip \in index
  /\ incoming \in index \cup {NoBlock}
  /\ activating \in BOOLEAN
  /\ Handling => incoming \in index \ haveData

(* Linking: the linked blocks are closed under predecessors, a stored      *)
(* block on a linked one is linked, what waits is what is stored and not   *)
(* linked, and no block is stored on a failed one that is not linked, for  *)
(* which ReceivedBlockTransactions would forget it.                        *)
Links ==
  /\ Genesis \in linked /\ linked \subseteq haveData
  /\ \A b \in linked \ {Genesis} : Prev[b] \in linked
  /\ \A b \in haveData \ {Genesis} : Prev[b] \in linked => b \in linked
  /\ unlinked = haveData \ linked
  /\ tip \in linked
  /\ Handling => Prev[incoming] \notin Failed \ linked
-----------------------------------------------------------------------------
(* Lemmas about the operators of ChainState.                               *)

(* A set of blocks that is closed under predecessors holds the path of     *)
(* each of its blocks.                                                     *)
LEMMA ClosedPaths ==
  ASSUME NEW S \in SUBSET Blocks, \A b \in S \ {Genesis} : Prev[b] \in S
  PROVE  \A b \in S : Path[b] \subseteq S
<1> DEFINE T == {b \in Blocks : b \in S /\ ~(Path[b] \subseteq S)}
<1>1. SUFFICES ASSUME T # {} PROVE FALSE
  OBVIOUS
<1>2. PICK b \in T : b = Genesis \/ Prev[b] \notin T
  BY <1>1, EndsInGenesis
<1> QED
  BY <1>2, PathIs, TreeAssumption

(* The last common ancestor of two blocks is on both paths.                *)
LEMMA CommonAncestor ==
  ASSUME NEW a \in Blocks, NEW b \in Blocks
  PROVE  /\ LastCommonAncestor(a, b) \in Path[a]
         /\ LastCommonAncestor(a, b) \in Path[b]
         /\ LastCommonAncestor(a, b) \in Blocks
<1>1. Path[a] \cap Path[b] # {} /\ Path[a] \cap Path[b] \in SUBSET Path[a]
  BY PathEnds
<1>2. Highest(Path[a] \cap Path[b]) \in Path[a] \cap Path[b]
  BY <1>1, HighestIs
<1> QED
  BY <1>2, PathIs DEF LastCommonAncestor

(* While the tip is below the target, the block that ConnectTip takes is a *)
(* child of the tip on the way to the target.                              *)
LEMMA NextIsChild ==
  ASSUME target \in Blocks, tip \in Path[target], tip # target
  PROVE  /\ NextToConnect \in Blocks /\ NextToConnect \in Path[target]
         /\ NextToConnect # Genesis /\ Prev[NextToConnect] = tip
         /\ Path[NextToConnect] = Path[tip] \cup {NextToConnect}
<1>1. \E b \in Path[target] : b # Genesis /\ Prev[b] = tip
  BY ChildOnPath
<1>2. NextToConnect \in Path[target] /\ NextToConnect # Genesis /\ Prev[NextToConnect] = tip
  BY <1>1 DEF NextToConnect
<1> QED
  BY <1>2, PathIs

(* A tip that is not on the way to the target has a predecessor.           *)
LEMMA TipAbove ==
  ASSUME target \in Blocks, tip \in Blocks, tip \notin Path[target]
  PROVE  tip # Genesis /\ Prev[tip] \in Blocks /\ Path[tip] = Path[Prev[tip]] \cup {tip}
  BY PathEnds, PathIs

(* Remap gives the candidate or an ancestor of it.                         *)
LEMMA RemapBelow ==
  ASSUME NEW c \in Blocks, index \subseteq Blocks
  PROVE  Remap(c) \in Path[c] /\ Remap(c) \in Blocks
<1>1. CASE pindexLockedBlock = NoBlock \/ pindexLockedBlock \in Path[c]
  BY <1>1, PathEnds DEF Remap
<1>2. CASE ~(pindexLockedBlock = NoBlock \/ pindexLockedBlock \in Path[c])
  <2>1. pindexLockedBlock \in Blocks
    BY <1>2 DEF pindexLockedBlock
  <2> QED BY <1>2, <2>1, CommonAncestor DEF Remap
<1> QED
  BY <1>1, <1>2

(* What VerifyBlockMiner marks is on the path of the block.                *)
LEMMA MarksOnPath ==
  ASSUME NEW b \in Blocks, NEW D
  PROVE  MinerMarks(b, D) \subseteq Path[b]
  BY PathEnds DEF MinerMarks, Branch

(* What FindMostWorkChain changes.                                         *)
LEMMA FindChanges ==
  ASSUME Types, FindMostWorkChain
  PROVE  /\ passed' \subseteq index
         /\ failedValid' \subseteq index
         /\ failedChild' \subseteq index /\ failedChild \subseteq failedChild'
         /\ candidates' \subseteq candidates
         /\ cs' \in {"free", "find", "aborted", "step"}
         /\ activating' \in BOOLEAN
         /\ caller' \in {"activate", "setlast"} /\ target' \in index /\ oldTip' \in index
         /\ UNCHANGED <<treeVars, minerVars, tip, lockVars, incoming>>
         /\ cs' = "step" => caller' = "activate"
<1> DEFINE considered == {Remap(c) : c \in candidates}
           unchecked == considered \ passed
           nowPassed == passed \cup UNION {MinerMarks(c, haveData) : c \in unchecked}
           nowFailed == failedValid \cup {c \in unchecked : MinerRejects(c, haveData)}
           eligible == considered \cap nowPassed
<1>1. index \subseteq Blocks /\ \A b \in index : Path[b] \subseteq index
  BY ClosedPaths DEF Types
<1>2. considered \subseteq index
  BY <1>1, RemapBelow DEF Types
<1>3. nowPassed \subseteq index
  BY <1>1, <1>2, MarksOnPath DEF Types
<1>4. nowFailed \subseteq index
  BY <1>2 DEF Types
<1>5. passed' = nowPassed /\ failedValid' = nowFailed
      /\ UNCHANGED <<treeVars, minerVars, tip, lockVars, incoming>> /\ cs = "find"
  BY DEF FindMostWorkChain
<1>6. \/ /\ cs' = "free" /\ activating' = FALSE
         /\ UNCHANGED <<failedChild, candidates, caller, target, oldTip>>
      \/ \E best \in eligible : WalkBack(best, nowFailed \cup failedChild \cup bannedBlocks)
  BY DEF FindMostWorkChain
<1>7. ASSUME NEW best \in eligible, NEW F, WalkBack(best, F)
      PROVE  /\ failedChild' \subseteq index /\ failedChild \subseteq failedChild'
             /\ candidates' \subseteq candidates
             /\ cs' \in {"free", "find", "aborted", "step"}
             /\ activating' \in BOOLEAN
             /\ caller' \in {"activate", "setlast"} /\ target' \in index /\ oldTip' \in index
             /\ cs' = "step" => caller' = "activate"
  <2>1. best \in index /\ Branch(best) \subseteq index
    BY <1>1, <1>2 DEF Branch
  <2> HIDE DEF eligible
  <2> QED BY <1>5, <1>7, <2>1 DEF WalkBack, Types
<1> HIDE DEF eligible, nowPassed, nowFailed
<1> QED
  BY <1>3, <1>4, <1>5, <1>6, <1>7 DEF Types
-----------------------------------------------------------------------------
(* Types and Links are inductive, whatever the commands.                   *)

LEMMA InitTypes == Init => Types /\ Links
  BY TreeAssumption DEF Init, Types, Links, Handling, Failed

(* What StartSetLast leaves, for a block of the index.                     *)
LEMMA SetLastStarts ==
  ASSUME NEW b, StartSetLast(b)
  PROVE  /\ cs' \in {"step", "return"} /\ caller' = "setlast"
         /\ target' = b /\ oldTip' = tip
  BY DEF StartSetLast

(* What the tail of AcceptBlockHeader leaves.                              *)
LEMMA HeaderEnds ==
  ASSUME Types, NEW b \in Blocks, b \notin index => Prev[b] \in index, NEW next, AfterHeader(b, next)
  PROVE  \/ cs' = next /\ UNCHANGED <<caller, target, oldTip>>
         \/ /\ b \notin index /\ b = locked
            /\ cs' \in {"step", "return"} /\ caller' = "setlast"
            /\ target' = FindFork(b) /\ target' \in index /\ oldTip' = tip
<1>1. tip \in Blocks /\ Path[tip] \subseteq index
  BY ClosedPaths DEF Types
<1>2. FindFork(b) \in index
  BY <1>1, CommonAncestor DEF FindFork
<1> QED
  BY <1>2, SetLastStarts DEF AfterHeader

(* The blocks that lockblock may switch to.                                *)
LEMMA LockWalkIs ==
  ASSUME Types, Links, NEW h \in index, NEW w \in LockWalk(h)
  PROVE  /\ w \in index
         /\ h \in Path[w] \/ w \in Path[h]
         /\ h \in linked => w \in linked
<1> DEFINE stored == {x \in Path[h] : x \in ActiveChain \/ x \in haveData}
           above == {x \in linked \ Failed : h \in Path[x] /\ Worse(h, x)}
<1>1. index \subseteq Blocks /\ \A b \in index : Path[b] \subseteq index
  BY ClosedPaths DEF Types
<1>2. stored \in SUBSET Path[h] /\ stored # {}
  BY <1>1, PathEnds DEF ActiveChain, Types
<1>3. Highest(stored) \in stored
  <2> HIDE DEF stored
  <2> QED BY <1>1, <1>2, HighestIs
<1>4. \A b \in linked : Path[b] \subseteq linked
  BY <1>1, ClosedPaths DEF Types, Links
<1>5. w \in above \/ w = Highest(stored)
  BY DEF LockWalk
<1> QED
  BY <1>1, <1>3, <1>4, <1>5 DEF Links, Types

LEMMA StepTypes == Types /\ Links /\ [Next]_vars => Types'
<1> SUFFICES ASSUME Types, Links, [Next]_vars PROVE Types'
  OBVIOUS
<1>0. index \subseteq Blocks /\ \A b \in index : Path[b] \subseteq index
  BY ClosedPaths DEF Types
<1> USE DEF treeVars, statusVars, minerVars, lockVars, runVars
<1>1. CASE StoreBlock
  <2>1. incoming \in index \ haveData /\ incoming \in Blocks
    BY <1>0, <1>1 DEF StoreBlock, Types, Handling
  <2>2. CASE incoming \in BadContext
    BY <1>1, <2>1, <2>2 DEF StoreBlock, Types, Handling
  <2>3. CASE incoming \notin BadContext
    <3>1. /\ haveData' = haveData \cup {incoming} /\ candidates' \subseteq candidates \cup Linking(incoming)
          /\ canMine' \subseteq canMine \cup {incoming}
          /\ passed' = passed \cup MinerMarks(incoming, haveData')
          /\ failedValid' \subseteq failedValid \cup {incoming}
          /\ activating' \in BOOLEAN /\ cs' = "free" /\ incoming' = NoBlock
      BY <1>1, <2>3 DEF StoreBlock, ReceivedBlockTransactions, UpdateChainMiningStatus, Types
    <3>2. Linking(incoming) \subseteq index
      BY <2>1 DEF Linking, Links, Types
    <3>3. UNCHANGED <<index, failedChild, tip, lockVars, caller, target, oldTip>>
      BY <1>1 DEF StoreBlock
    <3>4. MinerMarks(incoming, haveData') \subseteq index
      BY <1>0, <2>1, MarksOnPath
    <3> QED BY <2>1, <1>0, <3>1, <3>2, <3>3, <3>4 DEF Types, Handling
  <2> QED BY <2>2, <2>3
<1>2. CASE StartRound
  <2>1. canMine' \subseteq Blocks
    BY <1>0, <1>2 DEF StartRound, Types
  <2> QED BY <1>2, <2>1 DEF StartRound, Types, Handling
<1>3. CASE FindMostWorkChain
  <2>1. cs = "find"
    BY <1>3 DEF FindMostWorkChain
  <2> QED BY <1>3, <2>1, FindChanges DEF Types, Handling
<1>4. CASE DisconnectTip
  <2>1. tip' \in index
    BY <1>0, <1>4, TipAbove DEF DisconnectTip, Types
  <2>2. cs' \in {"step", "return"} /\ cs = "step"
    BY <1>4 DEF DisconnectTip
  <2> QED BY <1>4, <2>1, <2>2 DEF DisconnectTip, Types, Handling
<1>5. CASE ConnectTip
  <2>1. NextToConnect \in index
    BY <1>0, <1>5, NextIsChild DEF ConnectTip, Types
  <2>2. /\ failedValid' \subseteq failedValid \cup {NextToConnect}
        /\ candidates' \subseteq candidates /\ tip' \in {tip, NextToConnect}
        /\ bannedBlocks' \subseteq bannedBlocks \cup {NextToConnect}
        /\ cs' \in {"free", "step", "return", "aborted"} /\ cs = "step" /\ activating' \in BOOLEAN
        /\ UNCHANGED <<treeVars, failedChild, passed, minerVars, locked, banned, runVars>>
    BY <1>5 DEF ConnectTip, PruneBlockIndexCandidates, Types
  <2> QED BY <1>0, <2>1, <2>2 DEF Types, Handling
<1>6. CASE RoundReturn
  <2>1. canMine' \subseteq Blocks
    BY <1>0, <1>6 DEF RoundReturn, Types
  <2>2. activating' \in BOOLEAN
    BY <1>6, Zenon DEF RoundReturn
  <2> QED BY <1>6, <2>1, <2>2 DEF RoundReturn, Types, Handling
<1>7. CASE SetLastReturn
  BY <1>7 DEF SetLastReturn, Types, Handling
<1>8. ASSUME NEW b \in Blocks, AcceptHeader(b) PROVE Types'
  <2>1. b \notin index /\ Prev[b] \in index
    BY <1>8 DEF AcceptHeader, HeaderOK
  <2>2. \/ cs' = "free" /\ UNCHANGED <<caller, target, oldTip>>
        \/ cs' \in {"step", "return"} /\ caller' = "setlast" /\ target' \in index /\ oldTip' = tip
    BY <1>8, <2>1, HeaderEnds DEF AcceptHeader
  <2>3. index' = index \cup {b} /\ incoming' = NoBlock
        /\ UNCHANGED <<haveData, linked, unlinked, seq, nextSeq, statusVars, minerVars,
                       candidates, tip, lockVars, activating>>
    BY <1>8 DEF AcceptHeader
  <2> QED BY <2>1, <2>2, <2>3 DEF Types, Handling
<1>9. ASSUME NEW b \in Blocks, ReceiveBlock(b) PROVE Types'
  <2>1. (b \notin index => Prev[b] \in index) /\ b \notin haveData
    BY <1>9 DEF ReceiveBlock, HeaderOK
  <2>2. \/ cs' = "store" /\ UNCHANGED <<caller, target, oldTip>>
        \/ cs' \in {"step", "return"} /\ caller' = "setlast" /\ target' \in index /\ oldTip' = tip
    BY <1>9, <2>1, HeaderEnds DEF ReceiveBlock
  <2>3. index' = index \cup {b} /\ incoming' = b
        /\ UNCHANGED <<haveData, linked, unlinked, seq, nextSeq, statusVars, minerVars,
                       candidates, tip, lockVars, activating>>
    BY <1>9 DEF ReceiveBlock
  <2> QED BY <2>1, <2>2, <2>3 DEF Types, Handling
<1>10. ASSUME NEW b \in Blocks, ReceiveKnownBlock(b) PROVE Types'
  BY <1>10 DEF ReceiveKnownBlock, Types, Handling
<1>11. ASSUME NEW b \in Blocks, InvalidateBlock(b) PROVE Types'
  <2>1. /\ failedValid' = failedValid \cup {b} /\ b \in index \ {Genesis}
        /\ failedChild' \subseteq failedChild \cup ActiveChain
        /\ candidates' \subseteq candidates \cup {b}
        /\ tip' \in {tip, Prev[b]} /\ activating' = TRUE /\ cs = "free"
        /\ UNCHANGED <<treeVars, passed, minerVars, lockVars, cs, runVars>>
    BY <1>11 DEF InvalidateBlock
  <2>2. ActiveChain \subseteq index /\ Prev[b] \in index
    BY <1>0, <2>1 DEF ActiveChain, Types
  <2> QED BY <2>1, <2>2 DEF Types, Handling
<1>12. ASSUME NEW b \in Blocks, ReconsiderBlock(b) PROVE Types'
  BY <1>12 DEF ReconsiderBlock, Types, Handling
<1>13. ASSUME NEW b \in Blocks, SetLastBlock(b) PROVE Types'
  <2>1. /\ cs' \in {"step", "return"} /\ caller' = "setlast" /\ target' = b /\ oldTip' = tip
        /\ b \in index /\ incoming' = NoBlock
        /\ UNCHANGED <<treeVars, statusVars, minerVars, candidates, tip, lockVars, activating>>
    BY <1>13, SetLastStarts DEF SetLastBlock
  <2> QED BY <2>1 DEF Types, Handling
<1>14. ASSUME NEW b \in Blocks, SetLockedBlock(b) PROVE Types'
  <2>1. /\ \/ UNCHANGED <<cs, caller, target, oldTip>>
           \/ /\ cs' \in {"step", "return"} /\ caller' = "setlast" /\ oldTip' = tip
              /\ target' \in index
        /\ locked' = b /\ incoming' = NoBlock /\ cs = "free"
        /\ UNCHANGED <<treeVars, statusVars, minerVars, candidates, tip, banned,
                       bannedBlocks, activating>>
    BY <1>14, SetLastStarts, LockWalkIs DEF SetLockedBlock
  <2> QED BY <2>1 DEF Types, Handling
<1>15. CASE RemoveLockedBlock
  BY <1>15 DEF RemoveLockedBlock, Types, Handling
<1>16. ASSUME NEW b \in Bannable, ReceiveBannedBlock(b) PROVE Types'
  <2>1. b \in Blocks
    BY TreeAssumption
  <2> QED BY <1>16, <2>1 DEF ReceiveBannedBlock, Types, Handling
<1>17. ASSUME NEW b \in Bannable \cup {NoBlock}, SetBannedTxs(b) PROVE Types'
  <2>1. b \in Blocks \cup {NoBlock}
    BY TreeAssumption
  <2> QED BY <1>17, <2>1 DEF SetBannedTxs, Types, Handling
<1>18. CASE UNCHANGED vars
  BY <1>18 DEF vars, Types, Handling
<1> QED
  BY <1>1, <1>2, <1>3, <1>4, <1>5, <1>6, <1>7, <1>8, <1>9, <1>10, <1>11, <1>12, <1>13,
     <1>14, <1>15, <1>16, <1>17, <1>18 DEF Next, Running

(* What ReceivedBlockTransactions links when the predecessor is linked:    *)
(* the block and everything stored above it without a gap.                 *)
LEMMA LinkingClosed ==
  ASSUME Types, Links, NEW b \in index \ haveData, Prev[b] \in linked
  PROVE  /\ b \in Linking(b) /\ b # Genesis
         /\ Linking(b) \subseteq {b} \cup unlinked
         /\ \A x \in Linking(b) : x # Genesis /\ Prev[x] \in linked \cup Linking(b)
         /\ \A x \in unlinked : Prev[x] \in Linking(b) => x \in Linking(b)
<1>1. index \subseteq Blocks /\ b \in Blocks /\ haveData \subseteq Blocks /\ Genesis \in linked
  BY DEF Types, Links
<1>2. b # Genesis /\ Genesis \notin unlinked
  BY DEF Types, Links
<1>3. b \in Linking(b) /\ Linking(b) \subseteq {b} \cup unlinked
  BY <1>1, PathEnds DEF Linking
<1>4. unlinked \subseteq Blocks /\ b \notin unlinked
  BY <1>1 DEF Links
<1>5. ASSUME NEW x \in Linking(b) PROVE x # Genesis /\ Prev[x] \in linked \cup Linking(b)
  <2>1. CASE x = b
    BY <2>1, <1>2
  <2>2. CASE x # b
    <3>1. x \in unlinked /\ b \in Path[x] /\ Path[x] \ Path[b] \subseteq unlinked
      BY <1>3, <2>2 DEF Linking
    <3>2. x # Genesis /\ x \in Blocks /\ Prev[x] \in Blocks /\ Path[x] = {x} \cup Path[Prev[x]]
      BY <1>2, <1>4, <3>1, PathIs, TreeAssumption
    <3>3. b \in Path[Prev[x]]
      BY <2>2, <3>1, <3>2
    <3>4. Prev[x] = b \/ Prev[x] \notin Path[b]
      <4>1. SUFFICES ASSUME Prev[x] # b, Prev[x] \in Path[b] PROVE FALSE
        OBVIOUS
      <4>2. Height[Prev[x]] < Height[b] /\ Height[b] < Height[Prev[x]]
        BY <1>1, <3>2, <3>3, <4>1, PathParts
      <4> QED BY <1>1, <3>2, <4>2, HeightIs
    <3>5. CASE Prev[x] = b
      BY <1>3, <3>2, <3>5
    <3>6. CASE Prev[x] \notin Path[b]
      <4>1. Prev[x] \in unlinked /\ Path[Prev[x]] \ Path[b] \subseteq unlinked
        BY <3>1, <3>2, <3>6, PathEnds
      <4> QED BY <3>2, <3>3, <4>1 DEF Linking
    <3> QED BY <3>4, <3>5, <3>6
  <2> QED BY <2>1, <2>2
<1>6. ASSUME NEW x \in unlinked, Prev[x] \in Linking(b) PROVE x \in Linking(b)
  <2>1. x # Genesis /\ x \in Blocks /\ Path[x] = {x} \cup Path[Prev[x]]
    BY <1>2, <1>4, PathIs
  <2>2. b \in Path[Prev[x]] /\ Path[Prev[x]] \ Path[b] \subseteq unlinked
    BY <1>6 DEF Linking
  <2> QED BY <2>1, <2>2 DEF Linking
<1> QED
  BY <1>2, <1>3, <1>5, <1>6

(* HeaderOK lets no block through whose predecessor has failed and is not  *)
(* linked.                                                                 *)
LEMMA HeaderSafe ==
  ASSUME Types, Links, NEW b \in Blocks, b # Genesis, HeaderOK(b)
  PROVE  Prev[b] \notin Failed \ linked
<1>1. Prev[b] \in Blocks /\ tip \in Blocks /\ linked \subseteq Blocks
  BY TreeAssumption DEF Types, Links
<1>2. Path[tip] \subseteq linked
  BY <1>1, ClosedPaths DEF Links
<1>3. CASE b \in index
  <2>1. Prev[b] \in Path[Prev[b]] /\ Branch(Prev[b]) \cap Failed = {}
    BY <1>1, <1>3, PathEnds DEF HeaderOK
  <2> QED BY <1>2, <2>1 DEF Branch, ActiveChain
<1>4. CASE b \notin index
  BY <1>4 DEF HeaderOK
<1> QED
  BY <1>3, <1>4

LEMMA StepLinks == Types /\ Links /\ [Next]_vars => Links'
<1> SUFFICES ASSUME Types, Links, [Next]_vars PROVE Links'
  OBVIOUS
<1>0. /\ index \subseteq Blocks /\ haveData \subseteq Blocks /\ linked \subseteq Blocks
      /\ tip \in Blocks /\ target \in Blocks
  BY DEF Types, Links
<1> USE DEF treeVars, statusVars, minerVars, lockVars, runVars
<1>a. ASSUME UNCHANGED <<haveData, linked, unlinked>>, tip' \in linked,
             Handling' => Prev[incoming'] \notin (Failed \ linked)'
      PROVE  Links'
  BY <1>a DEF Links
<1>1. CASE StoreBlock
  <2> DEFINE b == incoming
  <2>1. b \in index \ haveData /\ ~Handling'
        /\ Prev[b] \notin Failed \ linked /\ UNCHANGED tip
    BY <1>1 DEF StoreBlock, Types, Links, Handling
  <2>2. CASE b \in BadContext
    BY <1>1, <1>a, <2>1, <2>2 DEF StoreBlock, Links
  <2>3. CASE b \notin BadContext /\ Prev[b] \in linked
    <3>1. /\ haveData' = haveData \cup {b} /\ linked' = linked \cup Linking(b)
          /\ unlinked' = unlinked \ Linking(b)
      BY <1>1, <2>3 DEF StoreBlock, ReceivedBlockTransactions
    <3> QED BY <1>0, <2>1, <2>3, <3>1, LinkingClosed DEF Links
  <2>4. CASE b \notin BadContext /\ Prev[b] \notin linked
    <3>1. /\ haveData' = haveData \cup {b} /\ linked' = linked
          /\ unlinked' = unlinked \cup {b}
      BY <1>1, <2>1, <2>4 DEF StoreBlock, ReceivedBlockTransactions
    <3> QED BY <1>0, <2>1, <2>4, <3>1 DEF Links
  <2> QED BY <2>2, <2>3, <2>4
<1>2. CASE StartRound
  BY <1>2, <1>a DEF StartRound, Handling, Links
<1>3. CASE FindMostWorkChain
  <2>1. ~Handling' /\ UNCHANGED <<haveData, linked, unlinked, tip>>
    BY <1>3, FindChanges DEF Handling
  <2> QED BY <1>a, <2>1 DEF Links
<1>4. CASE DisconnectTip
  <2>1. tip' \in linked
    BY <1>0, <1>4, TipAbove DEF DisconnectTip, Links
  <2>2. Handling' => Handling
    BY <1>4 DEF DisconnectTip, Handling
  <2> QED BY <1>4, <1>a, <2>1, <2>2 DEF DisconnectTip, Links, Failed
<1>5. CASE ConnectTip
  <2> DEFINE new == NextToConnect
  <2>1. new \in Blocks \ {Genesis} /\ Prev[new] = tip
    BY <1>0, <1>5, NextIsChild DEF ConnectTip
  <2>2. /\ tip' = tip \/ (tip' = new /\ new \in haveData)
        /\ \/ failedValid' = failedValid
           \/ failedValid' = failedValid \cup {new} /\ new \in haveData
        /\ cs' \in {"free", "step", "return", "aborted"} /\ cs = "step"
        /\ UNCHANGED <<treeVars, failedChild, runVars>>
    BY <1>5 DEF ConnectTip
  <2>3. new \in haveData => new \in linked
    BY <2>1 DEF Links
  <2>4. Handling' => Handling
    BY <2>2 DEF Handling
  <2> HIDE DEF new
  <2> QED BY <1>a, <2>2, <2>3, <2>4 DEF Links, Failed
<1>6. CASE RoundReturn
  BY <1>6, <1>a DEF RoundReturn, Handling, Links
<1>7. CASE SetLastReturn
  <2>1. Handling' => Handling
    BY <1>7 DEF SetLastReturn, Handling
  <2> QED BY <1>7, <1>a, <2>1 DEF SetLastReturn, Links, Failed
<1>8. ASSUME NEW b \in Blocks, AcceptHeader(b) PROVE Links'
  <2>1. b \notin index /\ Prev[b] \in index
    BY <1>8 DEF AcceptHeader, HeaderOK
  <2>2. cs' # "store"
    BY <1>8, <2>1, HeaderEnds DEF AcceptHeader
  <2>3. ~Handling'
    BY <1>8, <2>2 DEF AcceptHeader, Handling
  <2> QED BY <1>8, <1>a, <2>3 DEF AcceptHeader, Links
<1>9. ASSUME NEW b \in Blocks, ReceiveBlock(b) PROVE Links'
  <2>1. b # Genesis /\ HeaderOK(b)
    BY <1>9 DEF ReceiveBlock, Links
  <2>2. Prev[b] \notin Failed \ linked
    BY <2>1, HeaderSafe
  <2> QED BY <1>9, <1>a, <2>2 DEF ReceiveBlock, Links, Failed
<1>10. ASSUME NEW b \in Blocks, ReceiveKnownBlock(b) PROVE Links'
  BY <1>10, <1>a DEF ReceiveKnownBlock, Handling, Links
<1>11. ASSUME NEW b \in Blocks, InvalidateBlock(b) PROVE Links'
  <2>1. /\ tip' = IF b \in Path[tip] THEN Prev[b] ELSE tip
        /\ b # Genesis /\ cs = "free"
        /\ UNCHANGED <<treeVars, cs>>
    BY <1>11 DEF InvalidateBlock, ActiveChain
  <2>2. Path[tip] \subseteq linked
    BY <1>0, ClosedPaths DEF Links
  <2> QED BY <1>a, <2>1, <2>2 DEF Links, Handling
<1>12. ASSUME NEW b \in Blocks, ReconsiderBlock(b) PROVE Links'
  BY <1>12, <1>a DEF ReconsiderBlock, Handling, Links
<1>13. ASSUME NEW b \in Blocks, SetLastBlock(b) PROVE Links'
  <2>1. ~Handling'
    BY <1>13, SetLastStarts DEF SetLastBlock, Handling
  <2> QED BY <1>13, <1>a, <2>1 DEF SetLastBlock, Links
<1>14. ASSUME NEW b \in Blocks, SetLockedBlock(b) PROVE Links'
  <2>1. ~Handling'
    BY <1>14, SetLastStarts DEF SetLockedBlock, Handling
  <2> QED BY <1>14, <1>a, <2>1 DEF SetLockedBlock, Links
<1>15. CASE RemoveLockedBlock
  BY <1>15, <1>a DEF RemoveLockedBlock, Handling, Links
<1>16. ASSUME NEW b \in Bannable, ReceiveBannedBlock(b) PROVE Links'
  BY <1>16, <1>a DEF ReceiveBannedBlock, Handling, Links
<1>17. ASSUME NEW b \in Bannable \cup {NoBlock}, SetBannedTxs(b) PROVE Links'
  BY <1>17, <1>a DEF SetBannedTxs, Handling, Links
<1>18. CASE UNCHANGED vars
  BY <1>18 DEF vars, Links, Handling, Failed
<1> QED
  BY <1>1, <1>2, <1>3, <1>4, <1>5, <1>6, <1>7, <1>8, <1>9, <1>10, <1>11, <1>12, <1>13,
     <1>14, <1>15, <1>16, <1>17, <1>18 DEF Next, Running

(* Every reachable state is well formed, and linking is exact.             *)
LEMMA SpecLinks == Spec => [](Types /\ Links)
<1>1. Types /\ Links /\ [Next]_vars => (Types /\ Links)'
  BY StepTypes, StepLinks
<1> QED
  BY <1>1, InitTypes, PTL DEF Spec

(* nChainTx is nonzero exactly for the blocks whose whole chain is stored: *)
(* ReceivedBlockTransactions never forgets a block that came too early.    *)
THEOREM LinkedIffStoredHolds == Spec => []LinkedIffStored
<1>1. ASSUME Types, Links PROVE LinkedIffStored
  <2>1. linked \subseteq Blocks /\ \A b \in linked : Path[b] \subseteq linked
    BY <1>1, ClosedPaths DEF Types, Links
  <2> DEFINE S == {b \in Blocks : Path[b] \subseteq haveData /\ b \notin linked}
  <2>2. S = {}
    <3>1. SUFFICES ASSUME S # {} PROVE FALSE
      OBVIOUS
    <3>2. PICK b \in S : b = Genesis \/ Prev[b] \notin S
      BY <3>1, EndsInGenesis
    <3>3. b # Genesis
      BY <1>1, <3>2 DEF Links
    <3>4. Prev[b] \in Blocks /\ Path[b] = {b} \cup Path[Prev[b]]
      BY <3>2, <3>3, PathIs, TreeAssumption
    <3> QED BY <1>1, <3>2, <3>3, <3>4 DEF Links
  <2> QED BY <1>1, <2>1, <2>2 DEF LinkedIffStored, Links
<1> QED
  BY <1>1, SpecLinks, PTL
-----------------------------------------------------------------------------
(* How the tip moves: down its own chain, or up by one block that passed   *)
(* the checks of ConnectBlock, on the way to the target.                   *)
LEMMA TipMoves ==
  ASSUME Types, Links, [Next]_vars
  PROVE  \/ Path[tip'] \subseteq Path[tip]
         \/ /\ cs = "step" /\ tip \in Path[target] /\ tip # target
            /\ tip' \in Path[target] /\ tip' \notin Path[tip]
            /\ Path[tip'] = Path[tip] \cup {tip'}
            /\ tip' # banned /\ tip' \notin BadTx \cup BadMiner
            /\ UNCHANGED <<failedValid, failedChild, locked, banned, runVars>>
<1>0. tip \in Blocks /\ target \in Blocks
  BY DEF Types
<1> USE DEF treeVars, statusVars, minerVars, lockVars, runVars
<1>1. CASE ConnectTip
  <2>1. cs = "step" /\ tip \in Path[target] /\ tip # target
    BY <1>1 DEF ConnectTip
  <2>2. CASE tip' = tip
    BY <2>2
  <2>3. CASE tip' # tip
    <3>1. /\ tip' = NextToConnect /\ tip' # banned /\ tip' \notin BadTx \cup BadMiner
          /\ UNCHANGED <<failedValid, failedChild, locked, banned, runVars>>
      BY <1>1, <2>3 DEF ConnectTip, CheckBlockBans
    <3>2. tip' \in Path[target] /\ Prev[tip'] = tip /\ tip' \in Blocks \ {Genesis}
          /\ Path[tip'] = Path[tip] \cup {tip'}
      BY <1>0, <2>1, <3>1, NextIsChild
    <3>3. Height[tip'] = 1 + Height[tip] /\ Height[tip] \in Nat
      BY <1>0, <3>2, HeightIs
    <3>4. tip' \notin Path[tip]
      BY <1>0, <2>3, <3>3, PathParts
    <3> QED BY <2>1, <3>1, <3>2, <3>4
  <2> QED BY <2>2, <2>3
<1>2. CASE DisconnectTip
  BY <1>0, <1>2, TipAbove DEF DisconnectTip
<1>3. ASSUME NEW b \in Blocks, InvalidateBlock(b) PROVE Path[tip'] \subseteq Path[tip]
  <2>1. CASE b \in Path[tip]
    <3>1. tip' = Prev[b] /\ b # Genesis
      BY <1>3, <2>1 DEF InvalidateBlock, ActiveChain
    <3> QED BY <1>0, <2>1, <3>1, PathIs, PathParts
  <2>2. CASE b \notin Path[tip]
    BY <1>3, <2>2 DEF InvalidateBlock, ActiveChain
  <2> QED BY <2>1, <2>2
<1>4. CASE UNCHANGED tip
  BY <1>4
<1> QED
  BY <1>1, <1>2, <1>3, <1>4
  DEF Next, Running, vars, StoreBlock, StartRound, FindMostWorkChain, RoundReturn,
      SetLastReturn, AcceptHeader, ReceiveBlock, ReceiveKnownBlock, ReconsiderBlock,
      SetLastBlock, SetLockedBlock, RemoveLockedBlock, ReceiveBannedBlock, SetBannedTxs

(* No step connects the block with a banned transaction, whether it came   *)
(* before or after the ban, and whatever command is at work.               *)
THEOREM BannedNotConnectedHolds == Spec => BannedNotConnected
<1>1. ASSUME Types, Links, [Next]_vars PROVE banned \notin Path[tip'] \ Path[tip]
  BY <1>1, TipMoves
<1>2. Types /\ Links /\ [Next]_vars => [banned \notin Path[tip'] \ Path[tip]]_vars
  BY <1>1
<1> QED
  BY <1>2, SpecLinks, PTL DEF Spec, BannedNotConnected

(* FindMostWorkChain marks no block of the active chain; what it returns   *)
(* is an ancestor of a candidate, with no failed block on the way to it.   *)
LEMMA FindSafe ==
  ASSUME Types, FindMostWorkChain
  PROVE  /\ (Failed' \ Failed) \cap ActiveChain = {}
         /\ cs' = "step" =>
              /\ caller' = "activate" /\ Branch(target') \cap Failed' = {}
              /\ candidates' = candidates
              /\ \E c \in candidates : target' = Remap(c)
<1> DEFINE considered == {Remap(c) : c \in candidates}
           unchecked == considered \ passed
           nowPassed == passed \cup UNION {MinerMarks(c, haveData) : c \in unchecked}
           nowFailed == failedValid \cup {c \in unchecked : MinerRejects(c, haveData)}
           eligible == considered \cap nowPassed
<1>1. failedValid' = nowFailed /\ cs = "find"
  BY DEF FindMostWorkChain
<1>2. (nowFailed \ failedValid) \cap ActiveChain = {}
  BY DEF MinerRejects, MinerExempt
<1>3. \/ cs' = "free" /\ failedChild' = failedChild
      \/ \E best \in eligible : WalkBack(best, nowFailed \cup failedChild \cup bannedBlocks)
  BY DEF FindMostWorkChain
<1>4. \A best \in eligible : \E c \in candidates : best = Remap(c)
  OBVIOUS
<1> HIDE DEF eligible, nowFailed
<1>5. ASSUME NEW best \in eligible,
             WalkBack(best, nowFailed \cup failedChild \cup bannedBlocks)
      PROVE  /\ (failedChild' \ failedChild) \cap ActiveChain = {}
             /\ cs' = "step" => /\ caller' = "activate" /\ target' = best
                                /\ candidates' = candidates
                                /\ failedChild' = failedChild
                                /\ Branch(best) \cap (nowFailed \cup failedChild) = {}
  BY <1>1, <1>5 DEF WalkBack, Branch
<1> QED
  BY <1>1, <1>2, <1>3, <1>4, <1>5 DEF Failed

(* ActivateBestChainStep on behalf of ActivateBestChain works towards a    *)
(* block without a failed block on its way.                                *)
WayClear == cs = "step" /\ caller = "activate" => (Path[target] \ Path[tip]) \cap Failed = {}

LEMMA StepWayClear == Types /\ Links /\ WayClear /\ [Next]_vars => WayClear'
<1> SUFFICES ASSUME Types, Links, WayClear, [Next]_vars, (cs = "step" /\ caller = "activate")'
             PROVE  (Path[target'] \ Path[tip']) \cap Failed' = {}
  BY DEF WayClear
<1>0. tip \in Blocks /\ target \in Blocks
  BY DEF Types
<1> USE DEF treeVars, statusVars, minerVars, lockVars, runVars
<1>1. CASE FindMostWorkChain
  BY <1>1, FindSafe, FindChanges DEF Branch, ActiveChain
<1>2. CASE DisconnectTip
  <2>1. Path[tip] = Path[Prev[tip]] \cup {tip} /\ tip \notin Path[target]
    BY <1>0, <1>2, TipAbove DEF DisconnectTip
  <2> QED BY <1>2, <2>1 DEF DisconnectTip, WayClear, Failed
<1>3. CASE ConnectTip
  <2>1. tip' = NextToConnect /\ cs = "step" /\ tip \in Path[target] /\ tip # target
        /\ UNCHANGED <<failedValid, failedChild, target, caller>>
    BY <1>3 DEF ConnectTip
  <2>2. Path[tip] \subseteq Path[tip']
    BY <1>0, <2>1, NextIsChild
  <2> QED BY <2>1, <2>2 DEF WayClear, Failed
<1>4. CASE UNCHANGED vars
  BY <1>4 DEF vars, WayClear, Failed
<1>5. \A b \in Blocks : \A next : AfterHeader(b, next) => cs' = next \/ caller' = "setlast"
  BY DEF AfterHeader, StartSetLast
<1> QED
  BY <1>1, <1>2, <1>3, <1>4, <1>5
  DEF Next, Running, StoreBlock, StartRound, RoundReturn, SetLastReturn, AcceptHeader,
      ReceiveBlock, ReceiveKnownBlock, InvalidateBlock, ReconsiderBlock, SetLastBlock,
      StartSetLast, SetLockedBlock, RemoveLockedBlock, ReceiveBannedBlock, SetBannedTxs

LEMMA SpecWayClear == Spec => [](Types /\ Links /\ WayClear)
<1>1. Init => WayClear
  BY DEF Init, WayClear
<1> QED
  BY <1>1, StepWayClear, SpecLinks, PTL DEF Spec

(* Whatever the commands, ActivateBestChain itself connects no block that  *)
(* carries a failure flag: what FindMostWorkChain saw is still true at     *)
(* every step of the reorganisation.                                       *)
THEOREM ActivationConnectsNoFailed ==
  Spec => [][caller = "activate" => \A b \in Path[tip'] \ Path[tip] : b \notin Failed]_vars
<1>1. ASSUME Types, Links, WayClear, [Next]_vars, caller = "activate"
      PROVE  \A b \in Path[tip'] \ Path[tip] : b \notin Failed
  BY <1>1, TipMoves DEF WayClear
<1>2. Types /\ Links /\ WayClear /\ [Next]_vars =>
        [caller = "activate" => \A b \in Path[tip'] \ Path[tip] : b \notin Failed]_vars
  BY <1>1
<1> QED
  BY <1>2, SpecWayClear, PTL DEF Spec
-----------------------------------------------------------------------------
(* What holds while the operator gives neither setlastblock nor lockblock: *)
(* findings 2 and 3 are about these two.                                   *)
Unaided == Commands \cap {"setlast", "lock"} = {}

(* Only ActivateBestChain runs ActivateBestChainStep.                      *)
OnlyActivation == locked = NoBlock /\ caller = "activate"

LEMMA StepOnlyActivation ==
  ASSUME Unaided, Types, OnlyActivation, [Next]_vars
  PROVE  OnlyActivation'
<1> USE DEF treeVars, statusVars, minerVars, lockVars, runVars
<1>1. \A b \in Blocks : \A next : AfterHeader(b, next) => UNCHANGED caller
  BY TreeAssumption DEF AfterHeader, OnlyActivation
<1>2. CASE FindMostWorkChain
  <2>1. \A best, F : WalkBack(best, F) => caller' \in {caller, "activate"}
    BY DEF WalkBack
  <2> QED BY <1>2, <2>1 DEF FindMostWorkChain, OnlyActivation
<1>3. "setlast" \notin Commands /\ "lock" \notin Commands
  BY DEF Unaided
<1> QED
  BY <1>1, <1>2, <1>3
  DEF OnlyActivation, vars, Next, Running, StoreBlock, StartRound, DisconnectTip, ConnectTip,
      RoundReturn, SetLastReturn, AcceptHeader, ReceiveBlock, ReceiveKnownBlock,
      InvalidateBlock, ReconsiderBlock, SetLastBlock, SetLockedBlock, RemoveLockedBlock,
      ReceiveBannedBlock, SetBannedTxs

(* A step that puts failure flags on blocks of the active chain takes them *)
(* off the chain, and no failed block gets on it.                          *)
LEMMA StepSound ==
  ASSUME Types, Links, WayClear, OnlyActivation, ActiveChain \cap Failed = {}, [Next]_vars
  PROVE  ActiveChain' \cap Failed' = {}
<1>0. tip \in Blocks /\ target \in Blocks
  BY DEF Types
<1> USE DEF treeVars, statusVars, minerVars, lockVars, runVars
<1>a. Path[tip] \cap Failed = {} /\ Path[tip] \subseteq linked
  BY ClosedPaths DEF ActiveChain, Types, Links
<1>b. ASSUME Failed' \subseteq Failed PROVE ActiveChain' \cap Failed' = {}
  BY <1>a, <1>b, TipMoves DEF ActiveChain, OnlyActivation, WayClear
<1>c. ASSUME UNCHANGED tip, (Failed' \ Failed) \cap Path[tip] = {}
      PROVE  ActiveChain' \cap Failed' = {}
  BY <1>a, <1>c DEF ActiveChain
<1>1. CASE StoreBlock
  <2>1. incoming \notin Path[tip]
    BY <1>1, <1>a DEF StoreBlock, Types, Links, Handling
  <2>2. Failed' \subseteq Failed \cup {incoming} /\ UNCHANGED tip
    BY <1>1 DEF StoreBlock, Failed
  <2> QED BY <1>c, <2>1, <2>2
<1>2. CASE FindMostWorkChain
  BY <1>2, <1>c, FindSafe, FindChanges DEF ActiveChain
<1>3. CASE ConnectTip
  <2>1. CASE UNCHANGED failedValid
    BY <1>3, <1>b, <2>1 DEF ConnectTip, Failed
  <2>2. CASE ~UNCHANGED failedValid
    <3>1. Failed' = Failed \cup {NextToConnect} /\ UNCHANGED tip
          /\ tip \in Path[target] /\ tip # target
      BY <1>3, <2>2 DEF ConnectTip, Failed
    <3>2. NextToConnect \in Blocks \ {Genesis} /\ Prev[NextToConnect] = tip
      BY <1>0, <3>1, NextIsChild
    <3>3. Height[NextToConnect] = 1 + Height[tip] /\ Height[tip] \in Nat
      BY <1>0, <3>2, HeightIs
    <3>4. NextToConnect \notin Path[tip]
      BY <1>0, <3>3, PathParts
    <3> QED BY <1>c, <3>1, <3>4
  <2> QED BY <2>1, <2>2
<1>4. ASSUME NEW b \in Blocks, InvalidateBlock(b) PROVE ActiveChain' \cap Failed' = {}
  <2>1. CASE b \in Path[tip]
    <3>1. /\ tip' = Prev[b] /\ b # Genesis
          /\ Failed' = Failed \cup {b} \cup (Path[tip] \ Path[Prev[b]])
      BY <1>4, <2>1 DEF InvalidateBlock, ActiveChain, Failed
    <3>2. Prev[b] \in Blocks /\ Path[b] = {b} \cup Path[Prev[b]] /\ Path[b] \subseteq Path[tip]
      BY <1>0, <2>1, <3>1, PathIs, PathParts, TreeAssumption
    <3>3. Height[b] = 1 + Height[Prev[b]] /\ Height[Prev[b]] \in Nat
      BY <3>1, <3>2, HeightIs
    <3>4. b \notin Path[Prev[b]]
      BY <3>2, <3>3, PathParts
    <3> QED BY <1>a, <3>1, <3>2, <3>4 DEF ActiveChain
  <2>2. CASE b \notin Path[tip]
    <3>1. Failed' = Failed \cup {b} /\ UNCHANGED tip
      BY <1>4, <2>2 DEF InvalidateBlock, ActiveChain, Failed
    <3> QED BY <1>c, <2>2, <3>1
  <2> QED BY <2>1, <2>2
<1>5. CASE Failed' \subseteq Failed
  BY <1>5, <1>b
<1> QED
  BY <1>1, <1>2, <1>3, <1>4, <1>5
  DEF Next, Running, vars, Failed, StartRound, DisconnectTip, RoundReturn,
      SetLastReturn, AcceptHeader, ReceiveBlock, ReceiveKnownBlock, ReconsiderBlock,
      SetLastBlock, SetLockedBlock, RemoveLockedBlock, ReceiveBannedBlock, SetBannedTxs

SoundInv == Types /\ Links /\ WayClear /\ OnlyActivation /\ ActiveChain \cap Failed = {}

LEMMA SpecSound == ASSUME Unaided PROVE Spec => []SoundInv
<1>1. Init => SoundInv
  <2>1. Init => OnlyActivation /\ ActiveChain \cap Failed = {} /\ WayClear
    BY DEF Init, OnlyActivation, Failed, WayClear
  <2> QED BY <2>1, InitTypes DEF SoundInv
<1>2. SoundInv /\ [Next]_vars => SoundInv'
  BY StepTypes, StepLinks, StepWayClear, StepOnlyActivation, StepSound DEF SoundInv
<1> QED
  BY <1>1, <1>2, PTL DEF Spec

(* Without setlastblock and lockblock the active chain is made of stored   *)
(* blocks none of which has failed, whatever is invalidated, reconsidered  *)
(* or banned, and between any two steps of a reorganisation.               *)
THEOREM ActiveChainSoundHolds == ASSUME Unaided PROVE Spec => []ActiveChainSound
<1>1. SoundInv => ActiveChainSound
  <2> SUFFICES ASSUME SoundInv PROVE ActiveChainSound
    OBVIOUS
  <2>1. Path[tip] \subseteq linked
    BY ClosedPaths DEF SoundInv, Types, Links
  <2> QED BY <2>1 DEF SoundInv, ActiveChainSound, ActiveChain
<1> QED
  BY <1>1, SpecSound, PTL

(* Without setlastblock and lockblock no step connects a block that        *)
(* carries a failure flag.                                                 *)
THEOREM FailedNotConnectedHolds == ASSUME Unaided PROVE Spec => FailedNotConnected
<1>1. ASSUME SoundInv, [Next]_vars
      PROVE  \A b \in Path[tip'] \ Path[tip] : b \notin Failed
  BY <1>1, TipMoves DEF SoundInv, OnlyActivation, WayClear
<1>2. SoundInv /\ [Next]_vars => [\A b \in Path[tip'] \ Path[tip] : b \notin Failed]_vars
  BY <1>1
<1> QED
  BY <1>2, SpecSound, PTL DEF Spec, FailedNotConnected
-----------------------------------------------------------------------------
(* No assertion fails, for an operator who names only blocks whose chain   *)
(* is stored ("careful"), or who neither invalidates nor bans.             *)
Considerate == \/ "careful" \in Commands
               \/ "invalidate" \notin Commands /\ Bannable = {}

(* Every candidate is linked, the target is on the path of one, and the    *)
(* keys that the candidates are compared by are numbers.                   *)
Ready ==
  /\ candidates \subseteq linked
  /\ cs = "step" => \E c \in candidates : target \in Path[c]
  /\ cs # "aborted"
  /\ seq \in [Blocks -> Int] /\ minedAt \in [Blocks -> Nat]

(* A candidate at or above a block is not worse than it.                   *)
LEMMA AboveNotWorse ==
  ASSUME NEW c \in Blocks, NEW b \in Path[c],
         seq \in [Blocks -> Int], minedAt \in [Blocks -> Nat]
  PROVE  ~Worse(c, b)
<1>1. b \in Blocks /\ Work \in [Blocks -> Nat]
  BY WorkIs, PathIs
<1>2. CASE b = c
  BY <1>1, <1>2 DEF Worse
<1>3. CASE b # c
  <2>1. Work[b] < Work[c]
    BY <1>3, PathParts
  <2> QED BY <1>1, <2>1 DEF Worse
<1> QED
  BY <1>2, <1>3

(* FindMostWorkChain never meets its assertions while every candidate is   *)
(* linked.                                                                 *)
LEMMA FindReady ==
  ASSUME Types, Links, candidates \subseteq linked, FindMostWorkChain
  PROVE  cs' # "aborted"
<1> DEFINE considered == {Remap(c) : c \in candidates}
           unchecked == considered \ passed
           nowPassed == passed \cup UNION {MinerMarks(c, haveData) : c \in unchecked}
           nowFailed == failedValid \cup {c \in unchecked : MinerRejects(c, haveData)}
           eligible == considered \cap nowPassed
<1>1. \/ cs' = "free"
      \/ \E best \in eligible : WalkBack(best, nowFailed \cup failedChild \cup bannedBlocks)
  BY DEF FindMostWorkChain
<1>2. cs = "find"
  BY DEF FindMostWorkChain
<1>3. ASSUME NEW best \in eligible PROVE best \in Blocks /\ Path[best] \subseteq linked
  <2>1. PICK c \in candidates : best = Remap(c)
    OBVIOUS
  <2>2. c \in Blocks /\ Path[c] \subseteq linked
    BY ClosedPaths DEF Types, Links
  <2>3. best \in Path[c] /\ best \in Blocks
    BY <2>1, <2>2, RemapBelow DEF Types
  <2> QED BY <2>2, <2>3, PathParts
<1> HIDE DEF eligible
<1>4. ASSUME NEW best \in eligible, NEW F, WalkBack(best, F) PROVE cs' # "aborted"
  <2> DEFINE bad == Branch(best) \cap F
             above == Branch(best) \ Path[Highest(bad)]
             walked == IF bad = {} THEN Branch(best) ELSE above \cup {Highest(bad)}
  <2>1. best \in Blocks /\ Branch(best) \subseteq linked /\ Branch(best) \subseteq Path[best]
    BY <1>3 DEF Branch
  <2>2. bad # {} => Highest(bad) \in bad
    <3>1. bad \in SUBSET Path[best]
      BY <2>1
    <3> HIDE DEF bad
    <3> QED BY <2>1, <3>1, HighestIs
  <2>3. walked \subseteq haveData \cap linked
    <3> HIDE DEF bad
    <3>1. bad \subseteq Branch(best)
      BY DEF bad
    <3> QED BY <2>1, <2>2, <3>1 DEF Links
  <2>4. cs' = "aborted" => ~(walked \subseteq haveData \cap linked)
    BY <1>2, <1>4 DEF WalkBack
  <2> QED BY <2>3, <2>4
<1> QED
  BY <1>1, <1>4

LEMMA StepReady ==
  ASSUME Considerate, Unaided, Types, Links, OnlyActivation, Ready, [Next]_vars
  PROVE  Ready'
<1>0. /\ tip \in Blocks /\ target \in Blocks /\ candidates \subseteq Blocks
      /\ \A c \in linked : Path[c] \subseteq linked
  BY ClosedPaths DEF Types, Links
<1> USE DEF treeVars, statusVars, minerVars, lockVars, runVars
<1>a. ASSUME candidates' \subseteq linked', cs' \notin {"step", "aborted"}, UNCHANGED <<seq, minedAt>>
      PROVE  Ready'
  BY <1>a DEF Ready
<1>1. CASE StoreBlock
  <2> DEFINE b == incoming
  <2>1. b \in Blocks /\ b \in index \ haveData /\ cs' = "free"
    BY <1>1 DEF StoreBlock, Types, Handling
  <2>2. CASE b \in BadContext
    BY <1>1, <1>a, <2>1, <2>2 DEF StoreBlock, Ready
  <2>3. CASE b \notin BadContext
    <3>1. candidates' \subseteq linked'
      BY <1>1, <2>3 DEF StoreBlock, ReceivedBlockTransactions, Ready
    <3>2. seq' \in [Blocks -> Int]
      <4>1. \/ seq' = seq
            \/ \E f \in LinkOrders(Linking(b)) :
                  seq' = [x \in Blocks |-> IF x \in Linking(b) THEN f[x] ELSE seq[x]]
        BY <1>1, <2>3 DEF StoreBlock, ReceivedBlockTransactions
      <4>2. \A f \in LinkOrders(Linking(b)) : \A x \in Linking(b) : f[x] \in Int
        BY DEF LinkOrders
      <4> QED BY <4>1, <4>2 DEF Ready
    <3>3. minedAt' \in [Blocks -> Nat]
      <4>1. minedAt' = [minedAt EXCEPT ![b] = IF b \in MinedByMe THEN Height[b]
                                                                 ELSE minedAt[Prev[b]]]
        BY <1>1, <2>3 DEF StoreBlock, UpdateChainMiningStatus
      <4>2. Height[b] \in Nat /\ b # Genesis /\ Prev[b] \in Blocks
        BY <2>1, HeightIs, TreeAssumption DEF Links
      <4> QED BY <4>1, <4>2 DEF Ready
    <3> QED BY <2>1, <3>1, <3>2, <3>3 DEF Ready
  <2> QED BY <2>2, <2>3
<1>2. CASE StartRound
  <2>1. minedAt' \in [Blocks -> Nat]
    <3>1. tip # Genesis => Prev[tip] \in Blocks
      BY <1>0, TreeAssumption
    <3> QED BY <1>2, <3>1 DEF StartRound, Ready
  <2> QED BY <1>2, <2>1 DEF StartRound, Ready
<1>3. CASE FindMostWorkChain
  <2>1. cs' # "aborted"
    BY <1>3, FindReady DEF Ready
  <2>2. candidates' \subseteq linked' /\ UNCHANGED <<seq, minedAt>>
    BY <1>3, FindChanges DEF Ready
  <2>3. cs' = "step" => \E c \in candidates' : target' \in Path[c]
    BY <1>0, <1>3, FindSafe, RemapBelow DEF Types
  <2> QED BY <2>1, <2>2, <2>3 DEF Ready
<1>4. CASE DisconnectTip
  BY <1>4 DEF DisconnectTip, Ready
<1>5. CASE ConnectTip
  <2> DEFINE new == NextToConnect
  <2>1. cs = "step" /\ tip \in Path[target] /\ tip # target
    BY <1>5 DEF ConnectTip
  <2>2. PICK c \in candidates : target \in Path[c]
    BY <2>1 DEF Ready
  <2>3. new \in Path[target]
    BY <1>0, <2>1, NextIsChild
  <2>4. c \in Blocks /\ Path[c] \subseteq linked /\ new \in Path[c]
    BY <1>0, <2>2, <2>3, PathParts DEF Ready
  <2>5. new \in haveData /\ ~Worse(c, new)
    BY <2>4, AboveNotWorse DEF Ready, Links
  <2>6. /\ candidates' \subseteq candidates
        /\ UNCHANGED <<treeVars, minerVars, target>>
        /\ cs' \in {"step", "aborted"} => candidates' = {d \in candidates : ~Worse(d, new)}
        /\ cs' = "aborted" => candidates' = {}
    BY <1>5, <2>5 DEF ConnectTip, PruneBlockIndexCandidates
  <2> HIDE DEF new
  <2>7. cs' \in {"step", "aborted"} => c \in candidates'
    BY <2>5, <2>6
  <2> QED BY <2>2, <2>6, <2>7 DEF Ready
<1>6. CASE RoundReturn
  BY <1>6, <1>a DEF RoundReturn, Ready
<1>7. CASE SetLastReturn
  BY <1>7 DEF SetLastReturn, OnlyActivation
<1>8. ASSUME NEW b \in Blocks, AcceptHeader(b) \/ ReceiveBlock(b) PROVE Ready'
  <2>1. \A next : AfterHeader(b, next) => cs' = next
    BY TreeAssumption DEF AfterHeader, OnlyActivation
  <2> QED BY <1>8, <1>a, <2>1 DEF AcceptHeader, ReceiveBlock, Ready
<1>9. ASSUME NEW b \in Blocks, ReceiveKnownBlock(b) PROVE Ready'
  BY <1>9, <1>a DEF ReceiveKnownBlock, Ready
<1>10. ASSUME NEW b \in Blocks, InvalidateBlock(b) PROVE Ready'
  <2>1. b \in linked
    BY <1>10 DEF InvalidateBlock, MayName, Considerate
  <2>2. candidates' \subseteq candidates \cup {b} /\ cs' = "free" /\ UNCHANGED <<linked, seq, minedAt>>
    BY <1>10 DEF InvalidateBlock
  <2> QED BY <1>a, <2>1, <2>2 DEF Ready
<1>11. ASSUME NEW b \in Blocks, ReconsiderBlock(b) PROVE Ready'
  BY <1>11, <1>a DEF ReconsiderBlock, Ready
<1>12. ASSUME NEW b \in Blocks, SetLastBlock(b) \/ SetLockedBlock(b) PROVE Ready'
  BY <1>12 DEF SetLastBlock, SetLockedBlock, Unaided
<1>13. CASE RemoveLockedBlock
  BY <1>13, <1>a DEF RemoveLockedBlock, Ready
<1>14. ASSUME NEW b \in Bannable, ReceiveBannedBlock(b) PROVE Ready'
  BY <1>14, <1>a DEF ReceiveBannedBlock, Ready
<1>15. ASSUME Bannable # {}, NEW b \in Bannable \cup {NoBlock}, SetBannedTxs(b) PROVE Ready'
  BY <1>15, <1>a DEF SetBannedTxs, Ready, Considerate
<1>16. CASE UNCHANGED vars
  BY <1>16 DEF vars, Ready
<1> QED
  BY <1>1, <1>2, <1>3, <1>4, <1>5, <1>6, <1>7, <1>8, <1>9, <1>10, <1>11, <1>12, <1>13,
     <1>14, <1>15, <1>16 DEF Next, Running

(* No assertion of FindMostWorkChain or PruneBlockIndexCandidates fails,   *)
(* and every block that is to be connected can be read back: for a node    *)
(* that no operator touches, and for one whose operator is careful and     *)
(* gives neither setlastblock nor lockblock.                               *)
THEOREM NeverAbortsHolds == ASSUME Unaided, Considerate PROVE Spec => []NeverAborts
<1>1. Init => Ready /\ OnlyActivation
  BY TreeAssumption DEF Init, Ready, OnlyActivation
<1>2. Types /\ Links /\ OnlyActivation /\ Ready /\ [Next]_vars => Ready' /\ OnlyActivation'
  BY StepReady, StepOnlyActivation
<1>3. Spec => [](Ready /\ OnlyActivation)
  BY <1>1, <1>2, SpecLinks, PTL DEF Spec
<1>4. Ready => NeverAborts
  BY DEF Ready, NeverAborts
<1> QED
  BY <1>3, <1>4, PTL
-----------------------------------------------------------------------------
(* The lock, while setlastblock is not given: with it the tip may be put   *)
(* anywhere, and stay there when no candidate is left.                     *)
NoSetLast == "setlast" \notin Commands

(* A tip that agrees with the lock, or a handler on its way to one.        *)
LockKept ==
  /\ cs \in {"free", "store", "find"} => Allowed(tip)
  /\ cs \in {"step", "return"} => Allowed(target)
  /\ cs = "return" => tip \in Path[target]

(* What is below a block that agrees with the lock agrees with it too.     *)
LEMMA AllowedBelow ==
  ASSUME index \subseteq Blocks, NEW b \in Blocks, NEW a \in Path[b], Allowed(b)
  PROVE  Allowed(a)
<1>1. CASE pindexLockedBlock = NoBlock
  BY <1>1 DEF Allowed
<1>2. CASE pindexLockedBlock # NoBlock
  <2>1. pindexLockedBlock \in Blocks
    BY <1>2 DEF pindexLockedBlock
  <2>2. CASE pindexLockedBlock \in Path[b]
    BY <2>2, PathLinear DEF Allowed
  <2>3. CASE b \in Path[pindexLockedBlock]
    BY <2>1, <2>3, PathParts DEF Allowed
  <2> QED BY <1>2, <2>2, <2>3 DEF Allowed
<1> QED
  BY <1>1, <1>2

(* What a candidate stands for agrees with the lock.                       *)
LEMMA RemapAllowed ==
  ASSUME index \subseteq Blocks, NEW c \in Blocks
  PROVE  Allowed(Remap(c))
<1>1. CASE pindexLockedBlock = NoBlock \/ pindexLockedBlock \in Path[c]
  BY <1>1 DEF Remap, Allowed
<1>2. CASE ~(pindexLockedBlock = NoBlock \/ pindexLockedBlock \in Path[c])
  <2>1. pindexLockedBlock \in Blocks
    BY <1>2 DEF pindexLockedBlock
  <2> QED BY <1>2, <2>1, CommonAncestor DEF Remap, Allowed
<1> QED
  BY <1>1, <1>2

LEMMA StepLockKept ==
  ASSUME NoSetLast, Types, Links, LockKept, [Next]_vars
  PROVE  LockKept'
<1>0. /\ tip \in Blocks /\ target \in Blocks /\ index \subseteq Blocks
      /\ candidates \subseteq Blocks /\ NoBlock \notin index
  BY TreeAssumption DEF Types
<1> USE DEF treeVars, statusVars, minerVars, lockVars, runVars
<1>a. ASSUME UNCHANGED <<index, locked, tip, target>>, cs \in {"free", "store", "find"},
             cs' \in {"free", "store", "find", "aborted"}
      PROVE  LockKept'
  BY <1>a DEF LockKept, Allowed, pindexLockedBlock
<1>1. CASE StoreBlock
  BY <1>1, <1>a DEF StoreBlock
<1>2. CASE StartRound
  BY <1>2, <1>a DEF StartRound
<1>3. CASE FindMostWorkChain
  <2>1. UNCHANGED <<index, locked, tip>> /\ cs' \in {"free", "find", "aborted", "step"} /\ cs = "find"
    BY <1>3, FindChanges DEF FindMostWorkChain
  <2>2. cs' = "step" => Allowed(target')
    BY <1>0, <1>3, FindSafe, RemapAllowed
  <2> QED BY <2>1, <2>2 DEF LockKept, Allowed, pindexLockedBlock
<1>4. CASE DisconnectTip
  <2>1. cs = "step" /\ cs' \in {"step", "return"} /\ UNCHANGED <<index, locked, target>>
        /\ (cs' = "return" => tip' = target)
    BY <1>4 DEF DisconnectTip
  <2>2. target \in Path[target]
    BY <1>0, PathEnds
  <2> QED BY <2>1, <2>2 DEF LockKept, Allowed, pindexLockedBlock
<1>5. CASE ConnectTip
  <2>1. cs = "step" /\ tip \in Path[target] /\ tip # target
    BY <1>5 DEF ConnectTip
  <2>2. NextToConnect \in Path[target]
    BY <1>0, <2>1, NextIsChild
  <2>3. /\ cs' \in {"free", "step", "return", "aborted"}
        /\ tip' \in {tip, NextToConnect} /\ (cs' = "free" => tip' = tip)
        /\ UNCHANGED <<index, locked, target>>
    BY <1>5 DEF ConnectTip
  <2>4. Allowed(tip)
    BY <1>0, <2>1, AllowedBelow DEF LockKept
  <2> QED BY <2>1, <2>2, <2>3, <2>4 DEF LockKept, Allowed, pindexLockedBlock
<1>6. CASE RoundReturn
  <2>1. cs = "return" /\ cs' = "free" /\ UNCHANGED <<index, locked, tip, target>>
    BY <1>6 DEF RoundReturn
  <2>2. Allowed(tip)
    BY <1>0, <2>1, AllowedBelow DEF LockKept
  <2> QED BY <2>1, <2>2 DEF LockKept, Allowed, pindexLockedBlock
<1>7. CASE SetLastReturn
  <2>1. cs = "return" /\ UNCHANGED <<index, locked, tip, target>>
        /\ cs' \in {"store", "free", "step"}
    BY <1>7 DEF SetLastReturn
  <2>2. Allowed(tip) /\ Allowed(target)
    BY <1>0, <2>1, AllowedBelow DEF LockKept
  <2> QED BY <2>1, <2>2 DEF LockKept, Allowed, pindexLockedBlock
<1>8. ASSUME NEW b \in Blocks, NEW next \in {"free", "store"}, AfterHeader(b, next),
             b \notin index => Prev[b] \in index,
             cs = "free", index' = index \cup {b}, UNCHANGED <<locked, tip>>
      PROVE  LockKept'
  <2>1. CASE b \notin index /\ b = locked
    <3>1. /\ cs' = (IF FindFork(b) = tip THEN "return" ELSE "step")
          /\ target' = FindFork(b)
      BY <1>8, <2>1 DEF AfterHeader, StartSetLast
    <3>2. FindFork(b) \in Path[b] /\ FindFork(b) \in Blocks
      BY <1>0, CommonAncestor DEF FindFork
    <3>3. FindFork(b) \in Path[FindFork(b)]
      BY <3>2, PathEnds
    <3>4. locked \in index'
      BY <1>8, <2>1
    <3> QED BY <1>8, <2>1, <3>1, <3>2, <3>3, <3>4 DEF LockKept, Allowed, pindexLockedBlock
  <2>2. CASE b \in index \/ b # locked
    <3>1. cs' = next /\ UNCHANGED target
      BY <1>8, <2>2 DEF AfterHeader
    <3>2. locked' \in index' <=> locked \in index
      BY <1>8, <2>2
    <3> QED BY <1>8, <3>1, <3>2 DEF LockKept, Allowed, pindexLockedBlock
  <2> QED BY <2>1, <2>2
<1>9. ASSUME NEW b \in Blocks, AcceptHeader(b) PROVE LockKept'
  BY <1>8, <1>9 DEF AcceptHeader, HeaderOK
<1>10. ASSUME NEW b \in Blocks, ReceiveBlock(b) PROVE LockKept'
  BY <1>8, <1>10 DEF ReceiveBlock, HeaderOK
<1>11. ASSUME NEW b \in Blocks, ReceiveKnownBlock(b) PROVE LockKept'
  BY <1>11, <1>a DEF ReceiveKnownBlock
<1>12. ASSUME NEW b \in Blocks, InvalidateBlock(b) PROVE LockKept'
  <2>1. /\ cs = "free" /\ UNCHANGED <<cs, index, locked, target>> /\ b # Genesis
        /\ tip' = IF b \in Path[tip] THEN Prev[b] ELSE tip
    BY <1>12 DEF InvalidateBlock, ActiveChain
  <2>2. tip' \in Path[tip]
    BY <1>0, <2>1, PathEnds, PathParts
  <2>3. Allowed(tip')
    BY <1>0, <2>1, <2>2, AllowedBelow DEF LockKept
  <2> QED BY <2>1, <2>3 DEF LockKept, Allowed, pindexLockedBlock
<1>13. ASSUME NEW b \in Blocks, ReconsiderBlock(b) PROVE LockKept'
  BY <1>13, <1>a DEF ReconsiderBlock
<1>14. ASSUME NEW b \in Blocks, SetLastBlock(b) PROVE LockKept'
  BY <1>14 DEF SetLastBlock, NoSetLast
<1>15. ASSUME NEW h \in Blocks, SetLockedBlock(h) PROVE LockKept'
  <2>1. cs = "free" /\ locked' = h /\ UNCHANGED <<index, tip>>
    BY <1>15 DEF SetLockedBlock
  <2>2. CASE h \in index /\ h \notin ActiveChain
    <3>1. PICK w \in LockWalk(h) : StartSetLast(w)
      BY <1>15, <2>2 DEF SetLockedBlock
    <3>2. w \in index /\ (h \in Path[w] \/ w \in Path[h])
      BY <2>2, LockWalkIs
    <3>3. target' = w /\ cs' = (IF w = tip THEN "return" ELSE "step") /\ w \in Path[w]
      BY <1>0, <3>1, <3>2, PathEnds DEF StartSetLast
    <3> QED BY <2>1, <2>2, <3>2, <3>3 DEF LockKept, Allowed, pindexLockedBlock
  <2>3. CASE h \notin index \/ h \in Path[tip]
    <3>1. cs' = "free"
      BY <1>15, <2>1, <2>3 DEF SetLockedBlock, ActiveChain
    <3> QED BY <2>1, <2>3, <3>1 DEF LockKept, Allowed, pindexLockedBlock
  <2> QED BY <2>2, <2>3 DEF ActiveChain
<1>16. CASE RemoveLockedBlock
  BY <1>0, <1>16 DEF RemoveLockedBlock, LockKept, Allowed, pindexLockedBlock
<1>17. ASSUME NEW b \in Bannable, ReceiveBannedBlock(b) PROVE LockKept'
  BY <1>17, <1>a DEF ReceiveBannedBlock
<1>18. ASSUME NEW b \in Bannable \cup {NoBlock}, SetBannedTxs(b) PROVE LockKept'
  BY <1>18, <1>a DEF SetBannedTxs
<1>19. CASE UNCHANGED vars
  BY <1>19 DEF vars, LockKept, Allowed, pindexLockedBlock
<1> QED
  BY <1>1, <1>2, <1>3, <1>4, <1>5, <1>6, <1>7, <1>9, <1>10, <1>11, <1>12, <1>13,
     <1>14, <1>15, <1>16, <1>17, <1>18, <1>19 DEF Next, Running

(* Activation only ends with cs_main released.                             *)
LEMMA ActivationEndsFree ==
  ASSUME Types, [Next]_vars, activating, ~activating'
  PROVE  cs' = "free"
<1> USE DEF treeVars, statusVars, minerVars, lockVars, runVars
<1>1. CASE FindMostWorkChain
  <2>1. \A best, F : WalkBack(best, F) => (cs' = "free" \/ UNCHANGED activating)
    BY DEF WalkBack
  <2> QED BY <1>1, <2>1 DEF FindMostWorkChain
<1>2. CASE ConnectTip
  BY <1>2 DEF ConnectTip
<1>3. CASE RoundReturn
  BY <1>3 DEF RoundReturn
<1>4. CASE UNCHANGED activating \/ activating'
  BY <1>4
<1> QED
  BY <1>1, <1>2, <1>3, <1>4
  DEF Next, Running, vars, StoreBlock, StartRound, DisconnectTip, SetLastReturn,
      AcceptHeader, ReceiveBlock, ReceiveKnownBlock, InvalidateBlock, ReconsiderBlock,
      SetLastBlock, SetLockedBlock, RemoveLockedBlock, ReceiveBannedBlock, SetBannedTxs

(* -lockblock, while setlastblock is not given: ActivateBestChain never    *)
(* ends on a tip that is neither on the way to the locked block nor past   *)
(* it, whatever is invalidated or banned meanwhile.                        *)
THEOREM LockRespectedHolds == ASSUME NoSetLast PROVE Spec => LockRespected
<1>1. Init => LockKept
  BY TreeAssumption DEF Init, LockKept, Allowed, pindexLockedBlock
<1>2. Types /\ Links /\ LockKept /\ [Next]_vars => LockKept'
  BY StepLockKept
<1>3. Types /\ Links /\ LockKept /\ [Next]_vars => [activating /\ ~activating' => Allowed(tip)']_vars
  <2> SUFFICES ASSUME Types, Links, LockKept, [Next]_vars, activating, ~activating'
               PROVE  Allowed(tip)'
    OBVIOUS
  <2>1. cs' = "free" /\ LockKept'
    BY <1>2, ActivationEndsFree
  <2> QED BY <2>1 DEF LockKept
<1> QED
  BY <1>1, <1>2, <1>3, SpecLinks, PTL DEF Spec, LockRespected
-----------------------------------------------------------------------------
(* The counters, when the blocks that ever arrive are finitely many.       *)

(* A path has one block for every height up to that of its block.          *)
LEMMA PathCount ==
  ASSUME IsFiniteSet(Blocks), NEW b \in Blocks
  PROVE  Height[b] \in 0 .. Cardinality(Blocks)
<1> DEFINE Good(x) == IsFiniteSet(Path[x]) /\ Cardinality(Path[x]) = Height[x] + 1
           S == {x \in Blocks : ~Good(x)}
<1>1. \A x \in Blocks : Good(x)
  <2>1. SUFFICES ASSUME S # {} PROVE FALSE
    <3> HIDE DEF Good
    <3> QED OBVIOUS
  <2>2. PICK x \in S : x = Genesis \/ Prev[x] \notin S
    BY <2>1, EndsInGenesis
  <2>3. CASE x = Genesis
    <3>1. IsFiniteSet({Genesis}) /\ Cardinality({Genesis}) = 1
      BY FS_Singleton, Zenon
    <3>2. Path[x] = {Genesis} /\ Height[x] + 1 = 1
      BY <2>3, PathIs, HeightIs
    <3>3. Good(x)
      BY <3>1, <3>2
    <3> QED BY <2>2, <3>3
  <2>4. CASE x # Genesis
    <3>1. /\ Prev[x] \in Blocks /\ Path[x] = Path[Prev[x]] \cup {x}
          /\ Height[x] = 1 + Height[Prev[x]] /\ Height[Prev[x]] \in Nat
      BY <2>2, <2>4, PathIs, HeightIs, TreeAssumption
    <3>2. Good(Prev[x])
      <4> HIDE DEF Good
      <4> QED BY <2>2, <2>4, <3>1
    <3>3. x \notin Path[Prev[x]]
      BY <3>1, PathParts
    <3>4. IsFiniteSet(Path[x]) /\ Cardinality(Path[x]) = Cardinality(Path[Prev[x]]) + 1
      BY <3>1, <3>2, <3>3, FS_AddElement
    <3>5. Good(x)
      BY <3>1, <3>2, <3>4
    <3> QED BY <2>2, <3>5
  <2> QED BY <2>3, <2>4
<1>2. Path[b] \in SUBSET Blocks /\ Height[b] \in Nat
  BY PathIs, HeightIs
<1>3. Cardinality(Path[b]) <= Cardinality(Blocks) /\ Cardinality(Blocks) \in Nat
  BY <1>2, FS_Subset, FS_CardinalityType
<1>4. Cardinality(Path[b]) = Height[b] + 1
  BY <1>1
<1> QED
  BY <1>2, <1>3, <1>4

(* nBlockSequenceId counts the blocks linked so far.                       *)
Counts ==
  /\ nextSeq = 1 + Cardinality(linked)
  /\ seq \in [Blocks -> 0 .. Cardinality(Blocks)]
  /\ minedAt \in [Blocks -> 0 .. Cardinality(Blocks)]

LEMMA StepCounts ==
  ASSUME IsFiniteSet(Blocks), Types, Links, Counts, [Next]_vars, Links', Types'
  PROVE  Counts'
<1> USE DEF treeVars, statusVars, minerVars, lockVars, runVars
<1> DEFINE N == Cardinality(Blocks)
<1>0. N \in Nat
  BY FS_CardinalityType
<1>1. CASE StoreBlock
  <2> DEFINE b == incoming
             L == Linking(b)
  <2>1. b \in index \ haveData /\ b \in Blocks /\ b # Genesis /\ Prev[b] \in Blocks
    BY <1>1, TreeAssumption DEF StoreBlock, Types, Links, Handling
  <2>2. CASE b \in BadContext
    BY <1>1, <2>2 DEF StoreBlock, Counts
  <2>3. CASE b \notin BadContext
    <3>1. minedAt' \in [Blocks -> 0 .. N]
      <4>1. minedAt' = [minedAt EXCEPT ![b] = IF b \in MinedByMe THEN Height[b]
                                                                 ELSE minedAt[Prev[b]]]
        BY <1>1, <2>3 DEF StoreBlock, UpdateChainMiningStatus
      <4>2. Height[b] \in 0 .. N
        BY <2>1, PathCount
      <4>3. minedAt \in [Blocks -> 0 .. N]
        BY DEF Counts
      <4> HIDE DEF N
      <4> QED BY <2>1, <4>1, <4>2, <4>3
    <3>2. CASE Prev[b] \notin linked
      <4>1. UNCHANGED <<linked, seq, nextSeq>>
        BY <1>1, <2>3, <3>2 DEF StoreBlock, ReceivedBlockTransactions
      <4> QED BY <3>1, <4>1 DEF Counts
    <3>3. CASE Prev[b] \in linked
      <4>1. /\ linked' = linked \cup L /\ nextSeq' = nextSeq + Cardinality(L)
            /\ \E f \in LinkOrders(L) : seq' = [x \in Blocks |-> IF x \in L THEN f[x] ELSE seq[x]]
        BY <1>1, <2>3, <3>3 DEF StoreBlock, ReceivedBlockTransactions
      <4>2. L \subseteq {b} \cup unlinked
        BY <2>1, <3>3, LinkingClosed
      <4>3. L \in SUBSET Blocks /\ linked \in SUBSET Blocks /\ L \cap linked = {}
        BY <2>1, <4>2 DEF Links, Types
      <4>4. IsFiniteSet(L) /\ IsFiniteSet(linked)
        BY <4>3, FS_Subset
      <4>5. Cardinality(linked') = Cardinality(linked) + Cardinality(L)
            /\ Cardinality(linked) \in Nat /\ Cardinality(L) \in Nat
        <5>1. Cardinality(linked) \in Nat /\ Cardinality(L) \in Nat
          BY <4>4, FS_CardinalityType
        <5>2. Cardinality(L \cap linked) = 0
          BY <4>3, FS_EmptySet, Zenon
        <5>3. Cardinality(L \cup linked)
                = Cardinality(L) + Cardinality(linked) - Cardinality(L \cap linked)
          BY <4>4, FS_Union, Zenon
        <5>4. linked' = L \cup linked
          BY <4>1
        <5> QED BY <5>1, <5>2, <5>3, <5>4
      <4>6. linked' \in SUBSET Blocks
        BY <4>1, <4>3
      <4>7. Cardinality(linked') <= N
        BY <4>6, FS_Subset
      <4>8. PICK f \in LinkOrders(L) : seq' = [x \in Blocks |-> IF x \in L THEN f[x] ELSE seq[x]]
        BY <4>1
      <4>9. \A x \in L : f[x] \in nextSeq .. nextSeq + Cardinality(L) - 1
        BY DEF LinkOrders
      <4> HIDE DEF N, L
      <4>10. \A x \in L : f[x] \in 0 .. N
        BY <1>0, <4>5, <4>7, <4>9 DEF Counts
      <4>11. seq' \in [Blocks -> 0 .. N]
        BY <4>8, <4>10 DEF Counts, N
      <4>12. nextSeq' = 1 + Cardinality(linked')
        BY <4>1, <4>5 DEF Counts
      <4> QED BY <3>1, <4>11, <4>12 DEF Counts, N
    <3> QED BY <3>2, <3>3
  <2> QED BY <2>2, <2>3
<1>2. CASE StartRound
  <2>1. tip \in Blocks /\ (tip # Genesis => Prev[tip] \in Blocks)
    BY TreeAssumption DEF Types
  <2>2. UNCHANGED <<linked, seq, nextSeq>>
    BY <1>2 DEF StartRound
  <2>3. minedAt' \in [Blocks -> 0 .. N]
    <3> HIDE DEF N
    <3>1. minedAt \in [Blocks -> 0 .. N]
      BY DEF Counts, N
    <3> QED BY <1>2, <2>1, <3>1 DEF StartRound
  <2> QED BY <2>2, <2>3 DEF Counts
<1>3. CASE UNCHANGED <<linked, seq, nextSeq, minedAt>>
  BY <1>3 DEF Counts
<1> QED
  BY <1>1, <1>2, <1>3
  DEF Next, Running, vars, FindMostWorkChain, DisconnectTip, ConnectTip, RoundReturn,
      SetLastReturn, AcceptHeader, ReceiveBlock, ReceiveKnownBlock, InvalidateBlock,
      ReconsiderBlock, SetLastBlock, SetLockedBlock, RemoveLockedBlock,
      ReceiveBannedBlock, SetBannedTxs

(* Every reachable state is well typed: the sets stay within the index and *)
(* nSequenceId is handed out once per linked block, whatever the commands. *)
THEOREM TypeOKHolds == ASSUME IsFiniteSet(Blocks) PROVE Spec => []TypeOK
<1>1. Init => Counts
  <2> SUFFICES ASSUME Init PROVE Counts
    OBVIOUS
  <2>1. Cardinality({Genesis}) = 1 /\ Cardinality({Genesis}) <= Cardinality(Blocks)
        /\ Cardinality(Blocks) \in Nat
    <3>1. Cardinality({Genesis}) = 1
      BY FS_Singleton, Zenon
    <3>2. {Genesis} \in SUBSET Blocks
      BY TreeAssumption
    <3> QED BY <3>1, <3>2, FS_Subset, FS_CardinalityType
  <2> QED BY <2>1 DEF Init, Counts
<1>2. Types /\ Links /\ Counts /\ [Next]_vars => Counts'
  BY StepCounts, StepTypes, StepLinks
<1>3. Types /\ Links /\ Counts => TypeOK
  <2> SUFFICES ASSUME Types, Links, Counts PROVE TypeOK
    OBVIOUS
  <2>1. linked \in SUBSET Blocks
    BY DEF Types, Links
  <2>2. Cardinality(linked) \in Nat /\ Cardinality(linked) <= Cardinality(Blocks)
        /\ Cardinality(Blocks) \in Nat
    BY <2>1, FS_Subset, FS_CardinalityType
  <2>3. nextSeq \in 1 .. Cardinality(Blocks) + 1
    BY <2>2 DEF Counts
  <2> QED BY <2>3 DEF Types, Links, Counts, TypeOK
<1> QED
  BY <1>1, <1>2, <1>3, SpecLinks, PTL DEF Spec
-----------------------------------------------------------------------------
(* The best chain becomes active, for a node whose wallet does not mine    *)
(* (Unmined) and whose operator may only reconsider. With invalidateblock  *)
(* it is false, and so it is with a wallet that mines, whose keys move the *)
(* old tip out of the candidates.                                          *)
Unmined == Unaided /\ MinedByMe = {} /\ CanMineAt = {} /\ Bannable = {}
Bystander == Unmined /\ "invalidate" \notin Commands

(* A block that is not found invalid, with all its ancestors.              *)
Valid(b) == Path[b] \cap (BadTx \cup BadMiner) = {}

(* What a wallet that does not mine leaves alone.                          *)
Plain == /\ canMine = {} /\ minedAt = [b \in Blocks |-> 0]
         /\ bannedBlocks = {} /\ banned = NoBlock

(* Blocks are marked for a cause.                                          *)
Caused == /\ \A x \in haveData \cap Failed : ~Valid(x)
          /\ cs = "store" => incoming \notin Failed /\ Branch(Prev[incoming]) \cap Failed = {}
          /\ Valid(tip)

(* A round works towards a candidate.                                      *)
OnTarget == cs = "step" => target \in candidates

(* The best valid chain is not lost sight of: every valid linked block has *)
(* a valid candidate that is not worse, the target is as good as any of    *)
(* them, and activation ends with something that is.                       *)
BestKept ==
  /\ \A b \in linked : Valid(b) => \E c \in candidates : Valid(c) /\ ~Worse(c, b)
  /\ cs \in {"step", "return"} => \A c \in candidates : Valid(c) => ~Worse(target, c)
  /\ cs \in {"find", "step", "return"} => activating
  /\ cs \in {"free", "store"} /\ ~activating =>
       \E t \in Ends : \A b \in linked : Valid(b) => Work[b] <= Work[t]

(* What activation ended with stays while blocks of a chain that is not    *)
(* all stored are marked.                                                  *)
LEMMA EndsKept ==
  ASSUME Types, Links, candidates \subseteq linked, UNCHANGED tip,
         candidates \subseteq candidates', NEW b, b \notin linked, Failed' \subseteq Failed \cup {b}
  PROVE  Ends \subseteq Ends'
<1>1. \A c \in candidates : Path[c] \subseteq linked
  BY ClosedPaths DEF Types, Links
<1>2. \A c \in candidates : Barred(c) => Barred(c)'
  BY <1>1 DEF Barred
<1> QED
  BY <1>2 DEF Ends

(* A round that stops without a verdict has met a refused coinbase: its    *)
(* target is barred.                                                       *)
LEMMA StopsBarred ==
  ASSUME SoundInv, OnTarget, Bannable = {}, banned = NoBlock, ConnectTip, cs' = "free"
  PROVE  /\ UNCHANGED <<candidates, tip, failedValid, failedChild>>
         /\ target \in Ends'
<1>0. Types /\ Links /\ WayClear /\ OnlyActivation /\ ActiveChain \cap Failed = {}
      /\ tip \in Blocks /\ target \in Blocks
  BY DEF SoundInv, Types
<1>1. /\ NextToConnect \in Path[target] /\ Prev[NextToConnect] = tip /\ NextToConnect # NoBlock
  BY <1>0, NextIsChild, TreeAssumption DEF ConnectTip
<1>2. /\ UNCHANGED <<candidates, tip, failedValid, failedChild>>
      /\ NextToConnect \in BadCoinbase /\ cs = "step"
  BY <1>1 DEF ConnectTip, CheckBlockBans, CoinbaseRefused
<1>3. Path[target] \cap Failed = {}
  BY <1>0, <1>2 DEF WayClear, OnlyActivation, ActiveChain
<1>4. Failed' = Failed
  BY <1>2 DEF Failed
<1>5. Barred(target)
  BY <1>1, <1>2, <1>3 DEF Barred
<1>6. target \in Ends
  BY <1>2, <1>5 DEF Ends, OnTarget
<1>7. Ends' = Ends
  BY <1>2, <1>4 DEF Ends, Barred
<1> QED
  BY <1>2, <1>6, <1>7

LEMMA FindTarget ==
  ASSUME OnlyActivation, FindMostWorkChain, cs' = "step"
  PROVE  target' \in candidates'
<1> DEFINE considered == {Remap(c) : c \in candidates}
<1>1. considered = candidates
  BY DEF Remap, pindexLockedBlock, OnlyActivation
<1>2. \A best, failed : WalkBack(best, failed) => target' = best /\ candidates' = candidates
  BY DEF WalkBack, FindMostWorkChain
<1>3. \E best \in considered : \E failed : WalkBack(best, failed)
  BY DEF FindMostWorkChain
<1> QED
  BY <1>1, <1>2, <1>3

(* The target stays a candidate: what it is pruned by is on its own path.  *)
LEMMA StepOnTarget ==
  ASSUME Types, Links, OnlyActivation, Unaided, Ready, OnTarget, [Next]_vars
  PROVE  OnTarget'
<1> SUFFICES ASSUME cs' = "step" PROVE target' \in candidates'
  BY DEF OnTarget
<1> USE DEF treeVars, statusVars, minerVars, lockVars, runVars
<1>0. tip \in Blocks /\ target \in Blocks /\ candidates \subseteq Blocks
  BY DEF Types, Links, Ready
<1>1. CASE FindMostWorkChain
  BY <1>1, FindTarget
<1>2. CASE ConnectTip
  <2>1. NextToConnect \in Path[target]
    BY <1>0, <1>2, NextIsChild DEF ConnectTip
  <2>2. ~Worse(target, NextToConnect)
    BY <1>0, <2>1, AboveNotWorse DEF Ready
  <2>3. target \in candidates /\ target' = target
    BY <1>2 DEF ConnectTip, OnTarget
  <2>4. candidates' = {c \in candidates : ~Worse(c, NextToConnect)}
    BY <1>2 DEF ConnectTip, PruneBlockIndexCandidates
  <2> QED BY <2>2, <2>3, <2>4
<1>3. CASE DisconnectTip
  BY <1>3 DEF DisconnectTip, OnTarget
<1>4. ASSUME NEW b \in Blocks, AcceptHeader(b) \/ ReceiveBlock(b) PROVE FALSE
  <2>1. \A next : AfterHeader(b, next) => cs' = next
    BY TreeAssumption DEF AfterHeader, OnlyActivation
  <2> QED BY <1>4, <2>1 DEF AcceptHeader, ReceiveBlock
<1>5. ASSUME NEW b \in Blocks,
             ReceiveKnownBlock(b) \/ InvalidateBlock(b) \/ ReconsiderBlock(b)
      PROVE  FALSE
  BY <1>5 DEF ReceiveKnownBlock, InvalidateBlock, ReconsiderBlock
<1>6. ASSUME NEW b \in Blocks, SetLastBlock(b) \/ SetLockedBlock(b) PROVE FALSE
  BY <1>6 DEF SetLastBlock, SetLockedBlock, Unaided
<1>7. CASE UNCHANGED vars
  BY <1>7 DEF vars, OnTarget
<1>8. CASE StoreBlock \/ StartRound \/ RoundReturn \/ SetLastReturn \/ RemoveLockedBlock
  BY <1>8 DEF StoreBlock, StartRound, RoundReturn, SetLastReturn, RemoveLockedBlock, OnlyActivation
<1>9. ASSUME NEW b, ReceiveBannedBlock(b) \/ SetBannedTxs(b) PROVE FALSE
  BY <1>9 DEF ReceiveBannedBlock, SetBannedTxs
<1> QED
  BY <1>1, <1>2, <1>3, <1>4, <1>5, <1>6, <1>7, <1>8, <1>9 DEF Next, Running

(* Blocks with equal mining keys are sorted by work, then by age.          *)
LEMMA WorseIs ==
  ASSUME Plain, NEW a \in Blocks, NEW b \in Blocks
  PROVE  Worse(a, b) <=> \/ Work[a] < Work[b]
                         \/ Work[a] = Work[b] /\ seq[a] > seq[b]
<1>1. minedAt[a] = 0 /\ minedAt[b] = 0 /\ a \notin canMine /\ b \notin canMine
  BY DEF Plain
<1> QED
  BY <1>1 DEF Worse

(* That order is total.                                                    *)
LEMMA WorseOrder ==
  ASSUME Plain, seq \in [Blocks -> Int],
         NEW a \in Blocks, NEW b \in Blocks, NEW c \in Blocks
  PROVE  /\ ~Worse(a, a)
         /\ Worse(a, b) => ~Worse(b, a)
         /\ ~Worse(a, b) /\ ~Worse(b, c) => ~Worse(a, c)
         /\ ~Worse(a, b) => Work[b] <= Work[a]
<1>1. Work[a] \in Nat /\ Work[b] \in Nat /\ Work[c] \in Nat
  BY WorkIs
<1>2. seq[a] \in Int /\ seq[b] \in Int /\ seq[c] \in Int
  OBVIOUS
<1> QED
  BY <1>1, <1>2, WorseIs

(* What is above a block that does not connect does not connect.           *)
LEMMA InvalidAbove ==
  ASSUME NEW b \in Blocks, NEW a \in Path[b], Valid(b)
  PROVE  Valid(a)
  BY PathParts DEF Valid

LEMMA StepPlain ==
  ASSUME Unmined, Types, Links, OnlyActivation, Plain, [Next]_vars
  PROVE  Plain'
<1> USE DEF treeVars, statusVars, minerVars, lockVars, runVars, Plain
<1>1. CASE StoreBlock
  <2>1. CASE incoming \in BadContext
    BY <1>1, <2>1 DEF StoreBlock
  <2>2. CASE incoming \notin BadContext
    <3>1. incoming \in Blocks /\ incoming # Genesis
      BY <1>1 DEF StoreBlock, Types, Links, Handling
    <3>2. Prev[incoming] \in Blocks
      BY <3>1, TreeAssumption
    <3>3. /\ canMine' = {} /\ UNCHANGED <<banned, bannedBlocks>>
          /\ minedAt' = [minedAt EXCEPT ![incoming] = minedAt[Prev[incoming]]]
      BY <1>1, <2>2 DEF StoreBlock, UpdateChainMiningStatus, Unmined
    <3> QED BY <3>1, <3>2, <3>3
  <2> QED BY <2>1, <2>2
<1>2. CASE StartRound
  <2>1. tip # Genesis => Prev[tip] \in Blocks
    BY TreeAssumption DEF Types
  <2> QED BY <1>2, <2>1 DEF StartRound, Types, Unmined
<1>3. CASE FindMostWorkChain
  BY <1>3, FindChanges
<1>4. CASE ConnectTip
  <2>1. NextToConnect \in Blocks
    BY <1>4, NextIsChild DEF ConnectTip, Types
  <2>2. NextToConnect # banned
    BY <2>1, TreeAssumption
  <2> QED BY <1>4, <2>2 DEF ConnectTip, CheckBlockBans
<1>5. CASE RoundReturn
  BY <1>5 DEF RoundReturn, Unmined
<1>6. ASSUME NEW b \in Bannable PROVE FALSE
  BY <1>6 DEF Unmined
<1> QED
  BY <1>1, <1>2, <1>3, <1>4, <1>5, <1>6
  DEF Next, Running, vars, Unmined, DisconnectTip, SetLastReturn, AcceptHeader, ReceiveBlock,
      ReceiveKnownBlock, InvalidateBlock, ReconsiderBlock, SetLastBlock, SetLockedBlock,
      RemoveLockedBlock

(* What FindMostWorkChain does without a lock and bans: all it marks and   *)
(* drops does not connect, and every candidate that does is looked at.     *)
LEMMA FindBest ==
  ASSUME Types, Links, OnlyActivation, Plain, Caused, BestKept,
         candidates \subseteq linked, FindMostWorkChain
  PROVE  /\ \A x \in haveData \cap Failed' : ~Valid(x)
         /\ \A c \in candidates \ candidates' : ~Valid(c)
         /\ cs' = "find" => activating'
         /\ cs' = "step" => /\ activating'
                            /\ \A c \in candidates : Valid(c) => ~Worse(target', c)
         /\ cs' = "free" => /\ tip \in Blocks
                            /\ \A c \in candidates : Valid(c) => ~Worse(tip, c)
<1> DEFINE considered == {Remap(c) : c \in candidates}
           unchecked == considered \ passed
           nowPassed == passed \cup UNION {MinerMarks(c, haveData) : c \in unchecked}
           nowFailed == failedValid \cup {c \in unchecked : MinerRejects(c, haveData)}
           eligible == considered \cap nowPassed
           failed == nowFailed \cup failedChild \cup bannedBlocks
<1>0. /\ linked \subseteq haveData /\ haveData \subseteq Blocks /\ candidates \subseteq Blocks
      /\ \A b \in linked : b \in Blocks /\ Path[b] \subseteq linked
      /\ tip \in Blocks /\ activating
  BY ClosedPaths DEF Types, Links, FindMostWorkChain, BestKept
<1>1. considered = candidates
  BY DEF Remap, pindexLockedBlock, OnlyActivation
<1>2. ASSUME NEW c \in candidates, Valid(c) PROVE Path[c] \cap Failed = {}
  BY <1>0, <1>2, InvalidAbove DEF Caused
<1>3. ASSUME NEW c \in candidates, MinerRejects(c, haveData) PROVE ~Valid(c)
  BY <1>2, <1>3 DEF MinerRejects, Branch, Valid
<1>4. ASSUME NEW c \in candidates, Valid(c) PROVE c \in eligible
  <2>1. c \in MinerMarks(c, haveData)
    <3>1. CASE MinerExempt(c)
      BY <3>1 DEF MinerMarks
    <3>2. CASE ~MinerExempt(c)
      <4>1. c \in haveData /\ Branch(c) \cap Failed = {}
        BY <1>0, <1>2, <1>4 DEF Branch
      <4>2. c \in Branch(c)
        BY <1>0, <3>2, PathEnds DEF Branch, MinerExempt
      <4>3. Branch(c) \subseteq haveData \ BadMiner
        BY <1>0, <1>4 DEF Branch, Valid
      <4> QED BY <3>2, <4>1, <4>2, <4>3 DEF MinerMarks
    <3> QED BY <3>1, <3>2
  <2> QED BY <1>1, <2>1
<1>5. \A x \in haveData \cap failed : ~Valid(x)
  BY <1>1, <1>3 DEF Caused, Plain, Failed
<1>6. eligible # {}
  <2>1. Valid(Genesis)
    BY PathIs, TreeAssumption DEF Valid
  <2>2. PICK c \in candidates : Valid(c)
    BY <2>1 DEF BestKept, Links
  <2> HIDE DEF eligible
  <2> QED BY <1>4, <2>2
<1>7. eligible \subseteq candidates
  BY <1>1
<1>8. failedValid' = nowFailed /\ cs = "find"
      /\ \E best \in eligible : /\ \A c \in eligible : ~Worse(best, c)
                                /\ WalkBack(best, failed)
  BY <1>6 DEF FindMostWorkChain
<1> HIDE DEF eligible
<1>9. PICK best \in eligible : (\A c \in eligible : ~Worse(best, c)) /\ WalkBack(best, failed)
  BY <1>8
<1>10. best \in Blocks /\ Path[best] \subseteq linked /\ Path[best] \subseteq haveData
  BY <1>0, <1>7
<1> DEFINE bad == Branch(best) \cap failed
           above == Branch(best) \ Path[Highest(bad)]
<1>11. ASSUME bad # {} PROVE \A x \in above \cup {Highest(bad)} : ~Valid(x)
  <2>1. bad \subseteq Path[best]
    BY DEF Branch
  <2>2. Highest(bad) \in bad
    <3> HIDE DEF bad
    <3> QED BY <1>10, <1>11, <2>1, HighestIs
  <2>3. ~Valid(Highest(bad)) /\ Highest(bad) \in Path[best]
    BY <1>5, <1>10, <2>1, <2>2
  <2>4. ASSUME NEW x \in above PROVE ~Valid(x)
    <3>1. x \in Path[best] /\ x \notin Path[Highest(bad)] /\ x \in Blocks
      BY <1>10, PathParts DEF Branch
    <3>2. Highest(bad) \in Path[x]
      BY <1>10, <2>3, <3>1, PathLinear
    <3> QED BY <2>3, <3>1, <3>2, InvalidAbove
  <2> QED BY <2>3, <2>4
<1>12. \/ /\ UNCHANGED <<failedChild, candidates>>
          /\ \/ cs' = "free" /\ best = tip
             \/ cs' = "aborted"
             \/ cs' = "step" /\ target' = best /\ UNCHANGED activating
       \/ /\ bad # {} /\ failedChild' = failedChild \cup above
          /\ candidates' = candidates \ (above \cup {Highest(bad)})
          /\ cs' = "find" /\ UNCHANGED activating
  BY <1>8, <1>9 DEF WalkBack
<1>13. Failed' = nowFailed \cup failedChild'
  BY <1>8 DEF Failed
<1> HIDE DEF nowFailed, above, bad
<1>14. \A x \in haveData \cap Failed' : ~Valid(x)
  BY <1>5, <1>11, <1>12, <1>13
<1>15. \A c \in candidates \ candidates' : ~Valid(c)
  BY <1>11, <1>12
<1> QED
  BY <1>0, <1>4, <1>9, <1>12, <1>14, <1>15

(* Of a block that AcceptBlockHeader let through, VerifyBlockMiner rejects *)
(* only what does not connect.                                             *)
LEMMA RejectedInvalid ==
  ASSUME NEW b \in Blocks \ {Genesis}, NEW D, MinerRejects(b, D),
         b \notin Failed, Branch(Prev[b]) \cap Failed = {}
  PROVE  ~Valid(b)
<1>1. Path[b] = {b} \cup Path[Prev[b]]
  BY PathIs
<1>2. Branch(b) \cap Failed = {}
  BY <1>1 DEF Branch
<1> QED
  BY <1>2 DEF MinerRejects, Branch, Valid

LEMMA StepCaused ==
  ASSUME Bystander, Types, Links, OnlyActivation, Plain, Caused, BestKept,
         candidates \subseteq linked, [Next]_vars
  PROVE  Caused'
<1>0. tip \in Blocks /\ target \in Blocks /\ index \subseteq Blocks
  BY DEF Types
<1> USE DEF treeVars, statusVars, minerVars, lockVars, runVars
<1>a. ASSUME haveData' = haveData, Failed' \cap haveData \subseteq Failed, cs' # "store",
             UNCHANGED tip
      PROVE  Caused'
  BY <1>a DEF Caused, Valid
<1>1. CASE StoreBlock
  <2> DEFINE b == incoming
  <2>1. /\ b \in index \ haveData /\ b \in Blocks \ {Genesis} /\ cs' = "free" /\ UNCHANGED tip
        /\ b \notin Failed /\ Branch(Prev[b]) \cap Failed = {}
    BY <1>0, <1>1 DEF StoreBlock, Types, Links, Handling, Caused
  <2>2. CASE b \in BadContext
    BY <1>1, <1>a, <2>1, <2>2 DEF StoreBlock, Failed
  <2>3. CASE b \notin BadContext
    <3>1. /\ haveData' = haveData \cup {b} /\ UNCHANGED failedChild
          /\ \/ UNCHANGED failedValid
             \/ failedValid' = failedValid \cup {b} /\ MinerRejects(b, haveData')
      BY <1>1, <2>3 DEF StoreBlock, ReceivedBlockTransactions
    <3>2. ASSUME MinerRejects(b, haveData') PROVE ~Valid(b)
      BY <2>1, <3>2, RejectedInvalid
    <3> QED BY <2>1, <3>1, <3>2 DEF Caused, Valid, Failed
  <2> QED BY <2>2, <2>3
<1>2. CASE FindMostWorkChain
  <2>1. UNCHANGED <<haveData, tip>> /\ cs' # "store"
    BY <1>2, FindChanges
  <2> QED BY <1>2, <2>1, FindBest DEF Caused, Valid
<1>3. CASE DisconnectTip
  <2>1. Path[Prev[tip]] \subseteq Path[tip]
    BY <1>0, <1>3, TipAbove DEF DisconnectTip
  <2>2. cs' # "store" /\ tip' = Prev[tip]
    BY <1>3 DEF DisconnectTip
  <2> QED BY <1>3, <2>1, <2>2 DEF DisconnectTip, Caused, Valid, Failed
<1>4. CASE ConnectTip
  <2> DEFINE new == NextToConnect
  <2>1. Path[new] = Path[tip] \cup {new} /\ new \in Blocks
    BY <1>0, <1>4, NextIsChild DEF ConnectTip
  <2>2. new \in Path[new]
    BY <2>1, PathEnds
  <2>3. /\ UNCHANGED <<haveData, failedChild>> /\ cs' # "store"
        /\ \/ UNCHANGED <<tip, failedValid>>
           \/ UNCHANGED tip /\ failedValid' = failedValid \cup {new} /\ new \in BadTx \cup BadMiner
           \/ tip' = new /\ new \notin BadTx \cup BadMiner /\ UNCHANGED failedValid
    BY <1>4 DEF ConnectTip
  <2> HIDE DEF new
  <2> QED BY <2>1, <2>2, <2>3 DEF Caused, Valid, Failed
<1>5. ASSUME NEW b \in Blocks, AcceptHeader(b) \/ ReceiveBlock(b) PROVE Caused'
  <2>1. \A next : AfterHeader(b, next) => cs' = next
    BY TreeAssumption DEF AfterHeader, OnlyActivation
  <2>2. CASE AcceptHeader(b)
    BY <1>a, <2>1, <2>2 DEF AcceptHeader, Failed
  <2>3. CASE ReceiveBlock(b)
    <3>1. b \notin Failed /\ Branch(Prev[b]) \cap Failed = {}
      BY <2>3 DEF ReceiveBlock, HeaderOK, Types, Failed
    <3>2. incoming' = b /\ UNCHANGED <<haveData, failedValid, failedChild, tip>>
      BY <2>3 DEF ReceiveBlock
    <3> QED BY <3>1, <3>2 DEF Caused, Valid, Failed, Branch, ActiveChain
  <2> QED BY <1>5, <2>2, <2>3
<1>6. CASE UNCHANGED vars
  BY <1>6 DEF vars, Caused, Valid, Failed, Branch, ActiveChain
<1>7. ASSUME NEW b \in Bannable PROVE FALSE
  BY <1>7 DEF Bystander, Unmined
<1>8. CASE StartRound \/ RoundReturn
  BY <1>8, <1>a DEF StartRound, RoundReturn, Failed
<1>9. ASSUME NEW b \in Blocks, ReceiveKnownBlock(b) \/ ReconsiderBlock(b) PROVE Caused'
  BY <1>9, <1>a DEF ReceiveKnownBlock, ReconsiderBlock, Failed
<1>10. CASE SetLastReturn \/ RemoveLockedBlock
  BY <1>10 DEF SetLastReturn, RemoveLockedBlock, OnlyActivation
<1>11. ASSUME NEW b \in Blocks, InvalidateBlock(b) \/ SetLastBlock(b) \/ SetLockedBlock(b)
       PROVE  FALSE
  BY <1>11 DEF InvalidateBlock, SetLastBlock, SetLockedBlock, Bystander, Unmined, Unaided
<1> QED
  BY <1>1, <1>2, <1>3, <1>4, <1>5, <1>6, <1>7, <1>8, <1>9, <1>10, <1>11 DEF Next, Running

LEMMA StepBest ==
  ASSUME Bystander, SoundInv, Plain, Caused, BestKept, Ready, OnTarget, [Next]_vars
  PROVE  BestKept'
<1> Types /\ Links /\ OnlyActivation
  BY DEF SoundInv
<1>0. /\ tip \in Blocks /\ target \in Blocks /\ index \subseteq Blocks
      /\ linked \subseteq Blocks /\ candidates \subseteq linked /\ candidates \subseteq Blocks
      /\ seq \in [Blocks -> Int] /\ Plain'
  BY StepPlain DEF Bystander, Types, Links, Ready
<1> USE DEF treeVars, statusVars, minerVars, lockVars, runVars
<1>a. \A c : Valid(c)' <=> Valid(c)
  BY DEF Valid
<1>b. ASSUME UNCHANGED seq, NEW x \in Blocks, NEW y \in Blocks
      PROVE  Worse(x, y)' <=> Worse(x, y)
  <2>1. \A a, b \in Blocks : Worse(a, b)' <=> \/ Work[a] < Work[b]
                                              \/ Work[a] = Work[b] /\ seq'[a] > seq'[b]
    <3> TAKE a, b \in Blocks
    <3>1. minedAt'[a] = 0 /\ minedAt'[b] = 0 /\ a \notin canMine' /\ b \notin canMine'
      BY <1>0 DEF Plain
    <3> QED BY <3>1 DEF Worse
  <2> QED BY <1>b, <2>1, WorseIs
<1>c. ASSUME UNCHANGED <<linked, seq>>, candidates \subseteq candidates'
      PROVE  \A b \in linked' : Valid(b)' => \E c \in candidates' : Valid(c)' /\ ~Worse(c, b)'
  BY <1>0, <1>a, <1>b, <1>c DEF BestKept
<1>d. ASSUME UNCHANGED <<linked, seq>>, candidates \subseteq candidates', activating',
             cs' \in {"free", "store", "find", "aborted"}
      PROVE  BestKept'
  BY <1>c, <1>d DEF BestKept
<1>g. ASSUME UNCHANGED <<linked, candidates, tip, activating>>,
             NEW b, b \notin linked, Failed' \subseteq Failed \cup {b},
             cs \in {"free", "store"}, ~activating'
      PROVE  \E t \in Ends' : \A x \in linked' : Valid(x)' => Work[x] <= Work[t]
  <2>1. Ends \subseteq Ends'
    BY <1>0, <1>g, EndsKept
  <2> QED BY <1>a, <1>g, <2>1 DEF BestKept
<1>h. NoBlock \notin linked
  BY <1>0, TreeAssumption
<1>e. ASSUME UNCHANGED <<linked, seq, candidates, tip, activating, failedValid, failedChild>>,
             cs = "free", cs' \in {"free", "store"}
      PROVE  BestKept'
  <2>1. Failed' \subseteq Failed \cup {NoBlock}
    BY <1>e DEF Failed
  <2>2. ~activating' => \E t \in Ends' : \A x \in linked' : Valid(x)' => Work[x] <= Work[t]
    BY <1>e, <1>g, <1>h, <2>1
  <2> QED BY <1>a, <1>c, <1>e, <2>2 DEF BestKept
<1>f. ASSUME NEW t \in Blocks, \A c \in candidates : Valid(c) => ~Worse(t, c)
      PROVE  \A b \in linked : Valid(b) => Work[b] <= Work[t]
  <2> SUFFICES ASSUME NEW b \in linked, Valid(b) PROVE Work[b] <= Work[t]
    OBVIOUS
  <2>1. PICK c \in candidates : Valid(c) /\ ~Worse(c, b)
    BY DEF BestKept
  <2>2. ~Worse(t, c) /\ b \in Blocks /\ c \in Blocks
    BY <1>0, <1>f, <2>1
  <2>3. ~Worse(t, b)
    BY <1>0, <2>1, <2>2, WorseOrder
  <2> QED BY <1>0, <2>2, <2>3, WorseOrder
<1>1. CASE StoreBlock
  <2> DEFINE b == incoming
  <2>1. /\ b \in index \ haveData /\ b \in Blocks \ {Genesis} /\ cs' = "free" /\ cs = "store"
        /\ UNCHANGED tip
        /\ b \notin Failed /\ Branch(Prev[b]) \cap Failed = {}
    BY <1>0, <1>1 DEF StoreBlock, Types, Links, Handling, Caused
  <2>2. CASE b \in BadContext
    <3>1. /\ UNCHANGED <<linked, seq, candidates, tip, activating>>
          /\ Failed' \subseteq Failed \cup {b}
      BY <1>1, <2>1, <2>2 DEF StoreBlock, Failed
    <3>2. b \notin linked
      BY <2>1 DEF Types, Links
    <3>3. ~activating' => \E t \in Ends' : \A x \in linked' : Valid(x)' => Work[x] <= Work[t]
      BY <1>g, <2>1, <3>1, <3>2
    <3> QED BY <1>a, <1>c, <2>1, <3>1, <3>3 DEF BestKept
  <2>3. CASE b \notin BadContext
    <3> DEFINE new == linked' \ linked
    <3>1. /\ linked' = linked \cup new /\ candidates' = candidates \cup new
          /\ \A x \in new : x \in Blocks /\ b \in Path[x]
          /\ \A x \in linked : seq'[x] = seq[x]
      <4>1. CASE Prev[b] \in linked
        <5>1. /\ linked' = linked \cup Linking(b) /\ candidates' = candidates \cup Linking(b)
              /\ \E f \in LinkOrders(Linking(b)) :
                    seq' = [x \in Blocks |-> IF x \in Linking(b) THEN f[x] ELSE seq[x]]
          BY <1>1, <2>3, <4>1 DEF StoreBlock, ReceivedBlockTransactions
        <5>2. Linking(b) \subseteq {b} \cup unlinked /\ \A x \in Linking(b) : b \in Path[x]
          BY DEF Linking
        <5>3. Linking(b) \cap linked = {} /\ Linking(b) \subseteq Blocks
          BY <1>0, <2>1, <5>2 DEF Links, Types
        <5> QED BY <1>0, <5>1, <5>2, <5>3
      <4>2. CASE Prev[b] \notin linked
        <5>1. UNCHANGED <<linked, candidates, seq>>
          BY <1>1, <2>3, <4>2 DEF StoreBlock, ReceivedBlockTransactions
        <5> QED BY <1>0, <5>1
      <4> QED BY <4>1, <4>2
    <3>2. \/ activating'
          \/ UNCHANGED activating /\ MinerRejects(b, haveData')
      BY <1>1, <2>3 DEF StoreBlock
    <3>3. ASSUME MinerRejects(b, haveData') PROVE ~Valid(b)
      BY <2>1, <3>3, RejectedInvalid
    <3>4. ASSUME ~Valid(b), NEW x \in new PROVE ~Valid(x)
      BY <3>1, <3>4, InvalidAbove
    <3>5. \A x, y \in Blocks : Worse(x, y)' <=> \/ Work[x] < Work[y]
                                                \/ Work[x] = Work[y] /\ seq'[x] > seq'[y]
      <4> TAKE x, y \in Blocks
      <4>1. minedAt'[x] = 0 /\ minedAt'[y] = 0 /\ x \notin canMine' /\ y \notin canMine'
        BY <1>0 DEF Plain
      <4> QED BY <4>1 DEF Worse
    <3>6. ASSUME NEW x \in linked, NEW y \in linked PROVE Worse(x, y)' <=> Worse(x, y)
      BY <1>0, <3>1, <3>5, WorseIs
    <3>7. ASSUME NEW x \in new PROVE ~Worse(x, x)'
      <4>1. x \in Blocks /\ Work[x] \in Nat /\ ~(Work[x] < Work[x])
        BY <3>1, WorkIs
      <4>2. seq' \in [Blocks -> Int]
        <5>1. Considerate /\ Unaided
          BY DEF Bystander, Unmined, Considerate
        <5> QED BY <5>1, StepReady DEF Ready
      <4>3. ~(seq'[x] > seq'[x])
        BY <4>1, <4>2
      <4> QED BY <3>5, <4>1, <4>3
    <3> HIDE DEF new
    <3>8. \A x \in linked' : Valid(x)' => \E c \in candidates' : Valid(c)' /\ ~Worse(c, x)'
      BY <1>0, <1>a, <3>1, <3>6, <3>7 DEF BestKept
    <3>9. ~activating' => \E t \in Ends' : \A x \in linked' : Valid(x)' => Work[x] <= Work[t]
      <4> SUFFICES ASSUME ~activating'
                   PROVE  \E t \in Ends' : \A x \in linked' : Valid(x)' => Work[x] <= Work[t]
        OBVIOUS
      <4>1. Failed' \subseteq Failed \cup {b} /\ b \notin linked /\ candidates \subseteq candidates'
        BY <1>1, <2>1, <3>1 DEF StoreBlock, Failed, Types, Links
      <4>2. Ends \subseteq Ends'
        BY <1>0, <2>1, <4>1, EndsKept
      <4>3. PICK t \in Ends : \A x \in linked : Valid(x) => Work[x] <= Work[t]
        BY <2>1, <3>2 DEF BestKept
      <4>4. \A x \in linked' : Valid(x) => x \in linked
        BY <3>1, <3>2, <3>3, <3>4
      <4> QED BY <1>a, <4>2, <4>3, <4>4
    <3> QED BY <2>1, <3>8, <3>9 DEF BestKept
  <2> QED BY <2>2, <2>3
<1>2. CASE StartRound
  <2>1. UNCHANGED <<linked, seq, candidates, activating>> /\ cs' = "find" /\ activating
    BY <1>2 DEF StartRound
  <2> QED BY <1>d, <2>1
<1>3. CASE FindMostWorkChain
  <2>1. UNCHANGED <<linked, seq, tip>> /\ candidates' \subseteq candidates
        /\ cs' \in {"free", "find", "aborted", "step"} /\ target' \in Blocks
    BY <1>0, <1>3, FindChanges DEF Types
  <2>2. /\ \A c \in candidates \ candidates' : ~Valid(c)
        /\ cs' = "find" => activating'
        /\ cs' = "step" => /\ activating'
                           /\ \A c \in candidates : Valid(c) => ~Worse(target', c)
        /\ cs' = "free" => \A c \in candidates : Valid(c) => ~Worse(tip, c)
    BY <1>0, <1>3, FindBest
  <2>3. \A b \in linked' : Valid(b)' => \E c \in candidates' : Valid(c)' /\ ~Worse(c, b)'
    BY <1>0, <1>a, <1>b, <2>1, <2>2 DEF BestKept
  <2>4. cs' = "step" => \A c \in candidates' : Valid(c)' => ~Worse(target, c)'
    <3> SUFFICES ASSUME cs' = "step", NEW c \in candidates', Valid(c) PROVE ~Worse(target, c)'
      BY <1>a
    <3>1. c \in Blocks /\ ~Worse(target', c)
      BY <1>0, <2>1, <2>2
    <3>2. \A t \in Blocks : Worse(t, c)' <=> Worse(t, c)
      BY <1>b, <2>1, <3>1
    <3>3. \A t \in Blocks : t = target' => (Worse(target, c)' <=> Worse(t, c))
      BY <3>2 DEF Worse
    <3> QED BY <2>1, <3>1, <3>3
  <2>5. cs' = "free" => \E t \in Ends' : \A b \in linked' : Valid(b)' => Work[b] <= Work[t]
    BY <1>0, <1>a, <1>f, <2>1, <2>2 DEF Ends
  <2> QED BY <2>1, <2>2, <2>3, <2>4, <2>5 DEF BestKept
<1>4. CASE DisconnectTip
  <2>1. UNCHANGED <<linked, seq, candidates, target, activating>> /\ cs' \in {"step", "return"} /\ cs = "step"
    BY <1>4 DEF DisconnectTip
  <2> QED BY <1>0, <1>a, <1>b, <1>c, <2>1 DEF BestKept
<1>5. CASE ConnectTip
  <2> DEFINE new == NextToConnect
  <2>1. Path[new] = Path[tip] \cup {new} /\ new \in Blocks \ {Genesis} /\ Prev[new] = tip
        /\ new # NoBlock
    BY <1>0, <1>5, NextIsChild, TreeAssumption DEF ConnectTip
  <2>2. new \in Path[new]
    BY <2>1, PathEnds
  <2>a. CASE cs' = "free"
    <3>1. UNCHANGED <<candidates, tip>> /\ target \in Ends'
      BY <1>5, <2>a, StopsBarred DEF Bystander, Unmined, Plain
    <3>2. UNCHANGED <<linked, seq>> /\ cs = "step"
      BY <1>5 DEF ConnectTip
    <3>3. \A b \in linked : Valid(b) => Work[b] <= Work[target]
      BY <1>0, <1>f, <3>2 DEF BestKept
    <3>4. \E t \in Ends' : \A b \in linked' : Valid(b)' => Work[b] <= Work[t]
      BY <1>a, <3>1, <3>2, <3>3
    <3> QED BY <1>c, <2>a, <3>1, <3>2, <3>4 DEF BestKept
  <2>b. SUFFICES ASSUME cs' # "free" PROVE BestKept'
    BY <2>a
  <2>3. /\ UNCHANGED <<linked, seq, target, activating>> /\ cs = "step"
        /\ \/ cs' = "aborted" /\ UNCHANGED candidates
           \/ /\ candidates' = candidates \ {new} /\ new \in BadTx \cup BadMiner
              /\ cs' = "return"
           \/ /\ candidates' = {c \in candidates : ~Worse(c, new)}
              /\ new \notin BadTx \cup BadMiner /\ new \in haveData
              /\ cs' \in {"step", "return", "aborted"}
    BY <1>5, <2>1, <2>b DEF ConnectTip, PruneBlockIndexCandidates, CheckBlockBans, Plain
  <2>4. new \in haveData => new \in linked
    BY <2>1 DEF Links
  <2> HIDE DEF new
  <2>5. candidates' \subseteq candidates /\ cs' \in {"step", "return", "aborted"}
    BY <2>3
  <2>6. ASSUME NEW b \in linked, Valid(b)
        PROVE  \E c \in candidates' : Valid(c) /\ ~Worse(c, b)
    <3>1. PICK c \in candidates : Valid(c) /\ ~Worse(c, b)
      BY <2>6 DEF BestKept
    <3>2. CASE UNCHANGED candidates
      BY <3>1, <3>2
    <3>3. CASE candidates' = candidates \ {new} /\ new \in BadTx \cup BadMiner
      BY <2>2, <3>1, <3>3 DEF Valid
    <3>4. CASE candidates' = {d \in candidates : ~Worse(d, new)}
               /\ new \notin BadTx \cup BadMiner /\ new \in haveData
      <4>1. CASE c \in candidates'
        BY <3>1, <4>1
      <4>2. CASE c \notin candidates'
        <5>1. Worse(c, new)
          BY <3>1, <3>4, <4>2
        <5>2. Valid(new) /\ new \in linked
          BY <2>1, <2>4, <3>4 DEF Valid, Caused
        <5>3. PICK d \in candidates : Valid(d) /\ ~Worse(d, new)
          BY <5>2 DEF BestKept
        <5>4. c \in Blocks /\ d \in Blocks /\ b \in Blocks /\ new \in Blocks
          BY <1>0, <2>1, <3>1, <5>3
        <5>5. ~Worse(new, c)
          BY <1>0, <5>1, <5>4, WorseOrder
        <5>6. ~Worse(d, c)
          BY <1>0, <5>3, <5>4, <5>5, WorseOrder
        <5>7. ~Worse(d, b)
          BY <1>0, <3>1, <5>4, <5>6, WorseOrder
        <5> QED BY <3>4, <5>3, <5>7
      <4> QED BY <4>1, <4>2
    <3> QED BY <2>3, <3>2, <3>3, <3>4
  <2>7. \A b \in linked' : Valid(b)' => \E c \in candidates' : Valid(c)' /\ ~Worse(c, b)'
    BY <1>0, <1>a, <1>b, <2>3, <2>5, <2>6
  <2>8. \A c \in candidates' : Valid(c)' => ~Worse(target, c)'
    BY <1>0, <1>a, <1>b, <2>3, <2>5 DEF BestKept
  <2> QED BY <2>3, <2>5, <2>7, <2>8 DEF BestKept
<1>6. CASE RoundReturn
  <2>1. UNCHANGED <<linked, seq, candidates, tip>> /\ cs = "return" /\ cs' = "free"
        /\ (tip # target => activating')
    BY <1>6 DEF RoundReturn
  <2>2. CASE tip # target
    BY <1>d, <2>1, <2>2
  <2>3. CASE tip = target
    <3>1. \A b \in linked : Valid(b) => Work[b] <= Work[tip]
      BY <1>0, <1>f, <2>1, <2>3 DEF BestKept
    <3>2. \E t \in Ends' : \A b \in linked' : Valid(b)' => Work[b] <= Work[t]
      BY <1>a, <2>1, <3>1 DEF Ends
    <3> QED BY <1>c, <2>1, <3>2 DEF BestKept
  <2> QED BY <2>2, <2>3
<1>7. ASSUME NEW b \in Blocks, AcceptHeader(b) \/ ReceiveBlock(b) PROVE BestKept'
  <2>1. \A next : AfterHeader(b, next) => cs' = next
    BY TreeAssumption DEF AfterHeader, OnlyActivation
  <2> QED BY <1>7, <1>e, <2>1 DEF AcceptHeader, ReceiveBlock
<1>8. ASSUME NEW b \in Blocks, ReceiveKnownBlock(b) \/ ReconsiderBlock(b) PROVE BestKept'
  BY <1>8, <1>d DEF ReceiveKnownBlock, ReconsiderBlock
<1>9. CASE UNCHANGED vars
  <2>1. /\ UNCHANGED <<linked, seq, candidates, tip, target, cs, activating>>
        /\ Failed' \subseteq Failed \cup {NoBlock}
    BY <1>9 DEF vars, Failed
  <2>2. cs \in {"free", "store"} /\ ~activating' =>
          \E t \in Ends' : \A x \in linked' : Valid(x)' => Work[x] <= Work[t]
    BY <1>g, <1>h, <2>1
  <2> QED BY <1>0, <1>a, <1>b, <1>c, <2>1, <2>2 DEF BestKept
<1>10. CASE SetLastReturn \/ RemoveLockedBlock
  BY <1>10 DEF SetLastReturn, RemoveLockedBlock, OnlyActivation
<1>11. ASSUME NEW b \in Blocks, InvalidateBlock(b) \/ SetLastBlock(b) \/ SetLockedBlock(b)
       PROVE  FALSE
  BY <1>11 DEF InvalidateBlock, SetLastBlock, SetLockedBlock, Bystander, Unmined, Unaided
<1>12. ASSUME NEW b \in Bannable PROVE FALSE
  BY <1>12 DEF Bystander, Unmined
<1> QED
  BY <1>1, <1>2, <1>3, <1>4, <1>5, <1>6, <1>7, <1>8, <1>9, <1>10, <1>11, <1>12 DEF Next, Running

(* When nobody is activating, no stored chain of valid blocks has more     *)
(* work than the active one, or than a candidate that activation gave up   *)
(* on because of a refused coinbase just above the tip: for a wallet that  *)
(* does not mine, in whatever order headers and blocks arrive and          *)
(* whichever of them fail.                                                 *)
THEOREM BestChainActiveHolds == ASSUME Bystander PROVE Spec => []BestChainActive
<1> DEFINE Inv == SoundInv /\ Ready /\ Plain /\ Caused /\ OnTarget /\ BestKept
<1>1. Considerate /\ Unaided
  BY DEF Bystander, Unmined, Considerate
<1>2. Init => Inv
  <2> SUFFICES ASSUME Init PROVE Inv
    OBVIOUS
  <2>1. Types /\ Links /\ OnlyActivation /\ Ready /\ WayClear /\ OnTarget
    BY InitTypes, TreeAssumption DEF Init, Ready, OnlyActivation, WayClear, OnTarget
  <2>2. Plain /\ ActiveChain \cap Failed = {}
    BY DEF Init, Plain, Bystander, Unmined, Failed
  <2>3. Valid(Genesis) /\ Genesis \in Blocks
    BY PathIs, TreeAssumption DEF Valid
  <2>4. ~Worse(Genesis, Genesis)
    BY <2>1, <2>2, <2>3, WorseOrder DEF Ready
  <2>5. Work[Genesis] <= Work[Genesis]
    BY <2>3, WorkIs
  <2>6. Caused /\ BestKept
    BY <2>3, <2>4, <2>5 DEF Init, Caused, BestKept, Failed, Ends
  <2> QED BY <2>1, <2>2, <2>6 DEF SoundInv
<1>3. Inv /\ [Next]_vars => Inv'
  <2> SUFFICES ASSUME Inv, [Next]_vars PROVE Inv'
    OBVIOUS
  <2>1. candidates \subseteq linked
    BY DEF Ready
  <2>2. SoundInv' /\ Ready' /\ OnTarget'
    BY <1>1, StepTypes, StepLinks, StepWayClear, StepOnlyActivation, StepSound, StepReady,
       StepOnTarget DEF SoundInv
  <2>3. Plain' /\ Caused' /\ BestKept'
    BY <2>1, StepPlain, StepCaused, StepBest DEF Bystander, SoundInv
  <2> QED BY <2>2, <2>3
<1>4. Inv => BestChainActive
  BY DEF BestKept, BestChainActive, Quiet, Valid, Faultless
<1> QED
  BY <1>2, <1>3, <1>4, PTL DEF Spec
-----------------------------------------------------------------------------
(* Reconsidering undoes invalidating, for the same wallet and an operator  *)
(* who names only blocks whose whole chain is stored.                      *)
Undoing == Unmined /\ "careful" \in Commands

(* No two linked blocks have the same nSequenceId.                         *)
SeqDistinct == /\ nextSeq \in Int
               /\ \A x \in linked : seq[x] < nextSeq
               /\ \A x, y \in linked : seq[x] = seq[y] => x = y

(* No block on the way to c carries a failure flag.                        *)
Clean(c) == Path[c] \cap Failed = {}

(* Every linked block has a candidate that is not worse, or a failed block *)
(* that was one: what leaves the candidates has failed, or is worse than   *)
(* something that stays.                                                   *)
Covered == \A b \in linked : \E c \in candidates \cup (Failed \cap linked) : ~Worse(c, b)

(* The target is as good as any clean candidate, and activation ends with  *)
(* something that is.                                                      *)
CleanBest ==
  /\ cs \in {"step", "return"} => \A c \in candidates : Clean(c) => ~Worse(target, c)
  /\ cs \in {"find", "step", "return"} => activating
  /\ cs \in {"free", "store"} /\ ~activating =>
       \E t \in Ends : \A c \in candidates : Clean(c) => ~Worse(t, c)

LEMMA StepSeqDistinct ==
  ASSUME IsFiniteSet(Blocks), Types, Links, Ready, SeqDistinct, [Next]_vars
  PROVE  SeqDistinct'
<1> USE DEF treeVars, statusVars, minerVars, lockVars, runVars
<1>1. CASE StoreBlock /\ incoming \notin BadContext /\ Prev[incoming] \in linked
  <2> DEFINE b == incoming
             L == Linking(b)
  <2>1. b \in index \ haveData /\ b \in Blocks
    BY <1>1 DEF StoreBlock, Types, Handling
  <2>2. /\ linked' = linked \cup L /\ nextSeq' = nextSeq + Cardinality(L)
        /\ \E f \in LinkOrders(L) : seq' = [x \in Blocks |-> IF x \in L THEN f[x] ELSE seq[x]]
    BY <1>1 DEF StoreBlock, ReceivedBlockTransactions
  <2>3. L \subseteq {b} \cup unlinked
    BY DEF Linking
  <2>4. L \in SUBSET Blocks /\ linked \in SUBSET Blocks /\ L \cap linked = {}
    BY <2>1, <2>3 DEF Links, Types
  <2>5. Cardinality(L) \in Nat
    BY <2>4, FS_Subset, FS_CardinalityType
  <2>6. PICK f \in LinkOrders(L) : seq' = [x \in Blocks |-> IF x \in L THEN f[x] ELSE seq[x]]
    BY <2>2
  <2>7. /\ \A x \in L : f[x] \in nextSeq .. nextSeq + Cardinality(L) - 1
        /\ \A x, y \in L : x # y => f[x] # f[y]
    BY DEF LinkOrders
  <2>8. PICK k \in Nat : k = Cardinality(L)
    BY <2>5
  <2> HIDE DEF L
  <2>9. \A x \in linked : seq'[x] = seq[x] /\ seq[x] < nextSeq /\ seq[x] \in Int
    BY <2>4, <2>6 DEF SeqDistinct, Ready
  <2>10. \A x \in L : seq'[x] = f[x] /\ f[x] \in Int /\ nextSeq <= f[x] /\ f[x] < nextSeq + k
    BY <2>4, <2>6, <2>7, <2>8 DEF SeqDistinct
  <2>11. nextSeq \in Int /\ nextSeq' = nextSeq + k
    BY <2>2, <2>8 DEF SeqDistinct
  <2>12. \A x \in linked' : seq'[x] < nextSeq'
    <3>1. ASSUME NEW x \in linked PROVE seq'[x] < nextSeq'
      BY <2>9, <2>11, k \in Nat
    <3>2. ASSUME NEW x \in L PROVE seq'[x] < nextSeq'
      BY <2>10, <2>11
    <3> QED BY <2>2, <3>1, <3>2
  <2>13. ASSUME NEW x \in linked', NEW y \in linked', seq'[x] = seq'[y] PROVE x = y
    <3>1. CASE x \in linked /\ y \in linked
      BY <2>9, <2>13, <3>1 DEF SeqDistinct
    <3>2. CASE x \in L /\ y \in L
      BY <2>7, <2>10, <2>13, <3>2
    <3>3. CASE (x \in linked /\ y \in L) \/ (x \in L /\ y \in linked)
      BY <2>9, <2>10, <2>11, <2>13, <3>3
    <3> QED BY <2>2, <3>1, <3>2, <3>3
  <2> QED BY <2>8, <2>11, <2>12, <2>13 DEF SeqDistinct
<1>2. CASE StoreBlock /\ ~(incoming \notin BadContext /\ Prev[incoming] \in linked)
  <2>1. UNCHANGED <<linked, seq, nextSeq>>
    BY <1>2 DEF StoreBlock, ReceivedBlockTransactions
  <2> QED BY <2>1 DEF SeqDistinct
<1>3. CASE UNCHANGED <<linked, seq, nextSeq>>
  BY <1>3 DEF SeqDistinct
<1> QED
  BY <1>1, <1>2, <1>3
  DEF Next, Running, vars, StartRound, FindMostWorkChain, DisconnectTip, ConnectTip, RoundReturn,
      SetLastReturn, AcceptHeader, ReceiveBlock, ReceiveKnownBlock, InvalidateBlock,
      ReconsiderBlock, SetLastBlock, SetLockedBlock, RemoveLockedBlock,
      ReceiveBannedBlock, SetBannedTxs

(* What reconsiderblock leaves covers every linked block: the flags it     *)
(* clears on the block's ancestors, which it does not make candidates      *)
(* again, are on blocks with less work than the block itself.              *)
LEMMA ReconsiderCovers ==
  ASSUME Types, Links, Plain, SeqDistinct, Covered, seq \in [Blocks -> Int],
         ActiveChain \cap Failed = {}, candidates \subseteq linked,
         NEW b \in linked, NEW K \in SUBSET linked, candidates \subseteq K,
         \A x \in Failed \cap linked : \/ x \in K
                                       \/ b \in Path[x] /\ ~Worse(tip, x)
                                       \/ b \notin Path[x] /\ x \in Path[b]
  PROVE  \A x \in linked : \E k \in K : ~Worse(k, x)
<1>0. linked \subseteq Blocks /\ tip \in linked
  BY DEF Types, Links
<1>a. \A x, y, z \in linked : ~Worse(x, y) /\ ~Worse(y, z) => ~Worse(x, z)
  BY <1>0, WorseOrder
<1>b. \A x, y \in linked : Worse(x, y) => ~Worse(y, x)
  BY <1>0, WorseOrder
<1>c. ASSUME NEW x \in linked, b \notin Path[x], x \in Path[b] PROVE Worse(x, b)
  <2>1. x # b
    BY <1>0, <1>c, PathEnds
  <2>2. Work[x] < Work[b]
    BY <1>0, <1>c, <2>1, PathParts
  <2> QED BY <2>2 DEF Worse
<1>d. ASSUME NEW x \in linked \cap Failed PROVE Worse(tip, x) \/ Worse(x, tip)
  <2>1. tip \notin Failed
    BY <1>0, PathEnds DEF ActiveChain
  <2>2. seq[x] # seq[tip]
    BY <1>0, <1>d, <2>1 DEF SeqDistinct
  <2>3. x \in Blocks /\ tip \in Blocks
    BY <1>0
  <2>4. Work[x] \in Nat /\ Work[tip] \in Nat /\ seq[x] \in Int /\ seq[tip] \in Int
    BY <2>3, WorkIs
  <2> QED BY <2>2, <2>3, <2>4, WorseIs
<1>1. (\E k \in K : ~Worse(k, b)) \/ ~Worse(tip, b)
  <2>1. PICK e \in candidates \cup (Failed \cap linked) : ~Worse(e, b)
    BY DEF Covered
  <2> QED BY <1>0, <1>a, <1>c, <2>1
<1>2. \E k \in K : ~Worse(k, tip)
  <2>1. PICK e \in candidates \cup (Failed \cap linked) : ~Worse(e, tip)
    BY <1>0 DEF Covered
  <2>2. CASE e \in K
    BY <2>1, <2>2
  <2>3. CASE e \notin K /\ b \in Path[e]
    BY <1>d, <2>1, <2>3
  <2>4. CASE e \notin K /\ b \notin Path[e]
    <3>1. e \in linked /\ Worse(e, b) /\ ~Worse(b, e)
      BY <1>b, <1>c, <2>1, <2>4
    <3>2. ~(~Worse(tip, b))
      BY <1>0, <1>a, <2>1, <3>1
    <3>3. PICK k \in K : ~Worse(k, b)
      BY <1>1, <3>2
    <3>4. ~Worse(k, e)
      BY <1>a, <3>1, <3>3
    <3>5. ~Worse(k, tip)
      BY <1>0, <1>a, <2>1, <3>1, <3>4
    <3> QED BY <3>5
  <2> QED BY <2>2, <2>3, <2>4
<1>3. ASSUME NEW x \in linked PROVE \E k \in K : ~Worse(k, x)
  <2>1. PICK c \in candidates \cup (Failed \cap linked) : ~Worse(c, x)
    BY DEF Covered
  <2>2. PICK t \in K : ~Worse(t, tip)
    BY <1>2
  <2>3. PICK k \in K : ~Worse(k, b)
    <3>1. CASE ~Worse(tip, b)
      BY <1>0, <1>a, <2>2, <3>1
    <3> QED BY <1>1, <3>1
  <2>4. CASE c \in K
    BY <2>1, <2>4
  <2>5. CASE c \notin K /\ b \in Path[c]
    <3>1. c \in linked /\ ~Worse(tip, c)
      BY <2>1, <2>5
    <3>2. ~Worse(t, c)
      BY <1>0, <1>a, <2>2, <3>1
    <3> QED BY <1>a, <2>1, <3>1, <3>2
  <2>6. CASE c \notin K /\ b \notin Path[c]
    <3>1. c \in linked /\ ~Worse(b, c)
      BY <1>b, <1>c, <2>1, <2>6
    <3>2. ~Worse(k, c)
      BY <1>a, <2>3, <3>1
    <3> QED BY <1>a, <2>1, <3>1, <3>2
  <2> QED BY <2>4, <2>5, <2>6
<1> QED
  BY <1>3

(* What FindMostWorkChain drops has failed, and the candidate it returns   *)
(* is as good as any that is clean when it has marked what it rejects.     *)
LEMMA FindClean ==
  ASSUME Types, Links, OnlyActivation, Plain, candidates \subseteq linked, activating,
         FindMostWorkChain
  PROVE  /\ Failed \subseteq Failed' /\ candidates \ candidates' \subseteq Failed'
         /\ cs' \in {"find", "step"} => activating'
         /\ cs' = "step" => \A c \in candidates : Path[c] \cap Failed' = {} => ~Worse(target', c)
         /\ cs' = "free" => \A c \in candidates : Path[c] \cap Failed' = {} => ~Worse(tip, c)
<1> DEFINE considered == {Remap(c) : c \in candidates}
           unchecked == considered \ passed
           nowPassed == passed \cup UNION {MinerMarks(c, haveData) : c \in unchecked}
           nowFailed == failedValid \cup {c \in unchecked : MinerRejects(c, haveData)}
           eligible == considered \cap nowPassed
           failed == nowFailed \cup failedChild \cup bannedBlocks
<1>0. /\ linked \subseteq haveData /\ candidates \subseteq Blocks
      /\ \A b \in linked : b \in Blocks /\ Path[b] \subseteq linked
      /\ tip \in Blocks
  BY ClosedPaths DEF Types, Links
<1>1. considered = candidates
  BY DEF Remap, pindexLockedBlock, OnlyActivation
<1>2. failedValid' = nowFailed
  BY DEF FindMostWorkChain
<1>3. Failed' = nowFailed \cup failedChild'
  BY <1>2 DEF Failed
<1>4. ASSUME NEW c \in candidates, Path[c] \cap Failed' = {}, failedChild \subseteq failedChild'
      PROVE  c \in eligible
  <2>1. CASE c \in passed
    BY <1>1, <2>1
  <2>2. CASE c \notin passed
    <3>1. c \in unchecked /\ c \in Path[c]
      BY <1>0, <1>1, <2>2, PathEnds
    <3>2. ~MinerRejects(c, haveData)
      BY <1>3, <1>4, <3>1
    <3>3. c \in MinerMarks(c, haveData)
      <4>1. CASE MinerExempt(c)
        BY <4>1 DEF MinerMarks
      <4>2. CASE ~MinerExempt(c)
        <5>1. c \in haveData /\ Branch(c) \cap Failed = {}
          BY <1>0, <1>3, <1>4 DEF Branch, Failed
        <5>2. c \in Branch(c)
          BY <3>1, <4>2 DEF Branch, MinerExempt
        <5>3. \A x \in Branch(c) : Branch(x) \subseteq haveData
          BY <1>0, PathParts DEF Branch
        <5>4. Branch(c) \subseteq haveData \ BadMiner
          BY <3>2, <4>2, <5>1, <5>2, <5>3 DEF MinerRejects
        <5> QED BY <4>2, <5>1, <5>2, <5>4 DEF MinerMarks
      <4> QED BY <4>1, <4>2
    <3> QED BY <1>1, <3>1, <3>3
  <2> QED BY <2>1, <2>2
<1>5. eligible \subseteq candidates
  BY <1>1
<1>6. \/ /\ eligible = {} /\ cs' = "free" /\ UNCHANGED <<failedChild, candidates>>
      \/ \E best \in eligible : /\ \A c \in eligible : ~Worse(best, c)
                                /\ WalkBack(best, failed)
  BY DEF FindMostWorkChain
<1>7. failed = nowFailed \cup failedChild /\ failedValid \subseteq nowFailed
  BY DEF Plain
<1> HIDE DEF eligible, nowFailed, failed
<1>8. CASE eligible = {} /\ cs' = "free" /\ UNCHANGED <<failedChild, candidates>>
  BY <1>3, <1>4, <1>7, <1>8 DEF Failed
<1>9. CASE \E best \in eligible : /\ \A c \in eligible : ~Worse(best, c)
                                  /\ WalkBack(best, failed)
  <2>1. PICK best \in eligible : (\A c \in eligible : ~Worse(best, c)) /\ WalkBack(best, failed)
    BY <1>9
  <2>2. best \in Blocks
    BY <1>0, <1>5
  <2> DEFINE bad == Branch(best) \cap failed
             above == Branch(best) \ Path[Highest(bad)]
  <2>3. ASSUME bad # {} PROVE Highest(bad) \in failed
    <3>1. bad \in SUBSET Path[best] /\ bad \subseteq failed
      BY DEF Branch
    <3> HIDE DEF bad
    <3> QED BY <2>2, <2>3, <3>1, HighestIs
  <2>4. \/ /\ UNCHANGED <<failedChild, candidates>>
           /\ \/ cs' = "free" /\ best = tip
              \/ cs' = "aborted"
              \/ cs' = "step" /\ target' = best /\ UNCHANGED activating
        \/ /\ bad # {} /\ failedChild' = failedChild \cup above
           /\ candidates' = candidates \ (above \cup {Highest(bad)})
           /\ cs' = "find" /\ UNCHANGED activating
    <3>1. cs = "find"
      BY DEF FindMostWorkChain
    <3> QED BY <2>1, <3>1 DEF WalkBack
  <2> HIDE DEF above, bad
  <2>5. failedChild \subseteq failedChild'
    BY <2>4
  <2>6. Failed \subseteq Failed' /\ candidates \ candidates' \subseteq Failed'
    BY <1>3, <1>7, <2>3, <2>4 DEF Failed
  <2>7. \A c \in candidates : Path[c] \cap Failed' = {} => ~Worse(best, c)
    BY <1>4, <2>1, <2>5
  <2> QED BY <2>4, <2>6, <2>7
<1> QED
  BY <1>6, <1>8, <1>9

(* Sets of candidates that keep what has not failed keep what is needed.   *)
LEMMA StepClean ==
  ASSUME Undoing, SoundInv, Plain, Ready, SeqDistinct, OnTarget, Covered, CleanBest, [Next]_vars
  PROVE  (Covered /\ CleanBest)'
<1> USE DEF treeVars, statusVars, minerVars, lockVars, runVars
<1>0. Types /\ Links /\ WayClear /\ OnlyActivation /\ ActiveChain \cap Failed = {} /\ Unaided /\ Unmined
  BY DEF SoundInv, Undoing, Unmined
<1>1. /\ tip \in Blocks /\ target \in Blocks /\ index \subseteq Blocks
      /\ linked \subseteq Blocks /\ candidates \subseteq linked /\ candidates \subseteq Blocks
      /\ tip \in linked /\ haveData \subseteq Blocks
      /\ seq \in [Blocks -> Int]
  BY <1>0 DEF Types, Links, Ready
<1>2. Plain' /\ Ready'
  BY <1>0, StepPlain, StepReady DEF Undoing, Considerate
<1>a. \A x, y \in Blocks : Worse(x, y)' <=> \/ Work[x] < Work[y]
                                            \/ Work[x] = Work[y] /\ seq'[x] > seq'[y]
  <2> TAKE x, y \in Blocks
  <2>1. minedAt'[x] = 0 /\ minedAt'[y] = 0 /\ x \notin canMine' /\ y \notin canMine'
    BY <1>2 DEF Plain
  <2> QED BY <2>1 DEF Worse
<1>b. ASSUME UNCHANGED seq, NEW x \in Blocks, NEW y \in Blocks
      PROVE  Worse(x, y)' <=> Worse(x, y)
  BY <1>a, <1>b, WorseIs
<1>c. ASSUME UNCHANGED <<linked, seq>>, candidates' \subseteq linked,
             candidates \cup (Failed \cap linked) \subseteq candidates' \cup Failed'
      PROVE  Covered'
  BY <1>1, <1>b, <1>c DEF Covered
<1>d. ASSUME Covered', activating', cs' \in {"free", "store", "find", "aborted"}
      PROVE  (Covered /\ CleanBest)'
  BY <1>d DEF CleanBest
<1>e. ASSUME Failed \subseteq Failed', NEW c, Clean(c)' PROVE Clean(c)
  BY <1>e DEF Clean
<1>h. NoBlock \notin linked
  BY <1>1, TreeAssumption
<1>g. ASSUME UNCHANGED <<linked, seq, candidates, tip, activating>>, Failed' = Failed,
             cs \in {"free", "store"}, ~activating'
      PROVE  \E t \in Ends' : \A c \in candidates' : Clean(c)' => ~Worse(t, c)'
  <2>1. Ends \subseteq Ends' /\ Ends \subseteq Blocks
    BY <1>0, <1>1, <1>g, <1>h, EndsKept DEF Ends
  <2>2. PICK t \in Ends : \A c \in candidates : Clean(c) => ~Worse(t, c)
    BY <1>g DEF CleanBest
  <2>3. \A c \in candidates : (Clean(c)' => Clean(c)) /\ (Worse(t, c)' <=> Worse(t, c))
    BY <1>1, <1>b, <1>e, <1>g, <2>1
  <2> QED BY <1>g, <2>1, <2>2, <2>3
<1>f. ASSUME UNCHANGED <<linked, seq, candidates, tip, activating, failedValid, failedChild>>,
             cs = "free", cs' \in {"free", "store"}
      PROVE  (Covered /\ CleanBest)'
  <2>1. Failed' = Failed
    BY <1>f DEF Failed
  <2>2. Covered'
    BY <1>1, <1>c, <1>f, <2>1
  <2>3. ~activating' => \E t \in Ends' : \A c \in candidates' : Clean(c)' => ~Worse(t, c)'
    BY <1>f, <1>g, <1>h, <2>1
  <2> QED BY <1>f, <2>2, <2>3 DEF CleanBest
<1>3. CASE StoreBlock
  <2> DEFINE b == incoming
  <2>1. /\ b \in index \ haveData /\ b \in Blocks \ {Genesis} /\ cs' = "free" /\ cs = "store"
        /\ UNCHANGED <<tip, failedChild>>
    BY <1>0, <1>1, <1>3 DEF StoreBlock, Types, Links, Handling
  <2>2. Failed \subseteq Failed'
    BY <1>3 DEF StoreBlock, Failed
  <2> DEFINE new == linked' \ linked
  <2>3. /\ linked' = linked \cup new /\ candidates' = candidates \cup new
        /\ \A x \in new : x \in Blocks /\ b \in Path[x]
        /\ \A x \in linked : seq'[x] = seq[x]
    <3>1. CASE b \notin BadContext /\ Prev[b] \in linked
      <4>1. /\ linked' = linked \cup Linking(b) /\ candidates' = candidates \cup Linking(b)
            /\ \E f \in LinkOrders(Linking(b)) :
                  seq' = [x \in Blocks |-> IF x \in Linking(b) THEN f[x] ELSE seq[x]]
        BY <1>3, <3>1 DEF StoreBlock, ReceivedBlockTransactions
      <4>2. Linking(b) \subseteq {b} \cup unlinked /\ \A x \in Linking(b) : b \in Path[x]
        BY DEF Linking
      <4>3. Linking(b) \cap linked = {} /\ Linking(b) \subseteq Blocks
        BY <1>0, <1>1, <2>1, <4>2 DEF Links
      <4> QED BY <1>1, <4>1, <4>2, <4>3
    <3>2. CASE ~(b \notin BadContext /\ Prev[b] \in linked)
      <4>1. UNCHANGED <<linked, candidates, seq>>
        BY <1>3, <3>2 DEF StoreBlock, ReceivedBlockTransactions
      <4> QED BY <1>1, <4>1
    <3> QED BY <3>1, <3>2
  <2>4. \/ activating'
        \/ UNCHANGED activating /\ b \in Failed'
    BY <1>3 DEF StoreBlock, Failed
  <2> HIDE DEF new
  <2>5. ASSUME NEW x \in linked, NEW y \in linked PROVE Worse(x, y)' <=> Worse(x, y)
    BY <1>0, <1>1, <1>a, <2>3, WorseIs
  <2>6. ASSUME NEW x \in new PROVE ~Worse(x, x)'
    <3>1. x \in Blocks /\ Work[x] \in Nat /\ ~(Work[x] < Work[x])
      BY <2>3, WorkIs
    <3>2. ~(seq'[x] > seq'[x])
      BY <1>2, <3>1 DEF Ready
    <3> QED BY <1>a, <3>1, <3>2
  <2>7. Covered'
    <3> SUFFICES ASSUME NEW x \in linked'
                 PROVE  \E c \in candidates' \cup (Failed' \cap linked') : ~Worse(c, x)'
      BY DEF Covered
    <3>1. CASE x \in new
      BY <2>3, <2>6, <3>1
    <3>2. CASE x \in linked
      <4>1. PICK c \in candidates \cup (Failed \cap linked) : ~Worse(c, x)
        BY <3>2 DEF Covered
      <4> QED BY <1>1, <2>2, <2>3, <2>5, <3>2, <4>1
    <3> QED BY <2>3, <3>1, <3>2
  <2>8. ASSUME ~activating'
        PROVE  \E t \in Ends' : \A c \in candidates' : Clean(c)' => ~Worse(t, c)'
    <3>1. UNCHANGED activating /\ b \in Failed'
      BY <2>4, <2>8
    <3>2. Failed' \subseteq Failed \cup {b} /\ b \notin linked /\ candidates \subseteq candidates'
      BY <1>0, <1>3, <2>1, <2>3 DEF StoreBlock, Failed, Types, Links
    <3>3. Ends \subseteq Ends' /\ Ends \subseteq linked
      BY <1>0, <1>1, <2>1, <3>2, EndsKept DEF Ends
    <3>4. PICK t \in Ends : \A c \in candidates : Clean(c) => ~Worse(t, c)
      BY <2>1, <2>8, <3>1 DEF CleanBest
    <3>5. ASSUME NEW c \in candidates', Clean(c)' PROVE ~Worse(t, c)'
      <4>1. c \in candidates
        BY <2>3, <3>1, <3>5 DEF Clean
      <4>2. ~Worse(t, c)
        BY <1>e, <2>2, <3>4, <3>5, <4>1
      <4>3. t \in linked /\ c \in linked
        BY <1>1, <3>3, <3>4, <4>1
      <4> QED BY <2>5, <4>2, <4>3
    <3> QED BY <3>3, <3>4, <3>5
  <2> QED BY <2>1, <2>7, <2>8 DEF CleanBest
<1>4. CASE StartRound
  <2>1. UNCHANGED <<linked, seq, candidates, activating, failedValid, failedChild>>
        /\ cs' = "find" /\ activating
    BY <1>4 DEF StartRound
  <2> QED BY <1>1, <1>c, <1>d, <2>1 DEF Failed
<1>5. CASE FindMostWorkChain
  <2>1. UNCHANGED <<linked, seq, tip>> /\ candidates' \subseteq candidates
        /\ cs' \in {"free", "find", "aborted", "step"} /\ target' \in Blocks
    BY <1>0, <1>1, <1>5, FindChanges DEF Types
  <2>2. activating
    BY <1>5 DEF FindMostWorkChain, CleanBest
  <2>3. /\ Failed \subseteq Failed' /\ candidates \ candidates' \subseteq Failed'
        /\ cs' \in {"find", "step"} => activating'
        /\ cs' = "step" => \A c \in candidates : Path[c] \cap Failed' = {} => ~Worse(target', c)
        /\ cs' = "free" => \A c \in candidates : Path[c] \cap Failed' = {} => ~Worse(tip, c)
    BY <1>0, <1>1, <1>5, <2>2, FindClean
  <2>4. Covered'
    BY <1>1, <1>c, <2>1, <2>3
  <2>5. cs' = "step" => \A c \in candidates' : Clean(c)' => ~Worse(target, c)'
    <3> SUFFICES ASSUME cs' = "step", NEW c \in candidates', Clean(c)' PROVE ~Worse(target, c)'
      OBVIOUS
    <3>1. c \in Blocks /\ ~Worse(target', c)
      BY <1>1, <2>1, <2>3 DEF Clean
    <3>2. \A t \in Blocks : Worse(t, c)' <=> Worse(t, c)
      BY <1>b, <2>1, <3>1
    <3>3. \A t \in Blocks : t = target' => (Worse(target, c)' <=> Worse(t, c))
      BY <3>2 DEF Worse
    <3> QED BY <2>1, <3>1, <3>3
  <2>6. cs' = "free" => \E t \in Ends' : \A c \in candidates' : Clean(c)' => ~Worse(t, c)'
    <3>1. cs' = "free" => \A c \in candidates' : Clean(c)' => ~Worse(tip, c)'
      BY <1>1, <1>b, <2>1, <2>3 DEF Clean
    <3> QED BY <2>1, <3>1 DEF Ends
  <2> QED BY <2>1, <2>3, <2>4, <2>5, <2>6 DEF CleanBest
<1>6. CASE DisconnectTip
  <2>1. UNCHANGED <<linked, seq, candidates, target, activating, failedValid, failedChild>>
        /\ cs' \in {"step", "return"} /\ cs = "step"
    BY <1>6 DEF DisconnectTip
  <2>2. Failed' = Failed
    BY <2>1 DEF Failed
  <2>3. \A c \in candidates' : Clean(c)' => ~Worse(target, c)'
    BY <1>1, <1>b, <1>e, <2>1, <2>2 DEF CleanBest
  <2> QED BY <1>1, <1>c, <2>1, <2>2, <2>3 DEF CleanBest
<1>7. CASE ConnectTip
  <2> DEFINE new == NextToConnect
  <2>1. new \in Blocks \ {Genesis} /\ Prev[new] = tip /\ new # NoBlock
    BY <1>1, <1>7, NextIsChild, TreeAssumption DEF ConnectTip
  <2>a. CASE cs' = "free"
    <3>1. /\ UNCHANGED <<candidates, tip, failedValid, failedChild>>
          /\ target \in Ends'
      BY <1>0, <1>7, <2>a, StopsBarred DEF Unmined, Plain
    <3>2. UNCHANGED <<linked, seq>> /\ cs = "step" /\ Failed' = Failed
      BY <1>7, <3>1 DEF ConnectTip, Failed
    <3>3. \A c \in candidates' : Clean(c)' => ~Worse(target, c)
      BY <1>e, <3>1, <3>2 DEF CleanBest
    <3>4. PICK t : t = target
      OBVIOUS
    <3>5. \A c \in candidates' : Worse(t, c)' <=> Worse(t, c)
      BY <1>1, <1>b, <3>1, <3>2, <3>4
    <3>6. \E x \in Ends' : \A c \in candidates' : Clean(c)' => ~Worse(x, c)'
      BY <3>1, <3>3, <3>4, <3>5
    <3>7. Covered'
      BY <1>1, <1>c, <3>1, <3>2
    <3> QED BY <2>a, <3>6, <3>7 DEF CleanBest
  <2>b. SUFFICES ASSUME cs' # "free" PROVE (Covered /\ CleanBest)'
    BY <2>a
  <2>2. /\ UNCHANGED <<linked, seq, target, activating>> /\ cs = "step"
        /\ Failed \subseteq Failed' /\ candidates' \subseteq candidates
        /\ cs' \in {"step", "return", "aborted"}
        /\ \/ candidates \subseteq candidates' \cup Failed'
           \/ candidates' = {c \in candidates : ~Worse(c, new)} /\ new \in haveData
    BY <1>7, <2>1, <2>b DEF ConnectTip, PruneBlockIndexCandidates, CheckBlockBans, Plain, Failed
  <2>3. new \in haveData => new \in linked
    BY <1>0, <2>1 DEF Links
  <2> HIDE DEF new
  <2>4. Covered'
    <3>1. CASE candidates \subseteq candidates' \cup Failed'
      BY <1>1, <1>c, <2>2, <3>1
    <3>2. CASE candidates' = {c \in candidates : ~Worse(c, new)} /\ new \in linked
      <4>1. \A x, y, z \in linked : ~Worse(x, y) /\ ~Worse(y, z) => ~Worse(x, z)
        BY <1>1, WorseOrder
      <4>2. \A x, y \in linked : Worse(x, y) => ~Worse(y, x)
        BY <1>1, WorseOrder
      <4> DEFINE K == candidates' \cup (Failed' \cap linked)
      <4>3. PICK d \in candidates \cup (Failed \cap linked) : ~Worse(d, new)
        BY <3>2 DEF Covered
      <4>4. d \in K
        BY <2>2, <3>2, <4>3
      <4>5. ASSUME NEW b \in linked PROVE \E k \in K : ~Worse(k, b)
        <5>1. PICK c \in candidates \cup (Failed \cap linked) : ~Worse(c, b)
          BY DEF Covered
        <5>2. CASE c \in K
          BY <5>1, <5>2
        <5>3. CASE c \notin K
          <6>1. c \in linked /\ Worse(c, new)
            BY <1>1, <2>2, <3>2, <5>1, <5>3
          <6>2. d \in linked /\ ~Worse(new, c)
            BY <1>1, <3>2, <4>2, <4>3, <6>1
          <6>3. ~Worse(d, c)
            BY <3>2, <4>1, <4>3, <6>1, <6>2
          <6>4. ~Worse(d, b)
            BY <4>1, <5>1, <6>1, <6>2, <6>3
          <6> QED BY <4>4, <6>4
        <5> QED BY <5>2, <5>3
      <4>6. K \subseteq Blocks
        BY <1>1, <2>2
      <4> QED BY <1>1, <1>b, <2>2, <4>5, <4>6 DEF Covered
    <3> QED BY <2>2, <2>3, <3>1, <3>2
  <2>5. \A c \in candidates' : Clean(c)' => ~Worse(target, c)'
    BY <1>1, <1>b, <1>e, <2>2 DEF CleanBest
  <2> QED BY <2>2, <2>4, <2>5 DEF CleanBest
<1>8. CASE RoundReturn
  <2>1. UNCHANGED <<linked, seq, candidates, tip, failedValid, failedChild>>
        /\ cs = "return" /\ cs' = "free" /\ (tip # target => activating')
    BY <1>8 DEF RoundReturn
  <2>2. Failed' = Failed
    BY <2>1 DEF Failed
  <2>3. Covered'
    BY <1>1, <1>c, <2>1, <2>2
  <2>4. CASE tip # target
    BY <1>d, <2>1, <2>3, <2>4
  <2>5. CASE tip = target
    <3>1. \A c \in candidates : Clean(c) => ~Worse(tip, c)
      BY <2>1, <2>5 DEF CleanBest
    <3>2. \A c \in candidates' : Clean(c)' => ~Worse(tip, c)'
      BY <1>1, <1>b, <1>e, <2>1, <2>2, <3>1
    <3> QED BY <2>1, <2>3, <3>2 DEF CleanBest, Ends
  <2> QED BY <2>4, <2>5
<1>9. ASSUME NEW b \in Blocks, AcceptHeader(b) \/ ReceiveBlock(b)
      PROVE  (Covered /\ CleanBest)'
  <2>1. \A next : AfterHeader(b, next) => cs' = next
    BY <1>0, TreeAssumption DEF AfterHeader, OnlyActivation
  <2> QED BY <1>9, <1>f, <2>1 DEF AcceptHeader, ReceiveBlock
<1>10. ASSUME NEW b \in Blocks, ReceiveKnownBlock(b) PROVE (Covered /\ CleanBest)'
  <2>1. UNCHANGED <<linked, seq, candidates, failedValid, failedChild>>
        /\ activating' /\ cs' = "free"
    BY <1>10 DEF ReceiveKnownBlock
  <2> QED BY <1>1, <1>c, <1>d, <2>1 DEF Failed
<1>11. ASSUME NEW b \in Blocks, InvalidateBlock(b) PROVE (Covered /\ CleanBest)'
  <2> DEFINE removed == IF b \in ActiveChain THEN ActiveChain \ Path[Prev[b]] ELSE {}
  <2>1. b \in linked
    BY <1>11 DEF InvalidateBlock, MayName, Undoing
  <2>2. /\ Failed' = Failed \cup {b} \cup removed
        /\ candidates \ ({b} \cup removed) \subseteq candidates'
        /\ candidates' \subseteq candidates \cup {b}
        /\ UNCHANGED <<linked, seq>> /\ activating' /\ cs' = "free"
    <3>1. cs = "free" /\ UNCHANGED cs
      BY <1>11 DEF InvalidateBlock
    <3> QED BY <1>11, <3>1 DEF InvalidateBlock, Failed
  <2> HIDE DEF removed
  <2>3. Covered'
    BY <1>1, <1>c, <2>1, <2>2
  <2> QED BY <1>d, <2>2, <2>3
<1>12. ASSUME NEW b \in Blocks, ReconsiderBlock(b) PROVE (Covered /\ CleanBest)'
  <2> DEFINE below == {x \in index \cap Failed : b \in Path[x]}
             K == candidates' \cup (Failed' \cap linked)
  <2>1. b \in linked
    BY <1>12 DEF ReconsiderBlock, MayName, Undoing
  <2>2. /\ Failed' = Failed \ (below \cup Path[b])
        /\ candidates' = candidates \cup {x \in below \cap linked : Worse(tip, x)}
        /\ UNCHANGED <<linked, seq>> /\ activating' /\ cs' = "free"
    <3>1. cs = "free" /\ UNCHANGED cs
      BY <1>12 DEF ReconsiderBlock
    <3> QED BY <1>12, <3>1 DEF ReconsiderBlock, Failed
  <2>3. K \in SUBSET linked /\ candidates \subseteq K
    BY <1>1, <2>2
  <2>4. linked \subseteq index
    BY <1>0 DEF Types, Links
  <2>5. \A x \in Failed \cap linked : \/ x \in K
                                      \/ b \in Path[x] /\ ~Worse(tip, x)
                                      \/ b \notin Path[x] /\ x \in Path[b]
    BY <2>2, <2>4
  <2>6. PICK k : k = K
    OBVIOUS
  <2> HIDE DEF K, below
  <2>7. \A x \in linked : \E y \in K : ~Worse(y, x)
    BY <1>0, <1>1, <2>1, <2>3, <2>5, <2>6, ReconsiderCovers
  <2>8. Covered'
    <3>1. \A x \in linked : \E y \in K : ~Worse(y, x)'
      BY <1>1, <1>b, <2>2, <2>3, <2>7
    <3> QED BY <2>2, <3>1 DEF Covered, K
  <2> QED BY <1>d, <2>2, <2>8
<1>13. CASE UNCHANGED vars
  <2>1. UNCHANGED <<linked, seq, candidates, tip, target, cs, activating, failedValid, failedChild>>
    BY <1>13 DEF vars
  <2>2. Failed' = Failed
    BY <2>1 DEF Failed
  <2>3. Covered'
    BY <1>1, <1>c, <2>1, <2>2
  <2>4. \A c \in candidates' : /\ Clean(c)' => Clean(c)
                               /\ Worse(target, c)' <=> Worse(target, c)
    BY <1>1, <1>b, <1>e, <2>1, <2>2
  <2>5. cs \in {"free", "store"} /\ ~activating' =>
          \E t \in Ends' : \A c \in candidates' : Clean(c)' => ~Worse(t, c)'
    BY <1>g, <2>1, <2>2
  <2> QED BY <2>1, <2>3, <2>4, <2>5 DEF CleanBest
<1>14. CASE SetLastReturn \/ RemoveLockedBlock
  BY <1>0, <1>14 DEF SetLastReturn, RemoveLockedBlock, OnlyActivation
<1>15. ASSUME NEW b \in Blocks, SetLastBlock(b) \/ SetLockedBlock(b) PROVE FALSE
  BY <1>0, <1>15 DEF SetLastBlock, SetLockedBlock, Unaided
<1>16. ASSUME NEW b \in Bannable PROVE FALSE
  BY <1>0, <1>16 DEF Unmined
<1> QED
  BY <1>3, <1>4, <1>5, <1>6, <1>7, <1>8, <1>9, <1>10, <1>11, <1>12, <1>13, <1>14, <1>15, <1>16,
     <1>0 DEF Next, Running, Unmined

(* For an operator who names only blocks whose whole chain is stored, and  *)
(* a wallet that does not mine, reconsiderblock undoes invalidateblock: no *)
(* assertion fails, and whenever no block carries a failure flag and       *)
(* nobody is activating, no stored valid chain has more work than the      *)
(* active one, or than a candidate barred by a refused coinbase, whatever  *)
(* was invalidated and reconsidered on the way.                            *)
THEOREM ReconsiderRestoresHolds ==
  ASSUME Undoing, IsFiniteSet(Blocks) PROVE Spec => []ReconsiderRestores
<1> DEFINE Inv == SoundInv /\ Ready /\ Plain /\ SeqDistinct /\ OnTarget /\ Covered /\ CleanBest
<1>1. Considerate /\ Unaided /\ Unmined
  BY DEF Undoing, Unmined, Considerate
<1>2. Init => Inv
  <2> SUFFICES ASSUME Init PROVE Inv
    OBVIOUS
  <2>1. Types /\ Links /\ OnlyActivation /\ Ready /\ WayClear
    BY InitTypes, TreeAssumption DEF Init, Ready, OnlyActivation, WayClear
  <2>2. Plain /\ ActiveChain \cap Failed = {}
    BY <1>1 DEF Init, Plain, Unmined, Failed
  <2>3. ~Worse(Genesis, Genesis)
    BY <2>1, <2>2, TreeAssumption, WorseOrder DEF Ready
  <2>4. SeqDistinct
    BY TreeAssumption DEF Init, SeqDistinct
  <2>5. Covered /\ CleanBest /\ OnTarget
    BY <2>3 DEF Init, Covered, CleanBest, Ends, OnTarget
  <2> QED BY <2>1, <2>2, <2>4, <2>5 DEF SoundInv
<1>3. Inv /\ [Next]_vars => Inv'
  <2> SUFFICES ASSUME Inv, [Next]_vars PROVE Inv'
    OBVIOUS
  <2>1. SoundInv'
    BY <1>1, StepTypes, StepLinks, StepWayClear, StepOnlyActivation, StepSound DEF SoundInv
  <2>2. Ready' /\ Plain' /\ SeqDistinct' /\ OnTarget'
    BY <1>1, StepReady, StepPlain, StepSeqDistinct, StepOnTarget DEF SoundInv
  <2> QED BY <2>1, <2>2, StepClean
<1>4. Inv => ReconsiderRestores
  <2> SUFFICES ASSUME Inv PROVE ReconsiderRestores
    OBVIOUS
  <2>1. NeverAborts
    BY DEF Ready, NeverAborts
  <2>2. ASSUME Failed = {}, cs = "free", ~activating, NEW b \in linked
        PROVE  \E t \in Ends : Work[b] <= Work[t]
    <3>1. linked \subseteq Blocks /\ Ends \subseteq Blocks
      BY DEF SoundInv, Types, Links, Ready, Ends
    <3>2. PICK c \in candidates : ~Worse(c, b)
      BY <2>2 DEF Covered
    <3>3. PICK t \in Ends : \A d \in candidates : Clean(d) => ~Worse(t, d)
      BY <2>2 DEF CleanBest
    <3>4. ~Worse(t, c) /\ t \in Blocks /\ c \in Blocks /\ b \in Blocks
      BY <2>2, <3>1, <3>2, <3>3 DEF Clean, Ready
    <3>5. ~Worse(t, b)
      BY <3>1, <3>2, <3>4, WorseOrder DEF Ready
    <3> QED BY <3>3, <3>4, <3>5, WorseOrder DEF Ready
  <2> QED BY <2>1, <2>2 DEF ReconsiderRestores, BestChainActive, Quiet
<1> QED
  BY <1>2, <1>3, <1>4, PTL DEF Spec
=============================================================================
