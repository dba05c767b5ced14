---------------------------- MODULE MCChainState ----------------------------
(* ChainState over small block trees.                                      *)
EXTENDS ChainState, TLC

(* Four branches: two that share their first block and have equal work, a  *)
(* heavier one, and a single block.                                        *)
ForkPrev == [a1 |-> "g", a2 |-> "a1", c2 |-> "a1", b1 |-> "g", b2 |-> "b1", d1 |-> "g"]
ForkBlocks == DOMAIN ForkPrev \cup {"g"}
ForkProof == [b \in ForkBlocks |-> IF b = "b2" THEN 2 ELSE 1]

(* Two branches, the second one with more work at the same height.         *)
TwinPrev == [a1 |-> "g", a2 |-> "a1", b1 |-> "g", b2 |-> "b1"]
TwinBlocks == DOMAIN TwinPrev \cup {"g"}
TwinProof == [b \in TwinBlocks |-> IF b = "b2" THEN 2 ELSE 1]

(* The same with a third block that never gets its data.                   *)
SpurPrev == TwinPrev @@ [c2 |-> "a1"]
SpurBlocks == DOMAIN SpurPrev \cup {"g"}
SpurProof == [b \in SpurBlocks |-> IF b = "b2" THEN 2 ELSE 1]

(* Two blocks that share their parent.                                     *)
StemPrev == [a1 |-> "g", a2 |-> "a1", c2 |-> "a1"]
StemBlocks == DOMAIN StemPrev \cup {"g"}
StemProof == [b \in StemBlocks |-> 1]
=============================================================================
