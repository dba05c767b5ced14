SPECIFICATION Spec
CONSTANTS
  Blocks <- ForkBlocks
  Genesis = "g"
  NoBlock = NoBlock
  Prev <- ForkPrev
  Proof <- ForkProof
  BadContext = {}
  BadMiner = {"d1"}
  BadTx = {"b1"}
  BadCoinbase = {"a2"}
  MinedByMe = {"c2"}
  CanMineAt = {"g", "a1", "c2"}
  MinerPrecheck = TRUE
  Bannable = {}
  Commands = {}
INVARIANT TypeOK
INVARIANT LinkedIffStored
INVARIANT ActiveChainSound
INVARIANT NeverAborts
INVARIANT BestChainActive
PROPERTY ActivationEnds
