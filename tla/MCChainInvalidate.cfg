SPECIFICATION Spec
CONSTANTS
  Blocks <- TwinBlocks
  Genesis = "g"
  NoBlock = NoBlock
  Prev <- TwinPrev
  Proof <- TwinProof
  BadContext = {}
  BadMiner = {}
  BadTx = {}
  BadCoinbase = {}
  MinedByMe = {}
  CanMineAt = {}
  MinerPrecheck = FALSE
  Bannable = {}
  Commands = {"invalidate", "careful"}
INVARIANT BestChainActive
