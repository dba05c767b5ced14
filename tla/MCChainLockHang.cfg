SPECIFICATION Spec
CONSTANTS
  Blocks <- StemBlocks
  Genesis = "g"
  NoBlock = NoBlock
  Prev <- StemPrev
  Proof <- StemProof
  BadContext = {}
  BadMiner = {}
  BadTx = {}
  BadCoinbase = {}
  MinedByMe = {}
  CanMineAt = {}
  MinerPrecheck = FALSE
  Bannable = {}
  Commands = {"invalidate", "lock", "careful"}
PROPERTY HandlersEnd
CHECK_DEADLOCK FALSE
