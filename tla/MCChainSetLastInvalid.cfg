SPECIFICATION Spec
CONSTANTS
  Blocks <- StemBlocks
  Genesis = "g"
  NoBlock = NoBlock
  Prev <- StemPrev
  Proof <- StemProof
  BadContext = {}
  BadMiner = {}
  BadTx = {}
  BadCoinbase = {}
  MinedByMe = {}
  CanMineAt = {}
  MinerPrecheck = FALSE
  Bannable = {}
  Commands = {"invalidate", "setlast", "careful"}
PROPERTY FailedNotConnected
