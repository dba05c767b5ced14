SPECIFICATION Spec
CONSTANTS
  Blocks <- SpurBlocks
  Genesis = "g"
  NoBlock = NoBlock
  Prev <- SpurPrev
  Proof <- SpurProof
  BadContext = {"c2"}
  BadMiner = {}
  BadTx = {}
  BadCoinbase = {"b2"}
  MinedByMe = {}
  CanMineAt = {}
  MinerPrecheck = FALSE
  Bannable = {}
  Commands = {"invalidate", "reconsider", "careful"}
INVARIANT ReconsiderRestores
PROPERTY FailedNotConnected
