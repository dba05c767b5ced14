SPECIFICATION Spec
CONSTANTS
  Blocks <- TwinBlocks
  Genesis = "g"
  NoBlock = NoBlock
  Prev <- TwinPrev
  Proof <- TwinProof
  BadContext = {}
  BadMiner = {}
  BadTx = {}
  BadCoinbase = {}
  MinedByMe = {}
  CanMineAt = {}
  MinerPrecheck = FALSE
  Bannable = {"b2"}
  Commands = {"lock", "setlast", "careful"}
PROPERTY LockRespected
PROPERTY BannedNotConnected
PROPERTY HandlersEnd
