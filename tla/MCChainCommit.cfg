SPECIFICATION Spec
CONSTANTS
  Blocks <- TreeBlocks
  Genesis = "g"
  NoBlock = NoBlock
  Prev <- TreePrev
  Chain <- TreeChain
  BadMiner = {}
  BadTx = {"y3"}
  BadCoinbase = {"x2"}
  IssuesEntity = {"a2"}
  Txs = {"t"}
  TxsOf <- TreeTxs
  Window = 1
  MaxFaults = 2
INVARIANT TypeOK
INVARIANT StoresAgree
INVARIANT CrashRecoverable
INVARIANT AddressIndexExact
INVARIANT PermPoolReplayed
INVARIANT WalletFollows
INVARIANT StopsExplained
PROPERTY StartEnds
