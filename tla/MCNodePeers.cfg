SPECIFICATION Spec
CONSTANTS
  Blocks <- TreeBlocks
  Genesis = "g"
  NoBlock = "none"
  Prev <- TreePrev
  Chain <- TreeChain
  Failed = {"c1"}
  Greedy = {"b2"}
  BadSigned = {"d1"}
  Peers = {"h", "p"}
  NoPeer = "nobody"
  Answering = {"h"}
  Whitelisted = {"p"}
  BLOCK_DOWNLOAD_WINDOW = 1
  MAX_BLOCKS_IN_TRANSIT_PER_PEER = 2
  Budgets <- Plans
  Txs = {"t1", "t2", "t3", "x"}
  Parents <- TxParents
  HashOrder <- TxOrder
  BadTxs = {"x"}
  DoSTxs = {"x"}
  LargeTxs = {}
  MaxOrphans = 2
  TxsOf <- TreeTxs
CHECK_DEADLOCK FALSE
INVARIANT TypeOK
INVARIANT InFlightAgree
INVARIANT CountsCover
INVARIANT AskedInFlight
INVARIANT OrphanMapsAgree
INVARIANT OrphansLimited
PROPERTY OrphansResolved
PROPERTY BlocksArrive
