SPECIFICATION Spec
CONSTANTS
  TxIds = {t1, t2}
  Coins = {c1, c2}
  Blocks = {b1, b2}
  Pruned = Pruned
  NullHash = NullHash
  NotFound = NotFound
  NoEntry = NoEntry
  NoTx = NoTx
SYMMETRY Symmetry
INVARIANT TypeOK
INVARIANT TipFlagsTrue
INVARIANT ViewFlagsTrue
INVARIANT BatchWriteAssert
PROPERTY StoreSpec
