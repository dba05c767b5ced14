SPECIFICATION Spec
CONSTANTS
  Grants = {g1}
  Assets = {}
  Miners = {m1}
  MaxBlock = 1
  MaxPool = 2
  MaxRow = 7
  MaxOps = 5
INVARIANT TypeOK
INVARIANT IndexTrue
INVARIANT ForkReadTrue
INVARIANT PointersTrue
INVARIANT DbNeverAhead
PROPERTY RejectLeavesNoTrace
PROPERTY VerifyLeavesNoTrace
PROPERTY LogSpec
