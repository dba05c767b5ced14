SPECIFICATION Spec
CONSTANTS
  Grants = {g1}
  Assets = {}
  Miners = {m1}
  MaxBlock = 1
  MaxPool = 3
  MaxRow = 6
  MaxOps = 5
INVARIANT RepairSucceeds
