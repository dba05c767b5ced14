SPECIFICATION Spec
CONSTANTS
  Grants = {g1}
  Assets = {a1}
  Miners = {m1}
  MaxBlock = 0
  MaxPool = 2
  MaxRow = 4
  MaxOps = 1
PROPERTY RejectLeavesNoTrace
