SPECIFICATION Spec
CONSTANTS
  Qty = 2
  Faults = {}
INVARIANTS
  CancelMeansUnfilled
CHECK_DEADLOCK FALSE
