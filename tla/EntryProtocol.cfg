SPECIFICATION Spec
CONSTANTS
  Qty = 3
  Faults = {"refused", "lost"}
INVARIANTS
  OpenRowHasStop
  LegsLinked
  ExposureBounded
  NakedHasCause
CHECK_DEADLOCK FALSE
