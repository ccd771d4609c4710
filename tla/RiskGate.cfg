SPECIFICATION Spec
CONSTANTS
  Symbol = {btc, eth}
  NoSymbol = NoSymbol
  Cooldown = 2
  Pause = 2
  MaxLosses = 2
  MaxDayLoss = 2
  MaxBooked = 2
  MaxGain = 1
  MaxRestarts = 1
SYMMETRY Swap
INVARIANTS
  DayLossBounded
  LossStreakBounded
PROPERTY EntrySpacing
CHECK_DEADLOCK FALSE
