SPECIFICATION FairSpec
CONSTANTS
  Symbol = {btc, eth}
  NoSymbol = NoSymbol
  Cooldown = 1
  Pause = 2
  MaxLosses = 2
  MaxDayLoss = 2
  MaxBooked = 2
  MaxGain = 2
  MaxRestarts = 0
PROPERTY PauseEnds
CHECK_DEADLOCK FALSE
