SPECIFICATION Spec
CONSTANTS
  Symbol = {btc, eth}
  NoJob = NoJob
  Kept = 4
  KeptFailed = 4
  MaxCandle = 2
  MaxSwitches = 2
  MaxCrashes = 2
INVARIANTS
  OneEntryPerCandle
  LateEntries
PROPERTY ShadowPlacesNothing
CHECK_DEADLOCK FALSE
