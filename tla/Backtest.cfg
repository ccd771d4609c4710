SPECIFICATION StructuredSpec
CONSTANTS
  NoPosition = NoPosition
  NoTrade = NoTrade
  NoBar = NoBar
  Zone <- SomeZones
  MaxWait = 2
  MinDistance = 2
  MaxDistance = 75
  SlBuffer = 10
  MinSl = 30
  Options <- SomeOptions
  BePct = 2
  Buffer = 5
  TrailFixed = 20
  TrailActivation = 20
  Simulators <- SomeSimulators
  Bar <- SomeBars
  Bars = 4
  Minutes = 3
  LimitWait = 2
  Cooldown = 2
  IocSlip = 10
  MarketSlip = 10
  Drift = 35
  RewardRisk = 2
  Configs <- SomeConfigs
  Shape <- SomeShapes
  MaxGap = 0
  WindowSize = 8
  Lookback = 1
  BlockDepth = 1
INVARIANTS
  SetupAges
  ZonesUnbroken
  BracketEncloses
  ExitsInTime
PROPERTIES
  CancelledByNews
  StopOnlyTightens
  ZonesStand
  BreaksAsAssumed
CHECK_DEADLOCK FALSE
