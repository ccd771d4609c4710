SPECIFICATION PortsSpec
CONSTANTS
  Symbol = {btc, eth}
  Interval = {m15, h1}
  NoInterval = NoInterval
  Stream = {btc15, eth15}
  NoStream = NoStream
  MaxFails = 2
  MaxCalls = 3
  MaxCommands = 4
  MaxOutages = 3
INVARIANTS
  NeverWedged
  SymbolsAsked
  NoHammering
  SubscribeStartsOver
  OneChainPerStart
  OneCallAtATime
PROPERTIES
  SilentIsSeen
  PortRecovers
  PortReconnects
CHECK_DEADLOCK FALSE
