SPECIFICATION Spec
CONSTANTS
  t1 = t1
  t2 = t2
  a1 = a1
  a2 = a2
  a3 = a3
  NoTrade = NoTrade
  NoLeg = NoLeg
  Trade <- OneTrade
  Leg <- OneTradeLegs
  Owner <- OneTradeOwner
  Purpose <- OneTradePurpose
  Handler = {h1}
  Active = {"ws", "entry", "cron"}
  TrailingEnabled = TRUE
  MaxCrashes = 0
  MaxKills = 0
INVARIANTS
  ClosedMeansFlat
CHECK_DEADLOCK FALSE
