SPECIFICATION FairSpec
CONSTANTS
  t1 = t1
  t2 = t2
  a1 = a1
  a2 = a2
  a3 = a3
  NoTrade = NoTrade
  NoLeg = NoLeg
  Trade <- OneTrade
  Leg <- TwoLegs
  Owner <- TwoLegsOwner
  Purpose <- TwoLegsPurpose
  Handler = {h1}
  Active = {"ws", "cron", "drop"}
  TrailingEnabled = FALSE
  MaxCrashes = 0
  MaxKills = 0
INVARIANT StopGuards
PROPERTY ZombiesEnd
CHECK_DEADLOCK FALSE
