SPECIFICATION Spec
CONSTANTS
  t1 = t1
  t2 = t2
  a1 = a1
  a2 = a2
  a3 = a3
  NoTrade = NoTrade
  NoLeg = NoLeg
  Trade <- TwoTrades
  Leg <- TwoLegs
  Owner <- TwoLegsOwner
  Purpose <- TwoLegsPurpose
  Handler = {h1, h2}
  Active = {"ws", "risk", "kill"}
  TrailingEnabled = FALSE
  MaxCrashes = 1
  MaxKills = 1
INVARIANT ClosersExclusive
PROPERTY ImplementsLedger
SYMMETRY HandlerSymmetry
CHECK_DEADLOCK FALSE
