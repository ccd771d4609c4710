------------------------- MODULE MCTradeLifecycle -------------------------
(* Small instances of TradeLifecycle.                                      *)
EXTENDS TradeLifecycle, TLC

CONSTANTS t1, t2, a1, a2, a3

\* One trade with a stop, a trailed stop and a target.
OneTrade == {t1}
OneTradeLegs == {a1, a2, a3}
OneTradeOwner == [l \in OneTradeLegs |-> t1]
OneTradePurpose == (a1 :> "SL") @@ (a2 :> "TP") @@ (a3 :> "TSL")

\* The same trade without trailing.
TwoLegs == {a1, a2}
TwoLegsOwner == [l \in TwoLegs |-> t1]
TwoLegsPurpose == (a1 :> "SL") @@ (a2 :> "TP")

\* A second trade of the symbol: its stop is always refused, so it is in the
\* position with no leg and no row, and the first one's legs may take it out.
TwoTrades == {t1, t2}

\* Handlers differ in nothing but their name.
HandlerSymmetry == Permutations(Handler)
=============================================================================
