----------------------------- MODULE MCBacktest -----------------------------
(* A small instance of Backtest, around a price of 5000.                   *)
EXTENDS StructuredBacktest

M(o, h, l, c) == [open |-> o, high |-> h, low |-> l, close |-> c]
\* Three minutes and the bar that they make up.
B(m1, m2, m3) ==
  [candle |-> M(m1.open, Max({m1.high, m2.high, m3.high}), Min({m1.low, m2.low, m3.low}), m3.close),
   minutes |-> <<m1, m2, m3>>, gap |-> FALSE]

\* to the zones below and back
Dip == B(M(5000, 5000, 4980, 4980), M(4980, 4990, 4970, 4990), M(4990, 5000, 4990, 5000))
\* through the zones below
Fall == B(M(4940, 4950, 4920, 4930), M(4930, 4930, 4930, 4930), M(4930, 4930, 4930, 4930))
\* through the zone above
Rise == B(M(5000, 5020, 5000, 5020), M(5020, 5060, 5020, 5060), M(5060, 5060, 5040, 5040))
\* up first, then to the zones below
Spike == B(M(5000, 5050, 5000, 5000), M(5000, 5000, 4980, 4990), M(4990, 5000, 4990, 5000))
\* between the zones below, when a limit order has been given up
Late == B(M(5000, 5000, 5000, 5000), M(5000, 5000, 5000, 5000), M(5000, 5000, 4960, 4960))
\* to the zones first, then a rise that does not reach the target and its way back
Climb == B(M(4980, 4980, 4980, 4980), M(5000, 5010, 5000, 5000), M(5000, 5000, 5000, 5000))
Hole == [Fall EXCEPT !.gap = TRUE]

SomeBars == {Dip, Fall, Rise, Spike, Late, Climb, Hole}

Z(kind, d, low, high) == [kind |-> kind, dir |-> d, low |-> low, high |-> high]
SomeZones == {Z("OB", 1, 4970, 4980), Z("FVG", 1, 4955, 4975), Z("OB", -1, 5020, 5030)}

O(confluence) ==
  [confluence |-> confluence, tiebreaker |-> TRUE, soft |-> TRUE, tolerant |-> TRUE,
   slopeSoft |-> FALSE, premium |-> TRUE]
SomeOptions == {O(TRUE), O(FALSE)}

S(pessimistic, trailing, mode, breakevenAt) ==
  [pessimistic |-> pessimistic, trailing |-> trailing, mode |-> mode,
   breakevenAt |-> breakevenAt]
C(confluence, sim, entry) ==
  [options |-> O(confluence), simulator |-> sim, entryMode |-> entry]
SomeConfigs ==
  {C(FALSE, S(FALSE, TRUE, "entry-pct", 0), "limit"),
   C(FALSE, S(FALSE, TRUE, "tp-distance", 10), "limit and ioc"),
   C(TRUE, S(FALSE, TRUE, "fixed-amount", 0), "limit and ioc"),
   C(FALSE, S(TRUE, TRUE, "entry-pct", 10), "market"),
   C(FALSE, S(FALSE, FALSE, "entry-pct", 10), "market")}
SomeSimulators == {c.simulator : c \in SomeConfigs}

\* Break-even fits the prices, as BacktestProofs asks.
ASSUME InstanceFits == BracketFits

\* Candles for MarketStructure: between 0 and 1, with shadows above or below, up
\* to 7 and on there, and back.
SomeShapes ==
  {M(0, 2, -1, 1), M(1, 4, -1, 0), M(0, 2, -3, 1), M(1, 5, -1, 0), M(0, 2, -4, 1),
   M(1, 8, 1, 7), M(7, 8, 6, 7), M(7, 7, -1, 0)}
=============================================================================
