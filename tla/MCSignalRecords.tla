--------------------------- MODULE MCSignalRecords ----------------------------
(* Views of the market for SignalRecords.                                  *)
EXTENDS SignalRecords

\* A bullish cross in a market that is not, in high volatility.
Calm == [structure |-> "BEARISH", cross |-> "BULLISH", slope |-> "RISING",
         zone |-> "DISCOUNT", inOB |-> TRUE, inFVG |-> FALSE, broke |-> TRUE,
         manyOBs |-> FALSE, manyFVGs |-> FALSE, rsi |-> 55, atr |-> 80,
         htf |-> "BULLISH", earlier |-> [high |-> 1010, low |-> 1000],
         candle |-> [high |-> 1008, low |-> 1002, close |-> 1005], change |-> 1]

MCView ==
  {Calm,                                                  \* LONG
   [Calm EXCEPT !.htf = "BEARISH"],                       \* the same key, HOLD
   [Calm EXCEPT !.structure = "BULLISH", !.cross = "BEARISH", !.slope = "FALLING",
                !.htf = "none"],                          \* SHORT
   [Calm EXCEPT !.structure = "BULLISH"],                 \* no cross, HOLD
   [Calm EXCEPT !.slope = "FALLING"],                     \* the same key again, HOLD
   [Calm EXCEPT !.structure = "RANGING", !.rsi = 53],     \* LONG
   [Calm EXCEPT !.rsi = 77],                              \* not confirmed, HOLD
   [Calm EXCEPT !.atr = 40,                               \* closes above all candles before
                !.candle = [high |-> 1015, low |-> 1002, close |-> 1015]],
   [Calm EXCEPT !.atr = 20, !.manyOBs = TRUE, !.change = -1,      \* closes below them
                !.candle = [high |-> 1004, low |-> 995, close |-> 995]],
   [Calm EXCEPT !.inOB = FALSE, !.broke = FALSE, !.zone = "EQUILIBRIUM",
                !.slope = "FLAT", !.atr = 30, !.rsi = 45],        \* too few points
   [Calm EXCEPT !.atr = 7000, !.structure = "RANGING"],   \* a stop below zero
   [Calm EXCEPT !.atr = 5]}                               \* the gate stops it

MCPullbackView == {Calm}
=============================================================================
