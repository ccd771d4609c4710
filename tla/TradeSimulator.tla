--------------------------- MODULE TradeSimulator ---------------------------
(***************************************************************************)
(* trade-simulator.ts: one position, carried through candles.  A candle    *)
(* has an open, a high, a low and a close and says nothing of their order, *)
(* so the simulator decides what the stop did first.                       *)
(*                                                                         *)
(* Direction 1 is LONG and -1 is SHORT.  Prices are integers.  What is     *)
(* only reported is left out: quantities, commissions, the excursion       *)
(* against the trade and its history, and the buckets.                     *)
(***************************************************************************)
EXTENDS Integers, Sequences

CONSTANTS
  NoPosition, NoTrade,
  BePct,            \* breakevenPct, in tenths of a percent
  Buffer,           \* beBuffer
  TrailFixed, TrailActivation,
  Simulators        \* the settings to check

Modes == {"entry-pct", "tp-distance", "fixed-amount"}

ASSUME SimulatorAssumption ==
  /\ BePct \in Nat /\ Buffer \in Nat
  /\ TrailFixed \in Nat /\ TrailActivation \in Nat
  /\ Simulators \subseteq [pessimistic : BOOLEAN, trailing : BOOLEAN, mode : Modes,
                           breakevenAt : Nat]

VARIABLES
  simulator,     \* the settings
  position,
  closed         \* the trade that the last step closed

BestPrice(c, d) == IF d = 1 THEN c.high ELSE c.low
WorstPrice(c, d) == IF d = 1 THEN c.low ELSE c.high
AtLeast(a, b) == IF a > b THEN a ELSE b

Position ==
  [dir : {1, -1}, entry : Int, stop : Int, take : Int, initial : Int, time : Nat,
   phase : 0..3, peak : Int]
Reasons == {"SL", "TRAILING_SL", "TP", "END_OF_DATA"}

SimulatorTypes ==
  /\ simulator \in Simulators
  /\ position \in Position \cup {NoPosition}
  /\ closed \in [trade : Position, exit : Int, time : Nat, reason : Reasons] \cup {NoTrade}

-----------------------------------------------------------------------------
(* openPosition and closeTrade.                                            *)

OpenPosition(d, entry, stop, take, time) ==
  /\ position' = [dir |-> d, entry |-> entry, stop |-> stop, take |-> take,
                  initial |-> stop, time |-> time, phase |-> 0,
                  peak |-> entry]
  /\ closed' = NoTrade

CloseTrade(p, price, time, reason) ==
  /\ position' = NoPosition
  /\ closed' = [trade |-> p, exit |-> price, time |-> time, reason |-> reason]

-----------------------------------------------------------------------------
(* processCandle.                                                          *)

\* The best price so far, before anything else.
Track(p, c) ==
  [p EXCEPT !.peak = IF p.dir * (BestPrice(c, p.dir) - @) > 0 THEN BestPrice(c, p.dir) ELSE @]

\* Mutant of Raise: the new stop is taken as it comes.
RaiseAlways(p, price, phase) == [p EXCEPT !.stop = price, !.phase = AtLeast(@, phase)]

\* The stop moves in favour of the trade or stays.
Raise(p, price, phase) ==
  IF p.dir * (price - p.stop) > 0
  THEN [p EXCEPT !.stop = price, !.phase = AtLeast(@, phase)] ELSE p

BreakEven(p) == Raise(p, p.entry + p.dir * Buffer, 1)

\* tenths of the way from the entry to the best price
Follow(p, diff, tenths, phase) == Raise(p, p.entry + p.dir * ((diff * tenths) \div 10), phase)

Lock(p, diff) ==
  IF simulator.breakevenAt > 0 /\ diff >= simulator.breakevenAt THEN BreakEven(p) ELSE p

TrailByTarget(p, diff) ==
  LET distance == AtLeast(p.take - p.entry, p.entry - p.take)
      reached(quarters) == 4 * diff >= quarters * distance
  IN CASE diff <= 0 \/ distance = 0 \/ ~reached(1) -> p
       [] OTHER -> IF reached(3) THEN Follow(p, diff, 6, 3)
                   ELSE IF reached(2) THEN Follow(p, diff, 4, 2) ELSE BreakEven(p)

TrailByPercent(p, diff) ==
  LET reached(pct) == 1000 * diff >= pct * p.entry
  IN IF reached(BePct + 5) THEN Follow(p, diff, 7, 3)
     ELSE IF reached(BePct + 2) THEN Follow(p, diff, 5, 2)
     ELSE IF reached(BePct) THEN BreakEven(p) ELSE p

TrailByAmount(p, diff) ==
  IF diff >= TrailActivation THEN Raise(p, p.entry + p.dir * (diff - TrailFixed), 1) ELSE p

Trail(p, c) ==
  LET diff == p.dir * (BestPrice(c, p.dir) - p.entry)
      locked == Lock(p, diff)
  IN CASE ~simulator.trailing -> locked
       [] simulator.trailing /\ simulator.mode = "tp-distance" -> TrailByTarget(locked, diff)
       [] simulator.trailing /\ simulator.mode = "fixed-amount" -> TrailByAmount(locked, diff)
       [] simulator.trailing /\ simulator.mode = "entry-pct" -> TrailByPercent(locked, diff)

StopHit(p, c) == p.dir * (WorstPrice(c, p.dir) - p.stop) <= 0
TakeHit(p, c) == p.dir * (BestPrice(c, p.dir) - p.take) >= 0

\* In pessimistic mode the bracket is asked before the stop is trailed and, like
\* in the other one, once more after it.  The stop comes before the target.
ProcessCandle(c, time) ==
  LET seen == Track(position, c)
      early == simulator.pessimistic /\ (StopHit(seen, c) \/ TakeHit(seen, c))
      final == IF early THEN seen ELSE Trail(seen, c)
  IN /\ position # NoPosition
     /\ \/ /\ StopHit(final, c)
           /\ CloseTrade(final, final.stop, time, IF final.phase > 0 THEN "TRAILING_SL" ELSE "SL")
        \/ /\ ~StopHit(final, c) /\ TakeHit(final, c)
           /\ CloseTrade(final, final.take, time, "TP")
        \/ /\ ~StopHit(final, c) /\ ~TakeHit(final, c)
           /\ position' = final /\ closed' = NoTrade

ForceClose(price, time) ==
  /\ position # NoPosition
  /\ CloseTrade(position, price, time, "END_OF_DATA")
=============================================================================
