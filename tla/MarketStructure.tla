--------------------------- MODULE MarketStructure ---------------------------
(***************************************************************************)
(* What smc.service.ts finds in the candles it is given, and what becomes  *)
(* of it when the next call gets the window one candle further on: swings, *)
(* structure breaks, order blocks and fair value gaps.                     *)
(*                                                                         *)
(* A backtest passes candles that have closed.  The live bot passes what   *)
(* getKlines returns just after a candle has closed, and the last of these *)
(* is the candle that has just opened.                                     *)
(*                                                                         *)
(* Directions are 1 and -1.  Windows are full.  What analyze() computes    *)
(* from one window alone is left out: which zones the current price leaves *)
(* active, the cut to the last five of a kind, liquidity zones, premium    *)
(* and discount, distances.                                                *)
(***************************************************************************)
EXTENDS Integers, Sequences, SequencesExt

CONSTANTS
  Shape,       \* what a closed candle may look like
  MaxGap,      \* bound on the gap between a close and the next open
  WindowSize,  \* candles of a call
  Lookback,    \* SWING_LOOKBACK
  BlockDepth   \* how far before a swing its order block is looked for

ASSUME StructureAssumption ==
  /\ Shape \subseteq [open : Int, high : Int, low : Int, close : Int]
  /\ \A c \in Shape : {c.open, c.close} \subseteq c.low..c.high
  /\ MaxGap \in Nat
  /\ Lookback \in Nat \ {0} /\ BlockDepth \in 1..Lookback
  /\ WindowSize \in Nat /\ WindowSize > 2 * Lookback + 1

VARIABLES
  live,        \* the last candle has only just opened
  window,      \* the candles of the last call, the newest last
  features,    \* what it returned
  again        \* the last break is an older one, or none (history)

structureVars == <<live, window, features, again>>

-----------------------------------------------------------------------------
(* Swings and breaks.                                                      *)

Inner == (Lookback + 1)..(WindowSize - Lookback)

\* How far a candle reaches: highs upwards, lows downwards.
Reach(c, d) == IF d = 1 THEN c.high ELSE -c.low

\* findSwingHighs (1) and findSwingLows (-1).
Swings(w, d) ==
  {k \in Inner : \A j \in 1..Lookback :
     Reach(w[k], d) > Reach(w[k - j], d) /\ Reach(w[k], d) > Reach(w[k + j], d)}

\* Those that go beyond the one before them.
Breaking(w, swings, d) ==
  {k \in swings : \E p \in swings : /\ p < k /\ Reach(w[k], d) > Reach(w[p], d)
                                   /\ swings \cap (p + 1)..(k - 1) = {}}

\* A break is its place in the order in which the swings are looked at: by index,
\* and of one candle the high first.
StructureBreaks(w, highs, lows) ==
  {2 * k : k \in Breaking(w, highs, 1)} \cup {2 * k + 1 : k \in Breaking(w, lows, -1)}
DirectionOf(b) == IF b % 2 = 0 THEN 1 ELSE -1
SwingOf(b) == b \div 2

\* lastStructureBreak and marketStructure.  A break is a change of character when
\* the one before it had the other direction; of the last three, the last one has
\* two votes.
NoBreak == [at |-> 0, choch |-> 0, structure |-> 0]
Sign(n) == IF n > 0 THEN 1 ELSE IF n < 0 THEN -1 ELSE 0

Votes(recent) ==
  Cardinality({b \in recent : DirectionOf(b) = 1}) - Cardinality({b \in recent : DirectionOf(b) = -1})

\* Mutant of Score: the first one has.
ScoreOfFirst(recent) == Votes(recent) + DirectionOf(Min(recent))
Score(recent) == Votes(recent) + DirectionOf(Max(recent))

LastBreak(breaks) ==
  LET b == Max(breaks)
      others == breaks \ {b}
      recent == {x \in breaks : Cardinality({y \in breaks : y > x}) < 3}
      turned == others # {} /\ DirectionOf(Max(others)) # DirectionOf(b)
  IN IF breaks = {} THEN NoBreak
     ELSE [at |-> b, choch |-> IF turned THEN DirectionOf(b) ELSE 0,
           structure |-> Sign(Score(recent))]

-----------------------------------------------------------------------------
(* Zones.  What is found is a range of prices, and the candles that it     *)
(* was found in.                                                           *)

Found(kind, d, low, high, first, last) ==
  [kind |-> kind, dir |-> d, low |-> low, high |-> high, first |-> first, last |-> last]

SwingPoints(w, swings, d) ==
  {Found("swing", d, w[k].low, w[k].high, k - Lookback, k + Lookback) : k \in swings}

Rose(c) == c.close > c.open
Fell(c) == c.close < c.open
Turned(c, d) == IF d = 1 THEN Fell(c) ELSE Rose(c)

\* The last candle before the swing that went the other way.
\* Mutant of BlockOf: it looks one candle further back.
BlockOfDeep(w, k, d) ==
  {i \in Max({1, k - BlockDepth - 1})..(k - 1) :
     Turned(w[i], d) /\ \A j \in (i + 1)..(k - 1) : ~Turned(w[j], d)}
BlockOf(w, k, d) ==
  {i \in (k - BlockDepth)..(k - 1) :
     Turned(w[i], d) /\ \A j \in (i + 1)..(k - 1) : ~Turned(w[j], d)}

\* Its body.
Block(w, i, k, d) ==
  Found("OB", d, IF d = 1 THEN w[i].close ELSE w[i].open, IF d = 1 THEN w[i].open ELSE w[i].close,
        k - Lookback, k + Lookback)

OrderBlocks(w, swings, d) ==
  UNION {{Block(w, i, k, d) : i \in BlockOf(w, k, d)} : k \in swings}

FairValueGaps(w) ==
  {Found("FVG", 1, w[k - 1].high, w[k + 1].low, k - 1, k + 1) :
     k \in {j \in 2..(WindowSize - 1) : w[j - 1].high < w[j + 1].low /\ Rose(w[j])}}
  \cup
  {Found("FVG", -1, w[k + 1].high, w[k - 1].low, k - 1, k + 1) :
     k \in {j \in 2..(WindowSize - 1) : w[j - 1].low > w[j + 1].high /\ Fell(w[j])}}

-----------------------------------------------------------------------------
(* The calls.                                                              *)

Analyze(w) ==
  LET highs == Swings(w, 1)
      lows == Swings(w, -1)
  IN [last |-> LastBreak(StructureBreaks(w, highs, lows)),
      found |-> SwingPoints(w, highs, 1) \cup SwingPoints(w, lows, -1)
                  \cup OrderBlocks(w, highs, 1) \cup OrderBlocks(w, lows, -1)
                  \cup FairValueGaps(w)]

Flat(p) == [open |-> p, high |-> p, low |-> p, close |-> p]
Follows(c, b) == c.open - b.close \in -MaxGap..MaxGap
Opened(b) == {Flat(p) : p \in (b.close - MaxGap)..(b.close + MaxGap)}
Newest == Last(window)

\* Closed candles that follow one another, n of them, put together from two halves
\* (of which there are few enough to be enumerated).
Chain(n) == {r \in [1..n -> Shape] : \A k \in 1..(n - 1) : Follows(r[k + 1], r[k])}
Run(n) ==
  LET later == Chain(n - n \div 2)
  IN UNION {{r \o s : s \in {x \in later : Follows(x[1], Last(r))}} : r \in Chain(n \div 2)}

ClosedWindow == Run(WindowSize)
OpenWindow == UNION {{Append(r, o) : o \in Opened(Last(r))} : r \in Run(WindowSize - 1)}

\* The first call, on any market.
StructureInit ==
  /\ live \in BOOLEAN
  /\ window \in IF live THEN OpenWindow ELSE ClosedWindow
  /\ features = Analyze(window)
  /\ again = (features.last.at = 0)

\* The swing of the last break has the newest candle among its neighbours.
Unsettled(b) == live /\ SwingOf(b.at) = WindowSize - Lookback

\* Which candle a swing is moves by one place.
Moved(b) == b.at - 2

NextCall(w) ==
  /\ window' = w /\ features' = Analyze(w)
  /\ LET old == features.last
         new == features'.last
     IN again' = (\/ new.at = 0
                  \/ new.at < Moved(old) /\ ~Unsettled(old)
                  \/ new.at = Moved(old) /\ again)
  /\ UNCHANGED live

\* The next candle of a backtest.
NextCandle == ~live /\ \E c \in Shape : Follows(c, Newest) /\ NextCall(Append(Tail(window), c))

\* The open candle has become c, and the next one has opened.
NextOpens ==
  /\ live
  /\ \E c \in Shape : \E o \in Opened(c) :
       /\ Follows(c, Newest) /\ c.low <= Newest.low /\ Newest.high <= c.high
       /\ NextCall(SubSeq(window, 2, WindowSize - 1) \o <<c, o>>)

StructureNext == NextCandle \/ NextOpens

-----------------------------------------------------------------------------
(* Properties of a step.                                                   *)

Earlier(z) == Found(z.kind, z.dir, z.low, z.high, z.first + 1, z.last + 1)
Later(z) == Found(z.kind, z.dir, z.low, z.high, z.first - 1, z.last - 1)

\* What is found stays as it was until the first of its candles leaves the window,
\* unless it has the candle that has just opened for a neighbour.
Stays ==
  \A z \in features.found :
    z.first > 1 /\ (live => z.last < WindowSize) => Later(z) \in features'.found

\* Nothing is found later than in the first call that has its candles, closed.
NotLate ==
  \A z \in features'.found :
    z.last < WindowSize - (IF live THEN 1 ELSE 0) => Earlier(z) \in features.found
=============================================================================
