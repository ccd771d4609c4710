-------------------------- MODULE SignalRecordsProofs --------------------------
(***************************************************************************)
(* Theorems about SignalRecords, in layers, each an inductive invariant    *)
(* that rests on the ones before it:                                       *)
(*   RecordsInv   types, the generator, what a call is at each of its      *)
(*                stages, and a row for every day with a count;            *)
(*   CountsInv    no row claims more than was written on its day, and no   *)
(*                copy more than that and what its call adds;              *)
(*   AloneInv     on a day without overlaps, the row is what was written   *)
(*                and the copy of the one call what it adds to that.       *)
(* A step of a call is one of six things it does to itself and its row     *)
(* (Moves), which the layers share.                                        *)
(***************************************************************************)
EXTENDS SignalRecords, FiniteSetTheorems, SequenceTheorems, TLAPS

-----------------------------------------------------------------------------
(* The generator.                                                          *)

\* An entry of the cache, as it is kept and as it ages.
LEMMA Memory ==
  ASSUME NEW left, DOMAIN left \subseteq Key, \A k \in DOMAIN left : left[k] \in 1..Ttl
  PROVE  /\ DOMAIN Elapsed(left) \subseteq Key
         /\ \A k \in DOMAIN Elapsed(left) : Elapsed(left)[k] \in 1..Ttl
         /\ \A v \in View : /\ DOMAIN Remembered(left, KeyOf(v)) \subseteq Key
                            /\ \A k \in DOMAIN Remembered(left, KeyOf(v)) : Remembered(left, KeyOf(v))[k] \in 1..Ttl
<1>1. Ttl \in Nat \ {0}
  BY GenerationAssumption
<1>2. \A k \in DOMAIN left : left[k] > 1 => left[k] - 1 \in 1..Ttl
  BY <1>1
<1>3. /\ DOMAIN Elapsed(left) \subseteq Key
      /\ \A k \in DOMAIN Elapsed(left) : Elapsed(left)[k] \in 1..Ttl
  BY <1>2, Zenon DEF Elapsed
<1>4. ASSUME NEW v \in View
      PROVE  /\ DOMAIN Remembered(left, KeyOf(v)) \subseteq Key
             /\ \A k \in DOMAIN Remembered(left, KeyOf(v)) : Remembered(left, KeyOf(v))[k] \in 1..Ttl
  <2>1. KeyOf(v) \in Key
    BY DEF Key
  <2>2. Ttl \in 1..Ttl
    BY <1>1
  <2> QED  BY <2>1, <2>2, Zenon DEF Remembered
<1> QED  BY <1>3, <1>4

\* The breakout never comes, and a cross goes against the structure.
LEMMA HybridAnswer ==
  ASSUME NEW v \in View, Hybrid(v, v.structure) # "HOLD"
  PROVE  /\ HighVolatility(v)
         /\ Hybrid(v, v.structure) = "LONG" <=> v.structure # "BULLISH"
         /\ Hybrid(v, v.structure) \in {"LONG", "SHORT"}
<1>1. /\ v \in Views
      /\ v.candle.low <= v.candle.close /\ v.candle.close <= v.candle.high
  BY GenerationAssumption
<1>2. /\ v.candle.low \in Nat /\ v.candle.high \in Nat /\ v.candle.close \in Nat
      /\ v.earlier.high \in Nat /\ v.earlier.low \in Nat
      /\ v.structure \in Structure /\ v.cross \in Trend
  BY <1>1 DEF Views, Candle
<1>3. Breakout(v) = "HOLD"
  <2>1. v.candle.close <= RecentRange(v).high /\ v.candle.close >= RecentRange(v).low
    BY <1>1, <1>2 DEF RecentRange, Larger, Smaller
  <2>2. RecentRange(v).high \in Nat /\ RecentRange(v).low \in Nat
    BY <1>1, <1>2 DEF RecentRange, Larger, Smaller
  <2>3. ~(v.candle.close > RecentRange(v).high) /\ ~(v.candle.close < RecentRange(v).low)
    BY <1>2, <2>1, <2>2
  <2> QED  BY <2>3 DEF Breakout
<1>4. HighVolatility(v) /\ Crossover(v, v.structure) = Hybrid(v, v.structure)
  BY <1>3 DEF Hybrid
<1>5. SavedCross(v.structure) # v.cross
  BY <1>4 DEF Crossover
<1>6. Crossover(v, v.structure) = IF v.cross = "BULLISH" THEN "LONG" ELSE "SHORT"
  BY <1>4 DEF Crossover
<1> QED  BY <1>2, <1>4, <1>5, <1>6 DEF SavedCross, Structure, Trend

\* What the hybrid strategy can signal at all: nothing in a quiet market, because
\* the range it waits to see broken holds the candle that would break it, and in
\* high volatility against the structure of its own candle.
HybridSignals ==
  ~pullback /\ Signalled =>
     /\ outcome.volatile
     /\ outcome.kind = "LONG" <=> outcome.structure # "BULLISH"

GeneratorInv == GeneratorTypeOK /\ cache = held /\ HybridSignals /\ SkipIsFresh

LEMMA GeneratorStarts == GeneratorInit => GeneratorInv
<1> SUFFICES ASSUME GeneratorInit PROVE GeneratorInv
  OBVIOUS
<1>1. DOMAIN cache = {} /\ cache = held
  BY DEF GeneratorInit
<1>2. outcome = NoOutcome /\ outcome.kind = "none"
  BY DEF GeneratorInit, NoOutcome
<1>3. pullback \in BOOLEAN /\ gateEnabled \in BOOLEAN /\ previous \in Structure \cup {"none"}
      /\ lastCross \in Trend \cup {"none"}
  BY Zenon DEF GeneratorInit
<1>4. GeneratorTypeOK
  BY <1>1, <1>2, <1>3, Zenon DEF GeneratorTypeOK
<1> QED  BY <1>1, <1>2, <1>4 DEF GeneratorInv, HybridSignals, SkipIsFresh, Signalled

LEMMA GeneratorReturns == GeneratorInv /\ Returned => GeneratorInv'
<1> SUFFICES ASSUME GeneratorInv, Returned PROVE GeneratorInv'
  OBVIOUS
<1>1. outcome' = NoOutcome /\ outcome'.kind = "none"
  BY DEF Returned, NoOutcome
<1>2. GeneratorTypeOK'
  BY <1>1, Zenon DEF GeneratorInv, GeneratorTypeOK, Returned
<1>3. HybridSignals' /\ SkipIsFresh'
  BY <1>1 DEF HybridSignals, SkipIsFresh, Signalled
<1> QED  BY <1>2, <1>3 DEF GeneratorInv, Returned

LEMMA GeneratorTicks == GeneratorInv /\ GeneratorTick => GeneratorInv'
<1> SUFFICES ASSUME GeneratorInv, GeneratorTick PROVE GeneratorInv'
  OBVIOUS
<1> USE DEF GeneratorInv
<1>1. /\ DOMAIN cache' \subseteq Key /\ \A k \in DOMAIN cache' : cache'[k] \in 1..Ttl
      /\ held' = cache'
  BY Memory, Zenon DEF GeneratorTick, GeneratorTypeOK
<1>2. GeneratorTypeOK'
  BY <1>1, Zenon DEF GeneratorTypeOK, GeneratorTick
<1>3. HybridSignals' /\ SkipIsFresh'
  BY DEF HybridSignals, SkipIsFresh, Signalled, GeneratorTick
<1> QED  BY <1>1, <1>2, <1>3

LEMMA GeneratorRests == GeneratorInv /\ UNCHANGED generator => GeneratorInv'
<1> SUFFICES ASSUME GeneratorInv, UNCHANGED generator PROVE GeneratorInv'
  OBVIOUS
<1>1. /\ pullback' = pullback /\ gateEnabled' = gateEnabled /\ previous' = previous
      /\ cache' = cache /\ held' = held /\ outcome' = outcome /\ lastCross' = lastCross
  BY DEF generator
<1>2. GeneratorTypeOK'
  BY <1>1, Zenon DEF GeneratorInv, GeneratorTypeOK
<1> QED  BY <1>1, <1>2, Zenon DEF GeneratorInv, HybridSignals, SkipIsFresh, Signalled

LEMMA GeneratorCycles ==
  ASSUME GeneratorInv, NEW v \in View, GenerateSignal(v)
  PROVE  GeneratorInv' /\ outcome'.kind # "none"
<1> USE DEF GeneratorInv
<1>1. v \in Views /\ v.structure \in Structure /\ HighVolatility(v) \in BOOLEAN /\ v.cross \in Trend
  <2>1. v \in Views
    BY GenerationAssumption
  <2> QED  BY <2>1 DEF Views, HighVolatility
<1>2. /\ previous' = v.structure /\ pullback' = pullback /\ gateEnabled' = gateEnabled
      /\ lastCross' \in Trend \cup {"none"}
  BY <1>1 DEF GenerateSignal, GeneratorTypeOK
<1>3. ASSUME NEW k \in {"blocked", "hit", "HOLD", "invalid", "LONG", "SHORT"}, Result(k, v),
             k \in {"LONG", "SHORT"} /\ ~pullback => k = Hybrid(v, v.structure),
             k = "hit" => ~pullback /\ KeyOf(v) \in DOMAIN held
      PROVE  /\ HybridSignals' /\ SkipIsFresh'
             /\ outcome' \in [kind : {"blocked", "hit", "HOLD", "invalid", "LONG", "SHORT"},
                              volatile : BOOLEAN, structure : Structure, crossed : BOOLEAN,
                              fresh : BOOLEAN]
             /\ outcome'.kind # "none"
  <2>1. outcome' = [kind |-> k, volatile |-> HighVolatility(v), structure |-> v.structure,
                    crossed |-> lastCross # v.cross, fresh |-> KeyOf(v) \in DOMAIN held]
    BY <1>3 DEF Result
  <2>2. outcome'.kind = k /\ outcome'.volatile = HighVolatility(v) /\ outcome'.structure = v.structure
        /\ outcome'.fresh = (KeyOf(v) \in DOMAIN held)
    BY <2>1
  <2>3. SkipIsFresh'
    BY <1>2, <1>3, <2>2, Zenon DEF SkipIsFresh
  <2>4. HybridSignals'
    <3> SUFFICES ASSUME ~pullback, k \in {"LONG", "SHORT"}
                 PROVE  HighVolatility(v) /\ (k = "LONG" <=> v.structure # "BULLISH")
      BY <1>2, <2>2, Zenon DEF HybridSignals, Signalled
    <3> QED  BY <1>3, HybridAnswer
  <2> QED  BY <1>1, <2>1, <2>2, <2>3, <2>4
<1>4. \/ UNCHANGED <<cache, held>>
      \/ cache' = Remembered(cache, KeyOf(v)) /\ held' = Remembered(held, KeyOf(v))
  BY DEF GenerateSignal, GateSkips, CacheHits, Holds, Signals
<1>5. /\ DOMAIN cache' \subseteq Key /\ \A k \in DOMAIN cache' : cache'[k] \in 1..Ttl
      /\ held' = cache'
  BY <1>4, Memory, Zenon DEF GeneratorTypeOK
<1>6. ASSUME NEW k \in {"blocked", "hit", "HOLD", "invalid", "LONG", "SHORT"}, Result(k, v),
             k \in {"LONG", "SHORT"} /\ ~pullback => k = Hybrid(v, v.structure),
             k = "hit" => ~pullback /\ KeyOf(v) \in DOMAIN held
      PROVE  GeneratorInv' /\ outcome'.kind # "none"
  <2>1. GeneratorTypeOK'
    BY <1>1, <1>2, <1>3, <1>5, <1>6, Zenon DEF GeneratorTypeOK
  <2> QED  BY <1>3, <1>5, <1>6, <2>1
<1>7. CASE GateSkips(v)
  BY <1>6, <1>7 DEF GateSkips
<1>8. CASE CacheHits(v)
  BY <1>6, <1>8 DEF CacheHits, Skips
<1>9. CASE Holds(v)
  BY <1>6, <1>9 DEF Holds
<1>10. CASE Signals(v)
  <2>1. PICK a \in Answers(v, v.structure) \ {"HOLD"} :
               (MayBeValid(v, a) /\ Result(a, v)) \/ (MayBeInvalid(v, a) /\ Result("invalid", v))
    BY <1>2, <1>10 DEF Signals
  <2>2. a \in {"LONG", "SHORT"} /\ (~pullback => a = Hybrid(v, v.structure))
    BY <2>1, HybridAnswer DEF Answers
  <2> QED  BY <1>6, <2>1, <2>2
<1> QED  BY <1>7, <1>8, <1>9, <1>10 DEF GenerateSignal

-----------------------------------------------------------------------------
(* Sequences, ages, columns and rows.                                      *)

\* A sequence that loses an element.
LEMMA Without ==
  ASSUME NEW S, NEW s \in Seq(S), NEW i \in DOMAIN s
  PROVE  /\ RemoveAt(s, i) \in Seq(S)
         /\ Len(RemoveAt(s, i)) = Len(s) - 1
         /\ \A k \in 1..(Len(s) - 1) : RemoveAt(s, i)[k] = s[IF k < i THEN k ELSE k + 1]
<1> DEFINE before == SubSeq(s, 1, i - 1)
           after == SubSeq(s, i + 1, Len(s))
<1>1. Len(s) \in Nat /\ i \in 1..Len(s) /\ \A k \in 1..Len(s) : s[k] \in S
  OBVIOUS
<1>2. /\ before \in Seq(S) /\ Len(before) = i - 1
      /\ \A k \in 1..(i - 1) : before[k] = s[k]
  <2>1. 1 \in Int /\ i - 1 \in Int /\ \A k \in 1..(i - 1) : s[k] \in S
    BY <1>1
  <2>2. /\ before \in Seq(S) /\ Len(before) = IF 1 <= i - 1 THEN i - 1 - 1 + 1 ELSE 0
        /\ \A k \in 1..(i - 1 - 1 + 1) : before[k] = s[1 + k - 1]
    BY <2>1, SubSeqProperties
  <2> HIDE DEF before
  <2> QED  BY <1>1, <2>2
<1>3. /\ after \in Seq(S) /\ Len(after) = Len(s) - i
      /\ \A k \in 1..(Len(s) - i) : after[k] = s[i + k]
  <2>1. i + 1 \in Int /\ Len(s) \in Int /\ \A k \in (i + 1)..Len(s) : s[k] \in S
    BY <1>1
  <2>2. /\ after \in Seq(S) /\ Len(after) = IF i + 1 <= Len(s) THEN Len(s) - (i + 1) + 1 ELSE 0
        /\ \A k \in 1..(Len(s) - (i + 1) + 1) : after[k] = s[i + 1 + k - 1]
    BY <2>1, SubSeqProperties
  <2> HIDE DEF after
  <2> QED  BY <1>1, <2>2
<1>4. RemoveAt(s, i) = before \o after
  BY DEF RemoveAt
<1> HIDE DEF before, after
<1>5. /\ before \o after \in Seq(S)
      /\ Len(before \o after) = Len(before) + Len(after)
      /\ \A k \in 1..(Len(before) + Len(after)) :
            (before \o after)[k] = IF k <= Len(before) THEN before[k] ELSE after[k - Len(before)]
  BY <1>2, <1>3, ConcatProperties
<1>6. Len(before) + Len(after) = Len(s) - 1
  BY <1>1, <1>2, <1>3
<1>7. ASSUME NEW k \in 1..(Len(s) - 1)
      PROVE  (before \o after)[k] = s[IF k < i THEN k ELSE k + 1]
  <2>1. (before \o after)[k] = IF k <= i - 1 THEN before[k] ELSE after[k - (i - 1)]
    BY <1>2, <1>5, <1>6
  <2>2. CASE k < i
    BY <1>1, <1>2, <2>1, <2>2
  <2>3. CASE ~(k < i)
    <3>1. k - (i - 1) \in 1..(Len(s) - i) /\ i + (k - (i - 1)) = k + 1
      BY <1>1, <2>3
    <3> QED  BY <1>1, <1>3, <2>1, <2>3, <3>1
  <2> QED  BY <2>2, <2>3
<1> QED  BY <1>4, <1>5, <1>6, <1>7

Call == [pc : Stages, day : Day, adds : [Columns -> Int], row : Row,
         zero : BOOLEAN, fields : SUBSET (Columns \cup {"latest"})]

\* What a call may add.
Addends == IF table = "daily_pnl" THEN Booking ELSE [Columns -> {0, 1}]

LEMMA Ages ==
  /\ Stale \in Nat /\ Never \in Age /\ 0 \in Age /\ Never > Stale /\ Older(Never) = Never
  /\ \A a \in Age : a \in Nat /\ Older(a) \in Age
BY RowsAssumption DEF Age, Never, Older

\* What may be added, column by column.
LEMMA Adding ==
  ASSUME NEW adds \in Addends
  PROVE  /\ adds \in [Columns -> Int]
         /\ \A c \in Columns \ {"realizedPnl"} : adds[c] \in {0, 1}
         /\ table = "daily_pnl" => /\ adds["tradesCount"] = 1
                                   /\ -adds["lossesCount"] <= adds["realizedPnl"]
                                   /\ adds["realizedPnl"] <= adds["winsCount"]
         /\ "realizedPnl" \in Columns <=> table = "daily_pnl"
<1>1. CASE table = "daily_pnl"
  <2>1. Columns = {"realizedPnl", "tradesCount", "winsCount", "lossesCount"}
    BY <1>1 DEF Columns, PnlColumns
  <2>2. adds \in Booking
    BY <1>1 DEF Addends
  <2>3. \A cols : /\ Only(cols) \in [Columns -> Int]
                   /\ \A c \in Columns : Only(cols)[c] = IF c \in cols THEN 1 ELSE 0
    BY DEF Only
  <2>4. CASE adds = Only({"tradesCount"})
    BY <1>1, <2>1, <2>3, <2>4
  <2>5. CASE adds = Only({"tradesCount", "winsCount", "realizedPnl"})
    BY <1>1, <2>1, <2>3, <2>5
  <2>6. CASE adds = [Only({"tradesCount", "lossesCount"}) EXCEPT !["realizedPnl"] = -1]
    <3> DEFINE lost == Only({"tradesCount", "lossesCount"})
    <3>1. lost \in [Columns -> Int] /\ lost["tradesCount"] = 1 /\ lost["lossesCount"] = 1 /\ lost["winsCount"] = 0
      BY <2>1, <2>3
    <3>2. adds = [lost EXCEPT !["realizedPnl"] = -1]
      BY <2>6
    <3> HIDE DEF lost
    <3>3. /\ adds \in [Columns -> Int] /\ adds["realizedPnl"] = -1
          /\ adds["tradesCount"] = 1 /\ adds["lossesCount"] = 1 /\ adds["winsCount"] = 0
      BY <2>1, <3>1, <3>2
    <3> QED  BY <1>1, <2>1, <3>3
  <2> QED  BY <2>2, <2>4, <2>5, <2>6, Zenon DEF Booking
<1>2. CASE table # "daily_pnl"
  <2>1. adds \in [Columns -> {0, 1}]
    BY <1>2 DEF Addends
  <2>2. "realizedPnl" \notin Columns
    BY <1>2 DEF Columns, TelemetryColumns
  <2> QED  BY <1>2, <2>1, <2>2
<1> QED  BY <1>1, <1>2

LEMMA Adds ==
  ASSUME NEW m \in [Columns -> Int], NEW n \in [Columns -> Int]
  PROVE  Sum(m, n) \in [Columns -> Int] /\ \A c \in Columns : Sum(m, n)[c] = m[c] + n[c]
BY DEF Sum

LEMMA Rows ==
  /\ Zero \in Row /\ Zero.latest = Never
  /\ Zero.n \in [Columns -> Int] /\ \A c \in Columns : Zero.n[c] = 0
  /\ \A row \in Row : row # NoRow /\ row.n \in [Columns -> Int] /\ row.latest \in Age
  /\ \A row \in Row, adds \in [Columns -> Int] :
        /\ WithAdded(row, adds) \in Row
        /\ WithAdded(row, adds).n = Sum(row.n, adds)
        /\ WithAdded(row, adds).latest = IF table = "daily_telemetry" /\ adds["totalCycles"] = 1
                                         THEN 0 ELSE row.latest
  /\ \A row \in Row : [row EXCEPT !.latest = Older(@)] \in Row
<1>1. /\ Zero \in Row /\ Zero.latest = Never
      /\ Zero.n \in [Columns -> Int] /\ \A c \in Columns : Zero.n[c] = 0
  BY Ages DEF Zero, Row
<1>2. ASSUME NEW row \in Row
      PROVE  row # NoRow /\ row.n \in [Columns -> Int] /\ row.latest \in Age
             /\ [row EXCEPT !.latest = Older(@)] \in Row
  <2>1. row.n \in [Columns -> Int] /\ row.latest \in Age /\ row = [n |-> row.n, latest |-> row.latest]
    BY DEF Row
  <2>2. row.n \in [PnlColumns -> Int] \cup [TelemetryColumns -> Int] /\ row.latest \in Nat
    BY <2>1, Ages DEF Columns
  <2>3. row \in [n : [PnlColumns -> Int] \cup [TelemetryColumns -> Int], latest : Nat]
    BY <2>1, <2>2
  <2>4. row # NoRow
    BY <2>3, RowsAssumption
  <2>5. [row EXCEPT !.latest = Older(@)] = [n |-> row.n, latest |-> Older(row.latest)]
    BY <2>1
  <2> QED  BY <2>1, <2>4, <2>5, Ages DEF Row
<1>3. ASSUME NEW row \in Row, NEW adds \in [Columns -> Int]
      PROVE  /\ WithAdded(row, adds) \in Row
             /\ WithAdded(row, adds).n = Sum(row.n, adds)
             /\ WithAdded(row, adds).latest = IF table = "daily_telemetry" /\ adds["totalCycles"] = 1
                                              THEN 0 ELSE row.latest
  <2>1. Sum(row.n, adds) \in [Columns -> Int]
    BY <1>2, Adds
  <2>2. (IF table = "daily_telemetry" /\ adds["totalCycles"] = 1 THEN 0 ELSE row.latest) \in Age
    BY <1>2, Ages
  <2> QED  BY <2>1, <2>2 DEF WithAdded, Row
<1> QED  BY <1>1, <1>2, <1>3

LEMMA Overwrites ==
  ASSUME NEW row \in Row, NEW copy \in Row, NEW fields
  PROVE  /\ Overwrite(row, copy, fields) \in Row
         /\ \A c \in Columns : Overwrite(row, copy, fields).n[c] = IF c \in fields THEN copy.n[c] ELSE row.n[c]
         /\ Overwrite(row, copy, fields).latest = IF "latest" \in fields THEN copy.latest ELSE row.latest
<1>1. /\ row.n \in [Columns -> Int] /\ row.latest \in Age
      /\ copy.n \in [Columns -> Int] /\ copy.latest \in Age
  BY Rows
<1> QED  BY <1>1 DEF Overwrite, Row

-----------------------------------------------------------------------------
(* Calls and what their steps do.                                          *)

\* A copy that holds what its call adds.
Counted(c) == c.pc # "read" /\ ~c.zero

\* What a call is, whatever the others do.
Shape(c) ==
  /\ c.adds \in Addends
  /\ ~Counted(c) => c.row.n = Zero.n /\ c.row.latest = Never
  /\ c.zero => table = "daily_telemetry" /\ c.pc # "read"
  /\ table = "daily_pnl" /\ Counted(c) => c.row.n["tradesCount"] > 0
  /\ c.pc = "update" => rows[c.day] # NoRow

RowsInv ==
  /\ RowsTypeOK
  /\ \A k \in DOMAIN calls : Shape(calls[k])
  /\ \A d \in Day : table = "daily_pnl" /\ rows[d] # NoRow => rows[d].n["tradesCount"] > 0
  /\ \A d \in Day : tally[d] # Zero.n => rows[d] # NoRow

LEMMA RowTypes ==
  ASSUME RowsTypeOK
  PROVE  /\ table \in {"daily_pnl", "daily_telemetry"} /\ today \in Day /\ crowded \subseteq Day
         /\ calls \in Seq(Call)
         /\ \A d \in Day : rows[d] # NoRow => rows[d] \in Row
         /\ \A d \in Day : tally[d] \in [Columns -> Int]
         /\ \A k \in DOMAIN calls : calls[k] \in Call
         /\ \A c \in Call : /\ c.day \in Day /\ c.adds \in [Columns -> Int] /\ c.row \in Row
                            /\ c.pc \in Stages /\ c.zero \in BOOLEAN
<1>1. calls \in Seq(Call)
  BY Zenon DEF RowsTypeOK, Call
<1>2. \A k \in DOMAIN calls : calls[k] \in Call
  BY <1>1
<1>3. \A c \in Call : /\ c.day \in Day /\ c.adds \in [Columns -> Int] /\ c.row \in Row
                      /\ c.pc \in Stages /\ c.zero \in BOOLEAN
  BY DEF Call
<1> QED  BY <1>1, <1>2, <1>3 DEF RowsTypeOK

-----------------------------------------------------------------------------
(* What a step does to its call, c, which becomes new.                     *)

Same(c, new) == new \in Call /\ new.day = c.day /\ new.adds = c.adds

Takes(c, new) ==
  /\ c.pc = "read" /\ ~new.zero /\ rows' = rows
  /\ \/ rows[c.day] # NoRow /\ new.pc = "save" /\ new.row = WithAdded(rows[c.day], c.adds)
     \/ /\ rows[c.day] = NoRow /\ table = "daily_pnl"
        /\ new.pc = "insert" /\ new.row = WithAdded(Zero, c.adds)

Zeroes(c, new) ==
  /\ c.pc = "read" /\ rows[c.day] = NoRow /\ table = "daily_telemetry" /\ rows' = rows
  /\ new.pc = "save" /\ new.zero /\ new.row = c.row

Selects(c, new) ==
  /\ c.pc = "save" /\ rows' = rows /\ new.zero = c.zero /\ new.row = c.row
  /\ \/ rows[c.day] = NoRow /\ new.pc = "insert"
     \/ rows[c.day] # NoRow /\ new.pc = "update" /\ new.fields = Differing(c.row, rows[c.day])

\* The row that is written.
Puts(c, row) ==
  /\ row \in Row /\ rows' = [rows EXCEPT ![c.day] = row]
  /\ \/ c.pc = "insert" /\ rows[c.day] = NoRow /\ row = c.row
     \/ c.pc = "update" /\ rows[c.day] # NoRow /\ row = Overwrite(rows[c.day], c.row, c.fields)

Recounts(c, new) ==
  /\ c.zero /\ \E row \in Row : Puts(c, row)
  /\ new.pc = "save" /\ ~new.zero /\ new.row = WithAdded(c.row, c.adds)

Finishes(c) == ~c.zero /\ \E row \in Row : Puts(c, row)

\* What a call that has written does to the counts of its day.
Tallies(c) == tally' = [tally EXCEPT ![c.day] = Sum(@, c.adds)]

\* It goes on.
Going(i, c) ==
  \E new \in Call :
     /\ Goes(i, new) /\ Same(c, new)
     /\ Takes(c, new) \/ Zeroes(c, new) \/ Selects(c, new) \/ Recounts(c, new)

LEMMA Moves ==
  ASSUME RowsInv, NEW i \in DOMAIN calls, Read(i) \/ Select(i) \/ Insert(i) \/ Update(i) \/ Fails(i)
  PROVE  /\ UNCHANGED <<table, today, crowded>>
         /\ \/ tally' = tally /\ Going(i, calls[i])
            \/ Ends(i) /\ Finishes(calls[i]) /\ Tallies(calls[i])
            \/ Ends(i) /\ UNCHANGED <<rows, tally>>
<1> DEFINE c == calls[i]
<1>1. /\ c \in Call /\ c.day \in Day /\ c.adds \in [Columns -> Int] /\ c.row \in Row
      /\ c.pc \in Stages /\ c.zero \in BOOLEAN /\ c.fields \in SUBSET (Columns \cup {"latest"})
  BY RowTypes DEF RowsInv, Call
<1>2. rows[c.day] # NoRow => rows[c.day] \in Row
  BY <1>1, RowTypes DEF RowsInv
<1>3. Shape(c)
  BY DEF RowsInv
<1>4. \A row \in Row : WithAdded(row, c.adds) \in Row
  BY <1>1, Rows
<1>5. Zero \in Row
  BY Rows
<1>6. {"read", "save", "insert", "update"} \subseteq Stages /\ {TRUE, FALSE} \subseteq BOOLEAN
  BY DEF Stages
<1>7. ASSUME Read(i) PROVE UNCHANGED <<table, today, tally, crowded>>
                           /\ \E new \in Call : Goes(i, new) /\ Same(c, new) /\ (Takes(c, new) \/ Zeroes(c, new))
  <2>1. c.pc = "read" /\ UNCHANGED <<table, today, rows, tally, crowded>> /\ c.zero = FALSE
    BY <1>1, <1>3, <1>7 DEF Read, Shape
  <2>2. CASE rows[c.day] # NoRow /\ Goes(i, [c EXCEPT !.pc = "save", !.row = WithAdded(rows[c.day], c.adds)])
    <3> DEFINE r == WithAdded(rows[c.day], c.adds)
               new == [c EXCEPT !.pc = "save", !.row = r]
    <3>1. r \in Row
      BY <1>2, <1>4, <2>2
    <3>2. Same(c, new) /\ new.pc = "save" /\ new.zero = c.zero /\ new.row = r
      <4> HIDE DEF r, c
      <4> QED  BY <1>1, <1>6, <3>1 DEF Call, Same
    <3>3. Goes(i, new)
      BY <2>2
    <3> HIDE DEF new, c
    <3> QED  BY <2>1, <2>2, <3>2, <3>3 DEF Takes, Same
  <2>3. CASE rows[c.day] = NoRow /\ table = "daily_telemetry" /\ Goes(i, [c EXCEPT !.pc = "save", !.zero = TRUE])
    <3> DEFINE new == [c EXCEPT !.pc = "save", !.zero = TRUE]
    <3>1. Same(c, new) /\ new.pc = "save" /\ new.zero = TRUE /\ new.row = c.row
      <4> HIDE DEF c
      <4> QED  BY <1>1, <1>6 DEF Call, Same
    <3>2. Goes(i, new)
      BY <2>3
    <3> HIDE DEF new, c
    <3> QED  BY <2>1, <2>3, <3>1, <3>2 DEF Zeroes, Same
  <2>4. CASE rows[c.day] = NoRow /\ table = "daily_pnl"
             /\ Goes(i, [c EXCEPT !.pc = "insert", !.row = WithAdded(Zero, c.adds)])
    <3> DEFINE r == WithAdded(Zero, c.adds)
               new == [c EXCEPT !.pc = "insert", !.row = r]
    <3>1. r \in Row
      BY <1>4, <1>5
    <3>2. Same(c, new) /\ new.pc = "insert" /\ new.zero = c.zero /\ new.row = r
      <4> HIDE DEF r, c
      <4> QED  BY <1>1, <1>6, <3>1 DEF Call, Same
    <3>3. Goes(i, new)
      BY <2>4
    <3> HIDE DEF new, c
    <3> QED  BY <2>1, <2>4, <3>2, <3>3 DEF Takes, Same
  <2> QED  BY <1>7, <2>1, <2>2, <2>3, <2>4 DEF Read
<1>8. ASSUME Select(i) PROVE UNCHANGED <<table, today, tally, crowded>>
                             /\ \E new \in Call : Goes(i, new) /\ Same(c, new) /\ Selects(c, new)
  <2>1. c.pc = "save" /\ UNCHANGED <<table, today, rows, tally, crowded>>
    BY <1>8 DEF Select
  <2>2. CASE rows[c.day] = NoRow /\ Goes(i, [c EXCEPT !.pc = "insert"])
    <3> DEFINE new == [c EXCEPT !.pc = "insert"]
    <3>1. Same(c, new) /\ new.pc = "insert" /\ new.zero = c.zero /\ new.row = c.row
      <4> HIDE DEF c
      <4> QED  BY <1>1, <1>6 DEF Call, Same
    <3>2. Goes(i, new)
      BY <2>2
    <3> HIDE DEF new, c
    <3> QED  BY <2>1, <2>2, <3>1, <3>2 DEF Selects, Same
  <2>3. CASE rows[c.day] # NoRow
             /\ Goes(i, [c EXCEPT !.pc = "update", !.fields = Differing(c.row, rows[c.day])])
    <3> DEFINE f == Differing(c.row, rows[c.day])
               new == [c EXCEPT !.pc = "update", !.fields = f]
    <3>1. f \in SUBSET (Columns \cup {"latest"})
      BY DEF Differing
    <3>2. Same(c, new) /\ new.pc = "update" /\ new.zero = c.zero /\ new.row = c.row /\ new.fields = f
      <4> HIDE DEF f, c
      <4> QED  BY <1>1, <1>6, <3>1 DEF Call, Same
    <3>3. Goes(i, new)
      BY <2>3
    <3> HIDE DEF new, c
    <3> QED  BY <2>1, <2>3, <3>2, <3>3 DEF Selects, Same
  <2> QED  BY <1>8, <2>1, <2>2, <2>3 DEF Select
<1>9. ASSUME NEW row \in Row, Puts(c, row), Written(i)
      PROVE  \/ tally' = tally /\ \E new \in Call : Goes(i, new) /\ Same(c, new) /\ Recounts(c, new)
             \/ Ends(i) /\ Finishes(c) /\ Tallies(c)
  <2>1. CASE c.zero
    <3> DEFINE r == WithAdded(c.row, c.adds)
               new == [c EXCEPT !.pc = "save", !.zero = FALSE, !.row = r, !.fields = {}]
    <3>1. r \in Row /\ {} \in SUBSET (Columns \cup {"latest"})
      BY <1>1, <1>4
    <3>2. Same(c, new) /\ new.pc = "save" /\ new.zero = FALSE /\ new.row = r
      <4> HIDE DEF r, c
      <4> QED  BY <1>1, <1>6, <3>1 DEF Call, Same
    <3>3. Goes(i, new) /\ tally' = tally
      BY <1>9, <2>1 DEF Written
    <3> HIDE DEF new, c
    <3> QED  BY <1>9, <2>1, <3>2, <3>3 DEF Recounts, Same
  <2>2. CASE ~c.zero
    BY <1>9, <2>2 DEF Written, Finishes, Tallies
  <2> QED  BY <2>1, <2>2
<1>10. ASSUME Insert(i)
       PROVE  UNCHANGED <<table, today, crowded>>
              /\ Written(i) /\ \E row \in Row : Puts(c, row)
  BY <1>1, <1>10 DEF Insert, Puts
<1>11. ASSUME Update(i)
       PROVE  UNCHANGED <<table, today, crowded>>
              /\ Written(i) /\ \E row \in Row : Puts(c, row)
  <2>1. c.pc = "update" /\ rows[c.day] # NoRow /\ rows[c.day] \in Row
    BY <1>2, <1>3, <1>11 DEF Update, Shape
  <2>2. Overwrite(rows[c.day], c.row, c.fields) \in Row
    BY <1>1, <2>1, Overwrites
  <2>3. Puts(c, Overwrite(rows[c.day], c.row, c.fields))
    BY <1>11, <2>1, <2>2 DEF Puts, Update
  <2> QED  BY <1>11, <2>2, <2>3 DEF Update
<1>12. ASSUME Fails(i) PROVE UNCHANGED <<table, today, rows, tally, crowded>> /\ Ends(i)
  BY <1>12 DEF Fails
<1> HIDE DEF c
<1> QED  BY <1>7, <1>8, <1>9, <1>10, <1>11, <1>12 DEF c, Going

\* Where a call was before the i-th left.
Was(i, k) == IF k < i THEN k ELSE k + 1

\* The calls after one of them moved, ended or began, and after some minutes.
LEMMA CallsGo ==
  ASSUME calls \in Seq(Call), NEW i \in DOMAIN calls, NEW new \in Call, Goes(i, new)
  PROVE  /\ calls' \in Seq(Call) /\ DOMAIN calls' = DOMAIN calls
         /\ \A k \in DOMAIN calls : calls'[k] = IF k = i THEN new ELSE calls[k]
BY DEF Goes

LEMMA CallsEnd ==
  ASSUME calls \in Seq(Call), NEW i \in DOMAIN calls, Ends(i)
  PROVE  /\ calls' \in Seq(Call)
         /\ \A k \in DOMAIN calls' : Was(i, k) \in DOMAIN calls \ {i} /\ calls'[k] = calls[Was(i, k)]
         /\ \A j \in DOMAIN calls \ {i} : \E k \in DOMAIN calls' : Was(i, k) = j
         /\ \A j, k \in DOMAIN calls' : Was(i, j) = Was(i, k) => j = k
<1>1. /\ calls' \in Seq(Call) /\ Len(calls') = Len(calls) - 1
      /\ \A k \in 1..(Len(calls) - 1) : calls'[k] = calls[Was(i, k)]
  BY Without DEF Ends, Was
<1>2. /\ DOMAIN calls = 1..Len(calls) /\ Len(calls) \in Nat /\ i \in 1..Len(calls)
      /\ DOMAIN calls' = 1..(Len(calls) - 1)
  BY <1>1
<1>3. \A k \in 1..(Len(calls) - 1) : Was(i, k) \in (1..Len(calls)) \ {i}
  BY <1>2 DEF Was
<1>4. \A j, k \in 1..(Len(calls) - 1) : Was(i, j) = Was(i, k) => j = k
  BY <1>2 DEF Was
<1>5. ASSUME NEW j \in (1..Len(calls)) \ {i} PROVE \E k \in 1..(Len(calls) - 1) : Was(i, k) = j
  <2>1. CASE j < i
    <3>1. j \in 1..(Len(calls) - 1) /\ Was(i, j) = j
      BY <1>2, <2>1 DEF Was
    <3> QED  BY <3>1
  <2>2. CASE ~(j < i)
    <3>1. j - 1 \in 1..(Len(calls) - 1) /\ Was(i, j - 1) = j
      BY <1>2, <1>5, <2>2 DEF Was
    <3> QED  BY <3>1
  <2> QED  BY <2>1, <2>2
<1> QED  BY <1>1, <1>2, <1>3, <1>4, <1>5

\* A call that starts.
Starting(adds) == [pc |-> "read", day |-> today, adds |-> adds, row |-> Zero, zero |-> FALSE, fields |-> {}]

LEMMA CallsBegin ==
  ASSUME calls \in Seq(Call), today \in Day, NEW adds \in [Columns -> Int], Begin(adds)
  PROVE  /\ calls' \in Seq(Call) /\ DOMAIN calls' = DOMAIN calls \cup {Len(calls) + 1}
         /\ Len(calls) + 1 \notin DOMAIN calls
         /\ \A k \in DOMAIN calls : calls'[k] = calls[k]
         /\ calls'[Len(calls) + 1] = Starting(adds) /\ Starting(adds) \in Call
<1>1. Starting(adds) \in Call
  BY Rows DEF Starting, Call, Stages
<1>2. calls' = Append(calls, Starting(adds))
  BY DEF Begin, Starting
<1> QED  BY <1>1, <1>2

LEMMA CallsTick ==
  ASSUME calls \in Seq(Call), RowsTick
  PROVE  /\ calls' \in Seq(Call) /\ DOMAIN calls' = DOMAIN calls
         /\ \A k \in DOMAIN calls :
               /\ calls'[k].pc = calls[k].pc /\ calls'[k].day = calls[k].day
               /\ calls'[k].adds = calls[k].adds /\ calls'[k].zero = calls[k].zero
               /\ calls'[k].fields = calls[k].fields
               /\ calls'[k].row.n = calls[k].row.n
               /\ calls'[k].row.latest = Older(calls[k].row.latest)
<1>1. calls' = [k \in DOMAIN calls |-> [calls[k] EXCEPT !.row.latest = Older(@)]]
  BY DEF RowsTick
<1>2. DOMAIN calls = 1..Len(calls) /\ Len(calls) \in Nat /\ \A k \in DOMAIN calls : calls[k] \in Call
  OBVIOUS
<1>3. ASSUME NEW c \in Call
      PROVE  LET new == [c EXCEPT !.row.latest = Older(@)] IN
             /\ new \in Call /\ new.pc = c.pc /\ new.day = c.day /\ new.adds = c.adds
             /\ new.zero = c.zero /\ new.fields = c.fields
             /\ new.row.n = c.row.n /\ new.row.latest = Older(c.row.latest)
  <2>1. c.row \in Row /\ c.row.latest \in Age
    BY Rows DEF Call
  <2>2. Older(c.row.latest) \in Age
    BY <2>1, Ages
  <2> QED  BY <2>1, <2>2 DEF Call, Row
<1>4. \A k \in DOMAIN calls : calls'[k] = [calls[k] EXCEPT !.row.latest = Older(@)]
  BY <1>1
<1>5. \A k \in DOMAIN calls : calls'[k] \in Call
  BY <1>2, <1>3, <1>4
<1>6. DOMAIN calls' = 1..Len(calls)
  BY <1>1, <1>2
<1>7. calls' \in Seq(Call)
  BY <1>1, <1>2, <1>5, <1>6
<1> QED  BY <1>2, <1>3, <1>4, <1>6, <1>7

-----------------------------------------------------------------------------

LEMMA RowsStart == RowsInit => RowsInv
<1> SUFFICES ASSUME RowsInit PROVE RowsInv
  OBVIOUS
<1>1. calls = <<>> /\ DOMAIN calls = {}
  BY DEF RowsInit
<1>2. \A d \in Day : rows[d] = NoRow /\ tally[d] = Zero.n
  BY DEF RowsInit
<1>3. RowsTypeOK
  <2>1. today \in Day
    BY RowsAssumption DEF RowsInit, Day
  <2>2. Zero.n \in [Columns -> Int]
    BY Rows
  <2>3. calls \in Seq(Call)
    BY <1>1
  <2> QED  BY <2>1, <2>2, <2>3 DEF RowsInit, RowsTypeOK, Call
<1> QED  BY <1>1, <1>2, <1>3 DEF RowsInv

LEMMA RowsBegin ==
  ASSUME RowsInv, NEW adds \in Addends, Begin(adds)
  PROVE  RowsInv'
<1>1. /\ adds \in [Columns -> Int] /\ today \in Day /\ calls \in Seq(Call)
      /\ \A d \in Day : tally[d] \in [Columns -> Int]
  BY Adding, RowTypes DEF RowsInv
<1>2. /\ UNCHANGED <<table, today, rows, tally>>
      /\ crowded' = crowded \cup {d \in {today} : InFlight(d) # {}}
  BY DEF Begin
<1>3. Columns' = Columns /\ Call' = Call /\ Addends' = Addends /\ Zero' = Zero /\ Row' = Row
  BY <1>2 DEF Columns, Call, Addends, Zero, Row, Booking, Only
<1>4. /\ calls' \in Seq(Call) /\ DOMAIN calls' = DOMAIN calls \cup {Len(calls) + 1}
      /\ \A k \in DOMAIN calls : calls'[k] = calls[k]
      /\ calls'[Len(calls) + 1] = Starting(adds)
  BY <1>1, CallsBegin
<1>5. RowsTypeOK'
  <2>1. tally' \in [Day -> [Columns -> Int]]
    BY <1>2 DEF RowsInv, RowsTypeOK
  <2>2. crowded' \subseteq Day
    BY <1>1, <1>2 DEF RowsInv, RowsTypeOK
  <2>3. calls' \in Seq(Call)'
    BY <1>3, <1>4
  <2> QED  BY <1>2, <1>3, <2>1, <2>2, <2>3 DEF RowsInv, RowsTypeOK, Call
<1>6. \A k \in DOMAIN calls' : Shape(calls[k])'
  <2> SUFFICES ASSUME NEW k \in DOMAIN calls' PROVE Shape(calls[k])'
    OBVIOUS
  <2>1. CASE k \in DOMAIN calls
    BY <1>2, <1>3, <1>4, <2>1 DEF RowsInv, Shape, Counted
  <2>2. CASE k = Len(calls) + 1
    <3>1. calls'[k].pc = "read" /\ calls'[k].adds = adds /\ calls'[k].row = Zero /\ calls'[k].zero = FALSE
      BY <1>4, <2>2 DEF Starting
    <3> QED  BY <1>2, <1>3, <3>1, Rows DEF Shape, Counted
  <2> QED  BY <1>4, <2>1, <2>2
<1> QED  BY <1>2, <1>3, <1>5, <1>6 DEF RowsInv

\* The rows after a step of a call.
LEMMA RowsStand ==
  ASSUME RowsInv, NEW c \in Call, Shape(c), table' = table,
         rows' = rows \/ \E row \in Row : Puts(c, row)
  PROVE  /\ rows' \in [Day -> Row \cup {NoRow}]
         /\ \A d \in Day : rows'[d] = NoRow => rows[d] = NoRow
         /\ \A d \in Day : table = "daily_pnl" /\ rows'[d] # NoRow => rows'[d].n["tradesCount"] > 0
<1>1. CASE rows' = rows
  BY <1>1 DEF RowsInv, RowsTypeOK
<1>2. ASSUME NEW row \in Row, Puts(c, row)
      PROVE  /\ rows' \in [Day -> Row \cup {NoRow}]
             /\ \A d \in Day : rows'[d] = NoRow => rows[d] = NoRow
             /\ \A d \in Day : table = "daily_pnl" /\ rows'[d] # NoRow => rows'[d].n["tradesCount"] > 0
  <2>1. /\ rows' = [rows EXCEPT ![c.day] = row] /\ c.day \in Day /\ rows \in [Day -> Row \cup {NoRow}]
        /\ row # NoRow
    BY <1>2, Rows DEF Puts, RowsInv, RowsTypeOK, Call
  <2>2. /\ \A d \in Day \ {c.day} : rows'[d] = rows[d]
        /\ rows'[c.day] = row
    BY <2>1
  <2>3. ASSUME table = "daily_pnl" PROVE row.n["tradesCount"] > 0
    <3>1. Counted(c) /\ c.row.n["tradesCount"] > 0 /\ c.row \in Row
      BY <1>2, <2>3 DEF Shape, Counted, Puts, Call
    <3>2. CASE row = c.row
      BY <3>1, <3>2
    <3>3. CASE rows[c.day] # NoRow /\ row = Overwrite(rows[c.day], c.row, c.fields)
      <4>1. rows[c.day] \in Row /\ rows[c.day].n["tradesCount"] > 0
        BY <2>1, <2>3, <3>3 DEF RowsInv
      <4>2. "tradesCount" \in Columns
        BY <2>3 DEF Columns, PnlColumns
      <4> QED  BY <3>1, <3>3, <4>1, <4>2, Overwrites
    <3> QED  BY <1>2, <3>2, <3>3 DEF Puts
  <2> QED  BY <2>1, <2>2, <2>3 DEF RowsInv
<1> QED  BY <1>1, <1>2

LEMMA RowsMove == RowsInv /\ CallStep => RowsInv'
<1> SUFFICES ASSUME RowsInv, CallStep PROVE RowsInv'
  OBVIOUS
<1>1. PICK i \in DOMAIN calls : Read(i) \/ Select(i) \/ Insert(i) \/ Update(i) \/ Fails(i)
  BY DEF CallStep
<1> DEFINE c == calls[i]
<1>2. /\ UNCHANGED <<table, today, crowded>>
      /\ \/ tally' = tally /\ Going(i, c)
         \/ Ends(i) /\ Finishes(c) /\ Tallies(c)
         \/ Ends(i) /\ UNCHANGED <<rows, tally>>
  BY <1>1, Moves
<1>3. Columns' = Columns /\ Call' = Call /\ Addends' = Addends /\ Zero' = Zero /\ Row' = Row
  BY <1>2 DEF Columns, Call, Addends, Zero, Row, Booking, Only
<1>4. /\ calls \in Seq(Call) /\ c \in Call /\ Shape(c)
      /\ c.day \in Day /\ c.adds \in [Columns -> Int]
      /\ tally \in [Day -> [Columns -> Int]] /\ rows \in [Day -> Row \cup {NoRow}]
  BY RowTypes DEF RowsInv, RowsTypeOK
<1> HIDE DEF c
<1>5. /\ rows' \in [Day -> Row \cup {NoRow}]
      /\ \A d \in Day : rows'[d] = NoRow => rows[d] = NoRow
      /\ \A d \in Day : table = "daily_pnl" /\ rows'[d] # NoRow => rows'[d].n["tradesCount"] > 0
      /\ tally' \in [Day -> [Columns -> Int]]
      /\ \A d \in Day : tally'[d] # Zero.n => rows'[d] # NoRow
  <2>1. rows' = rows \/ \E row \in Row : Puts(c, row)
    BY <1>2 DEF Going, Takes, Zeroes, Selects, Recounts, Finishes
  <2>2. /\ rows' \in [Day -> Row \cup {NoRow}]
        /\ \A d \in Day : rows'[d] = NoRow => rows[d] = NoRow
        /\ \A d \in Day : table = "daily_pnl" /\ rows'[d] # NoRow => rows'[d].n["tradesCount"] > 0
    BY <1>2, <1>4, <2>1, RowsStand
  <2>3. CASE tally' = tally
    BY <1>4, <2>2, <2>3 DEF RowsInv
  <2>4. CASE Finishes(c) /\ Tallies(c)
    <3>1. Sum(tally[c.day], c.adds) \in [Columns -> Int]
      BY <1>4, Adds
    <3>2. tally' \in [Day -> [Columns -> Int]] /\ \A d \in Day \ {c.day} : tally'[d] = tally[d]
      BY <1>4, <2>4, <3>1 DEF Tallies
    <3>3. rows'[c.day] # NoRow
      BY <1>4, <2>4, Rows DEF Finishes, Puts
    <3> QED  BY <2>2, <3>2, <3>3 DEF RowsInv
  <2> QED  BY <1>2, <2>2, <2>3, <2>4
<1>6. ASSUME NEW k \in DOMAIN calls', NEW j \in DOMAIN calls, calls'[k] = calls[j]
      PROVE  Shape(calls[k])'
  <2>1. Shape(calls[j]) /\ calls[j].day \in Day
    BY RowTypes DEF RowsInv
  <2> QED  BY <1>2, <1>3, <1>5, <1>6, <2>1 DEF Shape, Counted
<1>7. ASSUME calls' \in Seq(Call), \A k \in DOMAIN calls' : Shape(calls[k])' PROVE RowsInv'
  <2>1. RowsTypeOK'
    BY <1>2, <1>3, <1>5, <1>7 DEF RowsInv, RowsTypeOK, Call
  <2> QED  BY <1>2, <1>3, <1>5, <1>7, <2>1 DEF RowsInv
<1>8. CASE Going(i, c)
  <2>1. PICK new \in Call : /\ Goes(i, new) /\ Same(c, new)
                            /\ Takes(c, new) \/ Zeroes(c, new) \/ Selects(c, new) \/ Recounts(c, new)
    BY <1>8 DEF Going
  <2>2. /\ calls' \in Seq(Call) /\ DOMAIN calls' = DOMAIN calls
        /\ \A k \in DOMAIN calls : calls'[k] = IF k = i THEN new ELSE calls[k]
    BY <1>4, <2>1, CallsGo
  <2>3. /\ c.adds \in Addends /\ c.adds \in [Columns -> Int] /\ c.row \in Row /\ c.day \in Day
        /\ c.pc \in Stages /\ c.zero \in BOOLEAN /\ new.day = c.day /\ new.adds = c.adds
        /\ rows[c.day] # NoRow => rows[c.day] \in Row
        /\ table \in {"daily_pnl", "daily_telemetry"}
    BY <1>4, <2>1, RowTypes, Adding DEF Shape, RowsInv, Same
  <2>4. ASSUME table = "daily_pnl" PROVE /\ "tradesCount" \in Columns /\ c.adds["tradesCount"] = 1
                                         /\ Zero.n["tradesCount"] = 0
                                         /\ rows[c.day] # NoRow => rows[c.day].n["tradesCount"] > 0
    BY <2>3, <2>4, Adding, Rows DEF RowsInv, Columns, PnlColumns
  <2>5. ASSUME NEW base \in Row, new.row = WithAdded(base, c.adds), table = "daily_pnl", base.n["tradesCount"] >= 0
        PROVE  new.row.n["tradesCount"] > 0
    <3>1. new.row.n = Sum(base.n, c.adds) /\ base.n \in [Columns -> Int]
      BY <2>3, <2>5, Rows
    <3> QED  BY <2>3, <2>4, <2>5, <3>1, Adds
  <2>6. /\ ~Counted(new) => new.row.n = Zero.n /\ new.row.latest = Never
        /\ new.zero => table = "daily_telemetry" /\ new.pc # "read"
        /\ table = "daily_pnl" /\ Counted(new) => new.row.n["tradesCount"] > 0
        /\ new.pc = "update" => rows'[c.day] # NoRow
    <3>1. CASE Takes(c, new)
      <4>1. Counted(new) /\ new.pc # "update"
        BY <3>1 DEF Takes, Counted
      <4>2. ASSUME table = "daily_pnl" PROVE new.row.n["tradesCount"] > 0
        <5>1. CASE rows[c.day] # NoRow
          <6>1. new.row = WithAdded(rows[c.day], c.adds) /\ rows[c.day] \in Row
                /\ rows[c.day].n \in [Columns -> Int]
            BY <2>3, <3>1, <5>1, Rows DEF Takes
          <6>2. rows[c.day].n["tradesCount"] >= 0
            BY <2>4, <4>2, <5>1, <6>1
          <6> QED  BY <2>5, <4>2, <6>1, <6>2
        <5>2. CASE rows[c.day] = NoRow
          BY <2>4, <2>5, <3>1, <4>2, <5>2, Rows DEF Takes
        <5> QED  BY <5>1, <5>2
      <4> QED  BY <3>1, <4>1, <4>2 DEF Takes
    <3>2. CASE Zeroes(c, new)
      <4>1. c.row.n = Zero.n /\ c.row.latest = Never
        BY <1>4, <3>2 DEF Zeroes, Shape, Counted
      <4> QED  BY <3>2, <4>1 DEF Zeroes, Counted
    <3>3. CASE Selects(c, new)
      BY <1>4, <3>3 DEF Selects, Shape, Counted
    <3>4. CASE Recounts(c, new)
      BY <1>4, <3>4 DEF Recounts, Shape, Counted
    <3> QED  BY <2>1, <3>1, <3>2, <3>3, <3>4
  <2>7. \A k \in DOMAIN calls' : Shape(calls[k])'
    <3> SUFFICES ASSUME NEW k \in DOMAIN calls' PROVE Shape(calls[k])'
      OBVIOUS
    <3>1. CASE k # i
      BY <1>6, <2>2, <3>1
    <3>2. CASE k = i
      <4>1. calls'[k] = new
        BY <2>2, <3>2
      <4> QED  BY <1>2, <1>3, <2>3, <2>6, <4>1 DEF Shape, Counted
    <3> QED  BY <3>1, <3>2
  <2> QED  BY <1>7, <2>2, <2>7
<1>9. CASE Ends(i)
  <2>1. /\ calls' \in Seq(Call)
        /\ \A k \in DOMAIN calls' : Was(i, k) \in DOMAIN calls \ {i} /\ calls'[k] = calls[Was(i, k)]
    BY <1>4, <1>9, CallsEnd
  <2>2. \A k \in DOMAIN calls' : Shape(calls[k])'
    BY <1>6, <2>1
  <2> QED  BY <1>7, <2>1, <2>2
<1> QED  BY <1>2, <1>8, <1>9

LEMMA RowsTicks == RowsInv /\ RowsTick => RowsInv'
<1> SUFFICES ASSUME RowsInv, RowsTick PROVE RowsInv'
  OBVIOUS
<1>1. UNCHANGED <<table, today, tally, crowded>>
  BY DEF RowsTick
<1>2. Columns' = Columns /\ Call' = Call /\ Addends' = Addends /\ Zero' = Zero /\ Row' = Row
  BY <1>1 DEF Columns, Call, Addends, Zero, Row, Booking, Only
<1>3. /\ calls \in Seq(Call) /\ \A d \in Day : rows[d] # NoRow => rows[d] \in Row
      /\ \A k \in DOMAIN calls : calls[k].day \in Day
  BY RowTypes DEF RowsInv
<1>4. /\ calls' \in Seq(Call) /\ DOMAIN calls' = DOMAIN calls
      /\ \A k \in DOMAIN calls :
            /\ calls'[k].pc = calls[k].pc /\ calls'[k].day = calls[k].day
            /\ calls'[k].adds = calls[k].adds /\ calls'[k].zero = calls[k].zero
            /\ calls'[k].row.n = calls[k].row.n
            /\ calls'[k].row.latest = Older(calls[k].row.latest)
  BY <1>3, CallsTick
<1>5. ASSUME NEW d \in Day
      PROVE  /\ rows'[d] = NoRow <=> rows[d] = NoRow
             /\ rows'[d] # NoRow => rows'[d] \in Row /\ rows'[d].n = rows[d].n
  <2>1. rows'[d] = IF rows[d] = NoRow THEN NoRow ELSE [rows[d] EXCEPT !.latest = Older(@)]
    BY DEF RowsTick
  <2>2. ASSUME rows[d] # NoRow
        PROVE  [rows[d] EXCEPT !.latest = Older(@)] \in Row /\ [rows[d] EXCEPT !.latest = Older(@)] # NoRow
               /\ [rows[d] EXCEPT !.latest = Older(@)].n = rows[d].n
    <3>1. rows[d] \in Row
      BY <1>3, <2>2
    <3> QED  BY <3>1, Rows DEF Row
  <2> QED  BY <2>1, <2>2
<1>6. RowsTypeOK'
  <2>1. rows' \in [Day -> Row \cup {NoRow}]
    BY <1>5 DEF RowsTick
  <2> QED  BY <1>1, <1>2, <1>4, <2>1 DEF RowsInv, RowsTypeOK, Call
<1>7. \A k \in DOMAIN calls' : Shape(calls[k])'
  BY <1>1, <1>2, <1>3, <1>4, <1>5, Ages DEF RowsInv, Shape, Counted
<1> QED  BY <1>1, <1>2, <1>5, <1>6, <1>7 DEF RowsInv

LEMMA RowsMidnight == RowsInv /\ Midnight => RowsInv'
<1> SUFFICES ASSUME RowsInv, Midnight PROVE RowsInv'
  OBVIOUS
<1>1. UNCHANGED <<table, rows, calls, tally, crowded>> /\ today' \in Day
  BY RowsAssumption DEF Midnight, RowsInv, RowsTypeOK, Day
<1>2. Columns' = Columns /\ Call' = Call /\ Addends' = Addends /\ Zero' = Zero /\ Row' = Row
  BY <1>1 DEF Columns, Call, Addends, Zero, Row, Booking, Only
<1>3. RowsTypeOK'
  BY <1>1, <1>2 DEF RowsInv, RowsTypeOK
<1>4. \A k \in DOMAIN calls' : Shape(calls[k])'
  BY <1>1, <1>2 DEF RowsInv, Shape, Counted
<1> QED  BY <1>1, <1>2, <1>3, <1>4 DEF RowsInv

LEMMA RowsRest == RowsInv /\ UNCHANGED rowVars => RowsInv'
<1> SUFFICES ASSUME RowsInv, UNCHANGED rowVars PROVE RowsInv'
  OBVIOUS
<1>1. UNCHANGED <<table, today, rows, calls, tally, crowded>>
  BY DEF rowVars
<1>2. Columns' = Columns /\ Call' = Call /\ Addends' = Addends /\ Zero' = Zero /\ Row' = Row
  BY <1>1 DEF Columns, Call, Addends, Zero, Row, Booking, Only
<1>3. RowsTypeOK'
  BY <1>1, <1>2 DEF RowsInv, RowsTypeOK
<1>4. \A k \in DOMAIN calls' : Shape(calls[k])'
  BY <1>1, <1>2 DEF RowsInv, Shape, Counted
<1> QED  BY <1>1, <1>2, <1>3, <1>4 DEF RowsInv

-----------------------------------------------------------------------------
(* The cycles and the heartbeat around them.                               *)

RecordsInv ==
  /\ RecordsTypeOK /\ RowsInv /\ GeneratorInv
  /\ pc # "idle" => table = "daily_telemetry"

LEMMA Counting ==
  ASSUME table = "daily_telemetry"
  PROVE  \A cols : Only(cols) \in Addends
                   /\ (Only(cols)["totalCycles"] = 1 <=> "totalCycles" \in cols)
<1>1. "totalCycles" \in Columns
  BY DEF Columns, TelemetryColumns
<1> QED  BY <1>1 DEF Only, Addends

\* What a step is to the rows.
LEMMA RowKinds ==
  ASSUME RecordsInv, [RecordsNext]_recordVars
  PROVE  \/ UNCHANGED rowVars \/ CallStep \/ Midnight \/ RowsTick
         \/ \E adds \in Addends : Begin(adds)
<1>1. CASE Cycle
  <2>1. table = "daily_telemetry" /\ (UNCHANGED rowVars \/ Begin(CycleCounts))
    BY <1>1 DEF Cycle
  <2>2. CycleCounts \in Addends
    BY <2>1, Counting DEF CycleCounts
  <2> QED  BY <2>1, <2>2
<1>2. CASE SignalSaved
  <2>1. table = "daily_telemetry" /\ Begin(Only({"signalsGenerated"}))
    BY <1>2 DEF SignalSaved, RecordsInv
  <2> QED  BY <2>1, Counting
<1>3. CASE SignalSettled
  <2>1. table = "daily_telemetry" /\ \E k \in {"signalsExecuted", "signalsRejected"} : Begin(Only({k}))
    BY <1>3 DEF SignalSettled, RecordsInv
  <2> QED  BY <2>1, Counting
<1>4. CASE BookTrade
  <2>1. table = "daily_pnl" /\ \E adds \in Booking : Begin(adds)
    BY <1>4 DEF BookTrade
  <2> QED  BY <2>1 DEF Addends
<1>5. CASE ProcessEnds \/ Heartbeat \/ UNCHANGED recordVars
  BY <1>5 DEF ProcessEnds, Heartbeat, recordVars, rowVars
<1>6. CASE RecordStep \/ Tick
  BY <1>6 DEF RecordStep, Tick
<1> QED  BY <1>1, <1>2, <1>3, <1>4, <1>5, <1>6 DEF RecordsNext

LEMMA RecordsStart == RecordsInit => RecordsInv
<1> SUFFICES ASSUME RecordsInit PROVE RecordsInv
  OBVIOUS
<1>1. RowsInv /\ GeneratorInv
  BY RowsStart, GeneratorStarts DEF RecordsInit
<1>2. pc = "idle" /\ outcome = NoOutcome
  BY DEF RecordsInit, GeneratorInit
<1>3. RecordsTypeOK
  BY <1>1, <1>2, RecordsAssumption, Ages DEF RecordsInit, RecordsTypeOK, RowsInv, GeneratorInv
<1> QED  BY <1>1, <1>2, <1>3 DEF RecordsInv

LEMMA RecordsStep == RecordsInv /\ [RecordsNext]_recordVars => RecordsInv'
<1> SUFFICES ASSUME RecordsInv, [RecordsNext]_recordVars PROVE RecordsInv'
  OBVIOUS
<1>1. RowsInv' /\ table' = table
  <2>1. CASE UNCHANGED rowVars
    BY <2>1, RowsRest DEF RecordsInv, rowVars
  <2>2. CASE CallStep
    BY <2>2, RowsMove DEF RecordsInv, CallStep, Read, Select, Insert, Update, Fails
  <2>3. CASE Midnight
    BY <2>3, RowsMidnight DEF RecordsInv, Midnight
  <2>4. CASE RowsTick
    BY <2>4, RowsTicks DEF RecordsInv, RowsTick
  <2>5. CASE \E adds \in Addends : Begin(adds)
    BY <2>5, RowsBegin DEF RecordsInv, Begin
  <2> QED  BY <2>1, <2>2, <2>3, <2>4, <2>5, RowKinds
<1>2. /\ pc \in {"idle", "generated", "saved"} /\ (pc = "idle" <=> outcome = NoOutcome) /\ starts \in 0..MaxStarts
      /\ alerted \in 0..Cooldown
      /\ GeneratorInv /\ (pc # "idle" => table = "daily_telemetry")
      /\ MaxStarts \in Nat /\ Cooldown \in Nat \ {0} /\ PullbackView \subseteq View
  BY RecordsAssumption DEF RecordsInv, RecordsTypeOK
<1>3. ASSUME GeneratorInv', pc' \in {"idle", "generated", "saved"}, pc' = "idle" <=> outcome' = NoOutcome,
             starts' \in 0..MaxStarts, alerted' \in 0..Cooldown,
             pc' # "idle" => table' = "daily_telemetry"
      PROVE  RecordsInv'
  BY <1>1, <1>3 DEF RecordsInv, RecordsTypeOK, RowsInv, GeneratorInv
<1>4. Counts => starts' \in 0..MaxStarts
  BY <1>2 DEF Counts
<1>5. CASE Cycle
  <2>1. \E v \in View : GenerateSignal(v)
    BY <1>2, <1>5 DEF Cycle
  <2>2. GeneratorInv' /\ outcome'.kind # "none"
    BY <1>2, <2>1, GeneratorCycles
  <2>3. outcome' # NoOutcome
    BY <2>2 DEF NoOutcome
  <2> QED  BY <1>1, <1>2, <1>3, <1>4, <1>5, <2>2, <2>3, Ages DEF Cycle
<1>6. CASE SignalSaved
  <2>1. UNCHANGED <<generator, alerted>> /\ outcome' = outcome /\ pc = "generated" /\ pc' = "saved"
    BY <1>6 DEF SignalSaved, generator
  <2>2. GeneratorInv'
    BY <1>2, <2>1, GeneratorRests
  <2> QED  BY <1>1, <1>2, <1>3, <1>4, <1>6, <2>1, <2>2 DEF SignalSaved
<1>7. CASE SignalSettled
  <2>1. Returned /\ pc' = "idle" /\ UNCHANGED alerted /\ Counts
    BY <1>7 DEF SignalSettled
  <2>2. GeneratorInv'
    BY <1>2, <2>1, GeneratorReturns
  <2> QED  BY <1>2, <1>3, <1>4, <2>1, <2>2 DEF Returned
<1>8. CASE ProcessEnds
  <2>1. Returned /\ pc' = "idle" /\ UNCHANGED <<starts, alerted>>
    BY <1>8 DEF ProcessEnds
  <2>2. GeneratorInv'
    BY <1>2, <2>1, GeneratorReturns
  <2> QED  BY <1>2, <1>3, <2>1, <2>2 DEF Returned
<1>9. CASE BookTrade \/ Heartbeat \/ RecordStep \/ UNCHANGED recordVars
  <2>1. /\ UNCHANGED <<generator, pc>> /\ outcome' = outcome
        /\ starts' = starts \/ Counts
        /\ alerted' = alerted \/ alerted' = 0
    BY <1>9 DEF BookTrade, Heartbeat, RecordStep, recordVars, generator
  <2>2. GeneratorInv'
    BY <1>2, <2>1, GeneratorRests
  <2>3. alerted' \in 0..Cooldown
    BY <1>2, <2>1
  <2> QED  BY <1>1, <1>2, <1>3, <1>4, <2>1, <2>2, <2>3
<1>10. CASE Tick
  <2>1. GeneratorInv' /\ outcome' = outcome
    BY <1>2, <1>10, GeneratorTicks DEF Tick, GeneratorTick
  <2>2. alerted' \in 0..Cooldown
    BY <1>2, <1>10, Ages DEF Tick, Smaller
  <2> QED  BY <1>1, <1>2, <1>3, <1>10, <2>1, <2>2 DEF Tick
<1> QED  BY <1>5, <1>6, <1>7, <1>8, <1>9, <1>10 DEF RecordsNext

\* Types: among them, that a cycle under way is one that has an outcome, and that
\* no entry of the cache outlives its ten minutes (SignalCacheService.cleanup).
THEOREM RecordsTypeCorrect == RecordsSpec => []RecordsTypeOK
<1>1. RecordsInv => RecordsTypeOK
  BY DEF RecordsInv
<1> QED  BY <1>1, RecordsStart, RecordsStep, PTL DEF RecordsSpec

\* For all views, scores and thresholds: the breakout branch never signals, and the
\* crossover branch signals against the structure of its own candle, whatever the
\* cross did (hybrid-signal.service).
THEOREM SignalsInTurmoil == RecordsSpec => []HybridSignals
<1>1. RecordsInv => HybridSignals
  BY DEF RecordsInv, GeneratorInv
<1> QED  BY <1>1, RecordsStart, RecordsStep, PTL DEF RecordsSpec

\* A cycle that the cache skips follows a HOLD of the last ten minutes: the cache
\* is what the strategy's HOLDs left (shouldSkip, cacheHoldResult).
THEOREM SkipsAreFresh == RecordsSpec => []SkipIsFresh
<1>1. RecordsInv => SkipIsFresh
  BY DEF RecordsInv, GeneratorInv
<1> QED  BY <1>1, RecordsStart, RecordsStep, PTL DEF RecordsSpec

-----------------------------------------------------------------------------
(* What rows claim.                                                        *)

\* A claim that what was to be counted covers; what a row realized lies between
\* its losses and its wins.
Within(n, most) ==
  /\ \A a \in Columns \ {"realizedPnl"} : 0 <= n[a] /\ n[a] <= most[a]
  /\ table = "daily_pnl" =>
       -most["lossesCount"] <= n["realizedPnl"] /\ n["realizedPnl"] <= most["winsCount"]

\* A copy that was counted in may claim what its own call adds besides.
CountsInv ==
  /\ \A d \in Day : Within(Zero.n, tally[d]) /\ (rows[d] # NoRow => Within(rows[d].n, tally[d]))
  /\ \A k \in DOMAIN calls :
        Counted(calls[k]) => Within(calls[k].row.n, Sum(tally[calls[k].day], calls[k].adds))

LEMMA Wider ==
  ASSUME NEW n \in [Columns -> Int], NEW m \in [Columns -> Int], Within(n, m),
         NEW most \in [Columns -> Int], \A a \in Columns \ {"realizedPnl"} : m[a] <= most[a]
  PROVE  Within(n, most)
<1>1. table = "daily_pnl" => /\ "realizedPnl" \in Columns
                             /\ "lossesCount" \in Columns \ {"realizedPnl"}
                             /\ "winsCount" \in Columns \ {"realizedPnl"}
  BY DEF Columns, PnlColumns
<1>2. \A a \in Columns : n[a] \in Int /\ m[a] \in Int /\ most[a] \in Int
  OBVIOUS
<1> QED  BY <1>1, <1>2 DEF Within

LEMMA WithinSum ==
  ASSUME NEW adds \in Addends, NEW n \in [Columns -> Int], NEW m \in [Columns -> Int], Within(n, m)
  PROVE  Within(Sum(n, adds), Sum(m, adds))
<1>1. table = "daily_pnl" => /\ "realizedPnl" \in Columns
                             /\ "lossesCount" \in Columns \ {"realizedPnl"}
                             /\ "winsCount" \in Columns \ {"realizedPnl"}
  BY DEF Columns, PnlColumns
<1>2. /\ \A a \in Columns : /\ n[a] \in Int /\ m[a] \in Int /\ adds[a] \in Int
                            /\ Sum(n, adds)[a] = n[a] + adds[a] /\ Sum(m, adds)[a] = m[a] + adds[a]
      /\ \A a \in Columns \ {"realizedPnl"} : adds[a] \in {0, 1}
      /\ table = "daily_pnl" => /\ -adds["lossesCount"] <= adds["realizedPnl"]
                                /\ adds["realizedPnl"] <= adds["winsCount"]
  BY Adding, Adds
<1>3. ASSUME NEW a \in Columns \ {"realizedPnl"}
      PROVE  0 <= Sum(n, adds)[a] /\ Sum(n, adds)[a] <= Sum(m, adds)[a]
  <2>1. 0 <= n[a] /\ n[a] <= m[a]
    BY DEF Within
  <2> QED  BY <1>2, <2>1
<1>4. ASSUME table = "daily_pnl"
      PROVE  /\ -Sum(m, adds)["lossesCount"] <= Sum(n, adds)["realizedPnl"]
             /\ Sum(n, adds)["realizedPnl"] <= Sum(m, adds)["winsCount"]
  <2>1. -m["lossesCount"] <= n["realizedPnl"] /\ n["realizedPnl"] <= m["winsCount"]
    BY <1>4 DEF Within
  <2>2. /\ Sum(m, adds)["lossesCount"] = m["lossesCount"] + adds["lossesCount"]
        /\ Sum(m, adds)["winsCount"] = m["winsCount"] + adds["winsCount"]
        /\ Sum(n, adds)["realizedPnl"] = n["realizedPnl"] + adds["realizedPnl"]
        /\ m["lossesCount"] \in Int /\ m["winsCount"] \in Int /\ n["realizedPnl"] \in Int
        /\ adds["lossesCount"] \in Int /\ adds["winsCount"] \in Int /\ adds["realizedPnl"] \in Int
    BY <1>1, <1>2, <1>4
  <2> QED  BY <1>2, <1>4, <2>1, <2>2
<1> QED  BY <1>3, <1>4 DEF Within

LEMMA WithinOverwrite ==
  ASSUME NEW most \in [Columns -> Int],
         NEW row \in Row, NEW copy \in Row, NEW fields, Within(row.n, most), Within(copy.n, most)
  PROVE  Within(Overwrite(row, copy, fields).n, most)
<1>1. table = "daily_pnl" => "realizedPnl" \in Columns
  BY DEF Columns, PnlColumns
<1>2. \A a \in Columns : \/ Overwrite(row, copy, fields).n[a] = copy.n[a]
                         \/ Overwrite(row, copy, fields).n[a] = row.n[a]
  BY Overwrites
<1> QED  BY <1>1, <1>2 DEF Within

LEMMA CountsStart == RowsInit => CountsInv
<1> SUFFICES ASSUME RowsInit PROVE CountsInv
  OBVIOUS
<1>1. calls = <<>> /\ DOMAIN calls = {} /\ \A d \in Day : rows[d] = NoRow /\ tally[d] = Zero.n
  BY DEF RowsInit
<1>2. \A a \in Columns : Zero.n[a] = 0
  BY Rows
<1>3. table = "daily_pnl" => /\ "realizedPnl" \in Columns /\ "lossesCount" \in Columns /\ "winsCount" \in Columns
  BY DEF Columns, PnlColumns
<1> QED  BY <1>1, <1>2, <1>3 DEF CountsInv, Within

\* What a step leaves of the calls that were counted in.
LEMMA CountsBegin ==
  ASSUME RowsInv, CountsInv, NEW adds \in Addends, Begin(adds)
  PROVE  CountsInv'
<1>1. /\ UNCHANGED <<table, tally, rows>> /\ today \in Day
      /\ adds \in [Columns -> Int] /\ calls \in Seq(Call)
  BY RowTypes, Adding DEF Begin, RowsInv
<1>2. Columns' = Columns /\ Zero' = Zero
  BY <1>1 DEF Columns, Zero
<1>3. /\ DOMAIN calls' = DOMAIN calls \cup {Len(calls) + 1}
      /\ \A k \in DOMAIN calls : calls'[k] = calls[k]
      /\ calls'[Len(calls) + 1] = Starting(adds)
  BY <1>1, CallsBegin
<1>4. ~Counted(Starting(adds))
  BY DEF Counted, Starting
<1>5. ASSUME NEW k \in DOMAIN calls', Counted(calls'[k])
      PROVE  Within(calls'[k].row.n, Sum(tally'[calls'[k].day], calls'[k].adds))
  <2>1. k \in DOMAIN calls /\ calls'[k] = calls[k]
    BY <1>3, <1>4, <1>5
  <2> QED  BY <1>1, <1>5, <2>1 DEF CountsInv
<1>6. \A d \in Day : Within(Zero.n, tally'[d]) /\ (rows'[d] # NoRow => Within(rows'[d].n, tally'[d]))
  BY <1>1 DEF CountsInv
<1> QED  BY <1>1, <1>2, <1>5, <1>6 DEF CountsInv, Within, Counted, Sum

LEMMA CountsMove == RowsInv /\ CountsInv /\ CallStep => CountsInv'
<1> SUFFICES ASSUME RowsInv, CountsInv, CallStep PROVE CountsInv'
  OBVIOUS
<1>1. PICK i \in DOMAIN calls : Read(i) \/ Select(i) \/ Insert(i) \/ Update(i) \/ Fails(i)
  BY DEF CallStep
<1>2. PICK c \in Call : c = calls[i]
  BY RowTypes DEF RowsInv
<1>3. /\ UNCHANGED <<table, today, crowded>>
      /\ \/ tally' = tally /\ Going(i, c)
         \/ Ends(i) /\ Finishes(c) /\ Tallies(c)
         \/ Ends(i) /\ UNCHANGED <<rows, tally>>
  BY <1>1, <1>2, Moves
<1>4. /\ Columns' = Columns /\ Zero' = Zero
      /\ rows \in [Day -> Row \cup {NoRow}] /\ tally \in [Day -> [Columns -> Int]]
      /\ calls \in Seq(Call) /\ Shape(c) /\ c.day \in Day /\ c.row \in Row /\ c.adds \in Addends
      /\ c.adds \in [Columns -> Int] /\ c.row.n \in [Columns -> Int] /\ Zero.n \in [Columns -> Int]
      /\ \A a \in Columns \ {"realizedPnl"} : c.adds[a] \in {0, 1}
      /\ \A e \in Day : rows[e] # NoRow => rows[e] \in Row /\ rows[e].n \in [Columns -> Int]
  <2>1. Columns' = Columns
    BY <1>3 DEF Columns
  <2>2. Zero' = Zero
    BY <2>1 DEF Zero
  <2>3. Shape(c) /\ c.adds \in Addends
    BY <1>2 DEF RowsInv, Shape
  <2> QED  BY <1>2, <2>1, <2>2, <2>3, RowTypes, Rows, Adding DEF RowsInv, RowsTypeOK
<1>5. \A k \in DOMAIN calls : /\ calls[k].day \in Day /\ calls[k].adds \in Addends
                              /\ calls[k].adds \in [Columns -> Int] /\ calls[k].row.n \in [Columns -> Int]
  BY RowTypes, Rows DEF RowsInv, Shape
<1>6. ASSUME NEW d \in Day
      PROVE  /\ tally'[d] \in [Columns -> Int]
             /\ \A a \in Columns \ {"realizedPnl"} : tally[d][a] <= tally'[d][a]
  <2>1. CASE tally' = tally
    BY <1>4, <2>1
  <2>2. CASE Tallies(c) /\ d = c.day
    <3>1. tally'[d] = Sum(tally[d], c.adds) /\ tally[d] \in [Columns -> Int]
      BY <1>4, <2>2 DEF Tallies
    <3>2. /\ Sum(tally[d], c.adds) \in [Columns -> Int]
          /\ \A a \in Columns : Sum(tally[d], c.adds)[a] = tally[d][a] + c.adds[a]
      BY <1>4, <3>1, Adds
    <3>3. \A a \in Columns \ {"realizedPnl"} : tally[d][a] \in Int /\ c.adds[a] \in {0, 1}
      BY <1>4, <3>1
    <3>4. \A a \in Columns \ {"realizedPnl"} : tally'[d][a] = tally[d][a] + c.adds[a]
      BY <3>1, <3>2
    <3>5. \A a \in Columns \ {"realizedPnl"} : tally[d][a] <= tally'[d][a]
      BY <3>3, <3>4
    <3> QED  BY <3>1, <3>2, <3>5
  <2>3. CASE Tallies(c) /\ d # c.day
    BY <1>4, <2>3 DEF Tallies
  <2> QED  BY <1>3, <2>1, <2>2, <2>3
<1>7. ASSUME NEW d \in Day, NEW n \in [Columns -> Int], Within(n, tally[d]) PROVE Within(n, tally'[d])
  BY <1>4, <1>6, <1>7, Wider
<1>8. ASSUME NEW d \in Day, NEW n \in [Columns -> Int], NEW adds \in Addends, Within(n, Sum(tally[d], adds))
      PROVE  Within(n, Sum(tally'[d], adds))
  <2>1. adds \in [Columns -> Int] /\ tally[d] \in [Columns -> Int]
    BY <1>4, Adding
  <2>2. /\ Sum(tally[d], adds) \in [Columns -> Int] /\ Sum(tally'[d], adds) \in [Columns -> Int]
        /\ \A a \in Columns : Sum(tally[d], adds)[a] = tally[d][a] + adds[a]
                              /\ Sum(tally'[d], adds)[a] = tally'[d][a] + adds[a]
    BY <1>6, <2>1, Adds
  <2>3. \A a \in Columns \ {"realizedPnl"} : Sum(tally[d], adds)[a] <= Sum(tally'[d], adds)[a]
    BY <1>6, <2>1, <2>2
  <2> QED  BY <1>8, <2>2, <2>3, Wider
<1>9. ASSUME NEW d \in Day, rows'[d] # NoRow PROVE Within(rows'[d].n, tally'[d])
  <2>1. CASE rows'[d] = rows[d]
    BY <1>4, <1>7, <1>9, <2>1 DEF CountsInv
  <2>2. ASSUME NEW row \in Row, Puts(c, row), d = c.day,
               (c.zero /\ tally' = tally) \/ (~c.zero /\ Tallies(c))
        PROVE  Within(rows'[d].n, tally'[d])
    <3>1. Within(c.row.n, tally'[d])
      <4>1. CASE c.zero /\ tally' = tally
        BY <1>4, <2>2, <4>1 DEF Shape, Counted, CountsInv
      <4>2. CASE ~c.zero /\ Tallies(c)
        <5>1. Counted(c)
          BY <2>2, <4>2 DEF Counted, Puts
        <5>2. tally'[d] = Sum(tally[d], c.adds)
          BY <1>4, <2>2, <4>2 DEF Tallies
        <5> QED  BY <1>2, <2>2, <5>1, <5>2 DEF CountsInv
      <4> QED  BY <2>2, <4>1, <4>2
    <3>2. rows'[d] = row
      BY <1>4, <2>2 DEF Puts
    <3>3. CASE row = c.row
      BY <3>1, <3>2, <3>3
    <3>4. CASE rows[d] # NoRow /\ row = Overwrite(rows[d], c.row, c.fields)
      <4>1. rows[d] \in Row /\ Within(rows[d].n, tally'[d])
        BY <1>4, <1>7, <3>4 DEF CountsInv
      <4> QED  BY <1>4, <1>6, <3>1, <3>2, <3>4, <4>1, WithinOverwrite
    <3> QED  BY <2>2, <3>3, <3>4 DEF Puts
  <2>3. \/ rows' = rows
        \/ \E row \in Row : Puts(c, row) /\ ((c.zero /\ tally' = tally) \/ (~c.zero /\ Tallies(c)))
    BY <1>3 DEF Going, Takes, Zeroes, Selects, Recounts, Finishes
  <2>4. \A row \in Row : Puts(c, row) /\ d # c.day => rows'[d] = rows[d]
    BY <1>4 DEF Puts
  <2>5. CASE d # c.day
    BY <2>1, <2>3, <2>4, <2>5
  <2>6. CASE d = c.day
    BY <2>1, <2>2, <2>3, <2>6
  <2> QED  BY <2>5, <2>6
<1>10. ASSUME NEW k \in DOMAIN calls', NEW j \in DOMAIN calls, calls'[k] = calls[j], Counted(calls'[k])
       PROVE  Within(calls'[k].row.n, Sum(tally'[calls'[k].day], calls'[k].adds))
  BY <1>5, <1>8, <1>10 DEF CountsInv
<1>11. ASSUME NEW k \in DOMAIN calls', Counted(calls'[k])
       PROVE  Within(calls'[k].row.n, Sum(tally'[calls'[k].day], calls'[k].adds))
  <2>1. CASE Ends(i)
    <3>1. \A j \in DOMAIN calls' : Was(i, j) \in DOMAIN calls /\ calls'[j] = calls[Was(i, j)]
      BY <1>4, <2>1, CallsEnd
    <3> QED  BY <1>10, <1>11, <3>1
  <2>2. CASE tally' = tally /\ Going(i, c)
    <3>1. PICK new \in Call : /\ Goes(i, new) /\ Same(c, new)
                              /\ Takes(c, new) \/ Zeroes(c, new) \/ Selects(c, new) \/ Recounts(c, new)
      BY <2>2 DEF Going
    <3>2. /\ DOMAIN calls' = DOMAIN calls
          /\ \A j \in DOMAIN calls : calls'[j] = IF j = i THEN new ELSE calls[j]
      BY <1>4, <3>1, CallsGo
    <3>3. CASE k # i
      BY <1>10, <1>11, <3>2, <3>3
    <3>4. CASE k = i
      <4>1. calls'[k] = new /\ new.day = c.day /\ new.adds = c.adds /\ Counted(new)
        BY <1>11, <3>1, <3>2, <3>4 DEF Same
      <4>2. ASSUME NEW base \in Row, new.row = WithAdded(base, c.adds), Within(base.n, tally[c.day])
            PROVE  Within(new.row.n, Sum(tally[c.day], c.adds))
        <5>1. c.adds \in [Columns -> Int]
          BY <1>4
        <5>2. WithAdded(base, c.adds).n = Sum(base.n, c.adds) /\ base.n \in [Columns -> Int]
          BY <5>1, Rows
        <5>3. new.row.n = Sum(base.n, c.adds)
          BY <4>2, <5>2
        <5> QED  BY <1>4, <4>2, <5>2, <5>3, WithinSum
      <4>3. CASE Takes(c, new)
        <5>1. Zero \in Row
          BY Rows
        <5>2. PICK base \in Row : new.row = WithAdded(base, c.adds) /\ Within(base.n, tally[c.day])
          BY <1>4, <4>3, <5>1 DEF Takes, CountsInv
        <5> QED  BY <2>2, <4>1, <4>2, <5>2
      <4>4. CASE Zeroes(c, new)
        BY <4>1, <4>4 DEF Zeroes, Counted
      <4>5. CASE Selects(c, new)
        BY <1>2, <2>2, <4>1, <4>5 DEF Selects, Counted, CountsInv
      <4>6. CASE Recounts(c, new)
        <5>1. c.row.n = Zero.n /\ new.row = WithAdded(c.row, c.adds)
          BY <1>4, <4>6 DEF Recounts, Shape, Counted
        <5>2. Within(c.row.n, tally[c.day])
          BY <1>4, <5>1 DEF CountsInv
        <5> QED  BY <1>4, <2>2, <4>1, <4>2, <5>1, <5>2
      <4> QED  BY <3>1, <4>3, <4>4, <4>5, <4>6
    <3> QED  BY <3>3, <3>4
  <2> QED  BY <1>3, <2>1, <2>2
<1>12. \A d \in Day : Within(Zero.n, tally'[d])
  BY <1>4, <1>7 DEF CountsInv
<1> QED  BY <1>3, <1>4, <1>9, <1>11, <1>12 DEF CountsInv, Within, Counted, Sum

LEMMA CountsStay ==
  ASSUME CountsInv, UNCHANGED <<table, tally>>, DOMAIN calls' = DOMAIN calls,
         \A k \in DOMAIN calls : /\ calls'[k].pc = calls[k].pc /\ calls'[k].day = calls[k].day
                                 /\ calls'[k].adds = calls[k].adds /\ calls'[k].zero = calls[k].zero
                                 /\ calls'[k].row.n = calls[k].row.n,
         \A d \in Day : /\ rows'[d] = NoRow <=> rows[d] = NoRow
                        /\ rows[d] # NoRow => rows'[d].n = rows[d].n
  PROVE  CountsInv'
<1>1. Columns' = Columns /\ Zero' = Zero
  BY DEF Columns, Zero
<1>2. \A k \in DOMAIN calls' : Counted(calls'[k]) =>
         Within(calls'[k].row.n, Sum(tally'[calls'[k].day], calls'[k].adds))
  BY DEF CountsInv, Counted
<1>3. \A d \in Day : Within(Zero.n, tally'[d]) /\ (rows'[d] # NoRow => Within(rows'[d].n, tally'[d]))
  BY DEF CountsInv
<1> QED  BY <1>1, <1>2, <1>3 DEF CountsInv, Within, Counted, Sum

LEMMA RowsTicked ==
  ASSUME RowsTypeOK, RowsTick, NEW d \in Day
  PROVE  /\ rows'[d] = NoRow <=> rows[d] = NoRow
         /\ rows[d] # NoRow => rows'[d].n = rows[d].n /\ rows'[d].latest = Older(rows[d].latest)
<1>1. rows'[d] = IF rows[d] = NoRow THEN NoRow ELSE [rows[d] EXCEPT !.latest = Older(@)]
  BY DEF RowsTick
<1>2. ASSUME rows[d] # NoRow
      PROVE  [rows[d] EXCEPT !.latest = Older(@)] # NoRow
             /\ [rows[d] EXCEPT !.latest = Older(@)].n = rows[d].n
             /\ [rows[d] EXCEPT !.latest = Older(@)].latest = Older(rows[d].latest)
  <2>1. rows[d] \in Row
    BY <1>2, RowTypes
  <2> QED  BY <2>1, Rows DEF Row
<1> QED  BY <1>1, <1>2

LEMMA CountsStep ==
  RecordsInv /\ CountsInv /\ [RecordsNext]_recordVars => CountsInv'
<1> SUFFICES ASSUME RecordsInv, CountsInv, [RecordsNext]_recordVars PROVE CountsInv'
  OBVIOUS
<1>1. RowsInv /\ RowsTypeOK /\ calls \in Seq(Call)
  BY RowTypes DEF RecordsInv, RowsInv
<1>2. CASE UNCHANGED rowVars
  BY <1>2, CountsStay DEF rowVars
<1>3. CASE CallStep
  BY <1>1, <1>3, CountsMove
<1>4. CASE Midnight
  BY <1>4, CountsStay DEF Midnight
<1>5. CASE RowsTick
  <2>1. /\ UNCHANGED <<table, tally>> /\ DOMAIN calls' = DOMAIN calls
        /\ \A k \in DOMAIN calls : /\ calls'[k].pc = calls[k].pc /\ calls'[k].day = calls[k].day
                                   /\ calls'[k].adds = calls[k].adds /\ calls'[k].zero = calls[k].zero
                                   /\ calls'[k].row.n = calls[k].row.n
    BY <1>1, <1>5, CallsTick DEF RowsTick
  <2> QED  BY <1>1, <1>5, <2>1, RowsTicked, CountsStay
<1>6. CASE \E adds \in Addends : Begin(adds)
  BY <1>1, <1>6, CountsBegin
<1> QED  BY <1>2, <1>3, <1>4, <1>5, <1>6, RowKinds

LEMMA CountsHold == RecordsInv /\ CountsInv => CountsAreReal
<1> SUFFICES ASSUME RecordsInv, CountsInv, NEW d \in Day
             PROVE  /\ rows[d] # NoRow =>
                         /\ \A c \in Columns \ {"realizedPnl"} : rows[d].n[c] \in 0..tally[d][c]
                         /\ \A c \in Columns \cap {"realizedPnl"} : rows[d].n[c] \in -Losses(d)..Wins(d)
                    /\ tally[d] # Zero.n =>
                         rows[d] # NoRow /\ (table = "daily_pnl" => rows[d].n["tradesCount"] > 0)
  BY DEF CountsAreReal
<1>1. RowsInv /\ RowsTypeOK
  BY DEF RecordsInv, RowsInv
<1>2. ASSUME rows[d] # NoRow, NEW c \in Columns \ {"realizedPnl"} PROVE rows[d].n[c] \in 0..tally[d][c]
  <2>1. rows[d].n[c] \in Int /\ tally[d][c] \in Int
    BY <1>1, <1>2, RowTypes, Rows
  <2>2. 0 <= rows[d].n[c] /\ rows[d].n[c] <= tally[d][c]
    BY <1>2 DEF CountsInv, Within
  <2> QED  BY <2>1, <2>2
<1>3. ASSUME rows[d] # NoRow, NEW c \in Columns \cap {"realizedPnl"} PROVE rows[d].n[c] \in -Losses(d)..Wins(d)
  <2>1. table = "daily_pnl" /\ {"realizedPnl", "winsCount", "lossesCount"} \subseteq Columns
    BY <1>3 DEF Columns, TelemetryColumns, PnlColumns
  <2>2. rows[d].n \in [Columns -> Int] /\ tally[d] \in [Columns -> Int]
    BY <1>1, <1>3, RowTypes, Rows
  <2>3. -tally[d]["lossesCount"] <= rows[d].n["realizedPnl"] /\ rows[d].n["realizedPnl"] <= tally[d]["winsCount"]
    BY <1>3, <2>1 DEF CountsInv, Within
  <2>4. Losses(d) = tally[d]["lossesCount"] /\ Wins(d) = tally[d]["winsCount"] /\ c = "realizedPnl"
    BY <1>3, <2>1 DEF Losses, Wins
  <2>5. /\ tally[d]["lossesCount"] \in Int /\ tally[d]["winsCount"] \in Int
        /\ rows[d].n["realizedPnl"] \in Int
    BY <2>1, <2>2
  <2>6. rows[d].n["realizedPnl"] \in -tally[d]["lossesCount"]..tally[d]["winsCount"]
    BY <2>3, <2>5
  <2> QED  BY <2>4, <2>6
<1>4. ASSUME tally[d] # Zero.n
      PROVE  rows[d] # NoRow /\ (table = "daily_pnl" => rows[d].n["tradesCount"] > 0)
  BY <1>1, <1>4 DEF RowsInv
<1> QED  BY <1>2, <1>3, <1>4

\* However many calls overlap, in whatever order their reads and writes fall: rows
\* of the day count nothing that did not happen (updateDailyPnl, TelemetryService).
THEOREM CountsReal == RecordsSpec => []CountsAreReal
<1>1. RecordsInit => CountsInv
  BY CountsStart DEF RecordsInit
<1> QED  BY <1>1, RecordsStart, RecordsStep, CountsStep, CountsHold, PTL DEF RecordsSpec

-----------------------------------------------------------------------------
(* Days without overlaps.                                                  *)

\* What the row of a day counts, none being a row of zeros.
Base(d) == IF rows[d] = NoRow THEN Zero.n ELSE rows[d].n

\* A call that no other call of its day meets.
Exact(c) ==
  /\ c.zero => rows[c.day] = NoRow
  /\ Counted(c) => c.row.n = Sum(tally[c.day], c.adds)
  /\ c.pc = "insert" => rows[c.day] = NoRow
  /\ c.pc = "update" => \A a \in Columns \ c.fields : c.row.n[a] = rows[c.day].n[a]

AloneInv ==
  \A d \in Day \ crowded :
    /\ \A j, k \in InFlight(d) : j = k
    /\ tally[d] = Base(d)
    /\ \A k \in InFlight(d) : Exact(calls[k])

LEMMA AloneStart == RowsInit => AloneInv
<1> SUFFICES ASSUME RowsInit PROVE AloneInv
  OBVIOUS
<1>1. calls = <<>> /\ DOMAIN calls = {} /\ \A d \in Day : rows[d] = NoRow /\ tally[d] = Zero.n
  BY DEF RowsInit
<1>2. \A d : InFlight(d) = {}
  BY <1>1 DEF InFlight
<1> QED  BY <1>1, <1>2 DEF AloneInv, Base

LEMMA AloneBegin ==
  ASSUME RowsInv, AloneInv, NEW adds \in Addends, Begin(adds)
  PROVE  AloneInv'
<1>1. /\ UNCHANGED <<table, rows, tally>> /\ today \in Day
      /\ crowded' = crowded \cup {d \in {today} : InFlight(d) # {}}
      /\ adds \in [Columns -> Int] /\ calls \in Seq(Call)
  BY RowTypes, Adding DEF Begin, RowsInv
<1>2. Columns' = Columns /\ Zero' = Zero /\ \A d : Base(d)' = Base(d)
  BY <1>1 DEF Columns, Zero, Base
<1>3. /\ DOMAIN calls' = DOMAIN calls \cup {Len(calls) + 1}
      /\ Len(calls) + 1 \notin DOMAIN calls
      /\ \A k \in DOMAIN calls : calls'[k] = calls[k]
      /\ calls'[Len(calls) + 1] = Starting(adds)
  BY <1>1, CallsBegin
<1>4. ASSUME NEW d \in Day \ crowded'
      PROVE  /\ \A j, k \in InFlight(d)' : j = k
             /\ \A k \in InFlight(d)' : Exact(calls[k])'
  <2>1. d \in Day \ crowded
    BY <1>1
  <2>2. CASE d # today
    <3>1. InFlight(d)' = InFlight(d)
      BY <1>3, <2>2 DEF InFlight, Starting
    <3>2. ASSUME NEW k \in InFlight(d) PROVE Exact(calls[k])'
      <4>1. calls'[k] = calls[k] /\ Exact(calls[k])
        BY <1>3, <2>1, <3>2 DEF InFlight, AloneInv
      <4> QED  BY <1>1, <1>2, <4>1 DEF Exact, Counted, Sum
    <3> QED  BY <2>1, <3>1, <3>2 DEF AloneInv
  <2>3. CASE d = today
    <3>1. InFlight(d) = {}
      BY <1>1, <1>4, <2>3
    <3>2. InFlight(d)' = {Len(calls) + 1}
      BY <1>3, <2>3, <3>1 DEF InFlight, Starting
    <3>3. calls'[Len(calls) + 1].pc = "read" /\ calls'[Len(calls) + 1].zero = FALSE
      BY <1>3 DEF Starting
    <3> QED  BY <3>2, <3>3 DEF Exact, Counted
  <2> QED  BY <2>2, <2>3
<1>5. \A d \in Day \ crowded' : tally'[d] = Base(d)'
  BY <1>1, <1>2 DEF AloneInv
<1> QED  BY <1>4, <1>5 DEF AloneInv

\* The row that a call which nobody meets writes says what the copy does.
LEMMA AlonePuts ==
  ASSUME RowsInv, NEW c \in Call, Exact(c), NEW row \in Row, Puts(c, row)
  PROVE  rows'[c.day] = row /\ row # NoRow /\ row.n = c.row.n
<1>1. /\ c.day \in Day /\ c.row \in Row /\ rows \in [Day -> Row \cup {NoRow}]
      /\ rows[c.day] # NoRow => rows[c.day] \in Row
      /\ row # NoRow /\ row.n \in [Columns -> Int] /\ c.row.n \in [Columns -> Int]
  BY RowTypes, Rows DEF RowsInv, RowsTypeOK
<1>2. rows'[c.day] = row
  BY <1>1 DEF Puts
<1>3. CASE c.pc = "update" /\ rows[c.day] # NoRow /\ row = Overwrite(rows[c.day], c.row, c.fields)
  <2>1. \A a \in Columns : row.n[a] = c.row.n[a]
    BY <1>1, <1>3, Overwrites DEF Exact
  <2> QED  BY <1>1, <1>2, <2>1
<1> QED  BY <1>1, <1>2, <1>3 DEF Puts

LEMMA AloneMove == RowsInv /\ AloneInv /\ CallStep => AloneInv'
<1> SUFFICES ASSUME RowsInv, AloneInv, CallStep PROVE AloneInv'
  OBVIOUS
<1>1. PICK i \in DOMAIN calls : Read(i) \/ Select(i) \/ Insert(i) \/ Update(i) \/ Fails(i)
  BY DEF CallStep
<1>2. PICK c \in Call : c = calls[i]
  BY RowTypes DEF RowsInv
<1>3. /\ UNCHANGED <<table, today, crowded>>
      /\ \/ tally' = tally /\ Going(i, c)
         \/ Ends(i) /\ Finishes(c) /\ Tallies(c)
         \/ Ends(i) /\ UNCHANGED <<rows, tally>>
  BY <1>1, <1>2, Moves
<1>4. /\ Columns' = Columns /\ Zero' = Zero
      /\ \A e \in Day : rows[e] # NoRow => rows[e] \in Row /\ rows[e].n \in [Columns -> Int]
      /\ \A k \in DOMAIN calls : calls[k].day \in Day
      /\ calls \in Seq(Call) /\ rows \in [Day -> Row \cup {NoRow}] /\ tally \in [Day -> [Columns -> Int]]
      /\ Shape(c) /\ c.adds \in [Columns -> Int] /\ c.day \in Day /\ i \in InFlight(c.day)
      /\ c.row \in Row /\ c.row.n \in [Columns -> Int] /\ Zero \in Row
  BY <1>2, <1>3, RowTypes, Rows DEF Columns, Zero, RowsInv, RowsTypeOK, InFlight
<1>5. \A e \in Day : e # c.day => rows'[e] = rows[e] /\ tally'[e] = tally[e]
  BY <1>3, <1>4 DEF Going, Takes, Zeroes, Selects, Recounts, Finishes, Tallies, Puts
<1>6. c.day \notin crowded =>
         Exact(c) /\ InFlight(c.day) = {i} /\ tally[c.day] = Base(c.day)
  BY <1>2, <1>4 DEF AloneInv
<1>7. ASSUME NEW d \in Day, d # c.day, NEW j \in DOMAIN calls, NEW k \in DOMAIN calls', calls'[k] = calls[j],
             calls[j].day = d, Exact(calls[j])
      PROVE  Exact(calls[k])'
  BY <1>3, <1>4, <1>5, <1>7 DEF Exact, Counted, Sum
<1>8. ASSUME c.day \notin crowded PROVE tally'[c.day] = Base(c.day)'
  <2>1. CASE rows' = rows /\ tally' = tally
    BY <1>4, <1>6, <1>8, <2>1 DEF Base
  <2>2. CASE Finishes(c) /\ Tallies(c)
    <3>1. PICK row \in Row : Puts(c, row)
      BY <2>2 DEF Finishes
    <3>2. Counted(c) /\ c.row.n = Sum(tally[c.day], c.adds)
      BY <1>6, <1>8, <2>2, <3>1 DEF Finishes, Puts, Counted, Exact
    <3>3. tally'[c.day] = Sum(tally[c.day], c.adds)
      BY <1>4, <2>2 DEF Tallies
    <3> QED  BY <1>6, <1>8, <3>1, <3>2, <3>3, AlonePuts DEF Base
  <2>3. ASSUME tally' = tally, NEW new, Recounts(c, new) PROVE tally'[c.day] = Base(c.day)'
    <3>1. PICK row \in Row : Puts(c, row)
      BY <2>3 DEF Recounts
    <3>2. rows[c.day] = NoRow /\ c.row.n = Zero.n
      BY <1>4, <1>6, <1>8, <2>3 DEF Recounts, Exact, Shape, Counted
    <3> QED  BY <1>6, <1>8, <2>3, <3>1, <3>2, AlonePuts DEF Base
  <2>4. \/ rows' = rows /\ tally' = tally
        \/ Finishes(c) /\ Tallies(c)
        \/ tally' = tally /\ \E new : Recounts(c, new)
    BY <1>3 DEF Going, Takes, Zeroes, Selects
  <2> QED  BY <2>1, <2>2, <2>3, <2>4
<1>9. \A d \in Day \ crowded : tally'[d] = Base(d)'
  <2> SUFFICES ASSUME NEW d \in Day \ crowded, d # c.day PROVE tally'[d] = Base(d)'
    BY <1>8
  <2> QED  BY <1>4, <1>5 DEF AloneInv, Base
<1>10. CASE Ends(i)
  <2>1. /\ \A k \in DOMAIN calls' : Was(i, k) \in DOMAIN calls \ {i} /\ calls'[k] = calls[Was(i, k)]
        /\ \A j, k \in DOMAIN calls' : Was(i, j) = Was(i, k) => j = k
    BY <1>4, <1>10, CallsEnd
  <2>2. ASSUME NEW d \in Day \ crowded
        PROVE  /\ \A j, k \in InFlight(d)' : j = k
               /\ \A k \in InFlight(d)' : Exact(calls[k])'
    <3>1. \A k \in InFlight(d)' : /\ Was(i, k) \in InFlight(d) \ {i} /\ calls'[k] = calls[Was(i, k)]
                                  /\ k \in DOMAIN calls'
      BY <2>1 DEF InFlight
    <3>2. CASE d # c.day
      <4>1. \A k \in InFlight(d)' : Exact(calls[k])'
        BY <1>7, <3>1, <3>2 DEF AloneInv, InFlight
      <4> QED  BY <2>1, <3>1, <4>1 DEF AloneInv
    <3>3. CASE d = c.day
      BY <1>6, <3>1, <3>3
    <3> QED  BY <3>2, <3>3
  <2> QED  BY <1>3, <1>4, <1>9, <2>2 DEF AloneInv
<1>11. CASE tally' = tally /\ Going(i, c)
  <2>1. PICK new \in Call : /\ Goes(i, new) /\ Same(c, new)
                            /\ Takes(c, new) \/ Zeroes(c, new) \/ Selects(c, new) \/ Recounts(c, new)
    BY <1>11 DEF Going
  <2>2. /\ DOMAIN calls' = DOMAIN calls
        /\ \A k \in DOMAIN calls : calls'[k] = IF k = i THEN new ELSE calls[k]
    BY <1>4, <2>1, CallsGo
  <2>3. \A d : InFlight(d)' = InFlight(d)
    BY <1>2, <2>1, <2>2 DEF InFlight, Same
  <2>4. ASSUME NEW d \in Day \ crowded, d # c.day
        PROVE  \A k \in InFlight(d)' : Exact(calls[k])'
    <3>1. \A k \in InFlight(d) : k # i /\ k \in DOMAIN calls /\ calls[k].day = d /\ Exact(calls[k])
      BY <1>2, <2>4 DEF InFlight, AloneInv
    <3> QED  BY <1>7, <2>2, <2>3, <2>4, <3>1
  <2>5. ASSUME c.day \notin crowded PROVE Exact(calls[i])'
    <3>1. new.day = c.day /\ new.adds = c.adds /\ calls'[i] = new /\ Exact(c) /\ tally[c.day] = Base(c.day)
      BY <1>6, <2>1, <2>2, <2>5 DEF Same
    <3>2. \A m : Sum(m, c.adds)' = Sum(m, c.adds)
      BY <1>4 DEF Sum
    <3>3. ASSUME new.zero => rows'[c.day] = NoRow,
                 Counted(new) => new.row.n = Sum(tally[c.day], c.adds),
                 new.pc = "insert" => rows'[c.day] = NoRow,
                 new.pc = "update" => \A a \in Columns \ new.fields : new.row.n[a] = rows'[c.day].n[a]
          PROVE  Exact(calls[i])'
      BY <1>3, <1>4, <1>11, <3>1, <3>3 DEF Exact, Counted, Sum
    <3>4. CASE Takes(c, new)
      <4>1. Counted(new) /\ rows' = rows /\ new.pc # "update" /\ ~new.zero
        BY <3>4 DEF Takes, Counted
      <4>2. new.row.n = Sum(Base(c.day), c.adds)
        <5>1. CASE rows[c.day] # NoRow
          <6>1. rows[c.day] \in Row /\ new.row = WithAdded(rows[c.day], c.adds) /\ c.adds \in [Columns -> Int]
            BY <1>4, <3>4, <5>1 DEF Takes
          <6>2. WithAdded(rows[c.day], c.adds).n = Sum(rows[c.day].n, c.adds)
            BY <6>1, Rows
          <6> QED  BY <5>1, <6>1, <6>2 DEF Base
        <5>2. CASE rows[c.day] = NoRow
          <6>1. new.row = WithAdded(Zero, c.adds)
            BY <3>4, <5>2 DEF Takes
          <6> QED  BY <1>4, <5>2, <6>1, Rows DEF Base
        <5> QED  BY <5>1, <5>2
      <4>3. new.row.n = Sum(tally[c.day], c.adds)
        BY <3>1, <4>2
      <4>4. new.pc = "insert" => rows'[c.day] = NoRow
        BY <3>4, <4>1 DEF Takes
      <4> QED  BY <3>3, <4>1, <4>3, <4>4
    <3>5. CASE Zeroes(c, new)
      BY <3>3, <3>5 DEF Zeroes, Counted
    <3>6. CASE Selects(c, new)
      <4>1. /\ Counted(new) <=> Counted(c)
            /\ rows' = rows /\ new.row = c.row /\ new.zero = c.zero
        BY <3>6 DEF Selects, Counted
      <4>2. Counted(new) => new.row.n = Sum(tally[c.day], c.adds)
        BY <3>1, <4>1 DEF Exact
      <4>3. new.pc = "insert" => rows'[c.day] = NoRow
        BY <3>6 DEF Selects
      <4>4. new.pc = "update" => \A a \in Columns \ new.fields : new.row.n[a] = rows'[c.day].n[a]
        BY <3>6, <4>1 DEF Selects, Differing
      <4>5. new.zero => rows'[c.day] = NoRow
        BY <3>1, <4>1 DEF Exact
      <4> QED  BY <3>3, <4>2, <4>3, <4>4, <4>5
    <3>7. CASE Recounts(c, new)
      <4>1. c.zero /\ ~new.zero /\ new.pc = "save" /\ new.row = WithAdded(c.row, c.adds)
        BY <3>7 DEF Recounts
      <4>2. tally[c.day] = Zero.n /\ c.row.n = Zero.n
        BY <1>4, <3>1, <4>1 DEF Exact, Shape, Counted, Base
      <4>3. new.row.n = Sum(tally[c.day], c.adds)
        BY <1>4, <4>1, <4>2, Rows
      <4> QED  BY <3>3, <4>1, <4>3
    <3> QED  BY <2>1, <3>4, <3>5, <3>6, <3>7
  <2>6. \A d \in Day \ crowded : /\ \A j, k \in InFlight(d)' : j = k
                                 /\ \A k \in InFlight(d)' : Exact(calls[k])'
    <3> SUFFICES ASSUME NEW d \in Day \ crowded
                 PROVE  /\ \A j, k \in InFlight(d)' : j = k
                        /\ \A k \in InFlight(d)' : Exact(calls[k])'
      OBVIOUS
    <3>1. CASE d = c.day
      BY <1>6, <2>3, <2>5, <3>1
    <3>2. CASE d # c.day
      BY <2>3, <2>4, <3>2 DEF AloneInv
    <3> QED  BY <3>1, <3>2
  <2> QED  BY <1>3, <1>9, <2>6 DEF AloneInv
<1> QED  BY <1>3, <1>10, <1>11

LEMMA AloneStay ==
  ASSUME AloneInv, UNCHANGED <<table, tally, crowded>>, DOMAIN calls' = DOMAIN calls,
         \A k \in DOMAIN calls : /\ calls'[k].pc = calls[k].pc /\ calls'[k].day = calls[k].day
                                 /\ calls'[k].adds = calls[k].adds /\ calls'[k].zero = calls[k].zero
                                 /\ calls'[k].fields = calls[k].fields
                                 /\ calls'[k].row.n = calls[k].row.n,
         \A k \in DOMAIN calls : calls[k].day \in Day /\ Shape(calls[k]),
         \A d \in Day : /\ rows'[d] = NoRow <=> rows[d] = NoRow
                        /\ rows[d] # NoRow => rows'[d].n = rows[d].n
  PROVE  AloneInv'
<1>1. Columns' = Columns /\ Zero' = Zero
  BY DEF Columns, Zero
<1>2. /\ \A d : InFlight(d)' = InFlight(d)
      /\ \A d \in Day : Base(d)' = Base(d)
  BY <1>1 DEF InFlight, Base
<1>3. ASSUME NEW d \in Day \ crowded, NEW k \in InFlight(d) PROVE Exact(calls[k])'
  <2>1. k \in DOMAIN calls /\ calls[k].day = d /\ Exact(calls[k]) /\ Shape(calls[k])
    BY <1>3 DEF AloneInv, InFlight
  <2>2. PICK c : c = calls[k]
    OBVIOUS
  <2>3. PICK new : new = calls'[k]
    OBVIOUS
  <2>4. /\ new.pc = c.pc /\ new.day = d /\ new.adds = c.adds /\ new.zero = c.zero
        /\ new.fields = c.fields /\ new.row.n = c.row.n /\ c.day = d /\ Exact(c) /\ Shape(c)
    BY <2>1, <2>2, <2>3
  <2>5. Exact(new)'
    BY <1>1, <1>2, <2>4 DEF Exact, Shape, Counted, Sum
  <2> QED  BY <2>3, <2>5 DEF Exact, Counted, Base
<1> QED  BY <1>2, <1>3 DEF AloneInv

LEMMA AloneStep ==
  RecordsInv /\ AloneInv /\ [RecordsNext]_recordVars => AloneInv'
<1> SUFFICES ASSUME RecordsInv, AloneInv, [RecordsNext]_recordVars PROVE AloneInv'
  OBVIOUS
<1>1. /\ RowsInv /\ RowsTypeOK /\ calls \in Seq(Call)
      /\ \A k \in DOMAIN calls : calls[k].day \in Day /\ Shape(calls[k])
  BY RowTypes DEF RecordsInv, RowsInv
<1>2. CASE UNCHANGED rowVars
  BY <1>1, <1>2, AloneStay DEF rowVars
<1>3. CASE CallStep
  BY <1>1, <1>3, AloneMove
<1>4. CASE Midnight
  BY <1>1, <1>4, AloneStay DEF Midnight
<1>5. CASE RowsTick
  <2>1. /\ UNCHANGED <<table, tally, crowded>> /\ DOMAIN calls' = DOMAIN calls
        /\ \A k \in DOMAIN calls : /\ calls'[k].pc = calls[k].pc /\ calls'[k].day = calls[k].day
                                   /\ calls'[k].adds = calls[k].adds /\ calls'[k].zero = calls[k].zero
                                   /\ calls'[k].fields = calls[k].fields
                                   /\ calls'[k].row.n = calls[k].row.n
    BY <1>1, <1>5, CallsTick DEF RowsTick
  <2> QED  BY <1>1, <1>5, <2>1, RowsTicked, AloneStay
<1>6. CASE \E adds \in Addends : Begin(adds)
  BY <1>1, <1>6, AloneBegin
<1> QED  BY <1>2, <1>3, <1>4, <1>5, <1>6, RowKinds

\* A day on which no two calls overlapped is counted exactly, in either table: no
\* call whose writes succeeded is missing and none that failed is there.
THEOREM AloneExact == RecordsSpec => []AloneIsExact
<1>1. RecordsInit => AloneInv
  BY AloneStart DEF RecordsInit
<1>2. AloneInv => AloneIsExact
  BY DEF AloneInv, AloneIsExact, Base
<1> QED  BY <1>1, <1>2, RecordsStart, RecordsStep, AloneStep, PTL DEF RecordsSpec
=============================================================================
