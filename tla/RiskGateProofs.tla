--------------------------- MODULE RiskGateProofs ---------------------------
(* Theorems about RiskGate, for every set of symbols and every limit.      *)
EXTENDS RiskGate, FiniteSetTheorems, TLAPS

N == Cardinality(Symbol)

\* The trade that check c has let through and that is not in the rows yet.
Through(c) ==
  IF approved \in Symbol \/ (judged \in Symbol /\ answers[c] = "ok") THEN 1 ELSE 0

\* The losses that are still to come as far as c knows: what is in the rows and
\* what it let through.
Exposure(c) == Cardinality(rows) + Through(c)

\* An approval keeps the answers of its checks; nothing is judged meanwhile.
GateInv ==
  /\ TypeOK
  /\ approved \in Symbol => judged = NoSymbol

\* Every loss to come is set aside, MaxBooked times for the day.
RiskInv ==
  /\ GateInv
  /\ dayPnl >= MaxBooked * Exposure("dailyLoss") - (MaxDayLoss - 1 + MaxBooked * (N + 1))
  /\ MaxLosses > 0 => streak + Exposure("brake") <= MaxLosses + N

LEMMA TypeStep == TypeOK /\ [Next]_vars => TypeOK'
<1> SUFFICES ASSUME TypeOK, [Next]_vars PROVE TypeOK'
  OBVIOUS
<1> USE RiskAssumption DEF TypeOK, Check, Asked
<1>1. ASSUME NEW s \in Symbol, EvalStart(s) PROVE TypeOK'
  BY <1>1 DEF EvalStart, Ruling, books
<1>2. ASSUME NEW c \in Check, NEW b \in BOOLEAN, Answer(c, b)
      PROVE  judged' = judged /\ approved' = approved /\ verdict' = verdict
             /\ answers' \in [Check -> {"pending", "ok", "no"}]
  BY <1>2 DEF Answer, Ruling
<1>3. CASE CheckDailyLoss
  BY <1>2, <1>3 DEF CheckDailyLoss, DayLossReached, books
<1>4. CASE CheckBrake
  <2>1. AllLosses \in BOOLEAN
    BY DEF AllLosses
  <2>2. Answer("brake", ~AllLosses)
    BY <1>4 DEF CheckBrake
  <2>3. /\ judged' = judged /\ approved' = approved /\ verdict' = verdict
        /\ answers' \in [Check -> {"pending", "ok", "no"}]
    BY <2>1, <2>2 DEF Answer, Ruling
  <2>4. QED
    BY <2>3, <1>4 DEF CheckBrake, books
<1>5. CASE CheckPosition
  BY <1>2, <1>5 DEF CheckPosition
<1>6. CASE EvalEnd
  BY <1>6 DEF EvalEnd, Verdict, books
<1>7. CASE EvalThrows
  BY <1>7 DEF EvalThrows
<1>8. ASSUME NEW s \in Symbol, Execute(s) \/ ExecuteFails(s) \/ Flat(s) PROVE TypeOK'
  BY <1>8 DEF Execute, ExecuteFails, Record, Flat, gate
<1>9. ASSUME NEW s \in Symbol, NEW pnl \in {-1, 1}, CloseRow(s, pnl) PROVE TypeOK'
  BY <1>9 DEF CloseRow, gate
<1>10. CASE Midnight \/ Tick \/ Restart \/ UNCHANGED vars
  BY <1>10 DEF Midnight, Tick, Left, Restart, books, gate, vars
<1>11. QED
  BY <1>1, <1>3, <1>4, <1>5, <1>6, <1>7, <1>8, <1>9, <1>10 DEF Next, Checks

LEMMA GateStep == GateInv /\ [Next]_vars => GateInv'
<1> SUFFICES ASSUME GateInv, [Next]_vars PROVE GateInv'
  OBVIOUS
<1>1. TypeOK /\ TypeOK'
  BY TypeStep DEF GateInv
<1>2. QED
  BY <1>1, RiskAssumption
     DEF GateInv, Next, Checks, EvalStart, Answer, CheckDailyLoss, CheckBrake,
         CheckPosition, EvalEnd, EvalThrows, Execute, ExecuteFails, Flat, CloseRow,
         Midnight, Tick, Restart, gate, vars, TypeOK

\* How many rows there can be.
LEMMA CardinalityOfRows ==
  ASSUME NEW S, S \subseteq Symbol
  PROVE  IsFiniteSet(S) /\ Cardinality(S) \in 0..N /\ N \in Nat
BY RiskAssumption, FS_Subset, FS_CardinalityType DEF N

LEMMA ExposureType ==
  ASSUME TypeOK, NEW c \in Check
  PROVE  Cardinality(rows) \in 0..N /\ Through(c) \in 0..1 /\ Exposure(c) \in 0..(N + 1)
         /\ N \in Nat
<1>1. Cardinality(rows) \in 0..N /\ N \in Nat
  BY CardinalityOfRows DEF TypeOK
<1>2. Through(c) \in 0..1
  BY DEF Through
<1>3. QED
  BY <1>1, <1>2 DEF Exposure

LEMMA Scaled ==
  ASSUME NEW k \in Nat, NEW a \in Int, NEW b \in Int, a <= b
  PROVE  k * a <= k * b
OBVIOUS

LEMMA RiskStep == RiskInv /\ [Next]_vars => RiskInv'
<1> SUFFICES ASSUME RiskInv, [Next]_vars PROVE RiskInv'
  OBVIOUS
<1> USE RiskAssumption
<1>1. TypeOK /\ TypeOK' /\ GateInv'
  BY GateStep DEF RiskInv, GateInv
<1>2. \A c \in Check : Exposure(c) \in 0..(N + 1) /\ Exposure(c)' \in 0..(N + 1) /\ N \in Nat
  <2> SUFFICES ASSUME NEW c \in Check
               PROVE  Exposure(c) \in 0..(N + 1) /\ Exposure(c)' \in 0..(N + 1) /\ N \in Nat
    OBVIOUS
  <2>1. Cardinality(rows) \in 0..N /\ Cardinality(rows') \in 0..N /\ N \in Nat
    BY <1>1, CardinalityOfRows DEF TypeOK
  <2>2. QED
    BY <2>1 DEF Exposure, Through
<1>3. \A c \in {"dailyLoss", "brake"} : c \in Check
  BY DEF Check
\* A step keeps the reserve of the day when it sets no more aside and books
\* nothing, ...
<1>4. ASSUME Exposure("dailyLoss")' <= Exposure("dailyLoss"), dayPnl' >= dayPnl,
             Exposure("brake")' <= Exposure("brake"), streak' <= streak
      PROVE  RiskInv'
  <2>1. MaxBooked * Exposure("dailyLoss")' <= MaxBooked * Exposure("dailyLoss")
    BY <1>2, <1>3, <1>4, Scaled
  <2>2. QED
    BY <1>1, <1>2, <1>3, <1>4, <2>1 DEF RiskInv, TypeOK, N
\* ... so when the rows do not grow and no check lets anything through.
<1>5. ASSUME rows' \subseteq rows,
             \A c \in {"dailyLoss", "brake"} : Through(c)' <= Through(c),
             dayPnl' = dayPnl, streak' = streak
      PROVE  RiskInv'
  <2>1. Cardinality(rows') <= Cardinality(rows)
    BY <1>1, <1>5, CardinalityOfRows, FS_Subset DEF TypeOK
  <2>2. \A c \in {"dailyLoss", "brake"} : Exposure(c)' <= Exposure(c)
    BY <1>1, <1>3, <1>5, <2>1, CardinalityOfRows DEF Exposure, Through, TypeOK
  <2>3. QED
    BY <1>1, <1>4, <1>5, <2>2 DEF TypeOK
<1>6. ASSUME NEW s \in Symbol, EvalStart(s) PROVE RiskInv'
  BY <1>1, <1>5, <1>6 DEF EvalStart, Ruling, Asked, Check, Through, books, TypeOK
<1>7. CASE CheckDailyLoss
  <2>1. rows' = rows /\ dayPnl' = dayPnl /\ streak' = streak /\ Through("brake")' = Through("brake")
    BY <1>1, <1>7 DEF CheckDailyLoss, Answer, Ruling, Through, books, Check, TypeOK
  <2>2. CASE DayLossReached
    <3>1. Through("dailyLoss")' <= Through("dailyLoss")
      BY <1>1, <1>7, <2>2 DEF CheckDailyLoss, Answer, Ruling, Through, books, Check, TypeOK
    <3>2. QED
      BY <1>1, <1>5, <2>1, <3>1 DEF Through
  <2>3. CASE ~DayLossReached
    <3>1. dayPnl' >= -(MaxDayLoss - 1)
      BY <1>1, <2>1, <2>3 DEF DayLossReached, TypeOK
    <3>2. MaxBooked * Exposure("dailyLoss")' <= MaxBooked * (N + 1)
      BY <1>2, <1>3, Scaled
    <3>3. Exposure("brake")' = Exposure("brake")
      BY <2>1 DEF Exposure
    <3>4. QED
      BY <1>1, <1>2, <1>3, <2>1, <3>1, <3>2, <3>3 DEF RiskInv, TypeOK, N
  <2>4. QED
    BY <2>2, <2>3
<1>8. CASE CheckBrake
  <2>1. rows' = rows /\ dayPnl' = dayPnl /\ streak' = streak
        /\ Through("dailyLoss")' = Through("dailyLoss")
    BY <1>1, <1>8 DEF CheckBrake, Answer, Ruling, Through, books, Check, TypeOK
  <2>2. CASE AllLosses
    <3>1. Through("brake")' <= Through("brake")
      BY <1>1, <1>8, <2>2 DEF CheckBrake, Answer, Ruling, Through, books, Check, TypeOK
    <3>2. QED
      BY <1>1, <1>5, <2>1, <3>1 DEF Through
  <2>3. CASE ~AllLosses
    <3>1. MaxLosses > 0 => streak' <= MaxLosses - 1
      BY <1>1, <2>1, <2>3 DEF AllLosses, TypeOK
    <3>2. Exposure("dailyLoss")' = Exposure("dailyLoss")
      BY <2>1 DEF Exposure
    <3>3. QED
      BY <1>1, <1>2, <1>3, <2>1, <3>1, <3>2 DEF RiskInv, TypeOK, N
  <2>4. QED
    BY <2>2, <2>3
<1>9. CASE CheckPosition
  BY <1>1, <1>5, <1>9 DEF CheckPosition, Answer, Ruling, Through, Check, TypeOK
\* An approval needs both answers.
<1>10. CASE EvalEnd
  BY <1>1, <1>5, <1>10 DEF EvalEnd, Verdict, Through, books, Check, TypeOK
<1>11. CASE EvalThrows
  BY <1>1, <1>5, <1>11 DEF EvalThrows, Asked, Through, Check, TypeOK, RiskInv, GateInv
<1>12. ASSUME NEW s \in Symbol, Execute(s) \/ ExecuteFails(s) PROVE RiskInv'
  <2>1. rows' \subseteq rows \cup {s} /\ dayPnl' = dayPnl /\ streak' = streak
    BY <1>12 DEF Execute, ExecuteFails
  <2>2. \A c \in Check : Through(c) = 1 /\ Through(c)' = 0
    BY <1>1, <1>12 DEF Execute, ExecuteFails, Through, RiskInv, GateInv, TypeOK
  <2>3. Cardinality(rows') <= Cardinality(rows) + 1
    <3>1. IsFiniteSet(rows) /\ Cardinality(rows) \in Nat
          /\ IsFiniteSet(rows \cup {s}) /\ Cardinality(rows') \in Nat
      BY <1>1, CardinalityOfRows, FS_CardinalityType, FS_AddElement DEF TypeOK
    <3>2. Cardinality(rows \cup {s}) <= Cardinality(rows) + 1
      BY <3>1, FS_AddElement
    <3>3. Cardinality(rows') <= Cardinality(rows \cup {s})
      BY <2>1, <3>1, FS_Subset
    <3>4. Cardinality(rows \cup {s}) \in Nat
      BY <3>1, FS_CardinalityType
    <3>5. QED
      BY <3>1, <3>2, <3>3, <3>4
  <2>4. \A c \in Check : Exposure(c)' <= Exposure(c)
    BY <1>1, <2>2, <2>3, CardinalityOfRows DEF Exposure, TypeOK
  <2>5. QED
    BY <1>1, <1>3, <1>4, <2>1, <2>4 DEF TypeOK
\* A closed row gives back what was set aside for it.
<1>13. ASSUME NEW s \in Symbol, NEW pnl \in {-1, 1}, CloseRow(s, pnl) PROVE RiskInv'
  <2>1. rows' = rows \ {s} /\ s \in rows /\ UNCHANGED <<judged, answers, approved>>
    BY <1>13 DEF CloseRow, gate
  <2>2. Cardinality(rows') = Cardinality(rows) - 1
    BY <1>1, <2>1, CardinalityOfRows, FS_RemoveElement DEF TypeOK
  <2>3. \A c \in Check : Exposure(c)' = Exposure(c) - 1
    BY <1>1, <2>1, <2>2, CardinalityOfRows DEF Exposure, Through, TypeOK
  <2>4. dayPnl' >= dayPnl - MaxBooked
    <3>1. PICK times \in 0..MaxBooked : dayPnl' = dayPnl + times * pnl
      BY <1>13 DEF CloseRow
    <3>2. pnl = -1 \/ pnl = 1
      OBVIOUS
    <3>3. QED
      BY <1>1, <3>1, <3>2 DEF TypeOK
  <2>5. streak' <= streak + 1
    BY <1>1, <1>13 DEF CloseRow, TypeOK
  <2>6. MaxBooked * (Exposure("dailyLoss") - 1) = MaxBooked * Exposure("dailyLoss") - MaxBooked
    BY <1>2, <1>3
  <2>7. QED
    BY <1>1, <1>2, <1>3, <2>3, <2>4, <2>5, <2>6 DEF RiskInv, TypeOK, N
<1>14. CASE Midnight
  <2>1. dayPnl' = 0 /\ streak' = streak /\ \A c \in Check : Exposure(c)' = Exposure(c)
    BY <1>14 DEF Midnight, Exposure, Through, gate
  <2>2. MaxBooked * Exposure("dailyLoss") <= MaxBooked * (N + 1)
    BY <1>2, <1>3, Scaled
  <2>3. MaxBooked * Exposure("dailyLoss") \in Int /\ MaxBooked * (N + 1) \in Int
    BY <1>2, <1>3
  <2>4. QED
    BY <1>1, <1>2, <1>3, <2>1, <2>2, <2>3 DEF RiskInv, TypeOK, N
<1>15. ASSUME NEW s \in Symbol, Flat(s) PROVE RiskInv'
  BY <1>1, <1>5, <1>15 DEF Flat, Through, gate
<1>16. CASE Tick \/ UNCHANGED vars
  BY <1>1, <1>5, <1>16 DEF Tick, Through, books, gate, vars
<1>17. CASE Restart
  BY <1>1, <1>5, <1>17 DEF Restart, Through, books, TypeOK
<1>18. QED
  BY <1>6, <1>7, <1>8, <1>9, <1>10, <1>11, <1>12, <1>13, <1>14, <1>15, <1>16, <1>17
     DEF Next, Checks

LEMMA RiskInit == Init => RiskInv
<1> SUFFICES ASSUME Init PROVE RiskInv
  OBVIOUS
<1> USE RiskAssumption
<1>1. TypeOK
  BY DEF Init, TypeOK, Asked, Check
<1>2. \A c \in Check : Exposure(c) = 0
  BY FS_EmptySet DEF Init, Exposure, Through
<1>3. N \in Nat
  BY CardinalityOfRows
<1>4. MaxBooked * (N + 1) \in Nat /\ MaxBooked * 0 = 0
  BY <1>3
<1>5. QED
  BY <1>1, <1>2, <1>3, <1>4 DEF Init, RiskInv, GateInv, Check, N

LEMMA RiskAlways == Spec => []RiskInv
BY RiskInit, RiskStep, PTL DEF Spec

\* A signal being judged has an answer, none or pending, of each check, and the
\* cooldowns and the pause of evaluateSignal stay within their limits.
THEOREM TypeCorrect == Spec => []TypeOK
<1>1. RiskInv => TypeOK
  BY DEF RiskInv, GateInv
<1>2. Init => TypeOK
  BY <1>1, RiskInit
<1>3. QED
  BY <1>2, TypeStep, PTL DEF Spec

\* However the checks, the closers and the entries interleave, the day's loss
\* never exceeds the limit by more than the rows then open and one more trade.
THEOREM DayLoss == Spec => []DayLossBounded
<1>1. RiskInv => DayLossBounded
  <2> SUFFICES ASSUME RiskInv PROVE DayLossBounded
    OBVIOUS
  <2>1. Exposure("dailyLoss") \in Nat /\ N \in Nat
    BY ExposureType DEF RiskInv, GateInv, Check
  <2>2. MaxBooked * Exposure("dailyLoss") \in Nat /\ MaxBooked * (N + 1) \in Nat
    BY <2>1, RiskAssumption
  <2>3. QED
    BY <2>1, <2>2, RiskAssumption DEF RiskInv, GateInv, TypeOK, DayLossBounded, N
<1>2. QED
  BY <1>1, RiskAlways, PTL

\* A losing streak never grows past the brake's threshold by more than the rows
\* then open and one more trade, restarts and ended pauses included.
THEOREM LossStreak == Spec => []LossStreakBounded
<1>1. RiskInv => LossStreakBounded
  <2> SUFFICES ASSUME RiskInv PROVE LossStreakBounded
    OBVIOUS
  <2>1. Exposure("brake") \in Nat /\ N \in Nat
    BY ExposureType DEF RiskInv, GateInv, Check
  <2>2. QED
    BY <2>1, RiskAssumption DEF RiskInv, GateInv, TypeOK, LossStreakBounded, N
<1>2. QED
  BY <1>1, RiskAlways, PTL

\* What is left of a cooldown and the time since the trade make up the cooldown;
\* the symbol whose cooldown was found over has none left until it trades.
SpacingInv ==
  /\ \A s \in Symbol : since[s] + cooldown[s] >= Cooldown
  /\ judged \in Symbol /\ answers["cooldown"] = "ok" => cooldown[judged] = 0
  /\ judged \in Symbol => answers["cooldown"] # "pending"
  /\ approved \in Symbol => cooldown[approved] = 0

\* A step of the first life of the process.
LEMMA SpacingStep ==
  ASSUME GateInv, SpacingInv, [Next]_vars, ~Restart
  PROVE  SpacingInv'
<1> USE RiskAssumption
<1>1. TypeOK /\ TypeOK' /\ GateInv /\ GateInv'
  BY GateStep DEF GateInv
<1>3. ASSUME NEW s \in Symbol, EvalStart(s) PROVE SpacingInv'
  BY <1>1, <1>3 DEF SpacingInv, EvalStart, Asked, Ruling, Check, TypeOK
\* The other answers leave the cooldown's alone.
<1>4. ASSUME UNCHANGED <<cooldown, since, restarts, judged, approved>>,
             judged \in Symbol => answers'["cooldown"] = answers["cooldown"]
      PROVE  SpacingInv'
  BY <1>1, <1>4 DEF SpacingInv
<1>5. CASE CheckDailyLoss \/ CheckBrake \/ CheckPosition
  <2>1. /\ UNCHANGED <<cooldown, since, restarts, judged, approved>>
        /\ answers'["cooldown"] = answers["cooldown"]
    BY <1>1, <1>5
       DEF CheckDailyLoss, CheckBrake, CheckPosition, Answer, Check, TypeOK
  <2>2. QED
    BY <1>4, <2>1
<1>6. ASSUME EvalEnd PROVE SpacingInv'
  BY <1>1, <1>6 DEF SpacingInv, EvalEnd, Verdict, Check, TypeOK
<1>7. ASSUME EvalThrows PROVE SpacingInv'
  BY <1>1, <1>7 DEF SpacingInv, EvalThrows, TypeOK
<1>8. ASSUME NEW s \in Symbol, Execute(s) PROVE SpacingInv'
  BY <1>1, <1>8 DEF SpacingInv, Execute, Record, GateInv, TypeOK
<1>9. ASSUME NEW s \in Symbol, ExecuteFails(s) PROVE SpacingInv'
  BY <1>1, <1>9 DEF SpacingInv, ExecuteFails, GateInv, TypeOK
<1>10. ASSUME NEW s \in Symbol, Flat(s) \/ \E pnl \in {-1, 1} : CloseRow(s, pnl)
       PROVE  SpacingInv'
  BY <1>1, <1>4, <1>10 DEF Flat, CloseRow, gate
<1>11. ASSUME Tick PROVE SpacingInv'
  <2>1. ASSUME NEW s \in Symbol
        PROVE  /\ since'[s] + cooldown'[s] >= Cooldown
               /\ cooldown[s] = 0 => cooldown'[s] = 0
    <3>1. since[s] \in 0..Cooldown /\ cooldown[s] \in 0..Cooldown
          /\ since[s] + cooldown[s] >= Cooldown
      BY <1>1 DEF SpacingInv, TypeOK
    <3>2. /\ cooldown'[s] = Left(cooldown[s])
          /\ since'[s] = IF since[s] < Cooldown THEN since[s] + 1 ELSE Cooldown
      BY <1>11 DEF Tick
    <3>3. QED
      BY <3>1, <3>2 DEF Left
  <2>2. QED
    BY <1>1, <1>11, <2>1 DEF SpacingInv, Tick, gate
<1>12. ASSUME Midnight \/ UNCHANGED vars PROVE SpacingInv'
  BY <1>1, <1>4, <1>12 DEF Midnight, gate, vars
<1>13. QED
  BY <1>3, <1>5, <1>6, <1>7, <1>8, <1>9, <1>10, <1>11, <1>12 DEF Next, Checks

\* It is an invariant of the first life: a restart ends that.
FirstLife ==
  /\ GateInv
  /\ restarts = 0 => SpacingInv

LEMMA FirstLifeStep == FirstLife /\ [Next]_vars => FirstLife'
<1> SUFFICES ASSUME FirstLife, [Next]_vars PROVE FirstLife'
  OBVIOUS
<1>1. GateInv /\ GateInv'
  BY GateStep DEF FirstLife
<1>2. CASE Restart
  BY <1>1, <1>2 DEF FirstLife, Restart, GateInv, TypeOK
<1>3. CASE ~Restart
  <2>1. restarts' = restarts
    BY <1>3
       DEF Next, Checks, EvalStart, CheckDailyLoss, CheckBrake, CheckPosition, EvalEnd,
           EvalThrows, Execute, ExecuteFails, Flat, CloseRow, Midnight, Tick, vars
  <2>2. QED
    BY <1>1, <1>3, <2>1, SpacingStep DEF FirstLife
<1>4. QED
  BY <1>2, <1>3

\* Until the first restart, two recorded trades of one symbol are never closer
\* than the cooldown.
THEOREM Spacing == Spec => EntrySpacing
<1>1. Init => FirstLife
  BY RiskInit, RiskAssumption DEF Init, FirstLife, SpacingInv, RiskInv
<1>2. FirstLife => (\A s \in Symbol : Execute(s) /\ restarts = 0 => since[s] = Cooldown)
  BY RiskAssumption DEF FirstLife, SpacingInv, GateInv, Execute, TypeOK
<1>3. QED
  BY <1>1, <1>2, FirstLifeStep, PTL DEF Spec, EntrySpacing
=============================================================================
