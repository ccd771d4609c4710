------------------------------ MODULE RiskGate ------------------------------
(***************************************************************************)
(* trading/risk-manager.service.ts: what stands between a signal and an    *)
(* entry.  evaluateSignal starts its checks together; each reads the       *)
(* database or the exchange at a moment of its own, and the signal is      *)
(* approved when no check rejected it.  The worker handles one signal at a *)
(* time, but the trades of all symbols close and are booked meanwhile.     *)
(* Time is a number of ticks, kept as what is left of each timer.          *)
(*                                                                         *)
(* checkTradingEnabled, checkPositionSize and checkMinNotional only look   *)
(* at configuration and at the signal, and are taken to approve.           *)
(***************************************************************************)
EXTENDS Integers, FiniteSets

CONSTANTS
  Symbol,      \* the traded symbols
  NoSymbol,
  Cooldown,    \* COOLDOWN_MS, in ticks
  Pause,       \* CONSECUTIVE_LOSS_PAUSE_HOURS, in ticks
  MaxLosses,   \* MAX_CONSECUTIVE_LOSSES; 0 disables the brake
  MaxDayLoss,  \* MAX_DAILY_LOSS_USDT, in losses of one trade
  MaxBooked,   \* how many closers may book one trade (they overlap)
  MaxGain,     \* bound on the day's result
  MaxRestarts  \* bound on the number of restarts

ASSUME RiskAssumption ==
  /\ IsFiniteSet(Symbol) /\ NoSymbol \notin Symbol
  /\ Cooldown \in Nat /\ Pause \in Nat \ {0}
  /\ MaxLosses \in Nat /\ MaxDayLoss \in Nat \ {0} /\ MaxBooked \in Nat
  /\ MaxGain \in Nat /\ MaxRestarts \in Nat

VARIABLES
  cooldown,   \* lastTradeTimeBySymbol: ticks until the symbol may trade again
  pause,      \* pausedUntil: ticks until the brake's pause is over
  streak,     \* losses in a row among the closed trades with a bybitNetPnl
  dayPnl,     \* today's row of daily_pnl
  open,       \* symbols with a position on the exchange
  rows,       \* symbols with an OPEN row in the database
  judged,     \* the symbol whose signal is in evaluateSignal
  answers,    \* what its checks have answered
  approved,   \* the symbol whose approved signal is being executed
  verdict,    \* what the last evaluation said
  since,      \* ticks since the symbol's last recorded trade (history)
  restarts

books == <<streak, dayPnl, open, rows>>
gate == <<judged, answers, approved, verdict>>
vars == <<cooldown, pause, books, gate, since, restarts>>

Check == {"dailyLoss", "cooldown", "position", "brake"}
Asked == [c \in Check |-> "pending"]

TypeOK ==
  /\ cooldown \in [Symbol -> 0..Cooldown]
  /\ pause \in 0..Pause
  /\ streak \in Nat /\ dayPnl \in Int
  /\ open \subseteq Symbol /\ rows \subseteq Symbol
  /\ judged \in Symbol \cup {NoSymbol}
  /\ answers \in [Check -> {"pending", "ok", "no"}]
  /\ approved \in Symbol \cup {NoSymbol}
  /\ verdict \in Check \cup {"none", "approved"}
  /\ since \in [Symbol -> 0..Cooldown]
  /\ restarts \in Nat

Init ==
  /\ cooldown = [s \in Symbol |-> 0]
  /\ pause = 0 /\ streak = 0 /\ dayPnl = 0
  /\ open = {} /\ rows = {}
  /\ judged = NoSymbol /\ answers = Asked /\ approved = NoSymbol /\ verdict = "none"
  /\ since = [s \in Symbol |-> Cooldown]
  /\ restarts = 0

-----------------------------------------------------------------------------
(* evaluateSignal.                                                         *)

Ruling(approves) == IF approves THEN "ok" ELSE "no"

\* The checks start: the cooldown and a running pause are looked at on the spot.
EvalStart(s) ==
  /\ judged = NoSymbol /\ approved = NoSymbol
  /\ judged' = s
  /\ answers' = [Asked EXCEPT !["cooldown"] = Ruling(cooldown[s] = 0),
                              !["brake"] = IF pause > 0 THEN "no" ELSE "pending"]
  /\ UNCHANGED <<cooldown, pause, books, approved, verdict, since, restarts>>

\* One check answers.
Answer(c, approves) ==
  /\ judged \in Symbol /\ answers[c] = "pending"
  /\ answers' = [answers EXCEPT ![c] = Ruling(approves)]
  /\ UNCHANGED <<judged, approved, verdict>>

DayLossExceeded == dayPnl < -MaxDayLoss    \* mutant of DayLossReached
DayLossReached == dayPnl <= -MaxDayLoss

\* checkDailyLossLimit reads today's row.
CheckDailyLoss ==
  /\ Answer("dailyLoss", ~DayLossReached)
  /\ UNCHANGED <<cooldown, pause, books, since, restarts>>

\* The last MaxLosses reconciled trades exist and all lost.
AllLossesLate == MaxLosses > 0 /\ streak > MaxLosses   \* mutant of AllLosses
AllLosses == MaxLosses > 0 /\ streak >= MaxLosses

\* checkConsecutiveLossesBybit reads them, and starts the pause when they lost,
\* also when another check rejects the signal.
CheckBrake ==
  /\ Answer("brake", ~AllLosses)
  /\ pause' = IF AllLosses THEN Pause ELSE pause
  /\ UNCHANGED <<cooldown, books, since, restarts>>

\* checkExistingPosition: a position rejects; without one an OPEN row is closed
\* as an orphan, or rejects when that fails; when the exchange does not answer,
\* the row decides.
CheckPosition ==
  /\ \/ /\ judged \in open /\ Answer("position", FALSE) /\ UNCHANGED rows
     \/ /\ judged \notin open /\ Answer("position", TRUE) /\ rows' = rows \ {judged}
     \/ /\ Answer("position", judged \notin rows) /\ UNCHANGED rows
  /\ UNCHANGED <<cooldown, pause, streak, dayPnl, open, since, restarts>>

\* The first rejection in the order of evaluateSignal's list.
Verdict ==
  IF answers["dailyLoss"] = "no" THEN "dailyLoss"
  ELSE IF answers["cooldown"] = "no" THEN "cooldown"
  ELSE IF answers["position"] = "no" THEN "position"
  ELSE IF answers["brake"] = "no" THEN "brake"
  ELSE "approved"

EvalEnd ==
  /\ judged \in Symbol /\ \A c \in Check : answers[c] # "pending"
  /\ verdict' = Verdict
  /\ approved' = IF Verdict = "approved" THEN judged ELSE NoSymbol
  /\ judged' = NoSymbol /\ answers' = Asked
  /\ UNCHANGED <<cooldown, pause, books, since, restarts>>

\* A query throws: the job fails, while the other checks may still do their work.
EvalThrows ==
  /\ judged \in Symbol
  /\ \E c \in {"dailyLoss", "position", "brake"} : answers[c] = "pending"
  /\ judged' = NoSymbol /\ answers' = Asked /\ verdict' = "none"
  /\ pause' \in {pause, IF pause = 0 /\ AllLosses THEN Pause ELSE pause}
  /\ rows' \in {rows, IF judged \in open THEN rows ELSE rows \ {judged}}
  /\ UNCHANGED <<cooldown, streak, dayPnl, open, approved, since, restarts>>

-----------------------------------------------------------------------------
(* What happens around the gate.                                           *)

\* Mutant of Record: only the symbols that already have a time get one.
RecordKnown(s) ==
  /\ cooldown' = [cooldown EXCEPT ![s] = IF @ > 0 THEN Cooldown ELSE 0]
  /\ since' = [since EXCEPT ![s] = 0]

\* recordTradeExecuted.
Record(s) ==
  /\ cooldown' = [cooldown EXCEPT ![s] = Cooldown]
  /\ since' = [since EXCEPT ![s] = 0]

\* executeSignal ends with a trade, which is recorded.
Execute(s) ==
  /\ approved = s /\ approved' = NoSymbol
  /\ open' = open \cup {s} /\ rows' = rows \cup {s}
  /\ Record(s)
  /\ UNCHANGED <<pause, streak, dayPnl, judged, answers, verdict, restarts>>

\* executeSignal fails: before the entry, or after it -- the position is then
\* there and perhaps its row, but no trade is recorded.
ExecuteFails(s) ==
  /\ approved = s /\ approved' = NoSymbol
  /\ \/ UNCHANGED <<open, rows>>
     \/ open' = open \cup {s} /\ rows' \in {rows, rows \cup {s}}
  /\ UNCHANGED <<cooldown, pause, streak, dayPnl, judged, answers, verdict, since,
                 restarts>>

\* A position ends on the exchange.
Flat(s) ==
  /\ s \in open /\ open' = open \ {s}
  /\ UNCHANGED <<cooldown, pause, streak, dayPnl, rows, gate, since, restarts>>

\* A row is closed.  Its result (one unit) is booked by nobody, when the update
\* is lost or overwritten, or by several closers that overlapped; it counts for
\* the brake only if the reconciler closed the row, which alone writes
\* bybitNetPnl.
CloseRow(s, pnl) ==
  /\ s \in rows \ open /\ rows' = rows \ {s}
  /\ \E times \in 0..MaxBooked :
       /\ dayPnl + times * pnl <= MaxGain
       /\ dayPnl' = dayPnl + times * pnl
  /\ \/ UNCHANGED streak
     \/ streak' = IF pnl < 0 THEN streak + 1 ELSE 0
  /\ UNCHANGED <<cooldown, pause, open, gate, since, restarts>>

\* UTC midnight: the checks and the bookings use the row of the new date.
Midnight ==
  /\ dayPnl' = 0
  /\ UNCHANGED <<cooldown, pause, streak, open, rows, gate, since, restarts>>

Left(n) == IF n > 0 THEN n - 1 ELSE 0

Tick ==
  /\ cooldown' = [s \in Symbol |-> Left(cooldown[s])]
  /\ pause' = Left(pause)
  /\ since' = [s \in Symbol |-> IF since[s] < Cooldown THEN since[s] + 1 ELSE Cooldown]
  /\ UNCHANGED <<books, gate, restarts>>

\* The cooldowns and the pause live in memory.
Restart ==
  /\ restarts < MaxRestarts /\ restarts' = restarts + 1
  /\ cooldown' = [s \in Symbol |-> 0] /\ pause' = 0
  /\ judged' = NoSymbol /\ answers' = Asked /\ approved' = NoSymbol /\ verdict' = "none"
  /\ UNCHANGED <<books, since>>

Checks == CheckDailyLoss \/ CheckBrake \/ CheckPosition \/ EvalEnd \/ EvalThrows

Next ==
  \/ \E s \in Symbol : EvalStart(s) \/ Execute(s) \/ ExecuteFails(s) \/ Flat(s)
  \/ Checks
  \/ \E s \in Symbol : \E pnl \in {-1, 1} : CloseRow(s, pnl)
  \/ Midnight \/ Tick \/ Restart

Spec == Init /\ [][Next]_vars

\* Time passes; every symbol's signals get their turn in the queue, their checks
\* answer, and what is approved is executed or fails.
FairSpec ==
  /\ Spec /\ WF_vars(Tick) /\ WF_vars(Checks)
  /\ \A s \in Symbol : SF_vars(EvalStart(s)) /\ WF_vars(Execute(s) \/ ExecuteFails(s))

-----------------------------------------------------------------------------
(* Properties.                                                             *)

\* The day's loss is read before the entry and booked after it, so the day can
\* overshoot MAX_DAILY_LOSS_USDT, but only by the rows that were open when the
\* limit was last seen not reached and by the one trade then let through, each
\* booked MaxBooked times at worst.
DayLossBounded ==
  dayPnl >= -(MaxDayLoss - 1 + MaxBooked * (Cardinality(Symbol) + 1))

\* The brake stops a losing streak: only the rows open when it was last seen
\* shorter than MAX_CONSECUTIVE_LOSSES and the one trade then let through can
\* prolong it.
LossStreakBounded == MaxLosses > 0 => streak <= MaxLosses + Cardinality(Symbol)

\* Until the first restart, which forgets the cooldowns, two recorded trades of a
\* symbol are at least the cooldown apart, whatever the signals in between.
EntrySpacing ==
  [][\A s \in Symbol : Execute(s) /\ restarts = 0 => since[s] = Cooldown]_vars

\* The pause lasts CONSECUTIVE_LOSS_PAUSE_HOURS: it is not forever that every
\* signal is turned down by the brake.
PauseEnds == ~<>[](verdict = "brake")
=============================================================================
