------------------------------- MODULE DayRows -------------------------------
(***************************************************************************)
(* The two tables with a row per UTC day: daily_pnl, which closers book    *)
(* trades in (updateDailyPnl), and daily_telemetry, which cycles and       *)
(* signals are counted in (TelemetryService).  Every call reads the row of *)
(* the day it starts on, changes its copy and saves it; nothing keeps two  *)
(* calls apart.  save() of an object that came from, or may be in, the     *)
(* database selects the row first and then writes the columns in which the *)
(* two differ; otherwise, or when there is no row, it inserts one.  Any    *)
(* query may fail: the telemetry logs the error and forgets the count, the *)
(* closer gets it as an exception.                                         *)
(*                                                                         *)
(* The tables share nothing, so a behaviour follows one of them.  A sum of *)
(* results, in units of one trade, is a column like the counters; the two  *)
(* maps of reasons are read, changed and written like them and left out.   *)
(***************************************************************************)
EXTENDS Integers, Sequences, SequencesExt

CONSTANTS
  NoRow,
  Stale,      \* getHeartbeatStaleMs, in ticks
  MaxDay,     \* bound on the days
  MaxCalls    \* bound on the calls that are under way at the same time

PnlColumns == {"realizedPnl", "tradesCount", "winsCount", "lossesCount"}
TelemetryColumns == {"totalCycles", "entriesAttempted", "signalsGenerated",
                     "signalsExecuted", "signalsRejected"}

ASSUME RowsAssumption ==
  /\ Stale \in Nat /\ MaxDay \in Nat \ {0} /\ MaxCalls \in Nat
  /\ NoRow \notin [n : [PnlColumns -> Int] \cup [TelemetryColumns -> Int], latest : Nat]

VARIABLES
  table,      \* which of the two this behaviour follows
  today,
  rows,       \* the row of each day (database)
  calls,      \* the calls under way, in the order they started
  tally,      \* what the calls that wrote were to count on each day (history)
  crowded     \* days on which a call started while another was under way (history)

rowVars == <<table, today, rows, calls, tally, crowded>>

Day == 1..MaxDay
Never == Stale + 2
Age == 0..Never                  \* ticks since latestCycleAt, while not stale; or Never
Older(age) == IF age <= Stale THEN age + 1 ELSE age

Columns == IF table = "daily_pnl" THEN PnlColumns ELSE TelemetryColumns

Row == [n : [Columns -> Int], latest : Age]
Zero == [n |-> [c \in Columns |-> 0], latest |-> Never]

\* What a booking adds; the result of a trade is 1, -1 or 0.
Only(cols) == [c \in Columns |-> IF c \in cols THEN 1 ELSE 0]
Booking == {Only({"tradesCount"}), Only({"tradesCount", "winsCount", "realizedPnl"}),
            [Only({"tradesCount", "lossesCount"}) EXCEPT !["realizedPnl"] = -1]}

\* A call: the copy it holds; whether that is the zero row, saved before it is
\* counted; and the columns that its UPDATE names.
Stages == {"read", "save", "insert", "update"}

RowsTypeOK ==
  /\ table \in {"daily_pnl", "daily_telemetry"} /\ today \in Day
  /\ rows \in [Day -> Row \cup {NoRow}]
  /\ calls \in Seq([pc : Stages, day : Day, adds : [Columns -> Int], row : Row,
                    zero : BOOLEAN, fields : SUBSET (Columns \cup {"latest"})])
  /\ tally \in [Day -> [Columns -> Int]] /\ crowded \subseteq Day

RowsInit ==
  /\ table \in {"daily_pnl", "daily_telemetry"}
  /\ today = 1
  /\ rows = [d \in Day |-> NoRow]
  /\ calls = <<>>
  /\ tally = [d \in Day |-> Zero.n]
  /\ crowded = {}

-----------------------------------------------------------------------------
(* The steps of a call.                                                    *)

Sum(m, n) == [c \in Columns |-> m[c] + n[c]]

InFlight(d) == {i \in DOMAIN calls : calls[i].day = d}

\* The date is computed when the call starts.
Begin(adds) ==
  /\ Len(calls) < MaxCalls
  /\ calls' = Append(calls, [pc |-> "read", day |-> today, adds |-> adds, row |-> Zero,
                             zero |-> FALSE, fields |-> {}])
  /\ crowded' = crowded \cup {d \in {today} : InFlight(d) # {}}
  /\ UNCHANGED <<table, today, rows, tally>>

\* Only recordCycle sets latestCycleAt.
WithAdded(row, adds) ==
  [n |-> Sum(row.n, adds),
   latest |-> IF table = "daily_telemetry" /\ adds["totalCycles"] = 1 THEN 0 ELSE row.latest]

Goes(i, call) == calls' = [calls EXCEPT ![i] = call]
Ends(i) == calls' = RemoveAt(calls, i)

\* findOne.  Without a row, the telemetry saves a zero row before it counts, and
\* the closers insert the row they counted: it has no id to be selected by.
Read(i) ==
  LET c == calls[i]
      row == rows[c.day] IN
  /\ c.pc = "read"
  /\ \/ row # NoRow /\ Goes(i, [c EXCEPT !.pc = "save", !.row = WithAdded(row, c.adds)])
     \/ /\ row = NoRow /\ table = "daily_telemetry"
        /\ Goes(i, [c EXCEPT !.pc = "save", !.zero = TRUE])
     \/ /\ row = NoRow /\ table = "daily_pnl"
        /\ Goes(i, [c EXCEPT !.pc = "insert", !.row = WithAdded(Zero, c.adds)])
  /\ UNCHANGED <<table, today, rows, tally, crowded>>

\* save() selects the row and names the columns in which the copy differs.  A
\* decimal comes back as a string, which no number equals.
Differing(copy, row) ==
  {c \in Columns : copy.n[c] # row.n[c]} \cup (Columns \cap {"realizedPnl"})
    \cup {f \in {"latest"} : copy.latest # row.latest}

Select(i) ==
  LET c == calls[i]
      row == rows[c.day] IN
  /\ c.pc = "save"
  /\ \/ row = NoRow /\ Goes(i, [c EXCEPT !.pc = "insert"])
     \/ row # NoRow /\ Goes(i, [c EXCEPT !.pc = "update", !.fields = Differing(c.row, row)])
  /\ UNCHANGED <<table, today, rows, tally, crowded>>

\* Mutant of Written: the call whose zero row was saved does not save again.
WrittenOnce(i) ==
  LET c == calls[i] IN
  Ends(i) /\ tally' = [tally EXCEPT ![c.day] = Sum(@, c.adds)]

\* After the zero row the call counts in the same object and saves it again.
Written(i) ==
  LET c == calls[i] IN
  IF c.zero
  THEN /\ Goes(i, [c EXCEPT !.pc = "save", !.zero = FALSE, !.row = WithAdded(@, c.adds), !.fields = {}])
       /\ UNCHANGED tally
  ELSE Ends(i) /\ tally' = [tally EXCEPT ![c.day] = Sum(@, c.adds)]

\* The date is unique: the second to insert can only fail.
Insert(i) ==
  LET c == calls[i] IN
  /\ c.pc = "insert" /\ rows[c.day] = NoRow
  /\ rows' = [rows EXCEPT ![c.day] = c.row]
  /\ Written(i)
  /\ UNCHANGED <<table, today, crowded>>

\* Mutant of Overwrite: what is named is added.
OverwriteAdding(row, copy, fields) ==
  [n |-> [c \in Columns |-> IF c \in fields THEN row.n[c] + copy.n[c] ELSE row.n[c]],
   latest |-> IF "latest" \in fields THEN copy.latest ELSE row.latest]
Overwrite(row, copy, fields) ==
  [n |-> [c \in Columns |-> IF c \in fields THEN copy.n[c] ELSE row.n[c]],
   latest |-> IF "latest" \in fields THEN copy.latest ELSE row.latest]

Update(i) ==
  LET c == calls[i] IN
  /\ c.pc = "update"
  /\ rows' = [rows EXCEPT ![c.day] = Overwrite(@, c.row, c.fields)]
  /\ Written(i)
  /\ UNCHANGED <<table, today, crowded>>

\* Its query fails, wherever the call is, or the process dies: what has not been
\* written never is.  (When only the answer is lost, the row is written first.)
Fails(i) == Ends(i) /\ UNCHANGED <<table, today, rows, tally, crowded>>

CallStep == \E i \in DOMAIN calls : Read(i) \/ Select(i) \/ Insert(i) \/ Update(i) \/ Fails(i)

Midnight ==
  /\ today < MaxDay /\ today' = today + 1
  /\ UNCHANGED <<table, rows, calls, tally, crowded>>

\* Some minutes go by.
RowsTick ==
  /\ rows' = [d \in Day |-> IF rows[d] = NoRow THEN NoRow
                            ELSE [rows[d] EXCEPT !.latest = Older(@)]]
  /\ calls' = [i \in DOMAIN calls |-> [calls[i] EXCEPT !.row.latest = Older(@)]]
  /\ UNCHANGED <<table, today, tally, crowded>>

-----------------------------------------------------------------------------
(* Properties.                                                             *)

Losses(d) == IF table = "daily_pnl" THEN tally[d]["lossesCount"] ELSE 0
Wins(d) == IF table = "daily_pnl" THEN tally[d]["winsCount"] ELSE 0

\* Calls that overlap lose counts and never make any up: no row claims more than
\* the calls that wrote on its day were to count.  A day on which one wrote has a
\* row, in which a trade is counted if it was one; two late saves of zero rows may
\* have left nothing but zeros of its cycles.
CountsAreReal ==
  \A d \in Day :
    /\ rows[d] # NoRow =>
         /\ \A c \in Columns \ {"realizedPnl"} : rows[d].n[c] \in 0..tally[d][c]
         /\ \A c \in Columns \cap {"realizedPnl"} : rows[d].n[c] \in -Losses(d)..Wins(d)
    /\ tally[d] # Zero.n =>
         rows[d] # NoRow /\ (table = "daily_pnl" => rows[d].n["tradesCount"] > 0)

\* Only an overlap loses a count whose call did not fail: on a day whose calls were
\* never two at once the row says at all times exactly what those that wrote were
\* to count, whichever of the others failed, at whichever query, also past midnight.
AloneIsExact ==
  \A d \in Day \ crowded :
     IF rows[d] = NoRow THEN tally[d] = Zero.n ELSE rows[d].n = tally[d]
=============================================================================
