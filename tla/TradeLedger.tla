----------------------------- MODULE TradeLedger -----------------------------
(***************************************************************************)
(* What the bookkeeping of trades promises, whoever does it: a trade that  *)
(* was entered is recorded once, is closed only when its position is gone, *)
(* stays closed, and its result is added to the day once, afterwards.  The *)
(* kill switch takes two of that back: after it a record may be closed     *)
(* with the position still there, and a result added more than once.       *)
(***************************************************************************)
EXTENDS Naturals

CONSTANT Trade

VARIABLES
  pos,      \* trades whose entry is part of the position
  entered,  \* trades ever entered
  phase,    \* "none", "open" or "closed": the trade's record
  booked,   \* number of times the trade's result was added to the day
  alarm     \* the kill switch was pressed

vars == <<pos, entered, phase, booked, alarm>>

Init ==
  /\ pos = {} /\ entered = {}
  /\ phase = [t \in Trade |-> "none"]
  /\ booked = [t \in Trade |-> 0]
  /\ alarm = FALSE

Enter(t) ==
  /\ t \notin entered
  /\ entered' = entered \cup {t} /\ pos' = pos \cup {t}
  /\ UNCHANGED <<phase, booked, alarm>>

\* Part of the position is taken out, by whatever order.
Exit(gone) ==
  /\ gone # {} /\ gone \subseteq pos
  /\ pos' = pos \ gone
  /\ UNCHANGED <<entered, phase, booked, alarm>>

Record(t) ==
  /\ t \in entered /\ phase[t] = "none"
  /\ phase' = [phase EXCEPT ![t] = "open"]
  /\ UNCHANGED <<pos, entered, booked, alarm>>

Close(t) ==
  /\ phase[t] = "open" /\ t \notin pos
  /\ phase' = [phase EXCEPT ![t] = "closed"]
  /\ UNCHANGED <<pos, entered, booked, alarm>>

Book(t) ==
  /\ phase[t] = "closed" /\ booked[t] = 0
  /\ booked' = [booked EXCEPT ![t] = 1]
  /\ UNCHANGED <<pos, entered, phase, alarm>>

Alarm == alarm' = TRUE /\ UNCHANGED <<pos, entered, phase, booked>>

\* After it, a record is closed without asking and a result counted again.
Mark(t) ==
  /\ alarm /\ phase[t] = "open"
  /\ phase' = [phase EXCEPT ![t] = "closed"]
  /\ UNCHANGED <<pos, entered, booked, alarm>>

BookAgain(t) ==
  /\ alarm /\ phase[t] # "none"
  /\ booked' = [booked EXCEPT ![t] = @ + 1]
  /\ UNCHANGED <<pos, entered, phase, alarm>>

Next ==
  \/ \E t \in Trade : Enter(t) \/ Record(t) \/ Close(t) \/ Book(t)
  \/ Alarm \/ \E t \in Trade : Mark(t) \/ BookAgain(t)
  \/ \E gone \in SUBSET Trade : Exit(gone)

Spec == Init /\ [][Next]_vars
=============================================================================
