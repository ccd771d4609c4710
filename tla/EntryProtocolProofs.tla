------------------------- MODULE EntryProtocolProofs -------------------------
(***************************************************************************)
(* What one call of executeSignal can leave behind, for every quantity,    *)
(* exchange, entry mode and set of failures.                               *)
(***************************************************************************)
EXTENDS EntryProtocol, TLAPS

\* How much of the quantity each step of the call can have on the exchange.
ExposureInv ==
  /\ pc \in {"size", "leverage", "order"} => pos = 0 /\ resting = 0
  /\ pc \in {"size", "leverage", "order", "cancel", "ioc"} => ioc = 0
  /\ pc = "cancel" => pos + resting = Qty
  /\ pc = "ioc" => resting = 0 /\ pos <= Qty - 1
  /\ pos + resting <= 2 * Qty - 1

\* After the stop was answered it stays, whatever fails.
StopInv ==
  /\ pc \in {"saveStop", "take", "saveTake", "saveTrade", "link"} => stop = Qty
  /\ trade > 0 => stop = Qty

Inv == TypeOK /\ ExposureInv /\ StopInv

LEMMA InitInv == Init => Inv
<1> SUFFICES ASSUME Init PROVE Inv
  OBVIOUS
<1>1. config \in Config /\ out \in [Calls -> Outcomes \cup {"none", "gone"}] /\ tpOrder \in BOOLEAN
  BY Zenon DEF Init
<1>2. rows \subseteq Purposes /\ linked \subseteq rows
  BY Zenon DEF Init
<1>3. resting \in 0..Qty /\ ioc \in 0..Qty /\ pos \in 0..2*Qty
  BY EntryAssumption, SMT DEF Init
<1>4. TypeOK
  BY <1>1, <1>2, <1>3, Zenon DEF Init, TypeOK
<1>5. ExposureInv /\ StopInv
  BY EntryAssumption, SMT DEF Init, ExposureInv, StopInv
<1> QED
  BY <1>4, <1>5 DEF Inv

LEMMA StepInv == Inv /\ [Next]_vars => Inv'
<1> USE EntryAssumption DEF exchange, db
<1> SUFFICES ASSUME Inv, [Next]_vars PROVE Inv'
  OBVIOUS
<1>c. config' = config
  BY DEF Next, vars
<1> USE <1>c
<1> USE DEF Inv, TypeOK, ExposureInv, StopInv, Ends, Go, Return, Happened, Outcomes, Calls, Purposes
<1>1. ASSUME Size PROVE Inv'
  BY <1>1, SMT DEF Size
<1>2. ASSUME CancelTooLate PROVE Inv'
  BY <1>2, SMT DEF CancelTooLate
<1>3. ASSUME NEW o \in Outcomes, SetLeverage(o) PROVE Inv'
  BY <1>3, SMT DEF SetLeverage
<1>4. ASSUME NEW o \in Outcomes, PlaceMarket(o) PROVE Inv'
  BY <1>4, SMT DEF PlaceMarket
<1>5. ASSUME NEW o \in Outcomes, Cancel(o) PROVE Inv'
  BY <1>5, SMT DEF Cancel
<1>6. ASSUME NEW o \in Outcomes, NEW n \in 0..Qty, PlaceLimit(o, n) PROVE Inv'
  BY <1>6, SMT DEF PlaceLimit
<1>7. ASSUME NEW o \in Outcomes, NEW n \in 0..Qty, PlaceIoc(o, n) PROVE Inv'
  BY <1>7, SMT DEF PlaceIoc
<1>8. ASSUME NEW o \in Outcomes, SaveEntry(o) PROVE Inv'
  BY <1>8, SMT DEF SaveEntry
<1>9. ASSUME NEW o \in Outcomes, PlaceStop(o) PROVE Inv'
  BY <1>9, SMT DEF PlaceStop
<1>10. ASSUME NEW o \in Outcomes, SaveStop(o) PROVE Inv'
  BY <1>10, SMT DEF SaveStop
<1>11. ASSUME NEW o \in Outcomes, PlaceTake(o) PROVE Inv'
  BY <1>11, SMT DEF PlaceTake
<1>12. ASSUME NEW o \in Outcomes, SaveTake(o) PROVE Inv'
  BY <1>12, SMT DEF SaveTake
<1>13. ASSUME NEW o \in Outcomes, SaveTrade(o) PROVE Inv'
  BY <1>13, SMT DEF SaveTrade
<1>14. ASSUME NEW o \in Outcomes, Link(o) PROVE Inv'
  <2>1. rows' \subseteq Purposes /\ linked' \subseteq rows'
    <3>1. CASE o # "refused"
      BY <1>14, <3>1 DEF Link
    <3>2. CASE o = "refused"
      BY <1>14, <3>2 DEF Link
    <3> QED
      BY <3>1, <3>2
  <2>2. out' \in [Calls -> Outcomes \cup {"none", "gone"}]
    BY <1>14 DEF Link
  <2>3. /\ pc' \in {"done", "catch"} /\ result' \in {"none", "null", "trade"}
        /\ UNCHANGED <<exchange, trade, tpOrder>>
    BY <1>14 DEF Link
  <2> QED
    BY <2>1, <2>2, <2>3, SMT
<1>15. ASSUME NEW o \in Outcomes, Catch(o) PROVE Inv'
  BY <1>15, SMT DEF Catch
<1>16. ASSUME Fill PROVE Inv'
  BY <1>16, SMT DEF Fill
<1>17. ASSUME Crash PROVE Inv'
  BY <1>17, SMT DEF Crash
<1>18. ASSUME UNCHANGED vars PROVE Inv'
  BY <1>18, SMT DEF vars
<1> HIDE DEF Inv, TypeOK, ExposureInv, StopInv, Ends, Go, Return, Happened, Outcomes, Calls, Purposes
<1>19. ASSUME Step PROVE Inv'
  <2>1. CASE Size \/ CancelTooLate
    BY <2>1, <1>1, <1>2, Zenon
  <2>2. CASE \E o \in Outcomes, n \in 0..Qty : PlaceLimit(o, n) \/ PlaceIoc(o, n)
    BY <2>2, <1>6, <1>7, Zenon
  <2>3. CASE \E o \in Outcomes : SetLeverage(o) \/ PlaceMarket(o) \/ Cancel(o)
                                 \/ SaveEntry(o) \/ PlaceStop(o) \/ SaveStop(o)
    BY <2>3, <1>3, <1>4, <1>5, <1>8, <1>9, <1>10, Zenon
  <2>4. CASE \E o \in Outcomes : PlaceTake(o) \/ SaveTake(o) \/ SaveTrade(o)
                                 \/ Link(o) \/ Catch(o)
    BY <2>4, <1>11, <1>12, <1>13, <1>14, <1>15, Zenon
  <2> QED
    BY <1>19, <2>1, <2>2, <2>3, <2>4, Zenon DEF Step
<1> QED
  BY <1>16, <1>17, <1>18, <1>19, Zenon DEF Next

LEMMA AlwaysInv == Spec => []Inv
  BY InitInv, StepInv, PTL DEF Spec

\* The types, for every quantity and set of failures.
THEOREM TypeCorrect == Spec => []TypeOK
<1>1. Inv => TypeOK
  BY DEF Inv
<1> QED
  BY <1>1, AlwaysInv, PTL

\* One signal never has two full orders' worth on the exchange, position and
\* resting order together, whatever fails, fills or crashes.
THEOREM OneSignalExposure == Spec => []ExposureBounded
<1>1. Inv => ExposureBounded
  BY DEF Inv, ExposureInv, ExposureBounded
<1> QED
  BY <1>1, AlwaysInv, PTL

\* A trade row exists only with a stop of its quantity on the exchange.
THEOREM RowsAreStopped == Spec => []OpenRowHasStop
<1>1. Inv => OpenRowHasStop
  BY EntryAssumption, SMT DEF Inv, TypeOK, StopInv, OpenRowHasStop
<1> QED
  BY <1>1, AlwaysInv, PTL

-----------------------------------------------------------------------------
(* What executeSignal returns: the linked legs and the naked position.     *)

LegsThere ==
  /\ {"ENTRY", "STOP_LOSS"} \subseteq linked
  /\ out["take"] = "ok" => "TAKE_PROFIT" \in linked

\* tpOrder remembers an answered take profit, whether or not its row was saved.
LegsInv ==
  /\ pc \in {"saveTake", "saveTrade", "link"} /\ out["take"] = "ok" => tpOrder
  /\ result # "none" => pc = "done"
  /\ result = "trade" => LegsThere

LEMMA InitLegs == Init => LegsInv
  BY DEF Init, LegsInv

LEMMA StepLegs == TypeOK /\ LegsInv /\ [Next]_vars => LegsInv'
<1> SUFFICES ASSUME TypeOK, LegsInv, [Next]_vars PROVE LegsInv'
  OBVIOUS
<1> USE DEF LegsInv, LegsThere, Go, Return, Ends, Calls, db, exchange
<1>t. out \in [Calls -> Outcomes \cup {"none", "gone"}]
  BY DEF TypeOK
<1> USE <1>t
<1>1. ASSUME Size \/ CancelTooLate PROVE LegsInv'
  BY <1>1 DEF Size, CancelTooLate
<1>2. ASSUME NEW o \in Outcomes, SetLeverage(o) \/ PlaceMarket(o) \/ Cancel(o) PROVE LegsInv'
  BY <1>2 DEF SetLeverage, PlaceMarket, Cancel
<1>3. ASSUME NEW o \in Outcomes, NEW n \in 0..Qty, PlaceLimit(o, n) \/ PlaceIoc(o, n) PROVE LegsInv'
  BY <1>3 DEF PlaceLimit, PlaceIoc
<1>4. ASSUME NEW o \in Outcomes, SaveEntry(o) \/ PlaceStop(o) \/ SaveStop(o) PROVE LegsInv'
  BY <1>4 DEF SaveEntry, PlaceStop, SaveStop
<1>5. ASSUME NEW o \in Outcomes, PlaceTake(o) PROVE LegsInv'
  BY <1>5 DEF PlaceTake
<1>6. ASSUME NEW o \in Outcomes, SaveTake(o) \/ SaveTrade(o) \/ Catch(o) PROVE LegsInv'
  BY <1>6 DEF SaveTake, SaveTrade, Catch
<1>7. ASSUME NEW o \in Outcomes, Link(o) PROVE LegsInv'
  <2>1. CASE o = "ok"
    <3>1. linked' = {"ENTRY", "STOP_LOSS"} \cup (IF tpOrder THEN {"TAKE_PROFIT"} ELSE {})
      BY <1>7, <2>1 DEF Link, Happened
    <3>2. pc = "link" /\ pc' = "done" /\ out'["take"] = out["take"]
      BY <1>7, <2>1 DEF Link
    <3> QED
      BY <3>1, <3>2
  <2>2. CASE o # "ok"
    BY <1>7, <2>2 DEF Link
  <2> QED
    BY <2>1, <2>2
<1>8. ASSUME Fill \/ Crash \/ UNCHANGED vars PROVE LegsInv'
  BY <1>8 DEF Fill, Crash, vars
<1> QED
  BY <1>1, <1>2, <1>3, <1>4, <1>5, <1>6, <1>7, <1>8, Zenon DEF Next, Step

\* The trade executeSignal returns names its legs, for every quantity, mode and
\* set of failures, also when saving the take profit's row failed.
THEOREM LegsAreLinked == Spec => []LegsLinked
<1>1. LegsInv => LegsLinked
  BY DEF LegsInv, LegsThere, LegsLinked
<1>2. Inv => TypeOK
  BY DEF Inv
<1> QED
  BY <1>1, <1>2, AlwaysInv, InitLegs, StepLegs, PTL DEF Spec

\* A call of the try block failed.
CallFailed == \E c \in Calls \ {"cleanup"} : out[c] \in Faults

Nothing == pos = 0 /\ resting = 0

\* Why the error path, or a return, is reached.
CauseInv ==
  /\ pc = "ioc" => out["cancel"] = "ok"
  /\ pc = "catch" => CallFailed \/ Nothing
  /\ result # "none" =>
       pc = "done" /\ (CallFailed \/ out["cancel"] = "ok" \/ stop = Qty \/ Nothing)

LEMMA InitCause == Init => CauseInv
  BY DEF Init, CauseInv

LEMMA StepCause == Inv /\ CauseInv /\ [Next]_vars => CauseInv'
<1> USE EntryAssumption
<1> SUFFICES ASSUME Inv, CauseInv, [Next]_vars PROVE CauseInv'
  OBVIOUS
<1> USE DEF CauseInv, CallFailed, Nothing, Go, Return, Ends, Outcomes, Calls, db, exchange
<1>t. out \in [Calls -> Outcomes \cup {"none", "gone"}] /\ resting \in 0..Qty /\ pos \in 0..2*Qty
  BY DEF Inv, TypeOK
<1>e. pc \in {"size", "leverage", "order"} => Nothing
  BY DEF Inv, ExposureInv
<1>s. pc \in {"saveStop", "take", "saveTake", "saveTrade", "link"} => stop = Qty
  BY DEF Inv, StopInv
<1> USE <1>t
<1>1. ASSUME Size \/ CancelTooLate PROVE CauseInv'
  BY <1>1, <1>e DEF Size, CancelTooLate
<1>2. ASSUME NEW o \in Outcomes, SetLeverage(o) \/ PlaceMarket(o) \/ Cancel(o) PROVE CauseInv'
  BY <1>2 DEF SetLeverage, PlaceMarket, Cancel
<1>3. ASSUME NEW o \in Outcomes, NEW n \in 0..Qty, PlaceLimit(o, n) \/ PlaceIoc(o, n) PROVE CauseInv'
  BY <1>3 DEF PlaceLimit, PlaceIoc
<1>4. ASSUME NEW o \in Outcomes, SaveEntry(o) \/ PlaceStop(o) \/ SaveStop(o) PROVE CauseInv'
  BY <1>4 DEF SaveEntry, PlaceStop, SaveStop
<1>5. ASSUME NEW o \in Outcomes, PlaceTake(o) \/ SaveTake(o) \/ SaveTrade(o) PROVE CauseInv'
  BY <1>5 DEF PlaceTake, SaveTake, SaveTrade
<1>6. ASSUME NEW o \in Outcomes, Link(o) PROVE CauseInv'
  BY <1>6, <1>s DEF Link
<1>7. ASSUME NEW o \in Outcomes, Catch(o) PROVE CauseInv'
  BY <1>7 DEF Catch
<1>8. ASSUME Fill PROVE CauseInv'
  BY <1>8 DEF Fill
<1>9. ASSUME Crash \/ UNCHANGED vars PROVE CauseInv'
  BY <1>9 DEF Crash, vars
<1> QED
  BY <1>1, <1>2, <1>3, <1>4, <1>5, <1>6, <1>7, <1>8, <1>9, Zenon DEF Next, Step

\* A position without a stop after executeSignal has returned goes back to a
\* call that failed or to a cancel that succeeded: there is no third way.
THEOREM NakedIsExplained == Spec => []NakedHasCause
<1>1. Inv /\ CauseInv => NakedHasCause
  BY EntryAssumption, SMT DEF Inv, TypeOK, CauseInv, CallFailed, Nothing, NakedHasCause, Failed
<1> QED
  BY <1>1, AlwaysInv, InitCause, StepCause, PTL DEF Spec
=============================================================================
