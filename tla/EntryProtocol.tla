---------------------------- MODULE EntryProtocol ----------------------------
(***************************************************************************)
(* One call of executeSignal (execution.service.ts), call by call: sizing, *)
(* leverage, the entry order in its two modes, the stop, the take profit   *)
(* and the rows, against an exchange that fills a resting order whenever   *)
(* it likes and calls that fail.  TradeLifecycle continues from here: the  *)
(* stop that fires and everything that closes a trade is over there.       *)
(*                                                                         *)
(* Quantities are in steps of the symbol.  A call that fails was either    *)
(* "refused" (nothing happened) or "lost" (it happened, the answer never   *)
(* came: a timeout or a dropped connection).                               *)
(***************************************************************************)
EXTENDS Integers

CONSTANTS
  Qty,        \* the sized quantity
  Faults      \* how calls may fail

ASSUME EntryAssumption ==
  /\ Qty \in Nat \ {0}
  /\ Faults \subseteq {"refused", "lost"}

\* EXCHANGE_PROVIDER, ENTRY_MODE, and whether IOC_FALLBACK_ENABLED is set and
\* IOC_FALLBACK_MAX_SLIP_USD positive.
Config == [provider : {"bybit", "binance"}, mode : {"market", "limit"}, fallback : BOOLEAN]

Calls == {"leverage", "order", "cancel", "ioc", "saveEntry", "stop", "saveStop",
          "take", "saveTake", "saveTrade", "link", "cleanup"}
Outcomes == {"ok"} \cup Faults
Happened(o) == o # "refused"

VARIABLES
  config,    \* the environment the process was started with
  pc,        \* the next call
  result,    \* what executeSignal returned
  out,       \* how each call ended (history)
  resting,   \* what is left of the resting LIMIT order
  pos,       \* the position
  ioc,       \* what the IOC order executed (history)
  stop, take,  \* quantities of the conditional orders
  rows,      \* purposes of the order rows
  tpOrder,   \* the variable tpOrder is set
  trade,     \* quantity of the OPEN trade row, 0 if there is none
  linked     \* purposes of the order rows that name the trade

exchange == <<resting, pos, ioc, stop, take>>
db == <<rows, trade, linked>>
vars == <<config, pc, result, out, exchange, db, tpOrder>>

Purposes == {"ENTRY", "STOP_LOSS", "TAKE_PROFIT"}

TypeOK ==
  /\ config \in Config
  /\ pc \in {"size", "done", "catch"} \cup Calls
  /\ result \in {"none", "null", "trade"}
  /\ out \in [Calls -> Outcomes \cup {"none", "gone"}]
  /\ resting \in 0..Qty /\ ioc \in 0..Qty /\ pos \in 0..2*Qty
  /\ stop \in {0, Qty} /\ take \in {0, Qty} /\ trade \in {0, Qty}
  /\ rows \subseteq Purposes /\ linked \subseteq rows /\ tpOrder \in BOOLEAN

Init ==
  /\ config \in Config
  /\ pc = "size" /\ result = "none"
  /\ out = [c \in Calls |-> "none"]
  /\ resting = 0 /\ pos = 0 /\ ioc = 0 /\ stop = 0 /\ take = 0
  /\ rows = {} /\ trade = 0 /\ linked = {} /\ tpOrder = FALSE

Go(next) == pc' = next /\ UNCHANGED result
Return(r) == pc' = "done" /\ result' = r

\* Call c ends with outcome o.
Ends(c, o) == pc = c /\ o \in Outcomes /\ out' = [out EXCEPT ![c] = o]

\* No balance or a quantity below the exchange minimum: null.  The balance
\* query may throw.
Size ==
  /\ pc = "size"
  /\ \/ Return("null")
     \/ Go("leverage")
     \/ Faults # {} /\ Go("catch")
  /\ UNCHANGED <<out, exchange, db, tpOrder>>

SetLeverage(o) ==
  /\ Ends("leverage", o)
  /\ Go(IF o = "ok" THEN "order" ELSE "catch")
  /\ UNCHANGED <<exchange, db, tpOrder>>

\* What the answer to an order may report as executed, of n executed.  Bybit's
\* answer has no quantity: for a LIMIT order the adapter fills in NEW and '0'.
Reported(n) == IF config.provider = "bybit" THEN {0} ELSE {0, n}

\* ENTRY_MODE=market.  The answer's status is not looked at; an error is taken
\* for an order that was not placed.
PlaceMarket(o) ==
  /\ config.mode = "market"
  /\ Ends("order", o)
  /\ IF o = "ok" THEN Go("saveEntry") ELSE Return("null")
  /\ pos' = IF Happened(o) THEN Qty ELSE 0
  /\ UNCHANGED <<resting, ioc, stop, take, db, tpOrder>>

\* ENTRY_MODE=limit: n steps fill at once, the rest rests (GTC).  The call
\* waits 180 s unless the answer says FILLED.
PlaceLimit(o, n) ==
  /\ config.mode = "limit"
  /\ Ends("order", o)
  /\ IF Happened(o) THEN resting' = Qty - n /\ pos' = n
                    ELSE n = 0 /\ UNCHANGED <<resting, pos>>
  /\ IF o = "ok" THEN \E r \in Reported(n) :
                        Go(IF r = Qty THEN "saveEntry" ELSE "cancel")
                 ELSE Return("null")
  /\ UNCHANGED <<ioc, stop, take, db, tpOrder>>

\* The exchange fills one step of the resting order.
Fill ==
  /\ resting > 0
  /\ resting' = resting - 1 /\ pos' = pos + 1
  /\ UNCHANGED <<pc, result, out, ioc, stop, take, db, tpOrder>>

\* Mutant of Cancel: `canceled = true` before the call.
CancelBelieved(o) ==
  /\ resting > 0
  /\ Ends("cancel", o)
  /\ resting' = IF Happened(o) THEN 0 ELSE resting
  /\ IF config.fallback THEN Go("ioc") ELSE Return("null")
  /\ UNCHANGED <<pos, ioc, stop, take, db, tpOrder>>

\* After the wait the order is canceled.  Whatever the error, it is read as
\* "filled during the wait".
Cancel(o) ==
  /\ resting > 0
  /\ Ends("cancel", o)
  /\ resting' = IF Happened(o) THEN 0 ELSE resting
  /\ IF o = "ok" THEN IF config.fallback THEN Go("ioc") ELSE Return("null")
                 ELSE Go("saveEntry")
  /\ UNCHANGED <<pos, ioc, stop, take, db, tpOrder>>

\* Mutant of CancelTooLate: a cancel that fails skips the trade.
CancelTooLateSkips ==
  /\ pc = "cancel" /\ resting = 0
  /\ out' = [out EXCEPT !["cancel"] = "gone"]
  /\ Return("null")
  /\ UNCHANGED <<exchange, db, tpOrder>>

\* The order was filled during the wait: the exchange has nothing to cancel.
CancelTooLate ==
  /\ pc = "cancel" /\ resting = 0
  /\ out' = [out EXCEPT !["cancel"] = "gone"]
  /\ Go("saveEntry")
  /\ UNCHANGED <<exchange, db, tpOrder>>

\* The IOC order of the FULL quantity executes n steps and is gone.  The trade
\* goes on if the answer reports at least 99 % of it.
PlaceIoc(o, n) ==
  /\ Ends("ioc", o)
  /\ IF Happened(o) THEN ioc' = n /\ pos' = pos + n
                    ELSE n = 0 /\ UNCHANGED <<ioc, pos>>
  /\ IF o = "ok" THEN \E r \in Reported(n) :
                        IF 100 * r >= 99 * Qty THEN Go("saveEntry") ELSE Return("null")
                 ELSE Return("null")
  /\ UNCHANGED <<resting, stop, take, db, tpOrder>>

\* Mutant of PlaceStop: a stop that fails is logged, as a take profit is.
PlaceStopAnyway(o) ==
  /\ Ends("stop", o)
  /\ stop' = IF Happened(o) THEN Qty ELSE stop
  /\ Go("saveStop")
  /\ UNCHANGED <<resting, pos, ioc, take, db, tpOrder>>

SaveEntry(o) ==
  /\ Ends("saveEntry", o)
  /\ rows' = IF Happened(o) THEN rows \cup {"ENTRY"} ELSE rows
  /\ Go(IF o = "ok" THEN "stop" ELSE "catch")
  /\ UNCHANGED <<exchange, trade, linked, tpOrder>>

PlaceStop(o) ==
  /\ Ends("stop", o)
  /\ stop' = IF Happened(o) THEN Qty ELSE stop
  /\ Go(IF o = "ok" THEN "saveStop" ELSE "catch")
  /\ UNCHANGED <<resting, pos, ioc, take, db, tpOrder>>

SaveStop(o) ==
  /\ Ends("saveStop", o)
  /\ rows' = IF Happened(o) THEN rows \cup {"STOP_LOSS"} ELSE rows
  /\ Go(IF o = "ok" THEN "take" ELSE "catch")
  /\ UNCHANGED <<exchange, trade, linked, tpOrder>>

\* A take profit that fails is only logged; tpOrder stays null.
PlaceTake(o) ==
  /\ Ends("take", o)
  /\ take' = IF Happened(o) THEN Qty ELSE take
  /\ tpOrder' = (o = "ok")
  /\ Go(IF o = "ok" THEN "saveTake" ELSE "saveTrade")
  /\ UNCHANGED <<resting, pos, ioc, stop, db>>

\* Mutant of SaveTake: tpOrder is set once the row is saved.
SaveTakeFirst(o) ==
  /\ Ends("saveTake", o)
  /\ rows' = IF Happened(o) THEN rows \cup {"TAKE_PROFIT"} ELSE rows
  /\ tpOrder' = (o = "ok")
  /\ Go("saveTrade")
  /\ UNCHANGED <<exchange, trade, linked>>

\* In the same try: tpOrder is set before it is saved.
SaveTake(o) ==
  /\ Ends("saveTake", o)
  /\ rows' = IF Happened(o) THEN rows \cup {"TAKE_PROFIT"} ELSE rows
  /\ Go("saveTrade")
  /\ UNCHANGED <<exchange, trade, linked, tpOrder>>

SaveTrade(o) ==
  /\ Ends("saveTrade", o)
  /\ trade' = IF Happened(o) THEN Qty ELSE trade
  /\ Go(IF o = "ok" THEN "link" ELSE "catch")
  /\ UNCHANGED <<exchange, rows, linked, tpOrder>>

\* One save of the order objects, which inserts a row that is not there yet.
Link(o) ==
  LET legs == {"ENTRY", "STOP_LOSS"} \cup (IF tpOrder THEN {"TAKE_PROFIT"} ELSE {}) IN
  /\ Ends("link", o)
  /\ IF Happened(o) THEN rows' = rows \cup legs /\ linked' = legs
                    ELSE UNCHANGED <<rows, linked>>
  /\ IF o = "ok" THEN Return("trade") ELSE Go("catch")
  /\ UNCHANGED <<exchange, trade, tpOrder>>

\* cancelAllOpenOrders: the resting orders, not the conditional ones and not
\* the position; its error is ignored.
Catch(o) ==
  /\ pc = "catch" /\ o \in Outcomes
  /\ out' = [out EXCEPT !["cleanup"] = o]
  /\ resting' = IF Happened(o) THEN 0 ELSE resting
  /\ Return("null")
  /\ UNCHANGED <<pos, ioc, stop, take, db, tpOrder>>

\* The process dies during the call, for instance in the 180 s of the wait.
Crash ==
  /\ pc \notin {"size", "done"}
  /\ pc' = "done"
  /\ UNCHANGED <<result, out, exchange, db, tpOrder>>

Step ==
  \/ Size \/ CancelTooLate
  \/ \E o \in Outcomes :
       \/ SetLeverage(o) \/ PlaceMarket(o) \/ Cancel(o)
       \/ \E n \in 0..Qty : PlaceLimit(o, n) \/ PlaceIoc(o, n)
       \/ SaveEntry(o) \/ PlaceStop(o) \/ SaveStop(o) \/ PlaceTake(o) \/ SaveTake(o)
       \/ SaveTrade(o) \/ Link(o) \/ Catch(o)

Next == (Step \/ Fill \/ Crash) /\ UNCHANGED config

Spec == Init /\ [][Next]_vars

-----------------------------------------------------------------------------
(* Properties.                                                             *)

\* No OPEN row without its stop: whatever call of executeSignal failed before
\* or after, a trade row exists only when the exchange has taken a stop order
\* of the row's quantity.
OpenRowHasStop == trade > 0 => stop = trade

\* The returned trade names its entry, its stop and every take profit that is
\* known to be placed, also when saving the take profit's row failed: a leg
\* that names no trade is not canceled when the other leg closes the trade.
LegsLinked ==
  result = "trade" =>
    /\ {"ENTRY", "STOP_LOSS"} \subseteq linked
    /\ out["take"] = "ok" => "TAKE_PROFIT" \in linked

\* What one signal can put on the exchange: a limit order that is canceled when
\* only one step of it is left, and then an IOC order of the full quantity, are
\* the worst case; no combination of errors adds a second full order.
ExposureBounded == pos + resting <= 2 * Qty - 1

Failed == {c \in Calls : out[c] \in Faults}

\* The ways to a position without a stop after executeSignal has returned: a
\* call that failed, or a cancel that succeeded (partial fill, or an IOC order
\* that filled and was not seen to).  There is no other.
NakedHasCause ==
  result # "none" /\ pos > 0 /\ stop = 0 => Failed # {} \/ out["cancel"] = "ok"

\* executeSignal, before the cancel: "If cancel succeeds -> order wasn't filled
\* -> skip trade."  A limit order may be filled in part.
CancelMeansUnfilled == out["cancel"] = "ok" => pos = ioc
=============================================================================
