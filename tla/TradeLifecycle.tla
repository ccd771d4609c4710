--------------------------- MODULE TradeLifecycle ---------------------------
(***************************************************************************)
(* The life of the trades of ONE symbol, from the filled entry to the      *)
(* closed row in the database, as trading/execution.service.ts and         *)
(* trading/risk-manager.service.ts drive it in ENTRY_MODE=market.          *)
(*                                                                         *)
(* Node runs one callback at a time, and every `await` lets the others     *)
(* in: an action below is the code between two awaits that matter.  Five   *)
(* activities interleave on the same rows:                                 *)
(*   - the strategy worker (BullMQ concurrency 1): zombie check, entry,    *)
(*     stop loss, take profit, trade row, linking      -- Rk..., Op...     *)
(*   - one user-data handler per delivered update              -- Ws...    *)
(*   - the reconciler, started by a cron every minute          -- Rc...    *)
(*   - the kill switch                                         -- Ks...    *)
(*   - the exchange, which triggers legs at any time, or drops them.       *)
(* A crash loses everything but the database and the exchange.             *)
(*                                                                         *)
(* A save of a row writes every column of the object that was read         *)
(* earlier, so a stale object overwrites what was written in between.      *)
(***************************************************************************)
EXTENDS Naturals, FiniteSets

CONSTANTS
  Trade,            \* identities of trades (one signal, one entry each)
  Leg,              \* identities of conditional orders (stop loss, take profit)
  Handler,          \* concurrent user-data handlers
  Owner,            \* the trade a leg is placed for
  Purpose,          \* "SL", "TP", or "TSL" for a stop placed by the trailing
  NoTrade, NoLeg,   \* null values
  Active,           \* the activities that run, of Activities
  TrailingEnabled,  \* TRAILING_ENABLED
  MaxCrashes,       \* bound on the number of restarts
  MaxKills          \* bound on the number of kill switch activations

\* The writers of a trade's row, beside the worker that creates it.
Activities == {"ws", "entry", "cron", "kill", "risk", "drop"}

ASSUME LegAssumption ==
  /\ Owner \in [Leg -> Trade]
  /\ Purpose \in [Leg -> {"SL", "TP", "TSL"}]
  /\ NoTrade \notin Trade
  /\ NoLeg \notin Leg

ASSUME ConfigAssumption ==
  /\ Active \subseteq Activities
  /\ TrailingEnabled \in BOOLEAN
  /\ MaxCrashes \in Nat /\ MaxKills \in Nat

VARIABLES
  (* the exchange *)
  pos,        \* the trades whose entry is part of the net position; {} is flat
  live,       \* conditional orders resting on the exchange
  events,     \* legs whose end the user-data stream has still to deliver
  dropped,    \* legs that the exchange itself canceled, let expire or rejected
  (* the database *)
  status,     \* Trade.status; "NONE" before the row exists
  row,        \* Order.status of each leg; "NONE" before the row exists
  linked,     \* legs whose row carries its tradeId
  offPrice,   \* trades whose stored entry price is not yet the fill price
  booked,     \* calls of updateDailyPnl for the trade; 2 stands for more
  entered,    \* trades whose entry order was sent (history)
  (* the process *)
  enabled,    \* BotStateService.enabled
  closing,    \* ExecutionService.closingTrades
  wsPc, wsLeg,
  syncing,    \* the stale status an entry-price save is about to write, or "NONE"
  rcPc, rcTodo, rcT, rcNew, rcKnown, rcSeen, rcHit, rcStatus, rcPnl, rcLeg,
  ksPc, ksTodo, ksT,
  wk, wkT, wkLegs,
  crashes, kills

exVars == <<pos, live, events, dropped>>
dbVars == <<status, row, linked, offPrice, booked>>
wsVars == <<closing, wsPc, wsLeg, syncing>>
rcVars == <<rcPc, rcTodo, rcT, rcNew, rcKnown, rcSeen, rcHit, rcStatus, rcPnl,
            rcLeg>>
ksVars == <<ksPc, ksTodo, ksT>>
wkVars == <<wk, wkT, wkLegs, entered>>
bounds == <<crashes, kills>>
vars == <<exVars, dbVars, wsVars, rcVars, ksVars, wkVars, enabled, bounds>>

Closed == {"CLOSED_SL", "CLOSED_TP", "CLOSED_MANUAL", "CLOSED_KILL_SWITCH",
           "CLOSED_ORPHAN"}
Status == {"NONE", "OPEN"} \cup Closed
RowStatus == {"NONE", "NEW", "FILLED", "CANCELED"}

WsPc == {"idle", "linked", "unlinked", "guarded", "open", "waiting", "saved"}
RcPc == {"idle", "next", "absent", "fills", "present", "fresh", "soft", "legs",
         "save", "book", "correct", "trailing", "trail", "trailPlaced",
         "trailRow"}
KsPc == {"idle", "closing", "reading", "marking", "saving"}
WkPc == {"idle", "flat", "orphan", "approved", "entered", "stopPlaced",
         "stopSaved", "targetPlaced", "bracketed", "tradeSaved"}

OpenTrades == {t \in Trade : status[t] = "OPEN"}
LegsOf(t) == {l \in Leg : Owner[l] = t}
\* The status a fill of the leg gives its trade.
ClosedBy(l) == IF Purpose[l] = "TP" THEN "CLOSED_TP" ELSE "CLOSED_SL"
IsStop(l) == Purpose[l] # "TP"
\* A client order id is used once.
Unused(l) == l \notin live \cup events \cup dropped \cup wkLegs /\ row[l] = "NONE"

\* updateDailyPnl adds the trade's PnL to the day.
Book(t) == booked' = [booked EXCEPT ![t] = IF @ = 2 THEN 2 ELSE @ + 1]

ExTypes == pos \subseteq Trade /\ live \subseteq Leg /\ events \subseteq Leg /\ dropped \subseteq Leg

DbTypes ==
  /\ status \in [Trade -> Status]
  /\ row \in [Leg -> RowStatus]
  /\ linked \subseteq Leg /\ offPrice \subseteq Trade
  /\ booked \in [Trade -> 0..2]

WsTypes ==
  /\ closing \subseteq Trade
  /\ wsPc \in [Handler -> WsPc]
  /\ wsLeg \in [Handler -> Leg \cup {NoLeg}]
  /\ \A h \in Handler : wsPc[h] # "idle" => wsLeg[h] \in Leg
  /\ syncing \in [Trade -> Status]

RcTypes ==
  /\ rcPc \in RcPc /\ rcTodo \subseteq Trade
  /\ rcT \in Trade \cup {NoTrade}
  /\ rcPc \notin {"idle", "next"} => rcT \in Trade
  /\ rcNew \subseteq Leg /\ rcKnown \subseteq Leg /\ rcSeen \subseteq Trade
  /\ rcHit \in BOOLEAN /\ rcPnl \in BOOLEAN
  /\ rcStatus \in {"OPEN", "CLOSED_SL", "CLOSED_TP", "CLOSED_MANUAL"}
  /\ rcLeg \in Leg \cup {NoLeg}
  /\ rcPc \in {"trailPlaced", "trailRow"} => rcLeg \in Leg

KsTypes ==
  /\ ksPc \in KsPc /\ ksTodo \subseteq Trade
  /\ ksT \in Trade \cup {NoTrade}
  /\ ksPc = "saving" => ksT \in Trade

WkTypes ==
  /\ wk \in WkPc /\ wkLegs \subseteq Leg /\ entered \subseteq Trade
  /\ wkT \in Trade \cup {NoTrade}
  /\ wk \notin {"idle", "flat", "approved"} => wkT \in Trade

\* The type of every variable, the locals of an activity as far as the place
\* where it is needs them.
TypeOK ==
  /\ ExTypes /\ DbTypes /\ WsTypes /\ RcTypes /\ KsTypes /\ WkTypes
  /\ enabled \in BOOLEAN
  /\ crashes \in Nat /\ kills \in Nat

Init ==
  /\ pos = {} /\ live = {} /\ events = {} /\ dropped = {}
  /\ status = [t \in Trade |-> "NONE"]
  /\ row = [l \in Leg |-> "NONE"]
  /\ linked = {} /\ offPrice = {} /\ entered = {}
  /\ booked = [t \in Trade |-> 0]
  /\ enabled = FALSE
  /\ closing = {}
  /\ wsPc = [h \in Handler |-> "idle"]
  /\ wsLeg = [h \in Handler |-> NoLeg]
  /\ syncing = [t \in Trade |-> "NONE"]
  /\ rcPc = "idle" /\ rcTodo = {} /\ rcT = NoTrade
  /\ rcNew = {} /\ rcKnown = {} /\ rcSeen = {}
  /\ rcHit = FALSE /\ rcStatus = "OPEN" /\ rcPnl = FALSE /\ rcLeg = NoLeg
  /\ ksPc = "idle" /\ ksTodo = {} /\ ksT = NoTrade
  /\ wk = "idle" /\ wkT = NoTrade /\ wkLegs = {}
  /\ crashes = 0 /\ kills = 0

-----------------------------------------------------------------------------
(* The exchange.                                                           *)

\* A leg triggers: it is reduce-only, so it takes its own trade's quantity
\* out of the position, or someone else's if its own is gone.
Trigger(l) ==
  /\ l \in live /\ pos # {}
  /\ live' = live \ {l}
  /\ events' = events \cup {l}
  /\ IF Owner[l] \in pos
       THEN pos' = pos \ {Owner[l]}
       ELSE \E t \in pos : pos' = pos \ {t}
  /\ UNCHANGED <<dropped, dbVars, wsVars, rcVars, ksVars, wkVars, enabled, bounds>>

\* The exchange cancels a leg, lets it expire or rejects it when it triggers.
Drop(l) ==
  /\ "drop" \in Active /\ l \in live
  /\ live' = live \ {l}
  /\ events' = events \cup {l} /\ dropped' = dropped \cup {l}
  /\ UNCHANGED <<pos, dbVars, wsVars, rcVars, ksVars, wkVars, enabled, bounds>>

\* The position ends with no order of the bot: by hand, or by liquidation.
ManualClose ==
  /\ pos # {}
  /\ pos' = {}
  /\ UNCHANGED <<live, events, dropped, dbVars, wsVars, rcVars, ksVars, wkVars,
                 enabled, bounds>>

\* An update is lost: the stream has no replay after a reconnection.
LoseEvent(l) ==
  /\ l \in events
  /\ events' = events \ {l}
  /\ UNCHANGED <<pos, live, dropped, dbVars, wsVars, rcVars, ksVars, wkVars,
                 enabled, bounds>>

-----------------------------------------------------------------------------
(* User-data handlers: handleConditionalUpdate / handleOrderUpdate of a    *)
(* leg that ended, then handleConditionalBracketFill / handleBracketFill   *)
(* if it was filled.  Updates about a leg the bot itself cancels would     *)
(* write what its row gets anyway, and are left out.                       *)

WsGo(h, pc) == wsPc' = [wsPc EXCEPT ![h] = pc]

\* Mutant of Claimable: closingTrades is not looked at.
ClaimableAlways(l) == l \in linked'

\* The checks before closingTrades.add.
Claimable(l) == l \in linked' /\ Owner[l] \notin closing

\* closingTrades.add: the trade is this handler's until WsRelease.
WsAcquire(h) ==
  /\ closing' = closing \cup {Owner[wsLeg[h]]}
  /\ WsGo(h, "guarded")
  /\ UNCHANGED <<wsLeg, syncing>>

WsIdle(h) == WsGo(h, "idle") /\ wsLeg' = [wsLeg EXCEPT ![h] = NoLeg]

\* The order row is found, with its tradeId or before it has one, or the order
\* is not tracked.  An update may come twice.
WsFind(h, l) ==
  /\ "ws" \in Active /\ enabled
  /\ wsPc[h] = "idle" /\ l \in events
  /\ events' \in {events, events \ {l}}
  /\ IF row[l] = "NONE"
       THEN UNCHANGED wsVars
       ELSE /\ WsGo(h, IF l \in linked THEN "linked" ELSE "unlinked")
            /\ wsLeg' = [wsLeg EXCEPT ![h] = l]
            /\ UNCHANGED <<closing, syncing>>
  /\ UNCHANGED <<pos, live, dropped, dbVars, rcVars, ksVars, wkVars, enabled, bounds>>

\* It is saved with its new status (REJECTED is CANCELED here) and the tradeId it
\* was found with; the order channel gives a trailing stop that lost its trade
\* back to it.  Only a fill of a linked row whose trade no other handler is
\* closing goes on: a leg that was dropped is no more than a warning.
WsSave(h) ==
  LET l == wsLeg[h] IN
  /\ wsPc[h] \in {"linked", "unlinked"}
  /\ row' = [row EXCEPT ![l] = IF l \in dropped THEN "CANCELED" ELSE "FILLED"]
  /\ \/ linked' = IF wsPc[h] = "linked" THEN linked \cup {l} ELSE linked \ {l}
     \/ /\ Purpose[l] = "TSL" /\ status[Owner[l]] = "OPEN"
        /\ linked' = linked \cup {l}
  /\ IF l \notin dropped /\ Claimable(l)
       THEN WsAcquire(h)
       ELSE WsIdle(h) /\ UNCHANGED <<closing, syncing>>
  /\ UNCHANGED <<exVars, status, offPrice, booked, rcVars, ksVars, wkVars, enabled,
                 bounds>>

\* Mutant of WsRelease: no `finally`, the trade stays in closingTrades.
WsReleaseForgets(h) ==
  /\ WsIdle(h) /\ UNCHANGED <<closing, syncing>>

\* The `finally` of the handler.
WsRelease(h) ==
  /\ closing' = closing \ {Owner[wsLeg[h]]}
  /\ WsIdle(h) /\ UNCHANGED syncing

\* The trade row is read; a trade that is not OPEN is left alone.
WsRead(h) ==
  /\ wsPc[h] = "guarded"
  /\ LET t == Owner[wsLeg[h]] IN
       IF status[t] = "OPEN"
         THEN WsGo(h, "open") /\ UNCHANGED <<closing, wsLeg, syncing>>
         ELSE WsRelease(h)
  /\ UNCHANGED <<exVars, dbVars, rcVars, ksVars, wkVars, enabled, bounds>>

\* One row of the opposite purpose is found (whichever the query returns)
\* and, if it is NEW, its conditional is cancelled.  A failed cancel only
\* logs, and then the handler waits a second.
WsCancelOpposite(h) ==
  /\ wsPc[h] = "open"
  /\ WsGo(h, "waiting")
  /\ LET l == wsLeg[h]
         opposite == {m \in linked : /\ Owner[m] = Owner[l]
                                     /\ IsStop(m) # IsStop(l)} IN
       \/ UNCHANGED <<live, row>>
       \/ \E m \in opposite :
            /\ row[m] = "NEW" /\ m \in live
            /\ live' = live \ {m}
            /\ row' = [row EXCEPT ![m] = "CANCELED"]
  /\ UNCHANGED <<pos, events, dropped, status, linked, offPrice, booked, closing,
                 wsLeg, syncing, rcVars, ksVars, wkVars, enabled, bounds>>

\* The trade object read before the wait is saved as closed.
WsClose(h) ==
  /\ wsPc[h] = "waiting"
  /\ status' = [status EXCEPT ![Owner[wsLeg[h]]] = ClosedBy(wsLeg[h])]
  /\ WsGo(h, "saved")
  /\ UNCHANGED <<exVars, row, linked, offPrice, booked, closing, wsLeg, syncing,
                 rcVars, ksVars, wkVars, enabled, bounds>>

\* updateDailyPnl, and the trade is released.
WsBook(h) ==
  /\ wsPc[h] = "saved"
  /\ Book(Owner[wsLeg[h]])
  /\ WsRelease(h)
  /\ UNCHANGED <<exVars, status, row, linked, offPrice, rcVars, ksVars,
                 wkVars, enabled, bounds>>

WsStep(h) ==
  \/ \E l \in Leg : WsFind(h, l)
  \/ WsSave(h) \/ WsRead(h) \/ WsCancelOpposite(h) \/ WsClose(h) \/ WsBook(h)

\* A FILLED update of the entry order, whose row is linked together with its
\* stop: the trade is read, then saved with the fill's price and the status
\* that was read.
WsEntryRead(t) ==
  /\ "entry" \in Active /\ enabled
  /\ syncing[t] = "NONE" /\ t \in offPrice
  /\ \E l \in linked : Owner[l] = t /\ Purpose[l] = "SL"
  /\ syncing' = [syncing EXCEPT ![t] = status[t]]
  /\ UNCHANGED <<exVars, dbVars, closing, wsPc, wsLeg, rcVars, ksVars, wkVars,
                 enabled, bounds>>

WsEntrySave(t) ==
  /\ syncing[t] # "NONE"
  /\ status' = [status EXCEPT ![t] = syncing[t]]
  /\ offPrice' = offPrice \ {t}
  /\ syncing' = [syncing EXCEPT ![t] = "NONE"]
  /\ UNCHANGED <<exVars, row, linked, booked, closing, wsPc, wsLeg, rcVars,
                 ksVars, wkVars, enabled, bounds>>

-----------------------------------------------------------------------------
(* The reconciler: reconcilePositions, one run at a time (isReconciling).  *)

\* OPEN trades are read with their orders; rcNew and rcKnown are what those
\* loaded objects say for the rest of the run.
RcStart ==
  /\ "cron" \in Active /\ enabled
  /\ rcPc = "idle" /\ OpenTrades # {}
  /\ rcPc' = "next" /\ rcTodo' = OpenTrades
  /\ rcKnown' = linked
  /\ rcNew' = {l \in linked : row[l] = "NEW"}
  /\ UNCHANGED <<exVars, dbVars, wsVars, rcT, rcSeen, rcHit, rcStatus, rcPnl,
                 rcLeg, ksVars, wkVars, enabled, bounds>>

\* The run's local variables die with it.
RcForget ==
  /\ rcPc' = "idle" /\ rcTodo' = {} /\ rcT' = NoTrade
  /\ rcNew' = {} /\ rcKnown' = {} /\ rcSeen' = {}
  /\ rcHit' = FALSE /\ rcStatus' = "OPEN" /\ rcPnl' = FALSE /\ rcLeg' = NoLeg

RcDone ==
  /\ rcPc = "next" /\ rcTodo = {}
  /\ RcForget
  /\ UNCHANGED <<exVars, dbVars, wsVars, ksVars, wkVars, enabled, bounds>>

\* getPositions of the trade's symbol answers.
RcNext(t) ==
  /\ rcPc = "next" /\ t \in rcTodo
  /\ rcTodo' = rcTodo \ {t}
  /\ rcT' = t /\ rcSeen' = pos
  /\ rcHit' = FALSE /\ rcStatus' = "OPEN" /\ rcPnl' = FALSE /\ rcLeg' = NoLeg
  /\ rcPc' = IF pos = {} THEN "absent" ELSE "present"
  /\ UNCHANGED <<exVars, dbVars, wsVars, rcNew, rcKnown, ksVars, wkVars, enabled,
                 bounds>>

\* It fails: the trade is skipped until the next run.
RcSkip(t) ==
  /\ rcPc = "next" /\ t \in rcTodo
  /\ rcTodo' = rcTodo \ {t}
  /\ UNCHANGED <<exVars, dbVars, wsVars, rcPc, rcT, rcNew, rcKnown, rcSeen, rcHit,
                 rcStatus, rcPnl, rcLeg, ksVars, wkVars, enabled, bounds>>

RcGo(pc) ==
  /\ rcPc' = pc
  /\ UNCHANGED <<exVars, dbVars, wsVars, rcTodo, rcT, rcNew, rcKnown, rcSeen,
                 rcLeg, ksVars, wkVars, enabled, bounds>>

\* No position: the row is read again, then the fills and the income are
\* fetched (seconds), which decide the status and whether a PnL is known.
RcAbsent ==
  /\ rcPc = "absent"
  /\ RcGo(IF status[rcT] = "OPEN" THEN "fills" ELSE "next")
  /\ UNCHANGED <<rcHit, rcStatus, rcPnl>>

\* Mutant of RcFills: a trade whose exit fills are not found stays OPEN.
RcFillsOnly ==
  /\ rcPc = "fills"
  /\ rcPnl' \in BOOLEAN /\ rcStatus' = "CLOSED_MANUAL"
  /\ RcGo(IF rcPnl' THEN "legs" ELSE "next") /\ UNCHANGED rcHit

RcFills ==
  /\ rcPc = "fills"
  /\ rcStatus' \in {"CLOSED_SL", "CLOSED_TP", "CLOSED_MANUAL"}
  /\ rcPnl' \in BOOLEAN
  /\ RcGo("legs") /\ UNCHANGED rcHit

\* tradeRepo.save(trade) with the orders loaded by RcStart: the status of the
\* loaded object is written, and a leg that was not among the loaded orders
\* loses its tradeId.
SaveLoaded ==
  /\ status' = [status EXCEPT ![rcT] = rcStatus]
  /\ linked' = {l \in linked : Owner[l] = rcT => l \in rcKnown}

\* A position is there.  A trade stored without an entry price gets the
\* position's, which may be other than its fill's, with a save of the whole
\* loaded object (the entry order's own row is not modelled).  Then the mark
\* price is at the stop or the target, or not.
RcMark ==
  /\ rcPc = "present"
  /\ rcHit' \in BOOLEAN
  /\ rcPc' = IF rcHit' THEN "fresh" ELSE "correct"
  /\ \/ UNCHANGED dbVars
     \/ /\ rcT \in offPrice /\ SaveLoaded
        /\ offPrice' \in {offPrice, offPrice \ {rcT}}
        /\ UNCHANGED <<row, booked>>
  /\ UNCHANGED <<exVars, wsVars, rcTodo, rcT, rcNew, rcKnown, rcSeen, rcStatus,
                 rcPnl, rcLeg, ksVars, wkVars, enabled, bounds>>

\* Software SL/TP: the row is read again before the market close is sent.
RcFresh ==
  /\ rcPc = "fresh"
  /\ RcGo(IF status[rcT] = "OPEN" THEN "soft" ELSE "correct")
  /\ UNCHANGED <<rcHit, rcStatus, rcPnl>>

RcSoftClose ==
  /\ rcPc = "soft" /\ rcPc' = "legs"
  /\ pos' = pos \ rcSeen
  /\ rcStatus' \in {"CLOSED_SL", "CLOSED_TP"}
  /\ rcPnl' = TRUE
  /\ UNCHANGED <<live, events, dropped, dbVars, wsVars, rcTodo, rcT, rcNew,
                 rcKnown, rcSeen, rcHit, rcLeg, ksVars, wkVars, enabled, bounds>>

\* Mutant of RcSoftRefused: the refused close is logged and the run goes on.
RcSoftIgnored ==
  /\ rcPc = "soft" /\ RcGo("legs")
  /\ rcStatus' = "CLOSED_SL" /\ rcPnl' = TRUE /\ UNCHANGED rcHit

\* The close is refused: the error ends the trade's turn.
RcSoftRefused ==
  /\ rcPc = "soft"
  /\ RcGo("next") /\ UNCHANGED <<rcHit, rcStatus, rcPnl>>

\* Every leg loaded as NEW is cancelled; a failed cancel marks it all the same.
RcCancelLegs ==
  /\ rcPc = "legs" /\ rcPc' = "save"
  /\ LET legs == {l \in rcNew : Owner[l] = rcT} IN
       /\ \E done \in SUBSET legs : live' = live \ done
       /\ row' = [l \in Leg |-> IF l \in legs THEN "CANCELED" ELSE row[l]]
  /\ UNCHANGED <<pos, events, dropped, status, linked, offPrice, booked, wsVars,
                 rcTodo, rcT, rcNew, rcKnown, rcSeen, rcHit, rcStatus, rcPnl, rcLeg,
                 ksVars, wkVars, enabled, bounds>>

RcSave ==
  /\ rcPc = "save" /\ rcPc' = "book"
  /\ SaveLoaded
  /\ UNCHANGED <<exVars, row, offPrice, booked, wsVars, rcTodo, rcT, rcNew,
                 rcKnown, rcSeen, rcHit, rcStatus, rcPnl, rcLeg, ksVars, wkVars,
                 enabled, bounds>>

RcBook ==
  /\ rcPc = "book"
  /\ rcPc' = IF rcHit THEN "correct" ELSE "next"
  /\ IF rcPnl THEN Book(rcT) ELSE UNCHANGED booked
  /\ UNCHANGED <<exVars, status, row, linked, offPrice, wsVars, rcTodo, rcT,
                 rcNew, rcKnown, rcSeen, rcHit, rcStatus, rcPnl, rcLeg, ksVars,
                 wkVars, enabled, bounds>>

\* Entry price: a stored price that differs from the fill is corrected, and
\* the whole loaded object is saved with it.
RcCorrect ==
  /\ rcPc = "correct" /\ rcT \in offPrice
  /\ rcPc' = "trailing"
  /\ offPrice' = offPrice \ {rcT}
  /\ SaveLoaded
  /\ UNCHANGED <<exVars, row, booked, wsVars, rcTodo, rcT, rcNew, rcKnown,
                 rcSeen, rcHit, rcStatus, rcPnl, rcLeg, ksVars, wkVars, enabled,
                 bounds>>

\* No correction: the price is right, or the entry's fill is not known yet.
RcPriceKept ==
  /\ rcPc = "correct"
  /\ RcGo("trailing") /\ UNCHANGED <<rcHit, rcStatus, rcPnl>>

RcNoTrail ==
  /\ rcPc = "trailing"
  /\ RcGo("next") /\ UNCHANGED <<rcHit, rcStatus, rcPnl>>

\* Trailing stop: the linked NEW stop legs are cancelled -- and marked
\* CANCELED when the cancel fails -- before the new stop is placed.
RcTrailCancel ==
  /\ rcPc = "trailing" /\ TrailingEnabled /\ ~rcHit
  /\ rcPc' = "trail"
  /\ LET stops == {l \in linked : /\ Owner[l] = rcT
                                  /\ IsStop(l) /\ row[l] = "NEW"} IN
       /\ \E done \in SUBSET stops : live' = live \ done
       /\ row' = [l \in Leg |-> IF l \in stops THEN "CANCELED" ELSE row[l]]
  /\ UNCHANGED <<pos, events, dropped, status, linked, offPrice, booked, wsVars,
                 rcTodo, rcT, rcNew, rcKnown, rcSeen, rcHit, rcStatus, rcPnl, rcLeg,
                 ksVars, wkVars, enabled, bounds>>

RcTrailPlace(l) ==
  /\ rcPc = "trail" /\ Owner[l] = rcT /\ Purpose[l] = "TSL" /\ Unused(l)
  /\ live' = live \cup {l}
  /\ rcLeg' = l /\ rcPc' = "trailPlaced"
  /\ UNCHANGED <<pos, events, dropped, dbVars, wsVars, rcTodo, rcT, rcNew, rcKnown,
                 rcSeen, rcHit, rcStatus, rcPnl, ksVars, wkVars, enabled, bounds>>

\* The new stop is refused: an error is logged and the run goes on.
RcTrailRefused ==
  /\ rcPc = "trail"
  /\ RcGo("next") /\ UNCHANGED <<rcHit, rcStatus, rcPnl>>

RcTrailRow ==
  /\ rcPc = "trailPlaced" /\ rcPc' = "trailRow"
  /\ row' = [row EXCEPT ![rcLeg] = "NEW"]
  /\ linked' = linked \cup {rcLeg}
  /\ UNCHANGED <<exVars, status, offPrice, booked, wsVars, rcTodo, rcT, rcNew,
                 rcKnown, rcSeen, rcHit, rcStatus, rcPnl, rcLeg, ksVars, wkVars,
                 enabled, bounds>>

\* trade.stopLoss moves and the whole loaded object is saved.
RcTrailSave ==
  /\ rcPc = "trailRow" /\ rcPc' = "next"
  /\ SaveLoaded
  /\ UNCHANGED <<exVars, row, offPrice, booked, wsVars, rcTodo, rcT, rcNew,
                 rcKnown, rcSeen, rcHit, rcStatus, rcPnl, rcLeg, ksVars, wkVars,
                 enabled, bounds>>

RcStep ==
  \/ RcDone \/ (\E t \in Trade : RcNext(t) \/ RcSkip(t))
  \/ RcAbsent \/ RcFills \/ RcMark \/ RcFresh \/ RcSoftClose \/ RcSoftRefused
  \/ RcCancelLegs
  \/ RcSave \/ RcBook \/ RcCorrect \/ RcPriceKept \/ RcNoTrail
  \/ RcTrailCancel \/ (\E l \in Leg : RcTrailPlace(l)) \/ RcTrailRefused
  \/ RcTrailRow \/ RcTrailSave

-----------------------------------------------------------------------------
(* The kill switch: KillSwitchService.activate and closeAllPositions.      *)

\* The bot is disabled, then the conditionals are cancelled or not (errors
\* are logged and the run goes on).  Their rows are not touched, and a stopped
\* bot gets no update about them.
KsActivate ==
  /\ "kill" \in Active /\ ksPc = "idle"
  /\ kills < MaxKills /\ kills' = kills + 1
  /\ enabled' = FALSE /\ ksPc' = "closing"
  /\ live' \in {live, {}}
  /\ UNCHANGED <<pos, events, dropped, dbVars, wsVars, rcVars, ksTodo, ksT, wkVars,
                 crashes>>

\* Every position is closed at market, or the exchange refuses.
KsClose ==
  /\ ksPc = "closing" /\ ksPc' = "reading"
  /\ pos' \in {pos, {}}
  /\ UNCHANGED <<live, events, dropped, dbVars, wsVars, rcVars, ksTodo, ksT, wkVars,
                 enabled, bounds>>

KsRead ==
  /\ ksPc = "reading" /\ ksPc' = "marking"
  /\ ksTodo' = OpenTrades
  /\ UNCHANGED <<exVars, dbVars, wsVars, rcVars, ksT, wkVars, enabled, bounds>>

\* Fills found for the trade are booked, then the row is saved.
KsBook(t) ==
  /\ ksPc = "marking" /\ t \in ksTodo
  /\ ksPc' = "saving" /\ ksT' = t /\ ksTodo' = ksTodo \ {t}
  /\ Book(t) \/ UNCHANGED booked
  /\ UNCHANGED <<exVars, status, row, linked, offPrice, wsVars, rcVars, wkVars,
                 enabled, bounds>>

KsSave ==
  /\ ksPc = "saving" /\ ksPc' = "marking"
  /\ status' = [status EXCEPT ![ksT] = "CLOSED_KILL_SWITCH"]
  /\ ksT' = NoTrade
  /\ UNCHANGED <<exVars, row, linked, offPrice, booked, wsVars, rcVars, ksTodo,
                 wkVars, enabled, bounds>>

KsDone ==
  /\ ksPc = "marking" /\ ksTodo = {} /\ ksPc' = "idle"
  /\ UNCHANGED <<exVars, dbVars, wsVars, rcVars, ksTodo, ksT, wkVars, enabled,
                 bounds>>

KsStep ==
  \/ KsClose \/ KsRead \/ (\E t \in Trade : KsBook(t)) \/ KsSave \/ KsDone

-----------------------------------------------------------------------------
(* The strategy worker: RiskManager.checkExistingPosition, then            *)
(* executeSignal.  One signal at a time.                                   *)

WkIdle == wk' = "idle" /\ wkT' = NoTrade /\ wkLegs' = {}

\* A cycle starts only while the bot is enabled.  The exchange says flat, or
\* cannot be asked: then the database decides.
RkQuery ==
  /\ enabled /\ wk = "idle"
  /\ \/ pos = {} /\ wk' = "flat"
     \/ OpenTrades = {} /\ wk' = "approved"
  /\ UNCHANGED <<exVars, dbVars, wsVars, rcVars, ksVars, wkT, wkLegs, entered,
                 enabled, bounds>>

\* Flat on the exchange: an OPEN row is a zombie.
RkFind ==
  /\ wk = "flat"
  /\ \/ OpenTrades = {} /\ wk' = "approved" /\ UNCHANGED wkT
     \/ "risk" \in Active /\ \E t \in OpenTrades : wkT' = t /\ wk' = "orphan"
  /\ UNCHANGED <<exVars, dbVars, wsVars, rcVars, ksVars, wkLegs, entered, enabled,
                 bounds>>

RkOrphan ==
  /\ wk = "orphan" /\ wk' = "approved"
  /\ status' = [status EXCEPT ![wkT] = "CLOSED_ORPHAN"]
  /\ wkT' = NoTrade
  /\ UNCHANGED <<exVars, row, linked, offPrice, booked, wsVars, rcVars, ksVars,
                 wkLegs, entered, enabled, bounds>>

\* The row cannot be saved, another check rejects, or nothing was entered.
RkReject ==
  /\ wk \in {"flat", "orphan", "approved"} /\ WkIdle
  /\ UNCHANGED <<exVars, dbVars, wsVars, rcVars, ksVars, entered, enabled, bounds>>

\* The MARKET entry fills.  It may also fill although the call failed: then
\* the worker skips the trade.
OpEntry(t) ==
  /\ wk = "approved" /\ t \notin entered
  /\ pos' = pos \cup {t} /\ entered' = entered \cup {t}
  /\ WkIdle \/ (wk' = "entered" /\ wkT' = t /\ wkLegs' = {})
  /\ UNCHANGED <<live, events, dropped, dbVars, wsVars, rcVars, ksVars, enabled,
                 bounds>>

\* The stop loss is placed, and later its row is saved.
OpStop(l) ==
  /\ wk = "entered" /\ Owner[l] = wkT /\ Purpose[l] = "SL" /\ Unused(l)
  /\ live' = live \cup {l} /\ wkLegs' = {l}
  /\ wk' = "stopPlaced"
  /\ UNCHANGED <<pos, events, dropped, dbVars, wsVars, rcVars, ksVars, wkT, entered,
                 enabled, bounds>>

OpTarget(l) ==
  /\ wk = "stopSaved" /\ Owner[l] = wkT /\ Purpose[l] = "TP" /\ Unused(l)
  /\ live' = live \cup {l} /\ wkLegs' = wkLegs \cup {l}
  /\ wk' = "targetPlaced"
  /\ UNCHANGED <<pos, events, dropped, dbVars, wsVars, rcVars, ksVars, wkT, entered,
                 enabled, bounds>>

OpSaveRow ==
  /\ \/ wk = "stopPlaced" /\ wk' = "stopSaved"
     \/ wk = "targetPlaced" /\ wk' = "bracketed"
  /\ row' = [l \in Leg |-> IF l \in wkLegs /\ row[l] = "NONE" THEN "NEW" ELSE row[l]]
  /\ UNCHANGED <<exVars, status, linked, offPrice, booked, wsVars, rcVars, ksVars,
                 wkT, wkLegs, entered, enabled, bounds>>

\* The take profit is refused: only a warning.
OpNoTarget ==
  /\ wk = "stopSaved" /\ wk' = "bracketed"
  /\ UNCHANGED <<exVars, dbVars, wsVars, rcVars, ksVars, wkT, wkLegs, entered,
                 enabled, bounds>>

\* The trade row; its entry price may not be the fill's.
OpTrade ==
  /\ wk = "bracketed" /\ wk' = "tradeSaved"
  /\ status' = [status EXCEPT ![wkT] = "OPEN"]
  /\ offPrice' \in {offPrice, offPrice \cup {wkT}}
  /\ UNCHANGED <<exVars, row, linked, booked, wsVars, rcVars, ksVars, wkT, wkLegs,
                 entered, enabled, bounds>>

\* The order objects are saved again with the tradeId -- and their old status.
OpLink ==
  /\ wk = "tradeSaved" /\ WkIdle
  /\ linked' = linked \cup wkLegs
  /\ row' = [l \in Leg |-> IF l \in wkLegs THEN "NEW" ELSE row[l]]
  /\ UNCHANGED <<exVars, status, offPrice, booked, wsVars, rcVars, ksVars, entered,
                 enabled, bounds>>

\* Any error after the entry: cancelAllOpenOrders, which does not touch the
\* conditionals, and null.  The position stays.
OpAbort ==
  /\ wk \in {"entered", "stopPlaced", "stopSaved", "targetPlaced", "bracketed",
             "tradeSaved"}
  /\ WkIdle
  /\ UNCHANGED <<exVars, dbVars, wsVars, rcVars, ksVars, entered, enabled, bounds>>

WkStep ==
  \/ RkQuery \/ RkFind \/ RkOrphan \/ RkReject
  \/ (\E t \in Trade : OpEntry(t))
  \/ (\E l \in Leg : OpStop(l) \/ OpTarget(l))
  \/ OpSaveRow \/ OpNoTarget \/ OpTrade \/ OpLink \/ OpAbort

-----------------------------------------------------------------------------
\* BotState.start, by the operator.
Start ==
  /\ ~enabled /\ enabled' = TRUE
  /\ UNCHANGED <<exVars, dbVars, wsVars, rcVars, ksVars, wkVars, bounds>>

\* The process dies and comes back stopped.  What the stream had still to
\* deliver is gone.
Crash ==
  /\ crashes < MaxCrashes /\ crashes' = crashes + 1
  /\ events' = {} /\ enabled' = FALSE /\ closing' = {}
  /\ wsPc' = [h \in Handler |-> "idle"]
  /\ wsLeg' = [h \in Handler |-> NoLeg]
  /\ syncing' = [t \in Trade |-> "NONE"]
  /\ RcForget /\ WkIdle
  /\ ksPc' = "idle" /\ ksTodo' = {} /\ ksT' = NoTrade
  /\ UNCHANGED <<pos, live, dropped, dbVars, entered, kills>>

Next ==
  \/ \E l \in Leg : Trigger(l) \/ Drop(l) \/ LoseEvent(l)
  \/ ManualClose
  \/ \E h \in Handler : WsStep(h)
  \/ \E t \in Trade : WsEntryRead(t) \/ WsEntrySave(t)
  \/ RcStart \/ RcStep
  \/ KsActivate \/ KsStep
  \/ WkStep
  \/ Start \/ Crash

Spec == Init /\ [][Next]_vars

\* The awaits of a run of the reconciler return, getPositions answers again and
\* again, and the cron starts a run whenever it can.  Nothing is asked of the
\* other activities: they may hang for ever.
Fairness ==
  /\ WF_vars(RcStart) /\ WF_vars(RcStep)
  /\ \A t \in Trade : SF_vars(RcNext(t))

FairSpec == Spec /\ Fairness

-----------------------------------------------------------------------------
(* Properties.                                                             *)

\* closingTrades is the mutex of handleConditionalBracketFill and
\* handleBracketFill: a trade is in it exactly while a handler is between its
\* add and its `finally`, and two handlers never work on one trade.
Holds(h) == wsPc[h] \in {"guarded", "open", "waiting", "saved"}
ClosersExclusive ==
  /\ closing = {Owner[wsLeg[h]] : h \in {h \in Handler : Holds(h)}}
  /\ \A g, h \in Handler :
       Holds(g) /\ Holds(h) /\ Owner[wsLeg[g]] = Owner[wsLeg[h]] => g = h

\* A trade whose row says CLOSED_SL, CLOSED_TP, CLOSED_MANUAL or CLOSED_ORPHAN
\* has no quantity left on the exchange, whichever of the handlers, the
\* reconciler's two branches and the zombie check wrote the row, and whatever
\* they had read before.  (closeAllPositions marks its rows even when the
\* exchange refused the close, so CLOSED_KILL_SWITCH promises nothing.)
ClosedMeansFlat ==
  \A t \in Trade : status[t] \in Closed \ {"CLOSED_KILL_SWITCH"} => t \notin pos

\* Without trailing and without the kill switch, the bot never takes the stop of a
\* trade that is OPEN and in the position away, although handlers, the zombie
\* check and the reconciler cancel legs from rows they read earlier: it rests on
\* the exchange, unless that has dropped it itself.  (Then it is not replaced.)
StopGuards ==
  \A t \in Trade :
    status[t] = "OPEN" /\ t \in pos
      => \E l \in live \cup dropped : Owner[l] = t /\ IsStop(l)

\* The reconciler repairs what the stream lost: while the bot stays enabled and
\* the symbol stays flat, every OPEN row is eventually closed for good.
ZombiesEnd == <>[](enabled /\ pos = {}) => <>[](OpenTrades = {})

\* With the handlers, the zombie check and the kill switch at work, the rows and
\* the daily result behave like TradeLedger, restarts included.
Phase == [t \in Trade |-> IF status[t] = "NONE" THEN "none"
                          ELSE IF status[t] = "OPEN" THEN "open" ELSE "closed"]
Ledger == INSTANCE TradeLedger WITH phase <- Phase, alarm <- kills > 0
ImplementsLedger == Ledger!Spec
=============================================================================
