------------------------ MODULE TradeLifecycleProofs ------------------------
(***************************************************************************)
(* Theorems about TradeLifecycle, for every set of trades, legs and        *)
(* handlers and every choice of the activities that run.                   *)
(***************************************************************************)
EXTENDS TradeLifecycle, TLAPS

-----------------------------------------------------------------------------
(* Type correctness.                                                       *)

\* Every step keeps the types: one step of the proof per action.
LEMMA TypeStep == TypeOK /\ [Next]_vars => TypeOK'
<1> SUFFICES ASSUME TypeOK, [Next]_vars PROVE TypeOK'
  OBVIOUS
<1> USE LegAssumption DEF TypeOK, ExTypes, DbTypes, WsTypes, RcTypes, KsTypes,
        WkTypes, Status, Closed, RowStatus, WsPc, RcPc, KsPc, WkPc
<1> USE DEF exVars, dbVars, wsVars, rcVars, ksVars, wkVars, bounds
<1>1. ASSUME NEW l \in Leg, Trigger(l) PROVE TypeOK'
  BY <1>1 DEF Trigger
<1>2. ASSUME NEW l \in Leg, Drop(l) \/ LoseEvent(l) PROVE TypeOK'
  BY <1>2 DEF Drop, LoseEvent
<1>3. ASSUME ManualClose PROVE TypeOK'
  BY <1>3 DEF ManualClose
<1>4. ASSUME NEW h \in Handler, (\E l \in Leg : WsFind(h, l)) \/ WsSave(h)
      PROVE  TypeOK'
  <2>1. ASSUME NEW l \in Leg, WsFind(h, l) PROVE TypeOK'
    BY <2>1 DEF WsFind, WsGo
  <2>2. CASE WsSave(h)
    BY <2>2 DEF WsSave, WsAcquire, WsIdle, WsGo
  <2>3. QED
    BY <1>4, <2>1, <2>2
<1>5. ASSUME NEW h \in Handler, WsRead(h) PROVE TypeOK'
  BY <1>5 DEF WsRead, WsGo, WsRelease, WsIdle
<1>6. ASSUME NEW h \in Handler, WsCancelOpposite(h) PROVE TypeOK'
  BY <1>6 DEF WsCancelOpposite, WsGo
<1>7. ASSUME NEW h \in Handler, WsClose(h) PROVE TypeOK'
  BY <1>7 DEF WsClose, WsGo, ClosedBy
<1>8. ASSUME NEW h \in Handler, WsBook(h) PROVE TypeOK'
  BY <1>8 DEF WsBook, Book, WsRelease, WsIdle, WsGo
<1>9. ASSUME NEW t \in Trade, WsEntryRead(t) PROVE TypeOK'
  BY <1>9 DEF WsEntryRead
<1>10. ASSUME NEW t \in Trade, WsEntrySave(t) PROVE TypeOK'
  BY <1>10 DEF WsEntrySave
<1>11. ASSUME RcStart PROVE TypeOK'
  BY <1>11 DEF RcStart, OpenTrades
<1>12. ASSUME RcDone PROVE TypeOK'
  BY <1>12 DEF RcDone, RcForget
<1>13. ASSUME NEW t \in Trade, RcNext(t) PROVE TypeOK'
  BY <1>13 DEF RcNext
<1>14. ASSUME NEW t \in Trade, RcSkip(t) PROVE TypeOK'
  BY <1>14 DEF RcSkip
<1>15. ASSUME RcAbsent PROVE TypeOK'
  BY <1>15 DEF RcAbsent, RcGo
<1>16. ASSUME RcFills PROVE TypeOK'
  BY <1>16 DEF RcFills, RcGo
<1>17. ASSUME RcMark PROVE TypeOK'
  BY <1>17 DEF RcMark, SaveLoaded
<1>18. ASSUME RcFresh PROVE TypeOK'
  BY <1>18 DEF RcFresh, RcGo
<1>19. ASSUME RcSoftClose PROVE TypeOK'
  BY <1>19 DEF RcSoftClose
<1>20. ASSUME RcSoftRefused PROVE TypeOK'
  BY <1>20 DEF RcSoftRefused, RcGo
<1>21. ASSUME RcCancelLegs PROVE TypeOK'
  BY <1>21 DEF RcCancelLegs
<1>22. ASSUME RcSave PROVE TypeOK'
  BY <1>22 DEF RcSave, SaveLoaded
<1>23. ASSUME RcBook PROVE TypeOK'
  BY <1>23 DEF RcBook, Book
<1>24. ASSUME RcCorrect PROVE TypeOK'
  BY <1>24 DEF RcCorrect, SaveLoaded
<1>25. ASSUME RcPriceKept PROVE TypeOK'
  BY <1>25 DEF RcPriceKept, RcGo
<1>26. ASSUME RcNoTrail PROVE TypeOK'
  BY <1>26 DEF RcNoTrail, RcGo
<1>27. ASSUME RcTrailCancel PROVE TypeOK'
  BY <1>27 DEF RcTrailCancel
<1>28. ASSUME NEW l \in Leg, RcTrailPlace(l) PROVE TypeOK'
  BY <1>28 DEF RcTrailPlace
<1>29. ASSUME RcTrailRefused PROVE TypeOK'
  BY <1>29 DEF RcTrailRefused, RcGo
<1>30. ASSUME RcTrailRow PROVE TypeOK'
  BY <1>30 DEF RcTrailRow
<1>31. ASSUME RcTrailSave PROVE TypeOK'
  BY <1>31 DEF RcTrailSave, SaveLoaded
<1>32. ASSUME KsActivate PROVE TypeOK'
  <2>1. kills' \in Nat
    BY <1>32 DEF KsActivate
  <2>2. ExTypes' /\ DbTypes' /\ WsTypes' /\ RcTypes' /\ KsTypes' /\ WkTypes'
    BY <1>32 DEF KsActivate
  <2>3. QED
    BY <1>32, <2>1, <2>2 DEF KsActivate
<1>33. ASSUME KsClose PROVE TypeOK'
  BY <1>33 DEF KsClose
<1>34. ASSUME KsRead PROVE TypeOK'
  BY <1>34 DEF KsRead, OpenTrades
<1>35. ASSUME NEW t \in Trade, KsBook(t) PROVE TypeOK'
  BY <1>35 DEF KsBook, Book
<1>36. ASSUME KsSave PROVE TypeOK'
  BY <1>36 DEF KsSave
<1>37. ASSUME KsDone PROVE TypeOK'
  BY <1>37 DEF KsDone
<1>38. ASSUME RkQuery PROVE TypeOK'
  BY <1>38 DEF RkQuery, OpenTrades
<1>39. ASSUME RkFind PROVE TypeOK'
  BY <1>39 DEF RkFind, OpenTrades
<1>40. ASSUME RkOrphan PROVE TypeOK'
  BY <1>40 DEF RkOrphan
<1>41. ASSUME RkReject PROVE TypeOK'
  BY <1>41 DEF RkReject, WkIdle
<1>42. ASSUME NEW t \in Trade, OpEntry(t) PROVE TypeOK'
  BY <1>42 DEF OpEntry, WkIdle
<1>43. ASSUME NEW l \in Leg, OpStop(l) PROVE TypeOK'
  BY <1>43 DEF OpStop
<1>44. ASSUME NEW l \in Leg, OpTarget(l) PROVE TypeOK'
  BY <1>44 DEF OpTarget
<1>45. ASSUME OpSaveRow PROVE TypeOK'
  BY <1>45 DEF OpSaveRow
<1>46. ASSUME OpNoTarget PROVE TypeOK'
  BY <1>46 DEF OpNoTarget
<1>47. ASSUME OpTrade PROVE TypeOK'
  BY <1>47 DEF OpTrade
<1>48. ASSUME OpLink PROVE TypeOK'
  BY <1>48 DEF OpLink, WkIdle
<1>49. ASSUME OpAbort PROVE TypeOK'
  BY <1>49 DEF OpAbort, WkIdle
<1>50. ASSUME Start PROVE TypeOK'
  BY <1>50 DEF Start
<1>51. ASSUME Crash PROVE TypeOK'
  <2>1. crashes' \in Nat
    BY <1>51 DEF Crash
  <2>2. ExTypes' /\ DbTypes' /\ WsTypes' /\ RcTypes' /\ KsTypes' /\ WkTypes'
    BY <1>51 DEF Crash, RcForget, WkIdle
  <2>3. QED
    BY <1>51, <2>1, <2>2 DEF Crash
<1>52. CASE UNCHANGED vars
  BY <1>52 DEF vars
<1> HIDE DEF TypeOK
<1>53. \A h \in Handler : WsStep(h) => TypeOK'
  BY <1>4, <1>5, <1>6, <1>7, <1>8
     DEF WsStep
<1>54. RcStep => TypeOK'
  BY <1>12, <1>13, <1>14, <1>15, <1>16, <1>17, <1>18, <1>19, <1>20,
     <1>21, <1>22, <1>23, <1>24, <1>25, <1>26, <1>27, <1>28, <1>29,
     <1>30, <1>31
     DEF RcStep
<1>55. KsStep => TypeOK'
  BY <1>33, <1>34, <1>35, <1>36, <1>37
     DEF KsStep
<1>56. WkStep => TypeOK'
  BY <1>38, <1>39, <1>40, <1>41, <1>42, <1>43, <1>44, <1>45, <1>46,
     <1>47, <1>48, <1>49
     DEF WkStep
<1>57. QED
  BY <1>1, <1>2, <1>3, <1>9, <1>10, <1>11, <1>32, <1>50, <1>51,
     <1>52, <1>53, <1>54, <1>55, <1>56
     DEF Next

\* Every variable keeps its type, and an activity always has the trade or the
\* leg that the place it has reached needs.
THEOREM TypeCorrect == Spec => []TypeOK
<1>1. Init => TypeOK
  <2> SUFFICES ASSUME Init PROVE TypeOK
    OBVIOUS
  <2>1. ExTypes /\ DbTypes
    BY DEF Init, ExTypes, DbTypes, Status, RowStatus
  <2>2. WsTypes
    BY DEF Init, WsTypes, WsPc, Status
  <2>3. RcTypes /\ KsTypes /\ WkTypes
    BY DEF Init, RcTypes, RcPc, KsTypes, KsPc, WkTypes, WkPc
  <2>4. QED
    BY <2>1, <2>2, <2>3 DEF Init, TypeOK
<1>2. QED
  BY <1>1, TypeStep, PTL DEF Spec

-----------------------------------------------------------------------------
(* The mutex of the bracket handlers.                                      *)

\* Only five handler steps and a restart touch closing, wsPc or wsLeg.
LEMMA OthersKeepClosing ==
  ASSUME [Next]_vars
  PROVE  \/ \E h \in Handler : WsStep(h)
         \/ Crash
         \/ UNCHANGED <<closing, wsPc, wsLeg>>
<1> USE DEF wsVars, vars
<1>1. CASE UNCHANGED vars
  BY <1>1
<1>2. CASE \E l \in Leg : Trigger(l) \/ Drop(l) \/ LoseEvent(l)
  BY <1>2 DEF Trigger, Drop, LoseEvent
<1>3. CASE \E t \in Trade : WsEntryRead(t) \/ WsEntrySave(t)
  BY <1>3 DEF WsEntryRead, WsEntrySave
<1>4. CASE ManualClose \/ Start
  BY <1>4 DEF ManualClose, Start
<1>5. CASE RcStart \/ RcStep
  BY <1>5 DEF RcStart, RcStep, RcDone, RcNext, RcSkip, RcAbsent, RcFills,
     RcMark, RcFresh, RcSoftClose, RcSoftRefused, RcCancelLegs, RcSave, RcBook,
     RcCorrect, RcPriceKept, RcNoTrail, RcTrailCancel, RcTrailPlace,
     RcTrailRefused, RcTrailRow, RcTrailSave, RcGo
<1>6. CASE KsActivate \/ KsStep
  BY <1>6 DEF KsActivate, KsStep, KsClose, KsRead, KsBook, KsSave, KsDone
<1>7. CASE WkStep
  BY <1>7 DEF WkStep, RkQuery, RkFind, RkOrphan, RkReject, OpEntry, OpStop,
     OpTarget, OpSaveRow, OpNoTarget, OpTrade, OpLink, OpAbort
<1>8. QED
  BY <1>1, <1>2, <1>3, <1>4, <1>5, <1>6, <1>7 DEF Next

LEMMA ExclusiveStep ==
  TypeOK /\ ClosersExclusive /\ [Next]_vars => ClosersExclusive'
<1> SUFFICES ASSUME TypeOK, ClosersExclusive, [Next]_vars
             PROVE  ClosersExclusive'
  OBVIOUS
<1> USE LegAssumption DEF TypeOK, WsTypes, ClosersExclusive, Holds
<1>1. ASSUME NEW h \in Handler, ~Holds(h), WsAcquire(h), Claimable(wsLeg[h]),
             wsLeg[h] \in Leg
      PROVE  ClosersExclusive'
  <2>1. Owner[wsLeg[h]] \notin closing
    BY <1>1 DEF Claimable
  <2>2. /\ closing' = closing \cup {Owner[wsLeg[h]]}
        /\ wsPc' = [wsPc EXCEPT ![h] = "guarded"]
        /\ wsLeg' = wsLeg
    BY <1>1 DEF WsAcquire, WsGo
  <2>3. QED
    BY <1>1, <2>1, <2>2
<1>2. ASSUME NEW h \in Handler, Holds(h), WsRelease(h)
      PROVE  ClosersExclusive'
  <2>1. /\ closing' = closing \ {Owner[wsLeg[h]]}
        /\ wsPc' = [wsPc EXCEPT ![h] = "idle"]
        /\ wsLeg' = [wsLeg EXCEPT ![h] = NoLeg]
    BY <1>2 DEF WsRelease, WsIdle, WsGo
  <2>2. QED
    BY <1>2, <2>1
<1>3. ASSUME NEW h \in Handler, Holds(h),
             NEW pc \in {"open", "waiting", "saved"}, WsGo(h, pc),
             UNCHANGED <<closing, wsLeg>>
      PROVE  ClosersExclusive'
  BY <1>3 DEF WsGo
<1>4. CASE Crash
  BY <1>4 DEF Crash
<1>5. CASE UNCHANGED <<closing, wsPc, wsLeg>>
  BY <1>5
<1>6. ASSUME NEW h \in Handler, WsRead(h) \/ WsCancelOpposite(h) \/ WsClose(h)
                                \/ WsBook(h)
      PROVE  ClosersExclusive'
  BY <1>2, <1>3, <1>6 DEF WsRead, WsCancelOpposite, WsClose, WsBook
<1>7. ASSUME NEW h \in Handler, ~Holds(h), UNCHANGED closing,
             NEW pc \in {"idle", "linked", "unlinked"}, WsGo(h, pc),
             NEW m \in Leg \cup {NoLeg}, wsLeg' = [wsLeg EXCEPT ![h] = m]
      PROVE  ClosersExclusive'
  BY <1>7 DEF WsGo
<1>8. ASSUME NEW h \in Handler, NEW l \in Leg, WsFind(h, l)
      PROVE  ClosersExclusive'
  <2>1. CASE row[l] = "NONE"
    BY <1>5, <1>8, <2>1 DEF WsFind, wsVars
  <2>2. CASE row[l] # "NONE"
    BY <1>7, <1>8, <2>2 DEF WsFind
  <2>3. QED
    BY <2>1, <2>2
<1>9. ASSUME NEW h \in Handler, WsSave(h)
      PROVE  ClosersExclusive'
  <2>1. CASE WsAcquire(h) /\ Claimable(wsLeg[h])
    BY <1>1, <1>9, <2>1 DEF WsSave
  <2>2. CASE WsIdle(h) /\ UNCHANGED closing
    BY <1>7, <1>9, <2>2 DEF WsSave, WsIdle
  <2>3. QED
    BY <1>9, <2>1, <2>2 DEF WsSave
<1> HIDE DEF ClosersExclusive
<1>10. QED
  BY <1>4, <1>5, <1>6, <1>8, <1>9, OthersKeepClosing DEF WsStep

\* Two handlers never close the same trade, and closingTrades never keeps a
\* trade nobody is closing, for any number of handlers and legs.
THEOREM ExclusiveClosers == Spec => []ClosersExclusive
<1>1. Init => ClosersExclusive
  BY DEF Init, ClosersExclusive, Holds
<1>2. QED
  BY <1>1, TypeCorrect, ExclusiveStep, PTL DEF Spec

-----------------------------------------------------------------------------
(* A closed row means a flat position.                                     *)

Ended == Closed \ {"CLOSED_KILL_SWITCH"}
\* A trade whose entry was sent and whose quantity has left the position: an
\* entry is sent once, so this stays true.
Gone(t) == t \in entered /\ t \notin pos

\* Nothing is recorded, placed or remembered for a trade before its entry.
Grounded ==
  /\ pos \subseteq entered /\ rcTodo \subseteq entered /\ ksTodo \subseteq entered
  /\ \A t \in Trade : status[t] # "NONE" => t \in entered
  /\ \A t \in Trade : syncing[t] # "NONE" => t \in entered
  /\ \A l \in live : Owner[l] \in entered
  /\ rcPc \notin {"idle", "next"} => rcT \in entered
  /\ ksPc = "saving" => ksT \in entered
  /\ wk \notin {"idle", "flat", "approved"} => wkT \in entered

\* Whatever can still write a closed status does so for a trade that is gone:
\* an undelivered fill, a handler at work on one, a stale entry sync, the reconciler
\* in its absent branch or after its own close, the zombie check.
GoneWhereNeeded ==
  /\ \A t \in Trade : status[t] \in Ended => Gone(t)
  /\ \A t \in Trade : syncing[t] \in Ended => Gone(t)
  /\ \A l \in events \ dropped : Gone(Owner[l])
  /\ \A h \in Handler : wsPc[h] \in {"linked", "unlinked"} /\ wsLeg[h] \notin dropped
                          => Gone(Owner[wsLeg[h]])
  /\ \A h \in Handler : Holds(h) => Gone(Owner[wsLeg[h]])
  /\ rcPc \in {"absent", "fills"} \/ rcStatus # "OPEN" => Gone(rcT)
  /\ rcPc \in {"present", "fresh", "soft"} => rcT \in rcSeen \/ Gone(rcT)
  /\ wk \in {"flat", "orphan"} => pos = {}

FlatParts == Grounded /\ GoneWhereNeeded

LEMMA FlatStep ==
  TypeOK /\ FlatParts /\ [Next]_vars => FlatParts'
<1> SUFFICES ASSUME TypeOK, FlatParts, [Next]_vars PROVE FlatParts'
  OBVIOUS
<1> USE LegAssumption DEF FlatParts, Grounded, GoneWhereNeeded, Gone, Holds, Ended, Closed,
        TypeOK, ExTypes, DbTypes, WsTypes, RcTypes, KsTypes, WkTypes, Status
<1> USE DEF exVars, dbVars, wsVars, rcVars, ksVars, wkVars, bounds
<1>1. ASSUME NEW l \in Leg, Trigger(l) PROVE FlatParts'
  BY <1>1 DEF Trigger
<1>2. ASSUME NEW l \in Leg, Drop(l) \/ LoseEvent(l) PROVE FlatParts'
  BY <1>2 DEF Drop, LoseEvent
<1>3. ASSUME ManualClose PROVE FlatParts'
  BY <1>3 DEF ManualClose
<1>4. ASSUME NEW h \in Handler, (\E l \in Leg : WsFind(h, l)) \/ WsSave(h)
      PROVE  FlatParts'
  <2>1. ASSUME NEW l \in Leg, WsFind(h, l) PROVE FlatParts'
    BY <2>1 DEF WsFind, WsGo
  <2>2. CASE WsSave(h)
    BY <2>2 DEF WsSave, WsAcquire, WsIdle, WsGo
  <2>3. QED
    BY <1>4, <2>1, <2>2
<1>5. ASSUME NEW h \in Handler, WsRead(h) PROVE FlatParts'
  BY <1>5 DEF WsRead, WsGo, WsRelease, WsIdle
<1>6. ASSUME NEW h \in Handler, WsCancelOpposite(h) PROVE FlatParts'
  BY <1>6 DEF WsCancelOpposite, WsGo
<1>7. ASSUME NEW h \in Handler, WsClose(h) PROVE FlatParts'
  BY <1>7 DEF WsClose, WsGo, ClosedBy
<1>8. ASSUME NEW h \in Handler, WsBook(h) PROVE FlatParts'
  BY <1>8 DEF WsBook, Book, WsRelease, WsIdle, WsGo
<1>9. ASSUME NEW t \in Trade, WsEntryRead(t) PROVE FlatParts'
  BY <1>9 DEF WsEntryRead
<1>10. ASSUME NEW t \in Trade, WsEntrySave(t) PROVE FlatParts'
  BY <1>10 DEF WsEntrySave
<1>11. ASSUME RcStart PROVE FlatParts'
  BY <1>11 DEF RcStart, OpenTrades
<1>12. ASSUME RcDone PROVE FlatParts'
  BY <1>12 DEF RcDone, RcForget
<1>13. ASSUME NEW t \in Trade, RcNext(t) PROVE FlatParts'
  BY <1>13 DEF RcNext
<1>14. ASSUME NEW t \in Trade, RcSkip(t) PROVE FlatParts'
  BY <1>14 DEF RcSkip
<1>15. ASSUME RcAbsent PROVE FlatParts'
  BY <1>15 DEF RcAbsent, RcGo
<1>16. ASSUME RcFills PROVE FlatParts'
  BY <1>16 DEF RcFills, RcGo
<1>17. ASSUME RcMark PROVE FlatParts'
  BY <1>17 DEF RcMark, SaveLoaded
<1>18. ASSUME RcFresh PROVE FlatParts'
  BY <1>18 DEF RcFresh, RcGo
<1>19. ASSUME RcSoftClose PROVE FlatParts'
  BY <1>19 DEF RcSoftClose
<1>20. ASSUME RcSoftRefused PROVE FlatParts'
  BY <1>20 DEF RcSoftRefused, RcGo
<1>21. ASSUME RcCancelLegs PROVE FlatParts'
  BY <1>21 DEF RcCancelLegs
<1>22. ASSUME RcSave PROVE FlatParts'
  BY <1>22 DEF RcSave, SaveLoaded
<1>23. ASSUME RcBook PROVE FlatParts'
  BY <1>23 DEF RcBook, Book
<1>24. ASSUME RcCorrect PROVE FlatParts'
  BY <1>24 DEF RcCorrect, SaveLoaded
<1>25. ASSUME RcPriceKept PROVE FlatParts'
  BY <1>25 DEF RcPriceKept, RcGo
<1>26. ASSUME RcNoTrail PROVE FlatParts'
  BY <1>26 DEF RcNoTrail, RcGo
<1>27. ASSUME RcTrailCancel PROVE FlatParts'
  BY <1>27 DEF RcTrailCancel
<1>28. ASSUME NEW l \in Leg, RcTrailPlace(l) PROVE FlatParts'
  BY <1>28 DEF RcTrailPlace
<1>29. ASSUME RcTrailRefused PROVE FlatParts'
  BY <1>29 DEF RcTrailRefused, RcGo
<1>30. ASSUME RcTrailRow PROVE FlatParts'
  BY <1>30 DEF RcTrailRow
<1>31. ASSUME RcTrailSave PROVE FlatParts'
  BY <1>31 DEF RcTrailSave, SaveLoaded
<1>32. ASSUME KsActivate PROVE FlatParts'
  BY <1>32 DEF KsActivate
<1>33. ASSUME KsClose PROVE FlatParts'
  BY <1>33 DEF KsClose
<1>34. ASSUME KsRead PROVE FlatParts'
  BY <1>34 DEF KsRead, OpenTrades
<1>35. ASSUME NEW t \in Trade, KsBook(t) PROVE FlatParts'
  BY <1>35 DEF KsBook, Book
<1>36. ASSUME KsSave PROVE FlatParts'
  BY <1>36 DEF KsSave
<1>37. ASSUME KsDone PROVE FlatParts'
  BY <1>37 DEF KsDone
<1>38. ASSUME RkQuery PROVE FlatParts'
  BY <1>38 DEF RkQuery, OpenTrades
<1>39. ASSUME RkFind PROVE FlatParts'
  BY <1>39 DEF RkFind, OpenTrades
<1>40. ASSUME RkOrphan PROVE FlatParts'
  BY <1>40 DEF RkOrphan
<1>41. ASSUME RkReject PROVE FlatParts'
  BY <1>41 DEF RkReject, WkIdle
<1>42. ASSUME NEW t \in Trade, OpEntry(t) PROVE FlatParts'
  BY <1>42 DEF OpEntry, WkIdle
<1>43. ASSUME NEW l \in Leg, OpStop(l) PROVE FlatParts'
  BY <1>43 DEF OpStop
<1>44. ASSUME NEW l \in Leg, OpTarget(l) PROVE FlatParts'
  BY <1>44 DEF OpTarget
<1>45. ASSUME OpSaveRow PROVE FlatParts'
  BY <1>45 DEF OpSaveRow
<1>46. ASSUME OpNoTarget PROVE FlatParts'
  BY <1>46 DEF OpNoTarget
<1>47. ASSUME OpTrade PROVE FlatParts'
  BY <1>47 DEF OpTrade
<1>48. ASSUME OpLink PROVE FlatParts'
  BY <1>48 DEF OpLink, WkIdle
<1>49. ASSUME OpAbort PROVE FlatParts'
  BY <1>49 DEF OpAbort, WkIdle
<1>50. ASSUME Start PROVE FlatParts'
  BY <1>50 DEF Start
<1>51. ASSUME Crash PROVE FlatParts'
  BY <1>51 DEF Crash, RcForget, WkIdle
<1>52. CASE UNCHANGED vars
  BY <1>52 DEF vars
<1> HIDE DEF FlatParts
<1>53. \A h \in Handler : WsStep(h) => FlatParts'
  BY <1>4, <1>5, <1>6, <1>7, <1>8
     DEF WsStep
<1>54. RcStep => FlatParts'
  BY <1>12, <1>13, <1>14, <1>15, <1>16, <1>17, <1>18, <1>19, <1>20,
     <1>21, <1>22, <1>23, <1>24, <1>25, <1>26, <1>27, <1>28, <1>29,
     <1>30, <1>31
     DEF RcStep
<1>55. KsStep => FlatParts'
  BY <1>33, <1>34, <1>35, <1>36, <1>37
     DEF KsStep
<1>56. WkStep => FlatParts'
  BY <1>38, <1>39, <1>40, <1>41, <1>42, <1>43, <1>44, <1>45, <1>46,
     <1>47, <1>48, <1>49
     DEF WkStep
<1>57. QED
  BY <1>1, <1>2, <1>3, <1>9, <1>10, <1>11, <1>32, <1>50, <1>51,
     <1>52, <1>53, <1>54, <1>55, <1>56
     DEF Next

\* A row that says CLOSED_SL, CLOSED_TP, CLOSED_MANUAL or CLOSED_ORPHAN is never
\* the row of a trade that still has quantity on the exchange, whatever runs
\* and however often the process restarts.
THEOREM FlatWhenClosed == Spec => []ClosedMeansFlat
<1>1. Init => FlatParts
  BY DEF Init, FlatParts, Grounded, GoneWhereNeeded, Holds, Ended, Closed, Gone
<1>2. FlatParts => ClosedMeansFlat
  BY DEF FlatParts, GoneWhereNeeded, Ended, ClosedMeansFlat, Gone
<1>3. QED
  BY <1>1, <1>2, TypeCorrect, FlatStep, PTL DEF Spec

-----------------------------------------------------------------------------
(* Without trailing and the kill switch, the bot leaves the stop of an open *)
(* position alone.                                                         *)

HasStop(t) == \E l \in live \cup dropped : Owner[l] = t /\ IsStop(l)

\* The row of t says OPEN, or somebody is going to save it as OPEN: the entry
\* sync, the reconciler with the objects it loaded, the worker before OpTrade.
Exposed(t) ==
  \/ status[t] = "OPEN" \/ syncing[t] = "OPEN"
  \/ t \in rcTodo \/ (rcPc \notin {"idle", "next"} /\ rcT = t)
  \/ /\ wk \in {"stopPlaced", "stopSaved", "targetPlaced", "bracketed", "tradeSaved"}
     /\ wkT = t

\* The reconciler cancels legs only after it has decided that the trade ended,
\* and every exposed trade that is in the position has its stop, or had it until
\* the exchange dropped it.
StopInv ==
  /\ ksPc = "idle" /\ rcPc \notin {"trail", "trailPlaced", "trailRow"}
  /\ rcPc = "legs" => rcStatus # "OPEN"
  /\ \A t \in pos : Exposed(t) => HasStop(t)

LEMMA StopStep ==
  ASSUME "kill" \notin Active, ~TrailingEnabled
  PROVE  TypeOK /\ FlatParts /\ StopInv /\ [Next]_vars => StopInv'
<1> SUFFICES ASSUME TypeOK, FlatParts, StopInv, [Next]_vars PROVE StopInv'
  OBVIOUS
<1> USE LegAssumption DEF FlatParts, Grounded, GoneWhereNeeded, Gone, StopInv, Exposed,
        HasStop, IsStop, TypeOK, ExTypes, DbTypes, WsTypes, RcTypes, WkTypes
<1> USE DEF exVars, dbVars, wsVars, rcVars, ksVars, wkVars, bounds
<1>1. ASSUME NEW l \in Leg, Trigger(l) PROVE StopInv'
  BY <1>1 DEF Trigger
<1>2. ASSUME NEW l \in Leg, Drop(l) \/ LoseEvent(l) PROVE StopInv'
  BY <1>2 DEF Drop, LoseEvent
<1>3. ASSUME ManualClose PROVE StopInv'
  BY <1>3 DEF ManualClose
<1>4. ASSUME NEW h \in Handler, (\E l \in Leg : WsFind(h, l)) \/ WsSave(h)
      PROVE  StopInv'
  <2>1. ASSUME NEW l \in Leg, WsFind(h, l) PROVE StopInv'
    BY <2>1 DEF WsFind, WsGo
  <2>2. CASE WsSave(h)
    BY <2>2 DEF WsSave, WsAcquire, WsIdle, WsGo
  <2>3. QED
    BY <1>4, <2>1, <2>2
<1>5. ASSUME NEW h \in Handler, WsRead(h) PROVE StopInv'
  BY <1>5 DEF WsRead, WsGo, WsRelease, WsIdle
<1>6. ASSUME NEW h \in Handler, WsCancelOpposite(h) PROVE StopInv'
  BY <1>6 DEF WsCancelOpposite, WsGo, Holds
<1>7. ASSUME NEW h \in Handler, WsClose(h) PROVE StopInv'
  BY <1>7 DEF WsClose, WsGo, ClosedBy
<1>8. ASSUME NEW h \in Handler, WsBook(h) PROVE StopInv'
  BY <1>8 DEF WsBook, Book, WsRelease, WsIdle, WsGo
<1>9. ASSUME NEW t \in Trade, WsEntryRead(t) PROVE StopInv'
  BY <1>9 DEF WsEntryRead
<1>10. ASSUME NEW t \in Trade, WsEntrySave(t) PROVE StopInv'
  BY <1>10 DEF WsEntrySave
<1>11. ASSUME RcStart PROVE StopInv'
  BY <1>11 DEF RcStart, OpenTrades
<1>12. ASSUME RcDone PROVE StopInv'
  BY <1>12 DEF RcDone, RcForget
<1>13. ASSUME NEW t \in Trade, RcNext(t) PROVE StopInv'
  BY <1>13 DEF RcNext
<1>14. ASSUME NEW t \in Trade, RcSkip(t) PROVE StopInv'
  BY <1>14 DEF RcSkip
<1>15. ASSUME RcAbsent PROVE StopInv'
  BY <1>15 DEF RcAbsent, RcGo
<1>16. ASSUME RcFills PROVE StopInv'
  BY <1>16 DEF RcFills, RcGo
<1>17. ASSUME RcMark PROVE StopInv'
  BY <1>17 DEF RcMark, SaveLoaded
<1>18. ASSUME RcFresh PROVE StopInv'
  BY <1>18 DEF RcFresh, RcGo
<1>19. ASSUME RcSoftClose PROVE StopInv'
  BY <1>19 DEF RcSoftClose
<1>20. ASSUME RcSoftRefused PROVE StopInv'
  BY <1>20 DEF RcSoftRefused, RcGo
<1>21. ASSUME RcCancelLegs PROVE StopInv'
  BY <1>21 DEF RcCancelLegs
<1>22. ASSUME RcSave PROVE StopInv'
  BY <1>22 DEF RcSave, SaveLoaded
<1>23. ASSUME RcBook PROVE StopInv'
  BY <1>23 DEF RcBook, Book
<1>24. ASSUME RcCorrect PROVE StopInv'
  BY <1>24 DEF RcCorrect, SaveLoaded
<1>25. ASSUME RcPriceKept PROVE StopInv'
  BY <1>25 DEF RcPriceKept, RcGo
<1>26. ASSUME RcNoTrail PROVE StopInv'
  BY <1>26 DEF RcNoTrail, RcGo
<1>27. ASSUME RcTrailCancel PROVE StopInv'
  BY <1>27 DEF RcTrailCancel
<1>28. ASSUME NEW l \in Leg, RcTrailPlace(l) PROVE StopInv'
  BY <1>28 DEF RcTrailPlace
<1>29. ASSUME RcTrailRefused PROVE StopInv'
  BY <1>29 DEF RcTrailRefused, RcGo
<1>30. ASSUME RcTrailRow PROVE StopInv'
  BY <1>30 DEF RcTrailRow
<1>31. ASSUME RcTrailSave PROVE StopInv'
  BY <1>31 DEF RcTrailSave, SaveLoaded
<1>32. ASSUME KsActivate PROVE StopInv'
  BY <1>32 DEF KsActivate
<1>33. ASSUME KsClose PROVE StopInv'
  BY <1>33 DEF KsClose
<1>34. ASSUME KsRead PROVE StopInv'
  BY <1>34 DEF KsRead, OpenTrades
<1>35. ASSUME NEW t \in Trade, KsBook(t) PROVE StopInv'
  BY <1>35 DEF KsBook, Book
<1>36. ASSUME KsSave PROVE StopInv'
  BY <1>36 DEF KsSave
<1>37. ASSUME KsDone PROVE StopInv'
  BY <1>37 DEF KsDone
<1>38. ASSUME RkQuery PROVE StopInv'
  BY <1>38 DEF RkQuery, OpenTrades
<1>39. ASSUME RkFind PROVE StopInv'
  BY <1>39 DEF RkFind, OpenTrades
<1>40. ASSUME RkOrphan PROVE StopInv'
  BY <1>40 DEF RkOrphan
<1>41. ASSUME RkReject PROVE StopInv'
  BY <1>41 DEF RkReject, WkIdle
<1>42. ASSUME NEW t \in Trade, OpEntry(t) PROVE StopInv'
  BY <1>42 DEF OpEntry, WkIdle
<1>43. ASSUME NEW l \in Leg, OpStop(l) PROVE StopInv'
  BY <1>43 DEF OpStop
<1>44. ASSUME NEW l \in Leg, OpTarget(l) PROVE StopInv'
  BY <1>44 DEF OpTarget
<1>45. ASSUME OpSaveRow PROVE StopInv'
  BY <1>45 DEF OpSaveRow
<1>46. ASSUME OpNoTarget PROVE StopInv'
  BY <1>46 DEF OpNoTarget
<1>47. ASSUME OpTrade PROVE StopInv'
  BY <1>47 DEF OpTrade
<1>48. ASSUME OpLink PROVE StopInv'
  BY <1>48 DEF OpLink, WkIdle
<1>49. ASSUME OpAbort PROVE StopInv'
  BY <1>49 DEF OpAbort, WkIdle
<1>50. ASSUME Start PROVE StopInv'
  BY <1>50 DEF Start
<1>51. ASSUME Crash PROVE StopInv'
  BY <1>51 DEF Crash, RcForget, WkIdle
<1>52. CASE UNCHANGED vars
  BY <1>52 DEF vars
<1> HIDE DEF StopInv
<1>53. \A h \in Handler : WsStep(h) => StopInv'
  BY <1>4, <1>5, <1>6, <1>7, <1>8
     DEF WsStep
<1>54. RcStep => StopInv'
  BY <1>12, <1>13, <1>14, <1>15, <1>16, <1>17, <1>18, <1>19, <1>20,
     <1>21, <1>22, <1>23, <1>24, <1>25, <1>26, <1>27, <1>28, <1>29,
     <1>30, <1>31
     DEF RcStep
<1>55. KsStep => StopInv'
  BY <1>33, <1>34, <1>35, <1>36, <1>37
     DEF KsStep
<1>56. WkStep => StopInv'
  BY <1>38, <1>39, <1>40, <1>41, <1>42, <1>43, <1>44, <1>45, <1>46,
     <1>47, <1>48, <1>49
     DEF WkStep
<1>57. QED
  BY <1>1, <1>2, <1>3, <1>9, <1>10, <1>11, <1>32, <1>50, <1>51,
     <1>52, <1>53, <1>54, <1>55, <1>56
     DEF Next

\* Every trade that is OPEN and in the position has a stop that nobody but the
\* exchange took away, for any number of trades, legs, handlers and restarts,
\* when neither trailing nor the kill switch is in use: the two activities that
\* cancel the stop of a trade that is still there.
THEOREM StopStands ==
  ASSUME "kill" \notin Active, ~TrailingEnabled
  PROVE  Spec => []StopGuards
<1>1. Init => FlatParts /\ StopInv
  BY DEF Init, FlatParts, Grounded, GoneWhereNeeded, Holds, Ended, Closed, Gone, StopInv
<1>2. TypeOK /\ StopInv => StopGuards
  BY DEF StopInv, Exposed, HasStop, StopGuards
<1>3. QED
  BY <1>1, <1>2, TypeCorrect, FlatStep, StopStep, PTL DEF Spec

-----------------------------------------------------------------------------
(* Without the reconciler and the entry sync a closed row stays closed.    *)

\* A row is written only after the worker has created it, so OpTrade is the
\* only step that writes OPEN and it writes it once.
OnceInv ==
  /\ rcPc = "idle"
  /\ \A t \in Trade : syncing[t] = "NONE"
  /\ wk \in {"entered", "stopPlaced", "stopSaved", "targetPlaced", "bracketed"}
       => status[wkT] = "NONE"
  /\ wk = "orphan" => status[wkT] # "NONE"
  /\ \A h \in Handler : wsPc[h] \in {"open", "waiting", "saved"}
                          => status[Owner[wsLeg[h]]] # "NONE"
  /\ \A t \in ksTodo : status[t] # "NONE"
  /\ ksPc = "saving" => status[ksT] # "NONE"

LEMMA OnceStep ==
  ASSUME Active \cap {"cron", "entry"} = {}
  PROVE  TypeOK /\ FlatParts /\ OnceInv /\ [Next]_vars => OnceInv'
<1> SUFFICES ASSUME TypeOK, FlatParts, OnceInv, [Next]_vars PROVE OnceInv'
  OBVIOUS
<1> USE LegAssumption DEF OnceInv, FlatParts, Grounded, TypeOK, ExTypes, DbTypes, WsTypes,
        KsTypes, WkTypes, Status, Closed
<1> USE DEF exVars, dbVars, wsVars, rcVars, ksVars, wkVars, bounds
<1>1. ASSUME NEW l \in Leg, Trigger(l) PROVE OnceInv'
  BY <1>1 DEF Trigger
<1>2. ASSUME NEW l \in Leg, Drop(l) \/ LoseEvent(l) PROVE OnceInv'
  BY <1>2 DEF Drop, LoseEvent
<1>3. ASSUME ManualClose PROVE OnceInv'
  BY <1>3 DEF ManualClose
<1>4. ASSUME NEW h \in Handler, (\E l \in Leg : WsFind(h, l)) \/ WsSave(h)
      PROVE  OnceInv'
  <2>1. ASSUME NEW l \in Leg, WsFind(h, l) PROVE OnceInv'
    BY <2>1 DEF WsFind, WsGo
  <2>2. CASE WsSave(h)
    BY <2>2 DEF WsSave, WsAcquire, WsIdle, WsGo
  <2>3. QED
    BY <1>4, <2>1, <2>2
<1>5. ASSUME NEW h \in Handler, WsRead(h) PROVE OnceInv'
  BY <1>5 DEF WsRead, WsGo, WsRelease, WsIdle
<1>6. ASSUME NEW h \in Handler, WsCancelOpposite(h) PROVE OnceInv'
  BY <1>6 DEF WsCancelOpposite, WsGo
<1>7. ASSUME NEW h \in Handler, WsClose(h) PROVE OnceInv'
  BY <1>7 DEF WsClose, WsGo, ClosedBy
<1>8. ASSUME NEW h \in Handler, WsBook(h) PROVE OnceInv'
  BY <1>8 DEF WsBook, Book, WsRelease, WsIdle, WsGo
<1>9. ASSUME KsActivate PROVE OnceInv'
  BY <1>9 DEF KsActivate
<1>10. ASSUME KsClose PROVE OnceInv'
  BY <1>10 DEF KsClose
<1>11. ASSUME KsRead PROVE OnceInv'
  BY <1>11 DEF KsRead, OpenTrades
<1>12. ASSUME NEW t \in Trade, KsBook(t) PROVE OnceInv'
  BY <1>12 DEF KsBook, Book
<1>13. ASSUME KsSave PROVE OnceInv'
  BY <1>13 DEF KsSave
<1>14. ASSUME KsDone PROVE OnceInv'
  BY <1>14 DEF KsDone
<1>15. ASSUME RkQuery PROVE OnceInv'
  BY <1>15 DEF RkQuery, OpenTrades
<1>16. ASSUME RkFind PROVE OnceInv'
  BY <1>16 DEF RkFind, OpenTrades
<1>17. ASSUME RkOrphan PROVE OnceInv'
  BY <1>17 DEF RkOrphan
<1>18. ASSUME RkReject PROVE OnceInv'
  BY <1>18 DEF RkReject, WkIdle
<1>19. ASSUME NEW t \in Trade, OpEntry(t) PROVE OnceInv'
  BY <1>19 DEF OpEntry, WkIdle
<1>20. ASSUME NEW l \in Leg, OpStop(l) PROVE OnceInv'
  BY <1>20 DEF OpStop
<1>21. ASSUME NEW l \in Leg, OpTarget(l) PROVE OnceInv'
  BY <1>21 DEF OpTarget
<1>22. ASSUME OpSaveRow PROVE OnceInv'
  BY <1>22 DEF OpSaveRow
<1>23. ASSUME OpNoTarget PROVE OnceInv'
  BY <1>23 DEF OpNoTarget
<1>24. ASSUME OpTrade PROVE OnceInv'
  BY <1>24 DEF OpTrade
<1>25. ASSUME OpLink PROVE OnceInv'
  BY <1>25 DEF OpLink, WkIdle
<1>26. ASSUME OpAbort PROVE OnceInv'
  BY <1>26 DEF OpAbort, WkIdle
<1>27. ASSUME Start PROVE OnceInv'
  BY <1>27 DEF Start
<1>28. ASSUME Crash PROVE OnceInv'
  BY <1>28 DEF Crash, RcForget, WkIdle
<1>29. CASE UNCHANGED vars
  BY <1>29 DEF vars
<1>30. ~(RcStart \/ RcStep \/ (\E t \in Trade : WsEntryRead(t) \/ WsEntrySave(t)))
  BY DEF RcStart, RcStep, WsEntryRead, WsEntrySave, RcDone, RcNext,
     RcSkip, RcAbsent, RcFills, RcMark, RcFresh, RcSoftClose,
     RcSoftRefused, RcCancelLegs, RcSave, RcBook, RcCorrect, RcPriceKept,
     RcNoTrail, RcTrailCancel, RcTrailPlace, RcTrailRefused, RcTrailRow,
     RcTrailSave
<1> HIDE DEF OnceInv
<1>31. \A h \in Handler : WsStep(h) => OnceInv'
  BY <1>4, <1>5, <1>6, <1>7, <1>8
     DEF WsStep
<1>32. KsStep => OnceInv'
  BY <1>10, <1>11, <1>12, <1>13, <1>14
     DEF KsStep
<1>33. WkStep => OnceInv'
  BY <1>15, <1>16, <1>17, <1>18, <1>19, <1>20, <1>21, <1>22, <1>23,
     <1>24, <1>25, <1>26
     DEF WkStep
<1>34. QED
  BY <1>1, <1>2, <1>3, <1>9, <1>27, <1>28, <1>29, <1>30, <1>31,
     <1>32, <1>33
     DEF Next

NoReopen == \A t \in Trade : status[t] \in Closed => status'[t] \in Closed

\* No closed row is opened again.
NeverReopened == [][NoReopen]_vars

LEMMA ReopenStep ==
  ASSUME Active \cap {"cron", "entry"} = {}
  PROVE  TypeOK /\ OnceInv /\ [Next]_vars => NoReopen
<1> SUFFICES ASSUME TypeOK, OnceInv, [Next]_vars PROVE NoReopen
  OBVIOUS
<1> USE LegAssumption DEF NoReopen, OnceInv, TypeOK, ExTypes, DbTypes, WsTypes,
        KsTypes, WkTypes, Status, Closed
<1> USE DEF exVars, dbVars, wsVars, rcVars, ksVars, wkVars, bounds
<1>1. ASSUME NEW l \in Leg, Trigger(l) PROVE NoReopen
  BY <1>1 DEF Trigger
<1>2. ASSUME NEW l \in Leg, Drop(l) \/ LoseEvent(l) PROVE NoReopen
  BY <1>2 DEF Drop, LoseEvent
<1>3. ASSUME ManualClose PROVE NoReopen
  BY <1>3 DEF ManualClose
<1>4. ASSUME NEW h \in Handler, (\E l \in Leg : WsFind(h, l)) \/ WsSave(h)
      PROVE  NoReopen
  <2>1. ASSUME NEW l \in Leg, WsFind(h, l) PROVE NoReopen
    BY <2>1 DEF WsFind, WsGo
  <2>2. CASE WsSave(h)
    BY <2>2 DEF WsSave, WsAcquire, WsIdle, WsGo
  <2>3. QED
    BY <1>4, <2>1, <2>2
<1>5. ASSUME NEW h \in Handler, WsRead(h) PROVE NoReopen
  BY <1>5 DEF WsRead, WsGo, WsRelease, WsIdle
<1>6. ASSUME NEW h \in Handler, WsCancelOpposite(h) PROVE NoReopen
  BY <1>6 DEF WsCancelOpposite, WsGo
<1>7. ASSUME NEW h \in Handler, WsClose(h) PROVE NoReopen
  BY <1>7 DEF WsClose, WsGo, ClosedBy
<1>8. ASSUME NEW h \in Handler, WsBook(h) PROVE NoReopen
  BY <1>8 DEF WsBook, Book, WsRelease, WsIdle, WsGo
<1>9. ASSUME KsActivate PROVE NoReopen
  BY <1>9 DEF KsActivate
<1>10. ASSUME KsClose PROVE NoReopen
  BY <1>10 DEF KsClose
<1>11. ASSUME KsRead PROVE NoReopen
  BY <1>11 DEF KsRead, OpenTrades
<1>12. ASSUME NEW t \in Trade, KsBook(t) PROVE NoReopen
  BY <1>12 DEF KsBook, Book
<1>13. ASSUME KsSave PROVE NoReopen
  BY <1>13 DEF KsSave
<1>14. ASSUME KsDone PROVE NoReopen
  BY <1>14 DEF KsDone
<1>15. ASSUME RkQuery PROVE NoReopen
  BY <1>15 DEF RkQuery, OpenTrades
<1>16. ASSUME RkFind PROVE NoReopen
  BY <1>16 DEF RkFind, OpenTrades
<1>17. ASSUME RkOrphan PROVE NoReopen
  BY <1>17 DEF RkOrphan
<1>18. ASSUME RkReject PROVE NoReopen
  BY <1>18 DEF RkReject, WkIdle
<1>19. ASSUME NEW t \in Trade, OpEntry(t) PROVE NoReopen
  BY <1>19 DEF OpEntry, WkIdle
<1>20. ASSUME NEW l \in Leg, OpStop(l) PROVE NoReopen
  BY <1>20 DEF OpStop
<1>21. ASSUME NEW l \in Leg, OpTarget(l) PROVE NoReopen
  BY <1>21 DEF OpTarget
<1>22. ASSUME OpSaveRow PROVE NoReopen
  BY <1>22 DEF OpSaveRow
<1>23. ASSUME OpNoTarget PROVE NoReopen
  BY <1>23 DEF OpNoTarget
<1>24. ASSUME OpTrade PROVE NoReopen
  BY <1>24 DEF OpTrade
<1>25. ASSUME OpLink PROVE NoReopen
  BY <1>25 DEF OpLink, WkIdle
<1>26. ASSUME OpAbort PROVE NoReopen
  BY <1>26 DEF OpAbort, WkIdle
<1>27. ASSUME Start PROVE NoReopen
  BY <1>27 DEF Start
<1>28. ASSUME Crash PROVE NoReopen
  BY <1>28 DEF Crash, RcForget, WkIdle
<1>29. CASE UNCHANGED vars
  BY <1>29 DEF vars
<1>30. ~(RcStart \/ RcStep \/ (\E t \in Trade : WsEntryRead(t) \/ WsEntrySave(t)))
  BY DEF RcStart, RcStep, WsEntryRead, WsEntrySave, RcDone, RcNext,
     RcSkip, RcAbsent, RcFills, RcMark, RcFresh, RcSoftClose,
     RcSoftRefused, RcCancelLegs, RcSave, RcBook, RcCorrect, RcPriceKept,
     RcNoTrail, RcTrailCancel, RcTrailPlace, RcTrailRefused, RcTrailRow,
     RcTrailSave
<1> HIDE DEF NoReopen
<1>31. \A h \in Handler : WsStep(h) => NoReopen
  BY <1>4, <1>5, <1>6, <1>7, <1>8
     DEF WsStep
<1>32. KsStep => NoReopen
  BY <1>10, <1>11, <1>12, <1>13, <1>14
     DEF KsStep
<1>33. WkStep => NoReopen
  BY <1>15, <1>16, <1>17, <1>18, <1>19, <1>20, <1>21, <1>22, <1>23,
     <1>24, <1>25, <1>26
     DEF WkStep
<1>34. QED
  BY <1>1, <1>2, <1>3, <1>9, <1>27, <1>28, <1>29, <1>30, <1>31,
     <1>32, <1>33
     DEF Next

\* The bracket handlers, the kill switch and the zombie check never reopen a
\* closed trade: the reconciler's and the entry sync's stale saves are the only
\* writers that can.
THEOREM ClosedForGood ==
  ASSUME Active \cap {"cron", "entry"} = {}
  PROVE  Spec => NeverReopened
<1>1. Init => FlatParts /\ OnceInv
  BY DEF Init, FlatParts, Grounded, GoneWhereNeeded, Holds, Ended, Closed, Gone, OnceInv
<1>2. QED
  BY <1>1, TypeCorrect, FlatStep, OnceStep, ReopenStep, PTL
     DEF Spec, NeverReopened

-----------------------------------------------------------------------------
(* The handlers, the zombie check and the kill switch implement            *)
(* TradeLedger.                                                            *)

\* A handler that closed the trade finds it closed.  Until the kill switch is
\* pressed, a result is added once: before a handler adds it the trade has no
\* result, and afterwards the trade is not OPEN.
BookInv ==
  /\ ksPc # "idle" => kills > 0
  /\ \A h \in Handler : wsPc[h] = "saved" => status[Owner[wsLeg[h]]] \in Closed
  /\ kills = 0 =>
       /\ \A t \in Trade : booked[t] \in {0, 1} /\ (booked[t] = 1 => status[t] \in Closed)
       /\ \A h \in Handler : wsPc[h] \in {"open", "waiting", "saved"}
                               => booked[Owner[wsLeg[h]]] = 0

LEMMA BookStep ==
  ASSUME Active \subseteq {"ws", "risk", "kill", "drop"}
  PROVE  TypeOK /\ ClosersExclusive /\ OnceInv /\ BookInv /\ [Next]_vars => BookInv'
<1> SUFFICES ASSUME TypeOK, ClosersExclusive, OnceInv, BookInv, [Next]_vars
             PROVE  BookInv'
  OBVIOUS
<1> USE LegAssumption DEF BookInv, OnceInv, ClosersExclusive, Holds, TypeOK, ExTypes, DbTypes,
        WsTypes, KsTypes, WkTypes, Status, Closed
<1> USE DEF exVars, dbVars, wsVars, rcVars, ksVars, wkVars, bounds
<1>1. ASSUME NEW l \in Leg, Trigger(l) PROVE BookInv'
  BY <1>1 DEF Trigger
<1>2. ASSUME NEW l \in Leg, Drop(l) \/ LoseEvent(l) PROVE BookInv'
  BY <1>2 DEF Drop, LoseEvent
<1>3. ASSUME ManualClose PROVE BookInv'
  BY <1>3 DEF ManualClose
<1>4. ASSUME NEW h \in Handler, (\E l \in Leg : WsFind(h, l)) \/ WsSave(h)
      PROVE  BookInv'
  <2>1. ASSUME NEW l \in Leg, WsFind(h, l) PROVE BookInv'
    BY <2>1 DEF WsFind, WsGo
  <2>2. CASE WsSave(h)
    BY <2>2 DEF WsSave, WsAcquire, WsIdle, WsGo
  <2>3. QED
    BY <1>4, <2>1, <2>2
<1>5. ASSUME NEW h \in Handler, WsRead(h) PROVE BookInv'
  BY <1>5 DEF WsRead, WsGo, WsRelease, WsIdle
<1>6. ASSUME NEW h \in Handler, WsCancelOpposite(h) PROVE BookInv'
  BY <1>6 DEF WsCancelOpposite, WsGo
<1>7. ASSUME NEW h \in Handler, WsClose(h) PROVE BookInv'
  BY <1>7 DEF WsClose, WsGo, ClosedBy
<1>8. ASSUME NEW h \in Handler, WsBook(h) PROVE BookInv'
  BY <1>8 DEF WsBook, Book, WsRelease, WsIdle, WsGo
<1>9. ASSUME RkQuery PROVE BookInv'
  BY <1>9 DEF RkQuery, OpenTrades
<1>10. ASSUME RkFind PROVE BookInv'
  BY <1>10 DEF RkFind, OpenTrades
<1>11. ASSUME RkOrphan PROVE BookInv'
  BY <1>11 DEF RkOrphan
<1>12. ASSUME RkReject PROVE BookInv'
  BY <1>12 DEF RkReject, WkIdle
<1>13. ASSUME NEW t \in Trade, OpEntry(t) PROVE BookInv'
  BY <1>13 DEF OpEntry, WkIdle
<1>14. ASSUME NEW l \in Leg, OpStop(l) PROVE BookInv'
  BY <1>14 DEF OpStop
<1>15. ASSUME NEW l \in Leg, OpTarget(l) PROVE BookInv'
  BY <1>15 DEF OpTarget
<1>16. ASSUME OpSaveRow PROVE BookInv'
  BY <1>16 DEF OpSaveRow
<1>17. ASSUME OpNoTarget PROVE BookInv'
  BY <1>17 DEF OpNoTarget
<1>18. ASSUME OpTrade PROVE BookInv'
  BY <1>18 DEF OpTrade
<1>19. ASSUME OpLink PROVE BookInv'
  BY <1>19 DEF OpLink, WkIdle
<1>20. ASSUME OpAbort PROVE BookInv'
  BY <1>20 DEF OpAbort, WkIdle
<1>21. ASSUME Start PROVE BookInv'
  BY <1>21 DEF Start
<1>22. ASSUME Crash PROVE BookInv'
  BY <1>22 DEF Crash, RcForget, WkIdle
<1>23. CASE UNCHANGED vars
  BY <1>23 DEF vars
<1>24. ~(RcStart \/ RcStep \/ (\E t \in Trade : WsEntryRead(t) \/ WsEntrySave(t)))
  BY DEF RcStart, RcStep, WsEntryRead, WsEntrySave, RcDone, RcNext, RcSkip, RcAbsent,
     RcFills, RcMark, RcFresh, RcSoftClose, RcSoftRefused, RcCancelLegs, RcSave,
     RcBook, RcCorrect, RcPriceKept, RcNoTrail, RcTrailCancel, RcTrailPlace,
     RcTrailRefused, RcTrailRow, RcTrailSave
<1>25. ASSUME KsActivate PROVE BookInv'
  <2>1. kills' > 0
    BY <1>25 DEF KsActivate
  <2>2. QED
    BY <1>25, <2>1 DEF KsActivate
<1>26. ASSUME KsClose \/ KsRead \/ KsDone PROVE BookInv'
  BY <1>26 DEF KsClose, KsRead, KsDone
<1>27. ASSUME NEW t \in Trade, KsBook(t) PROVE BookInv'
  BY <1>27 DEF KsBook, Book
<1>28. ASSUME KsSave PROVE BookInv'
  BY <1>28 DEF KsSave
<1> HIDE DEF BookInv
<1>29. \A h \in Handler : WsStep(h) => BookInv'
  BY <1>4, <1>5, <1>6, <1>7, <1>8
     DEF WsStep
<1>30. WkStep => BookInv'
  BY <1>9, <1>10, <1>11, <1>12, <1>13, <1>14, <1>15, <1>16, <1>17,
     <1>18, <1>19, <1>20
     DEF WkStep
<1>31. KsStep => BookInv'
  BY <1>26, <1>27, <1>28 DEF KsStep
<1>32. QED
  BY <1>1, <1>2, <1>3, <1>21, <1>22, <1>23, <1>24, <1>25, <1>29, <1>30, <1>31
     DEF Next

\* A step that leaves position, entries and results alone, and no row between
\* NONE, OPEN and closed, is no step of the ledger.
LEMMA LedgerStutter ==
  ASSUME TypeOK, UNCHANGED <<pos, entered, booked, kills>>, Phase' = Phase
  PROVE  UNCHANGED Ledger!vars
BY DEF Ledger!vars

LEMMA LedgerStep ==
  ASSUME Active \subseteq {"ws", "risk", "kill", "drop"}
  PROVE  TypeOK /\ FlatParts /\ OnceInv /\ BookInv /\ [Next]_vars
           => [Ledger!Next]_(Ledger!vars)
<1> SUFFICES ASSUME TypeOK, FlatParts, OnceInv, BookInv, [Next]_vars
             PROVE  Ledger!Next \/ UNCHANGED Ledger!vars
  OBVIOUS
<1> USE LegAssumption DEF TypeOK, ExTypes, DbTypes, WsTypes, KsTypes, WkTypes
<1> USE DEF exVars, dbVars, wsVars, rcVars, ksVars, wkVars, bounds
<1>1. ASSUME NEW gone \in SUBSET Trade, gone # {}, gone \subseteq pos,
             pos' = pos \ gone, UNCHANGED <<entered, status, booked, kills>>
      PROVE  Ledger!Next
  <2>1. Ledger!Exit(gone)
    BY <1>1 DEF Ledger!Exit, Phase
  <2>2. QED
    BY <2>1 DEF Ledger!Next
<1>2. ASSUME NEW l \in Leg, Trigger(l) PROVE Ledger!Next
  <2>1. PICK t \in pos : pos' = pos \ {t}
    BY <1>2 DEF Trigger
  <2>2. {t} \in SUBSET Trade /\ {t} # {} /\ {t} \subseteq pos
    BY <2>1
  <2>3. UNCHANGED <<entered, status, booked, kills>>
    BY <1>2 DEF Trigger
  <2>4. QED
    BY <1>1, <2>1, <2>2, <2>3
<1>3. CASE ManualClose
  BY <1>1, <1>3 DEF ManualClose
<1>4. ASSUME NEW t \in Trade, OpEntry(t) PROVE Ledger!Next
  <2>1. Ledger!Enter(t)
    BY <1>4 DEF OpEntry, Ledger!Enter, Phase
  <2>2. QED
    BY <2>1 DEF Ledger!Next
<1>5. CASE OpTrade
  <2>1. wkT \in entered /\ status[wkT] = "NONE" /\ wkT \in Trade
    BY <1>5 DEF OpTrade, FlatParts, Grounded, OnceInv
  <2>2. Phase' = [Phase EXCEPT ![wkT] = "open"]
    <3>1. status' = [status EXCEPT ![wkT] = "OPEN"]
      BY <1>5 DEF OpTrade
    <3>2. QED
      BY <2>1, <3>1 DEF Phase
  <2>3. Ledger!Record(wkT)
    BY <1>5, <2>1, <2>2 DEF OpTrade, Ledger!Record, Phase
  <2>4. QED
    BY <2>1, <2>3 DEF Ledger!Next
<1>6. ASSUME NEW t \in Trade, NEW s \in Closed, t \notin pos \/ kills > 0,
             status[t] # "NONE", status' = [status EXCEPT ![t] = s],
             UNCHANGED <<pos, entered, booked, kills>>
      PROVE  Ledger!Next \/ UNCHANGED Ledger!vars
  <2>1. s # "NONE" /\ s # "OPEN"
    BY DEF Closed
  <2>2. Phase' = [Phase EXCEPT ![t] = "closed"]
    BY <1>6, <2>1 DEF Phase
  <2>3. CASE status[t] = "OPEN"
    <3>1. Ledger!Close(t) \/ Ledger!Mark(t)
      BY <1>6, <2>2, <2>3 DEF Ledger!Close, Ledger!Mark, Phase
    <3>2. QED
      BY <3>1 DEF Ledger!Next
  <2>4. CASE status[t] # "OPEN"
    <3>1. Phase' = Phase
      BY <1>6, <2>2, <2>4 DEF Phase
    <3>2. QED
      BY <1>6, <3>1, LedgerStutter
  <2>5. QED
    BY <2>3, <2>4
<1>7. ASSUME NEW h \in Handler, WsClose(h)
      PROVE  Ledger!Next \/ UNCHANGED Ledger!vars
  <2>1. /\ Owner[wsLeg[h]] \in Trade /\ Owner[wsLeg[h]] \notin pos
        /\ status[Owner[wsLeg[h]]] # "NONE"
    BY <1>7 DEF WsClose, FlatParts, GoneWhereNeeded, Gone, Holds, OnceInv
  <2>2. ClosedBy(wsLeg[h]) \in Closed
    BY DEF ClosedBy, Closed
  <2>3. QED
    BY <1>6, <1>7, <2>1, <2>2 DEF WsClose
<1>8. CASE RkOrphan
  <2>1. wkT \in Trade /\ wkT \notin pos /\ status[wkT] # "NONE"
    BY <1>8 DEF RkOrphan, FlatParts, GoneWhereNeeded, OnceInv
  <2>2. QED
    BY <1>6, <1>8, <2>1 DEF RkOrphan, Closed
<1>9. ASSUME NEW t \in Trade, Book(t), UNCHANGED <<pos, entered, status, kills>>,
             \/ kills > 0 /\ status[t] # "NONE"
             \/ status[t] \in Closed /\ booked[t] = 0
      PROVE  Ledger!Next \/ UNCHANGED Ledger!vars
  <2>1. Phase' = Phase
    BY <1>9 DEF Phase
  <2>2. CASE booked[t] = 2
    <3>1. booked' = booked
      BY <1>9, <2>2 DEF Book
    <3>2. QED
      BY <1>9, <2>1, <3>1, LedgerStutter
  <2>3. CASE booked[t] # 2 /\ kills > 0 /\ status[t] # "NONE"
    <3>1. booked' = [booked EXCEPT ![t] = @ + 1]
      BY <1>9, <2>3 DEF Book
    <3>2. Ledger!BookAgain(t)
      BY <1>9, <2>1, <2>3, <3>1 DEF Ledger!BookAgain, Phase
    <3>3. QED
      BY <3>2 DEF Ledger!Next
  <2>4. CASE status[t] \in Closed /\ booked[t] = 0
    <3>1. booked' = [booked EXCEPT ![t] = 1]
      BY <1>9, <2>4 DEF Book
    <3>2. Ledger!Book(t)
      BY <1>9, <2>1, <2>4, <3>1 DEF Ledger!Book, Phase, Closed
    <3>3. QED
      BY <3>2 DEF Ledger!Next
  <2>5. QED
    BY <1>9, <2>2, <2>3, <2>4
<1>10. ASSUME UNCHANGED <<pos, entered, status, booked, kills>>
       PROVE  UNCHANGED Ledger!vars
  BY <1>10, LedgerStutter DEF Phase
<1>11. ASSUME NEW h \in Handler,
              WsRead(h) \/ WsCancelOpposite(h) \/ WsSave(h) \/ (\E l \in Leg : WsFind(h, l))
       PROVE  UNCHANGED Ledger!vars
  BY <1>10, <1>11 DEF WsRead, WsCancelOpposite, WsSave, WsFind
<1>12. ASSUME NEW h \in Handler, WsBook(h)
       PROVE  Ledger!Next \/ UNCHANGED Ledger!vars
  <2> DEFINE t == Owner[wsLeg[h]]
  <2>1. t \in Trade /\ status[t] \in Closed /\ (kills > 0 \/ booked[t] = 0)
    BY <1>12 DEF WsBook, BookInv
  <2>2. status[t] # "NONE"
    BY <2>1 DEF Closed
  <2>3. QED
    BY <1>9, <1>12, <2>1, <2>2 DEF WsBook
<1>13. CASE (\E l \in Leg : Drop(l) \/ LoseEvent(l) \/ OpStop(l) \/ OpTarget(l))
            \/ Start \/ Crash
            \/ RkQuery \/ RkFind \/ RkReject \/ OpSaveRow \/ OpNoTarget \/ OpLink
            \/ OpAbort \/ KsRead \/ KsDone \/ UNCHANGED vars
  BY <1>10, <1>13 DEF Drop, LoseEvent, OpStop, OpTarget, Start, Crash, RkQuery, RkFind,
     RkReject, OpSaveRow, OpNoTarget, OpLink, OpAbort, KsRead, KsDone, vars
<1>14. CASE KsActivate
  <2>1. kills' > 0 /\ Phase' = Phase /\ UNCHANGED <<pos, entered, booked>>
    BY <1>14 DEF KsActivate, Phase
  <2>2. Ledger!Alarm
    BY <2>1 DEF Ledger!Alarm
  <2>3. QED
    BY <2>2 DEF Ledger!Next
<1>15. CASE KsClose
  <2>1. UNCHANGED <<entered, status, booked, kills>>
    BY <1>15 DEF KsClose
  <2>2. CASE pos' = pos
    BY <1>10, <2>1, <2>2
  <2>3. CASE pos # {} /\ pos' = {}
    BY <1>1, <2>1, <2>3
  <2>4. QED
    BY <1>15, <2>2, <2>3 DEF KsClose
<1>16. ASSUME NEW t \in Trade, KsBook(t)
       PROVE  Ledger!Next \/ UNCHANGED Ledger!vars
  <2>1. kills > 0 /\ status[t] # "NONE"
    BY <1>16 DEF KsBook, BookInv, OnceInv
  <2>2. QED
    BY <1>9, <1>10, <1>16, <2>1 DEF KsBook
<1>17. CASE KsSave
  <2>1. kills > 0 /\ ksT \in Trade /\ status[ksT] # "NONE"
    BY <1>17 DEF KsSave, BookInv, OnceInv
  <2>2. QED
    BY <1>6, <1>17, <2>1 DEF KsSave, Closed
<1>18. ~(RcStart \/ RcStep \/ (\E t \in Trade : WsEntryRead(t) \/ WsEntrySave(t)))
  BY DEF RcStart, RcStep, WsEntryRead, WsEntrySave, RcDone, RcNext, RcSkip, RcAbsent,
     RcFills, RcMark, RcFresh, RcSoftClose, RcSoftRefused, RcCancelLegs, RcSave,
     RcBook, RcCorrect, RcPriceKept, RcNoTrail, RcTrailCancel, RcTrailPlace,
     RcTrailRefused, RcTrailRow, RcTrailSave, OnceInv
<1>19. QED
  BY <1>2, <1>3, <1>4, <1>5, <1>7, <1>8, <1>11, <1>12, <1>13, <1>14, <1>15, <1>16,
     <1>17, <1>18 DEF Next, WsStep, WkStep, KsStep

\* Handlers, zombie check, kill switch and worker together keep the ledger: every
\* row is created once and never reopened; until the kill switch is pressed it is
\* closed only when the position is gone and its result is added to the day at
\* most once, across restarts and duplicates.
THEOREM LedgerImplemented ==
  ASSUME Active \subseteq {"ws", "risk", "kill", "drop"}
  PROVE  Spec => ImplementsLedger
<1>1. Init => Ledger!Init
  BY DEF Init, Ledger!Init, Phase
<1>2. Init => FlatParts /\ OnceInv /\ BookInv
  BY DEF Init, FlatParts, Grounded, GoneWhereNeeded, Holds, Ended, Closed, Gone, OnceInv,
     BookInv
<1>3. Active \cap {"cron", "entry"} = {}
  OBVIOUS
<1>4. QED
  BY <1>1, <1>2, <1>3, TypeCorrect, ExclusiveClosers, FlatStep, OnceStep, BookStep,
     LedgerStep, PTL DEF Spec, ImplementsLedger, Ledger!Spec
=============================================================================
