------------------------ MODULE MarketDataPortProofs ------------------------
(***************************************************************************)
(* The reconnect machinery of both market streams and of the port that     *)
(* binds one of them, for every number of symbols, streams, failures,      *)
(* calls and outages.                                                      *)
(*                                                                         *)
(* Bybit's argument counts what may still make a socket.  A call of        *)
(* subscribe() adds one: a live socket.  A live socket that closes turns   *)
(* into a timer, a timer that fires into a live socket.  So the timers and *)
(* the live socket together never exceed the calls, and what a data gap    *)
(* can cost is the failures that are counted plus the calls.  Binance's    *)
(* subscribe() clears the timer, so there is one timer at most, and only   *)
(* without a connection.                                                   *)
(***************************************************************************)
EXTENDS MarketDataPort, TLAPS

-----------------------------------------------------------------------------
(* Bybit.                                                                  *)

Pending == (IF held THEN 1 ELSE 0) + orphans
Live == IF ws \in {"connecting", "open", "closing"} THEN 1 ELSE 0

Counters ==
  /\ attempts \in 0..MaxFails /\ tries \in Nat /\ calls \in Nat
  /\ held \in BOOLEAN /\ orphans \in Nat
  /\ ws \in {"null", "connecting", "open", "closing", "closed"}

\* p timers, l live sockets, t tries, a failures, c calls.
BudgetOf(p, l, t, a, c) == p + l <= c /\ t + p <= a + c
Budget == BudgetOf(Pending, Live, tries, attempts, calls)

Inv == Counters /\ Budget

LEMMA PendingType ==
  ASSUME held \in BOOLEAN, orphans \in Nat
  PROVE  Pending \in Nat /\ Live \in 0..1
  BY DEF Pending, Live

\* k timers are pending when scheduleReconnect is called.
LEMMA ScheduleBudget ==
  ASSUME Counters, NEW h \in BOOLEAN, NEW o \in Nat, NEW k \in Nat,
         k = (IF h THEN 1 ELSE 0) + o, Schedule(h, o)
  PROVE  /\ attempts' \in 0..MaxFails /\ held' \in BOOLEAN /\ orphans' \in Nat
         /\ Pending' \in Nat
         /\ Pending' - attempts' <= k - attempts
         /\ Pending' <= k + 1
<1>1. CASE attempts >= MaxFails
  BY <1>1, StreamAssumption, SMT DEF Counters, Schedule, Pending
<1>2. CASE ~(attempts >= MaxFails)
  BY <1>2, StreamAssumption, SMT DEF Counters, Schedule, Pending
<1> QED
  BY <1>1, <1>2

\* The arithmetic of a call, of a timer that fires and of a socket that closes.
LEMMA CallArithmetic ==
  ASSUME NEW p \in Nat, NEW l \in 0..1, NEW k \in Nat, NEW p2 \in Nat, NEW l2 \in 0..1,
         NEW a \in Nat, NEW a2 \in Nat, NEW t \in Nat, NEW c \in Nat,
         BudgetOf(p, l, t, a, c), p2 - a2 <= k - a, p2 + l2 <= k + 1, k <= p
  PROVE  BudgetOf(p2, l2, t + 1, a2, c + 1)
  BY SMT DEF BudgetOf

LEMMA FireArithmetic ==
  ASSUME NEW p \in Nat, NEW l \in 0..1, NEW k \in Nat, NEW p2 \in Nat, NEW l2 \in 0..1,
         NEW a \in Nat, NEW a2 \in Nat, NEW t \in Nat, NEW c \in Nat,
         BudgetOf(p, l, t, a, c), p2 - a2 <= k - a, p2 + l2 <= k + 1, p = k + 1
  PROVE  BudgetOf(p2, l2, t + 1, a2, c)
  BY SMT DEF BudgetOf

LEMMA CloseArithmetic ==
  ASSUME NEW p \in Nat, NEW p2 \in Nat,
         NEW a \in Nat, NEW a2 \in Nat, NEW t \in Nat, NEW c \in Nat,
         BudgetOf(p, 1, t, a, c), p2 - a2 <= p - a, p2 <= p + 1
  PROVE  BudgetOf(p2, 0, t, a2, c)
  BY SMT DEF BudgetOf

LEMMA AddLive ==
  ASSUME NEW p2 \in Nat, NEW k \in Nat, NEW l2, p2 <= k + 1, l2 = 0
  PROVE  p2 + l2 <= k + 1 /\ l2 \in 0..1
  BY SMT

\* A socket or a timer comes out of connect(), and a try is spent.
LEMMA ConnectBudget ==
  ASSUME Counters, NEW h \in BOOLEAN, NEW o \in Nat, NEW k \in Nat,
         k = (IF h THEN 1 ELSE 0) + o, Connect(h, o)
  PROVE  /\ attempts' \in 0..MaxFails /\ held' \in BOOLEAN /\ orphans' \in Nat
         /\ ws' \in {"null", "connecting"} /\ tries' = tries + 1
         /\ Pending' \in Nat /\ Live' \in 0..1
         /\ Pending' - attempts' <= k - attempts
         /\ Pending' + Live' <= k + 1
<1>1. tries' = tries + 1
  BY DEF Connect
<1>2. CASE /\ ws' = "connecting" /\ held' = h /\ orphans' = o
           /\ circuitOpen' = FALSE /\ UNCHANGED attempts
  <2>1. Pending' = k
    BY <1>2 DEF Pending
  <2>2. Live' = 1
    BY <1>2 DEF Live
  <2> QED
    BY <1>1, <1>2, <2>1, <2>2, SMT DEF Counters
<1>3. CASE ws' = "null" /\ Schedule(h, o)
  <2>1. /\ attempts' \in 0..MaxFails /\ held' \in BOOLEAN /\ orphans' \in Nat
        /\ Pending' \in Nat /\ Pending' - attempts' <= k - attempts
        /\ Pending' <= k + 1
    BY <1>3, ScheduleBudget
  <2>2. Live' = 0
    BY <1>3 DEF Live
  <2>3. Pending' + Live' <= k + 1 /\ Live' \in 0..1
    BY <2>1, <2>2, AddLive
  <2> QED
    BY <1>1, <1>3, <2>1, <2>3, Zenon
<1> QED
  BY <1>2, <1>3 DEF Connect

LEMMA InitBudget == Init => Inv
<1> SUFFICES ASSUME Init PROVE Inv
  OBVIOUS
<1>1. Counters
  <2>1. held \in BOOLEAN
    BY DEF Init
  <2> QED
    BY <2>1, StreamAssumption, SMT DEF Init, Counters
<1>2. Pending = 0 /\ Live = 0
  BY DEF Init, Pending, Live
<1> QED
  BY <1>1, <1>2, SMT DEF Init, Inv, Budget, BudgetOf

LEMMA StepBudget == Inv /\ [Next]_vars => Inv'
<1> SUFFICES ASSUME Inv, [Next]_vars PROVE Inv'
  OBVIOUS
<1> USE DEF Inv, NoBound, Call, Outage
<1>1. ASSUME NEW s \in Symbol, NEW i \in Interval, SubscribeAgain(s, i) PROVE Inv'
  BY <1>1, SMT DEF SubscribeAgain, timers, Counters, Budget, BudgetOf, Pending, Live
<1>2. ASSUME NEW s \in Symbol, NEW i \in Interval, SubscribeMore(s, i) PROVE Inv'
  BY <1>2, SMT DEF SubscribeMore, timers, Counters, Budget, BudgetOf, Pending, Live
<1>3. ASSUME NEW s \in Symbol, NEW i \in Interval, SubscribeConnect(s, i) PROVE Inv'
  <2> DEFINE h == held /\ ~(interval # NoInterval /\ interval # i)
  <2>1. h \in BOOLEAN /\ orphans \in Nat /\ held \in BOOLEAN
    BY DEF Counters
  <2>2. Connect(h, orphans) /\ calls' = calls + 1
    BY <1>3 DEF SubscribeConnect
  <2>3. PICK k \in Nat : k = (IF h THEN 1 ELSE 0) + orphans
    BY <2>1
  <2>4. k <= Pending
    BY <2>1, <2>3, SMT DEF Pending
  <2> HIDE DEF h
  <2>5. /\ attempts' \in 0..MaxFails /\ held' \in BOOLEAN /\ orphans' \in Nat
        /\ ws' \in {"null", "connecting"} /\ tries' = tries + 1
        /\ Pending' \in Nat /\ Live' \in 0..1
        /\ Pending' - attempts' <= k - attempts
        /\ Pending' + Live' <= k + 1
    BY <2>1, <2>2, <2>3, ConnectBudget
  <2>6. Pending \in Nat /\ Live \in 0..1
    BY <2>1, PendingType
  <2>7. Counters'
    BY <2>2, <2>5, SMT DEF Counters
  <2>8. Budget'
    <3>1. attempts \in Nat /\ attempts' \in Nat /\ calls \in Nat /\ tries \in Nat
      BY <2>5, StreamAssumption, SMT DEF Counters
    <3>2. BudgetOf(Pending', Live', tries + 1, attempts', calls + 1)
      BY <3>1, <2>3, <2>4, <2>5, <2>6, CallArithmetic DEF Budget
    <3> QED
      BY <3>2, <2>2, <2>5, Zenon DEF Budget
  <2> QED
    BY <2>7, <2>8
<1>4. ASSUME Unsubscribe PROVE Inv'
  <2>1. /\ held' = FALSE /\ ws' = "null" /\ calls' = calls + 1
        /\ UNCHANGED <<attempts, orphans, tries>>
    BY <1>4 DEF Unsubscribe
  <2>2. Pending' = orphans /\ Live' = 0 /\ orphans <= Pending
    BY <2>1, SMT DEF Pending, Live, Counters
  <2>3. Pending \in Nat /\ Live \in 0..1
    BY PendingType DEF Counters
  <2>4. Counters'
    <3>1. held' \in BOOLEAN
      BY <2>1
    <3> QED
      BY <2>1, <3>1, SMT DEF Counters
  <2>5. attempts \in Nat /\ calls \in Nat /\ tries \in Nat /\ orphans \in Nat
    BY StreamAssumption, SMT DEF Counters
  <2>6. Budget'
    BY <2>1, <2>2, <2>3, <2>5, SMT DEF Budget, BudgetOf
  <2> QED
    BY <2>4, <2>6
<1>5. ASSUME NEW own \in BOOLEAN, Fire(own) PROVE Inv'
  <2> DEFINE h == ~own /\ held
             o == IF own THEN orphans ELSE orphans - 1
             k == Pending - 1
  <2>1. h \in BOOLEAN /\ o \in Nat /\ UNCHANGED calls
    BY <1>5, SMT DEF Fire, Counters
  <2>2. k = (IF h THEN 1 ELSE 0) + o /\ k \in Nat
    BY <1>5, SMT DEF Fire, Pending, Counters
  <2>3. Pending = k + 1 /\ Pending \in Nat /\ Live \in 0..1
    BY PendingType DEF Counters
  <2>4. CASE destroyed \/ circuitOpen \/ subscribed = {}
    <3>1. held' = h /\ orphans' = o /\ UNCHANGED <<attempts, ws, tries>>
      BY <1>5, <2>4 DEF Fire
    <3>2. Pending' = k /\ Live' = Live
      BY <2>2, <3>1 DEF Pending, Live
    <3> HIDE DEF h, o, k
    <3>3. Counters'
      BY <2>1, <3>1, SMT DEF Counters
    <3> QED
      BY <2>1, <2>2, <2>3, <3>1, <3>2, <3>3, SMT DEF Budget, BudgetOf, Counters
  <2>5. CASE ~(destroyed \/ circuitOpen \/ subscribed = {})
    <3>1. Connect(h, o)
      BY <1>5, <2>5 DEF Fire
    <3> HIDE DEF h, o, k
    <3>2. /\ attempts' \in 0..MaxFails /\ held' \in BOOLEAN /\ orphans' \in Nat
          /\ ws' \in {"null", "connecting"} /\ tries' = tries + 1
          /\ Pending' \in Nat /\ Live' \in 0..1
          /\ Pending' - attempts' <= k - attempts
          /\ Pending' + Live' <= k + 1
      BY <2>1, <2>2, <3>1, ConnectBudget
    <3>3. Counters'
      BY <2>1, <3>2, SMT DEF Counters
    <3>4. attempts \in Nat /\ attempts' \in Nat /\ calls \in Nat /\ tries \in Nat
      BY <3>2, StreamAssumption, SMT DEF Counters
    <3>5. BudgetOf(Pending', Live', tries + 1, attempts', calls)
      BY <3>2, <3>4, <2>2, <2>3, FireArithmetic DEF Budget
    <3>6. Budget'
      BY <3>5, <3>2, <2>1, Zenon DEF Budget
    <3> QED
      BY <3>3, <3>6
  <2> QED
    BY <2>4, <2>5
<1>6. ASSUME Opened PROVE Inv'
  BY <1>6, SMT DEF Opened, timers, Counters, Budget, BudgetOf, Pending, Live
<1>7. ASSUME NEW req \in requests, NEW ok \in BOOLEAN, Ack(req, ok) PROVE Inv'
  BY <1>7, SMT DEF Ack, timers, Counters, Budget, BudgetOf, Pending, Live
<1>8. ASSUME Kline PROVE Inv'
  BY <1>8, StreamAssumption, SMT DEF Kline, timers, Counters, Budget, BudgetOf, Pending,
                                     Live
<1>9. ASSUME Silence PROVE Inv'
  BY <1>9, SMT DEF Silence, timers, Counters, Budget, BudgetOf, Pending, Live
<1>10. ASSUME HealthCheck PROVE Inv'
  BY <1>10, SMT DEF HealthCheck, timers, Counters, Budget, BudgetOf, Pending, Live
<1>11. ASSUME Closed PROVE Inv'
  <2>1. ws' = "closed" /\ Live = 1 /\ Live' = 0 /\ UNCHANGED <<tries, calls>>
    BY <1>11 DEF Closed, Live
  <2>2. CASE destroyed \/ subscribed = {}
    BY <1>11, <2>1, <2>2, SMT DEF Closed, timers, Counters, Budget, BudgetOf, Pending
  <2>3. CASE ~(destroyed \/ subscribed = {})
    <3>1. Schedule(held, orphans)
      BY <1>11, <2>3 DEF Closed
    <3>2. Pending \in Nat /\ Pending = (IF held THEN 1 ELSE 0) + orphans
      BY PendingType DEF Counters, Pending
    <3>3. /\ attempts' \in 0..MaxFails /\ held' \in BOOLEAN /\ orphans' \in Nat
          /\ Pending' \in Nat /\ Pending' - attempts' <= Pending - attempts
          /\ Pending' <= Pending + 1
      BY <3>1, <3>2, ScheduleBudget DEF Counters
    <3>4. attempts \in Nat /\ attempts' \in Nat /\ calls \in Nat /\ tries \in Nat
      BY <3>3, StreamAssumption, SMT DEF Counters
    <3>5. Budget'
      <4>1. BudgetOf(Pending, 1, tries, attempts, calls)
        BY <2>1, Zenon DEF Budget
      <4>2. BudgetOf(Pending', 0, tries, attempts', calls)
        BY <4>1, <3>2, <3>3, <3>4, CloseArithmetic
      <4> QED
        BY <4>2, <2>1, Zenon DEF Budget
    <3>6. Counters'
      BY <2>1, <3>3, SMT DEF Counters
    <3> QED
      BY <3>5, <3>6
  <2> QED
    BY <2>2, <2>3
<1>12. ASSUME Die \/ FallSilent PROVE Inv'
  BY <1>12, SMT DEF Die, FallSilent, timers, Counters, Budget, BudgetOf, Pending, Live
<1>13. ASSUME UNCHANGED vars PROVE Inv'
  BY <1>13, SMT DEF vars, timers, Counters, Budget, BudgetOf, Pending, Live
<1> HIDE DEF Inv, NoBound, Call, Outage
<1> QED
  BY <1>1, <1>2, <1>3, <1>4, <1>5, <1>6, <1>7, <1>8, <1>9, <1>10, <1>11, <1>12,
     <1>13, Zenon DEF Next

LEMMA InvBounds == Inv => NoHammering
<1> SUFFICES ASSUME Inv PROVE NoHammering
    OBVIOUS
<1>1. Pending \in Nat
  BY PendingType DEF Inv, Counters
<1> QED
  BY <1>1, StreamAssumption, SMT DEF Inv, Counters, Budget, BudgetOf, NoHammering

\* Without a kline, the stream makes at most MaxFails sockets on its own.
THEOREM BoundedTries == Spec => []NoHammering
  BY InvBounds, InitBudget, StepBudget, PTL DEF Spec

-----------------------------------------------------------------------------
(* Nothing is left without a way back.                                     *)

WayInv ==
  /\ NeverWedged
  /\ CircuitHolds
  /\ ws # "null" => Wanted

LEMMA ScheduleWay ==
  ASSUME NEW h \in BOOLEAN, NEW o \in Nat, Schedule(h, o)
  PROVE  held' \/ circuitOpen'
<1>1. CASE attempts >= MaxFails
  BY <1>1 DEF Schedule
<1>2. CASE ~(attempts >= MaxFails)
  BY <1>2 DEF Schedule
<1> QED
  BY <1>1, <1>2

LEMMA ConnectWay ==
  ASSUME NEW h \in BOOLEAN, NEW o \in Nat, Connect(h, o)
  PROVE  /\ ws' \in {"null", "connecting"}
         /\ ws' = "connecting" \/ held' \/ circuitOpen'
         /\ circuitOpen' => ws' = "null"
<1>1. CASE ws' = "connecting" /\ circuitOpen' = FALSE
  BY <1>1
<1>2. CASE ws' = "null" /\ Schedule(h, o)
  BY <1>2, ScheduleWay
<1> QED
  BY <1>1, <1>2, Zenon DEF Connect

LEMMA StepWay == Inv /\ WayInv /\ [Next]_vars => WayInv'
<1> SUFFICES ASSUME Inv, WayInv, [Next]_vars PROVE WayInv'
  OBVIOUS
<1> USE DEF WayInv, NeverWedged, CircuitHolds, Wanted
<1>0. held \in BOOLEAN /\ orphans \in Nat
  BY DEF Inv, Counters
<1>1. ASSUME NEW s \in Symbol, NEW i \in Interval, SubscribeAgain(s, i) PROVE WayInv'
  BY <1>1, Zenon DEF SubscribeAgain, wanted, timers
<1>2. ASSUME NEW s \in Symbol, NEW i \in Interval, SubscribeMore(s, i) PROVE WayInv'
  <2>1. /\ UNCHANGED <<destroyed, circuitOpen, timers, ws>> /\ subscribed' # {}
        /\ ws = "open"
    BY <1>2, Zenon DEF SubscribeMore
  <2> QED
    BY <2>1, Zenon DEF timers
<1>3. ASSUME NEW s \in Symbol, NEW i \in Interval, SubscribeConnect(s, i) PROVE WayInv'
  <2> DEFINE h == held /\ ~(interval # NoInterval /\ interval # i)
  <2>1. h \in BOOLEAN
    OBVIOUS
  <2>2. Connect(h, orphans) /\ destroyed' = FALSE
    BY <1>3 DEF SubscribeConnect
  <2>3. subscribed' # {}
    BY <1>3, Zenon DEF SubscribeConnect
  <2> HIDE DEF h
  <2>4. /\ ws' \in {"null", "connecting"}
        /\ ws' = "connecting" \/ held' \/ circuitOpen'
        /\ circuitOpen' => ws' = "null"
    BY <1>0, <2>1, <2>2, ConnectWay
  <2> QED
    BY <2>2, <2>3, <2>4, Zenon
<1>4. ASSUME Unsubscribe PROVE WayInv'
  BY <1>4, Zenon DEF Unsubscribe
<1>5. ASSUME NEW own \in BOOLEAN, Fire(own) PROVE WayInv'
  <2> DEFINE h == ~own /\ held
             o == IF own THEN orphans ELSE orphans - 1
  <2>1. h \in BOOLEAN /\ o \in Nat /\ UNCHANGED wanted
    BY <1>0, <1>5, SMT DEF Fire
  <2>2. CASE destroyed \/ circuitOpen \/ subscribed = {}
    <3>1. UNCHANGED <<circuitOpen, ws>>
      BY <1>5, <2>2 DEF Fire
    <3> QED
      BY <2>1, <2>2, <3>1, Zenon DEF wanted
  <2>3. CASE ~(destroyed \/ circuitOpen \/ subscribed = {})
    <3>1. Connect(h, o)
      BY <1>5, <2>3 DEF Fire
    <3> HIDE DEF h, o
    <3>2. /\ ws' \in {"null", "connecting"}
          /\ ws' = "connecting" \/ held' \/ circuitOpen'
          /\ circuitOpen' => ws' = "null"
      BY <2>1, <3>1, ConnectWay
    <3> QED
      BY <2>1, <2>3, <3>2, Zenon DEF wanted
  <2> QED
    BY <2>2, <2>3
<1>6. ASSUME Opened PROVE WayInv'
  BY <1>6, Zenon DEF Opened, wanted, timers
<1>7. ASSUME NEW req \in requests, NEW ok \in BOOLEAN, Ack(req, ok) PROVE WayInv'
  BY <1>7, Zenon DEF Ack, wanted, timers
<1>8. ASSUME Kline PROVE WayInv'
  BY <1>8, Zenon DEF Kline, wanted, timers
<1>9. ASSUME Silence PROVE WayInv'
  BY <1>9, Zenon DEF Silence, wanted, timers
<1>10. ASSUME HealthCheck PROVE WayInv'
  <2>1. ws' = "closing" /\ ws \in {"connecting", "open"}
        /\ UNCHANGED <<wanted, circuitOpen, timers>>
    BY <1>10 DEF HealthCheck
  <2> QED
    BY <2>1, Zenon DEF wanted, timers
<1>11. ASSUME Closed PROVE WayInv'
  <2>1. ws' = "closed" /\ UNCHANGED wanted /\ ws \in {"connecting", "open", "closing"}
    BY <1>11, Zenon DEF Closed
  <2>2. Schedule(held, orphans)
    BY <1>11, <2>1, Zenon DEF Closed
  <2>3. held' \/ circuitOpen'
    BY <1>0, <2>2, ScheduleWay
  <2> QED
    BY <2>1, <2>3, Zenon DEF wanted
<1>12. ASSUME Die \/ FallSilent PROVE WayInv'
  <2>1. UNCHANGED <<wanted, circuitOpen, timers, ws>>
    BY <1>12 DEF Die, FallSilent
  <2> QED
    BY <2>1, Zenon DEF wanted, timers
<1>13. ASSUME UNCHANGED vars PROVE WayInv'
  BY <1>13, Zenon DEF vars, wanted, timers
<1> HIDE DEF WayInv, NeverWedged, CircuitHolds, Wanted
<1> QED
  BY <1>1, <1>2, <1>3, <1>4, <1>5, <1>6, <1>7, <1>8, <1>9, <1>10, <1>11, <1>12,
     <1>13, Zenon DEF Next

LEMMA InitWay == Init => WayInv
  BY DEF Init, WayInv, NeverWedged, CircuitHolds, Wanted

\* A wanted stream has a socket or a timer, or its circuit is open.
THEOREM AlwaysAWay == Spec => []NeverWedged
<1>1. WayInv => NeverWedged
  BY DEF WayInv
<1> QED
  BY <1>1, InitBudget, StepBudget, InitWay, StepWay, PTL DEF Spec

\* An open circuit and a connection exclude each other.
THEOREM CircuitStops == Spec => []CircuitHolds
<1>1. WayInv => CircuitHolds
  BY DEF WayInv
<1> QED
  BY <1>1, InitBudget, StepBudget, InitWay, StepWay, PTL DEF Spec

-----------------------------------------------------------------------------
(* What is asked for on a socket.                                          *)

AskedInv ==
  /\ SymbolsAsked
  /\ ws = "connecting" => feed = {} /\ refused = {}

LEMMA OneMoreTopic ==
  ASSUME NEW s
  PROVE  Topics(subscribed \cup {s}) = Topics(subscribed) \cup {<<s, interval>>}
  BY DEF Topics

LEMMA OneMoreRequest ==
  ASSUME NEW R, NEW r PROVE UNION (R \cup {r}) = (UNION R) \cup r
  OBVIOUS

LEMMA OneRequest == ASSUME NEW r PROVE UNION {r} = r
  OBVIOUS

LEMMA AnsweredRequest ==
  ASSUME NEW R, NEW r \in R PROVE (UNION (R \ {r})) \cup r = UNION R
  OBVIOUS

LEMMA StepAsked == AskedInv /\ [Next]_vars => AskedInv'
<1> SUFFICES ASSUME AskedInv, [Next]_vars PROVE AskedInv'
  OBVIOUS
<1> USE DEF AskedInv, SymbolsAsked, wanted, topics
<1>1. ASSUME NEW s \in Symbol, NEW i \in Interval, SubscribeAgain(s, i) PROVE AskedInv'
  BY <1>1 DEF SubscribeAgain, Topics
<1>2. ASSUME NEW s \in Symbol, NEW i \in Interval, SubscribeMore(s, i) PROVE AskedInv'
  <2>1. /\ ws = "open" /\ ws' = "open" /\ interval = i /\ interval' = i
        /\ feed' = feed /\ refused' = refused
        /\ subscribed' = subscribed \cup {s}
        /\ requests' = requests \cup {{<<s, i>>}}
    BY <1>2 DEF SubscribeMore
  <2>2. Topics(subscribed)' = Topics(subscribed) \cup {<<s, i>>}
    BY <2>1, OneMoreTopic DEF Topics
  <2>3. (UNION requests)' = (UNION requests) \cup {<<s, i>>}
    BY <2>1, OneMoreRequest
  <2> QED
    BY <2>1, <2>2, <2>3
<1>3. ASSUME NEW s \in Symbol, NEW i \in Interval, SubscribeConnect(s, i) PROVE AskedInv'
  BY <1>3 DEF SubscribeConnect, Connect, NoTopics
<1>4. CASE Unsubscribe
  BY <1>4 DEF Unsubscribe, NoTopics
<1>5. ASSUME NEW own \in BOOLEAN, Fire(own) PROVE AskedInv'
  BY <1>5 DEF Fire, Connect, NoTopics, Topics
<1>6. CASE Opened
  <2>1. /\ ws' = "open" /\ feed' = {} /\ refused' = {}
        /\ requests' = {Topics(subscribed)}
        /\ subscribed' = subscribed /\ interval' = interval
    BY <1>6 DEF Opened
  <2>2. (UNION requests)' = Topics(subscribed)
    BY <2>1, OneRequest
  <2> QED
    BY <2>1, <2>2 DEF Topics
<1>7. ASSUME NEW req \in requests, NEW ok \in BOOLEAN, Ack(req, ok) PROVE AskedInv'
  <2>1. /\ ws = "open" /\ ws' = "open" /\ requests' = requests \ {req}
        /\ feed' \cup refused' = feed \cup refused \cup req
        /\ subscribed' = subscribed /\ interval' = interval
    BY <1>7 DEF Ack
  <2>2. (UNION requests)' \cup req = UNION requests
    BY <2>1, AnsweredRequest
  <2> QED
    BY <2>1, <2>2 DEF Topics
<1>8. CASE Kline \/ Silence \/ Die \/ FallSilent
  BY <1>8 DEF Kline, Silence, Die, FallSilent, Topics
<1>9. CASE HealthCheck \/ Closed
  BY <1>9 DEF HealthCheck, Closed
<1>10. CASE UNCHANGED vars
  BY <1>10 DEF vars, Topics
<1> QED
  BY <1>1, <1>2, <1>3, <1>4, <1>5, <1>6, <1>7, <1>8, <1>9, <1>10, Zenon DEF Next

\* The open socket was asked for the symbols somebody wants and no other, for any
\* symbols and intervals, in whatever order they are added, dropped and the
\* connection lost.
THEOREM EverySymbolAsked == Spec => []SymbolsAsked
<1>1. Init => AskedInv
  BY DEF Init, AskedInv, SymbolsAsked
<1>2. AskedInv => SymbolsAsked
  BY DEF AskedInv
<1> QED
  BY <1>1, <1>2, StepAsked, PTL DEF Spec

-----------------------------------------------------------------------------
(* Binance.                                                                *)

Connected == ws \in {"connecting", "open", "closing"}

\* Timers: one at most, and only without a connection, so none is forgotten.
TimerInv == held \in BOOLEAN /\ orphans = 0 /\ (Connected => held = FALSE)

LEMMA InitTimer == Binance!Init => TimerInv
  BY DEF Binance!Init, TimerInv, Connected

LEMMA ScheduleTimer ==
  ASSUME NEW a, Binance!Schedule(FALSE, 0, a)
  PROVE  held' \in BOOLEAN /\ orphans' = 0
<1>1. held' = TRUE \/ held' = FALSE
      BY DEF Binance!Schedule
<1>2. orphans' = 0
      BY DEF Binance!Schedule
<1> QED
  BY <1>1, <1>2

LEMMA ConnectTimer ==
  ASSUME NEW a, Binance!Connect(FALSE, 0, a)
  PROVE  TimerInv'
<1>1. CASE Binance!NoSocket("null") /\ Binance!Schedule(FALSE, 0, a)
      BY <1>1, ScheduleTimer DEF Binance!NoSocket, TimerInv, Connected
<1>2. CASE Binance!NoSocket("connecting") /\ held' = FALSE /\ orphans' = 0
      BY <1>2 DEF Binance!NoSocket, TimerInv, Connected
<1> QED
  BY <1>1, <1>2 DEF Binance!Connect

LEMMA NextTimer == TimerInv /\ [Binance!Next]_(Binance!vars) => TimerInv'
<1> SUFFICES ASSUME TimerInv, [Binance!Next]_(Binance!vars) PROVE TimerInv'
    OBVIOUS
<1>1. ASSUME NEW s \in Stream, Binance!Subscribe(s) PROVE TimerInv'
      BY <1>1, ConnectTimer DEF Binance!Subscribe, TimerInv
<1>2. ASSUME NEW own \in BOOLEAN, Binance!Fire(own) PROVE TimerInv'
  <2>1. own /\ held
        BY <1>2 DEF Binance!Fire, TimerInv
  <2>2. CASE destroyed \/ circuitOpen \/ currentStream = NoStream
        BY <1>2, <2>1, <2>2 DEF Binance!Fire, TimerInv, Connected
  <2>3. CASE ~(destroyed \/ circuitOpen \/ currentStream = NoStream)
    <3>1. Binance!Connect(FALSE, 0, attempts)
          BY <1>2, <2>1, <2>3 DEF Binance!Fire, TimerInv
    <3> QED
      BY <3>1, ConnectTimer
  <2> QED
    BY <2>2, <2>3
<1>3. CASE Binance!Closed
  <2>1. held = FALSE /\ orphans = 0 /\ ws' = "closed"
        BY <1>3 DEF Binance!Closed, TimerInv, Connected, Binance!NoSocket
  <2>2. CASE destroyed \/ currentStream = NoStream
        BY <1>3, <2>1, <2>2 DEF Binance!Closed, TimerInv, Connected, Binance!timers
  <2>3. CASE ~(destroyed \/ currentStream = NoStream)
    <3>1. Binance!Schedule(FALSE, 0, attempts)
          BY <1>3, <2>1, <2>3 DEF Binance!Closed
    <3> QED
      BY <3>1, <2>1, ScheduleTimer DEF TimerInv, Connected
  <2> QED
    BY <2>2, <2>3
<1>4. CASE Binance!Unsubscribe
      BY <1>4 DEF Binance!Unsubscribe, Binance!NoSocket, TimerInv, Connected
<1>5. CASE Binance!HealthCheck
      BY <1>5 DEF Binance!HealthCheck, TimerInv, Connected, Binance!timers
<1>6. CASE Binance!Opened
      BY <1>6 DEF Binance!Opened, TimerInv, Connected, Binance!timers
<1>7. ASSUME NEW s \in Stream, Binance!SubscribeAgain(s) PROVE TimerInv'
      BY <1>7 DEF Binance!SubscribeAgain, TimerInv, Connected, Binance!timers
<1>8. CASE Binance!Kline \/ Binance!Pong \/ Binance!PongsAge \/ Binance!MessagesAge
      BY <1>8 DEF Binance!Kline, Binance!Pong, Binance!PongsAge, Binance!MessagesAge,
                  TimerInv, Connected, Binance!timers
<1>9. CASE Binance!Die \/ Binance!FallSilent
      BY <1>9 DEF Binance!Die, Binance!FallSilent, TimerInv, Connected, Binance!timers
<1>10. CASE UNCHANGED Binance!vars
      BY <1>10 DEF Binance!vars, TimerInv, Connected, Binance!timers
<1> QED
  BY <1>1, <1>2, <1>3, <1>4, <1>5, <1>6, <1>7, <1>8, <1>9, <1>10 DEF Binance!Next

\* A connection is never torn down by a timer of the connection before it: none
\* is pending while one exists, in any order of calls, outages and failures.
THEOREM NoTimerBehind == Binance!Spec => []Binance!NoStaleTimer
<1>1. TimerInv => Binance!NoStaleTimer
      BY DEF TimerInv, Binance!NoStaleTimer, Connected
<1> QED
  BY InitTimer, NextTimer, <1>1, PTL DEF Binance!Spec

-----------------------------------------------------------------------------
(* The number of sockets without data.                                     *)

\* A pending timer has counted every socket so far, a connection all but itself.
TriesInv ==
  /\ attempts \in 0..MaxFails /\ tries \in 0..(MaxFails + 1)
  /\ held = TRUE => tries <= attempts
  /\ Connected => tries <= attempts + 1

LEMMA InitTries ==
  ASSUME Binance!StreamAssumption
  PROVE  Binance!Init => TriesInv
  BY DEF Binance!StreamAssumption, Binance!Init, TriesInv, Connected

LEMMA ConnectTries ==
  ASSUME Binance!StreamAssumption, NEW a \in 0..MaxFails, Binance!Connect(FALSE, 0, a),
         tries' \in 0..(MaxFails + 1), tries' <= a + 1
  PROVE  TriesInv'
<1> USE DEF Binance!StreamAssumption
<1>1. CASE Binance!NoSocket("null") /\ Binance!Schedule(FALSE, 0, a)
      BY <1>1 DEF Binance!NoSocket, Binance!Schedule, TriesInv, Connected
<1>2. CASE Binance!NoSocket("connecting") /\ held' = FALSE /\ attempts' = a
      BY <1>2 DEF Binance!NoSocket, TriesInv, Connected
<1> QED
  BY <1>1, <1>2 DEF Binance!Connect

LEMMA NextTries ==
  ASSUME Binance!StreamAssumption
  PROVE  TimerInv /\ TriesInv /\ [Binance!Next]_(Binance!vars) => TriesInv'
<1> SUFFICES ASSUME TimerInv, TriesInv, [Binance!Next]_(Binance!vars) PROVE TriesInv'
    OBVIOUS
<1> USE DEF Binance!StreamAssumption
<1>1. ASSUME NEW s \in Stream, Binance!Subscribe(s) PROVE TriesInv'
  <2>1. Binance!Connect(FALSE, 0, 0) /\ tries' = 1
        BY <1>1 DEF Binance!Subscribe, TimerInv
  <2>2. 0 \in 0..MaxFails /\ tries' \in 0..(MaxFails + 1) /\ tries' <= 0 + 1
        BY <2>1
  <2> QED
    BY <2>1, <2>2, ConnectTries
<1>2. ASSUME NEW own \in BOOLEAN, Binance!Fire(own) PROVE TriesInv'
  <2>1. own /\ held = TRUE /\ tries <= attempts
        BY <1>2 DEF Binance!Fire, TimerInv, TriesInv
  <2>2. CASE destroyed \/ circuitOpen \/ currentStream = NoStream
        BY <1>2, <2>1, <2>2 DEF Binance!Fire, TriesInv, Connected
  <2>3. CASE ~(destroyed \/ circuitOpen \/ currentStream = NoStream)
    <3>1. Binance!Connect(FALSE, 0, attempts) /\ tries' = tries + 1
          BY <1>2, <2>1, <2>3 DEF Binance!Fire, TimerInv
    <3>2. attempts \in 0..MaxFails /\ tries' \in 0..(MaxFails + 1) /\ tries' <= attempts + 1
          BY <3>1, <2>1 DEF TriesInv
    <3> QED
      BY <3>1, <3>2, ConnectTries
  <2> QED
    BY <2>2, <2>3
<1>3. CASE Binance!Closed
  <2>1. held = FALSE /\ ws' = "closed" /\ tries' = tries /\ tries <= attempts + 1
        BY <1>3 DEF Binance!Closed, TimerInv, TriesInv, Connected, Binance!NoSocket
  <2>2. CASE destroyed \/ currentStream = NoStream
        BY <1>3, <2>1, <2>2 DEF Binance!Closed, TriesInv, Connected, Binance!timers
  <2>3. CASE ~(destroyed \/ currentStream = NoStream)
        BY <1>3, <2>1, <2>3 DEF Binance!Closed, Binance!Schedule, TriesInv, Connected
  <2> QED
    BY <2>2, <2>3
<1>4. CASE Binance!Unsubscribe
      BY <1>4 DEF Binance!Unsubscribe, Binance!NoSocket, TriesInv, Connected
<1>5. CASE Binance!HealthCheck
      BY <1>5 DEF Binance!HealthCheck, TriesInv, Connected, Binance!timers
<1>6. CASE Binance!Opened
      BY <1>6 DEF Binance!Opened, TriesInv, Connected, Binance!timers
<1>7. ASSUME NEW s \in Stream, Binance!SubscribeAgain(s) PROVE TriesInv'
      BY <1>7 DEF Binance!SubscribeAgain, TriesInv, Connected, Binance!timers
<1>8. CASE Binance!Kline
      BY <1>8 DEF Binance!Kline, TriesInv, Connected, Binance!timers
<1>9. CASE Binance!Pong \/ Binance!PongsAge \/ Binance!MessagesAge \/ Binance!Die
          \/ Binance!FallSilent
      BY <1>9 DEF Binance!Pong, Binance!PongsAge, Binance!MessagesAge, Binance!Die,
                  Binance!FallSilent, TriesInv, Connected, Binance!timers
<1>10. CASE UNCHANGED Binance!vars
      BY <1>10 DEF Binance!vars, TriesInv, Connected, Binance!timers
<1> QED
  BY <1>1, <1>2, <1>3, <1>4, <1>5, <1>6, <1>7, <1>8, <1>9, <1>10 DEF Binance!Next

\* Without data, a subscribe() leads to at most MAX_CONSECUTIVE_FAILS + 1 sockets,
\* however long the outage.
THEOREM BinanceTries ==
  ASSUME Binance!StreamAssumption
  PROVE  Binance!Spec => []Binance!NoHammering
<1>1. TriesInv => Binance!NoHammering
      BY DEF Binance!StreamAssumption, TriesInv, Binance!NoHammering
<1> QED
  BY InitTimer, NextTimer, InitTries, NextTries, <1>1, PTL DEF Binance!Spec

-----------------------------------------------------------------------------
(* A way back.                                                             *)

LEMMA BinanceScheduleWay ==
  ASSUME NEW h, NEW o, NEW a, Binance!Schedule(h, o, a)
  PROVE  held' \/ circuitOpen'
  BY DEF Binance!Schedule

LEMMA BinanceConnectWay ==
  ASSUME NEW h, NEW o, NEW a, Binance!Connect(h, o, a)
  PROVE  Binance!NeverWedged'
  BY BinanceScheduleWay DEF Binance!Connect, Binance!NoSocket, Binance!NeverWedged

LEMMA BinanceWay ==
  Binance!NeverWedged /\ [Binance!Next]_(Binance!vars)
  => Binance!NeverWedged'
<1> SUFFICES ASSUME Binance!NeverWedged, [Binance!Next]_(Binance!vars)
             PROVE  Binance!NeverWedged'
    OBVIOUS
<1> USE DEF Binance!NeverWedged, Binance!Wanted, Binance!wanted, Binance!timers
<1>1. ASSUME NEW s \in Stream, Binance!Subscribe(s) PROVE Binance!NeverWedged'
      BY <1>1, BinanceConnectWay DEF Binance!Subscribe
<1>2. ASSUME NEW own \in BOOLEAN, Binance!Fire(own) PROVE Binance!NeverWedged'
  <2>1. CASE destroyed \/ circuitOpen \/ currentStream = NoStream
        BY <1>2, <2>1 DEF Binance!Fire
  <2>2. CASE ~(destroyed \/ circuitOpen \/ currentStream = NoStream)
        BY <1>2, <2>2, BinanceConnectWay DEF Binance!Fire
  <2> QED
    BY <2>1, <2>2
<1>3. CASE Binance!Closed
  <2>1. CASE destroyed \/ currentStream = NoStream
        BY <1>3, <2>1 DEF Binance!Closed
  <2>2. CASE ~(destroyed \/ currentStream = NoStream)
        BY <1>3, <2>2, BinanceScheduleWay DEF Binance!Closed
  <2> QED
    BY <2>1, <2>2
<1>4. CASE Binance!Unsubscribe
      BY <1>4 DEF Binance!Unsubscribe
<1>5. CASE Binance!HealthCheck \/ Binance!Opened \/ Binance!Kline \/ Binance!Pong
      BY <1>5 DEF Binance!HealthCheck, Binance!Opened, Binance!Kline, Binance!Pong
<1>6. ASSUME NEW s \in Stream, Binance!SubscribeAgain(s) PROVE Binance!NeverWedged'
      BY <1>6 DEF Binance!SubscribeAgain
<1>7. CASE Binance!PongsAge \/ Binance!MessagesAge \/ Binance!Die \/ Binance!FallSilent
      BY <1>7 DEF Binance!PongsAge, Binance!MessagesAge, Binance!Die, Binance!FallSilent
<1>8. CASE UNCHANGED Binance!vars
      BY <1>8 DEF Binance!vars
<1> QED
  BY <1>1, <1>2, <1>3, <1>4, <1>5, <1>6, <1>7, <1>8 DEF Binance!Next

\* A wanted Binance stream is never left without a socket, a timer or an open circuit, in
\* any order of calls, outages, constructors that throw and health checks.
THEOREM BinanceAlwaysAWay == Binance!Spec => []Binance!NeverWedged
<1>1. Binance!Init => Binance!NeverWedged
      BY DEF Binance!Init, Binance!NeverWedged, Binance!Wanted
<1> QED
  BY <1>1, BinanceWay, PTL DEF Binance!Spec

-----------------------------------------------------------------------------
(* The port.                                                               *)

\* Binance never touches what only Bybit has, and makes no socket before the first
\* subscribe().
Unused == calls = 0 => tries = 0 /\ held = FALSE /\ ws = "null"
BinanceInv ==
  /\ TimerInv /\ TriesInv
  /\ subscribed = {} /\ requests = {} /\ feed = {} /\ refused = {}
  /\ calls \in Nat /\ Unused

PortInv ==
  /\ provider \in {"binance", "bybit"}
  /\ provider = "bybit" => Inv /\ WayInv /\ AskedInv
  /\ provider = "binance" => BinanceInv

LEMMA InitPort == PortInit => PortInv
<1> SUFFICES ASSUME PortInit PROVE PortInv
    OBVIOUS
<1>1. Inv /\ WayInv /\ TimerInv /\ TriesInv
      BY InitBudget, InitWay, InitTimer, InitTries, BinanceAssumption DEF PortInit
<1>2. AskedInv
      BY DEF PortInit, Init, AskedInv, SymbolsAsked
<1>3. BinanceInv
      BY <1>1 DEF PortInit, Init, BinanceInv, Unused
<1> QED
  BY <1>1, <1>2, <1>3 DEF PortInit, PortInv

LEMMA StepUnused ==
  TimerInv /\ Unused /\ calls \in Nat /\ [Binance!Next]_(Binance!vars)
  => calls' \in Nat /\ Unused'
<1> SUFFICES ASSUME TimerInv, Unused, calls \in Nat, [Binance!Next]_(Binance!vars)
             PROVE  calls' \in Nat /\ Unused'
    OBVIOUS
<1> USE DEF Binance!Call, Binance!Outage, Binance!NoBound
<1>1. CASE calls' = calls + 1
      BY <1>1 DEF Unused
<1>2. CASE calls' = calls /\ UNCHANGED <<tries, held, ws>>
      BY <1>2 DEF Unused
<1>3. CASE calls' = calls /\ ws # "null"
      BY <1>3 DEF Unused
<1>4. CASE calls' = calls /\ held = TRUE
      BY <1>4 DEF Unused
<1>5. ASSUME NEW s \in Stream, Binance!SubscribeAgain(s) \/ Binance!Subscribe(s)
      PROVE  calls' = calls + 1
      BY <1>5 DEF Binance!SubscribeAgain, Binance!Subscribe
<1>6. CASE Binance!Unsubscribe
      BY <1>1, <1>6 DEF Binance!Unsubscribe
<1>7. ASSUME NEW own \in BOOLEAN, Binance!Fire(own) PROVE calls' = calls /\ held = TRUE
      BY <1>7 DEF Binance!Fire, TimerInv
<1>8. CASE Binance!Opened \/ Binance!Kline \/ Binance!Pong \/ Binance!HealthCheck
      BY <1>3, <1>8 DEF Binance!Opened, Binance!Kline, Binance!Pong, Binance!HealthCheck
<1>9. CASE Binance!Closed \/ Binance!Die \/ Binance!FallSilent
      BY <1>3, <1>9 DEF Binance!Closed, Binance!Die, Binance!FallSilent
<1>10. CASE Binance!PongsAge \/ Binance!MessagesAge
      BY <1>2, <1>10 DEF Binance!PongsAge, Binance!MessagesAge, Binance!timers
<1>11. CASE UNCHANGED Binance!vars
      BY <1>2, <1>11 DEF Binance!vars, Binance!timers
<1> HIDE DEF Binance!Call, Binance!Outage, Binance!NoBound
<1> QED
  BY <1>1, <1>4, <1>5, <1>6, <1>7, <1>8, <1>9, <1>10, <1>11 DEF Binance!Next

LEMMA StepBinance ==
  BinanceInv /\ [Binance!Next]_(Binance!vars) /\ UNCHANGED bybitOnly => BinanceInv'
<1> SUFFICES ASSUME BinanceInv, [Binance!Next]_(Binance!vars), UNCHANGED bybitOnly
             PROVE  BinanceInv'
    OBVIOUS
<1>1. TimerInv' /\ TriesInv'
      BY NextTimer, NextTries, BinanceAssumption DEF BinanceInv
<1>2. (subscribed = {} /\ requests = {} /\ feed = {} /\ refused = {})'
      BY DEF BinanceInv, bybitOnly, topics
<1>3. calls' \in Nat /\ Unused'
      BY StepUnused DEF BinanceInv
<1> QED
  BY <1>1, <1>2, <1>3 DEF BinanceInv

LEMMA StepPort ==
  PortInv /\ [PortNext]_<<vars, binanceOnly, provider>> => PortInv'
<1> SUFFICES ASSUME PortInv, [PortNext]_<<vars, binanceOnly, provider>>
             PROVE  PortInv'
    OBVIOUS
<1>1. provider' = provider
      BY DEF PortNext
<1>2. CASE provider = "bybit"
  <2>1. [Next]_vars
        BY <1>2 DEF PortNext
  <2> QED
    BY <1>1, <1>2, <2>1, StepBudget, StepWay, StepAsked DEF PortInv
<1>3. CASE provider = "binance"
  <2>1. [Binance!Next]_(Binance!vars) /\ UNCHANGED bybitOnly
    <3>1. CASE PortNext
          BY <1>3, <3>1 DEF PortNext
    <3>2. CASE UNCHANGED <<vars, binanceOnly, provider>>
          BY <3>2 DEF vars, wanted, timers, topics, binanceOnly, bybitOnly, Binance!vars,
                      Binance!wanted, Binance!timers, Binance!staleness
    <3> QED
      BY <3>1, <3>2
  <2> QED
    BY <1>1, <1>3, <2>1, StepBinance DEF PortInv
<1> QED
  BY <1>2, <1>3 DEF PortInv

\* What PortInv says of either provider.
LEMMA PortImplies ==
  PortInv => NeverWedged /\ SymbolsAsked /\ NoHammering /\ SubscribeStartsOver
<1> SUFFICES ASSUME PortInv
             PROVE  NeverWedged /\ SymbolsAsked /\ NoHammering /\ SubscribeStartsOver
    OBVIOUS
<1>1. CASE provider = "bybit"
      BY <1>1, InvBounds DEF PortInv, WayInv, AskedInv, SubscribeStartsOver
<1>2. CASE provider = "binance"
  <2>1. BinanceInv
        BY <1>2 DEF PortInv
  <2>2. NeverWedged
        BY <2>1 DEF BinanceInv, NeverWedged, Wanted
  <2>3. SymbolsAsked
    <3>1. Topics(subscribed) = {} /\ UNION requests = {}
          BY <2>1 DEF BinanceInv, Topics
    <3> QED
      BY <2>1, <3>1 DEF BinanceInv, SymbolsAsked
  <2>4. NoHammering
        BY <2>1, StreamAssumption DEF BinanceInv, TriesInv, Unused, NoHammering
  <2>5. Binance!NoStaleTimer
        BY <2>1 DEF BinanceInv, TimerInv, Connected, Binance!NoStaleTimer
  <2>6. Binance!NoHammering
        BY <2>1, StreamAssumption DEF BinanceInv, TriesInv, Binance!NoHammering
  <2> QED
    BY <2>2, <2>3, <2>4, <2>5, <2>6 DEF SubscribeStartsOver
<1> QED
  BY <1>1, <1>2 DEF PortInv

\* On whichever exchange is bound, a wanted stream has a way back, the open socket
\* was asked for every symbol, and the sockets without data are bounded.
THEOREM PortStreams == PortSpec => [](NeverWedged /\ SymbolsAsked /\ NoHammering)
  BY InitPort, StepPort, PortImplies, PTL DEF PortSpec

\* With Binance bound, a subscribe() starts over: no timer from before tears its
\* connection down, and without data it makes at most MAX_CONSECUTIVE_FAILS + 1
\* sockets.
THEOREM StartsOver == PortSpec => []SubscribeStartsOver
  BY InitPort, StepPort, PortImplies, PTL DEF PortSpec
=============================================================================
