------------------------- MODULE ExchangePortsProofs -------------------------
(***************************************************************************)
(* Both ports side by side, and the user streams behind the second one.    *)
(* The services are instances of instances here: User is the user data     *)
(* port with Binance's service in it, User!Bybit is Bybit's.               *)
(***************************************************************************)
EXTENDS ExchangePorts, MarketDataPortProofs

-----------------------------------------------------------------------------
(* The Binance service: types.                                             *)

LEMMA InitType ==
  ASSUME User!StreamAssumption
  PROVE  User!Init => User!TypeOK
<1>1. User!Init => User!FlagsOK
      BY Zenon DEF User!Init, User!FlagsOK
<1>2. User!Init => User!CountsOK
      BY DEF User!StreamAssumption, User!Init, User!CountsOK
<1> QED
  BY <1>1, <1>2 DEF User!TypeOK

LEMMA NextFlags == User!TypeOK /\ [User!Next]_(User!vars) => User!FlagsOK'
<1> SUFFICES ASSUME User!TypeOK, [User!Next]_(User!vars) PROVE User!FlagsOK'
    OBVIOUS
<1> USE DEF User!TypeOK, User!FlagsOK, User!Call, User!Outage, User!NoBound, User!NoBegin,
           User!Begin, User!BeginFresh, User!caller, User!sockets, User!timers,
           User!pending
<1>1. CASE User!StartBot
      BY Zenon, <1>1 DEF User!StartBot, User!BeginStart
<1>2. CASE User!StopBot
      BY Zenon, <1>2 DEF User!StopBot, User!BeginStop, User!DropSocket, User!StopAwaits
<1>3. CASE User!KillDisconnects
      BY Zenon, <1>3 DEF User!KillDisconnects, User!BeginStop, User!DropSocket,
                         User!StopAwaits
<1>4. CASE User!KeepAlive
      BY Zenon, <1>4 DEF User!KeepAlive
<1>5. CASE User!Created
      BY Zenon, <1>5 DEF User!Created, User!Connect
<1>6. CASE User!CreateFails
      BY Zenon, <1>6 DEF User!CreateFails
<1>7. CASE User!Recreated
      BY Zenon, <1>7 DEF User!Recreated, User!Connect
<1>8. CASE User!RecreateFails
      BY Zenon, <1>8 DEF User!RecreateFails, User!Schedule
<1>9. CASE User!Deleted
      BY Zenon, <1>9 DEF User!Deleted
<1>10. CASE User!Renewed
      BY Zenon, <1>10 DEF User!Renewed
<1>11. CASE User!RenewStops
      BY Zenon, <1>11 DEF User!RenewStops, User!BeginStop, User!DropSocket
<1>12. CASE User!RenewStarts
      BY Zenon, <1>12 DEF User!RenewStarts, User!BeginStart
<1>13. ASSUME NEW own \in BOOLEAN, User!Fire(own) PROVE User!FlagsOK'
      BY Zenon, <1>13 DEF User!Fire
<1>14. CASE User!Opened
      BY Zenon, <1>14 DEF User!Opened
<1>15. CASE User!Closed
      BY Zenon, <1>15 DEF User!Closed, User!SocketCloses, User!Schedule
<1>16. CASE UNCHANGED User!vars
      BY Zenon, <1>16 DEF User!vars
<1> QED
  BY Zenon, <1>1, <1>2, <1>3, <1>4, <1>5, <1>6, <1>7, <1>8,
     <1>9, <1>10, <1>11, <1>12, <1>13, <1>14, <1>15, <1>16 DEF User!Next

LEMMA NextCounts ==
  ASSUME User!StreamAssumption
  PROVE  User!TypeOK /\ [User!Next]_(User!vars) => User!CountsOK'
<1> SUFFICES ASSUME User!TypeOK, [User!Next]_(User!vars) PROVE User!CountsOK'
    OBVIOUS
<1> USE DEF User!StreamAssumption, User!TypeOK, User!FlagsOK, User!CountsOK, User!Attached,
           User!Call, User!Outage, User!NoBound, User!NoBegin, User!caller, User!sockets,
           User!timers, User!pending
<1>1. CASE User!StartBot
      BY <1>1 DEF User!StartBot, User!BeginStart
<1>2. CASE User!StopBot
      BY <1>2 DEF User!StopBot, User!BeginStop, User!DropSocket, User!StopAwaits
<1>3. CASE User!KillDisconnects
      BY <1>3 DEF User!KillDisconnects, User!BeginStop, User!DropSocket, User!StopAwaits
<1>4. CASE User!KeepAlive
      BY <1>4 DEF User!KeepAlive
<1>5. CASE User!Created
      BY <1>5 DEF User!Created, User!Connect
<1>6. CASE User!CreateFails
      BY <1>6 DEF User!CreateFails
<1>7. CASE User!Recreated
      BY <1>7 DEF User!Recreated, User!Connect
<1>8. CASE User!RecreateFails
      BY <1>8 DEF User!RecreateFails, User!Schedule
<1>9. CASE User!Deleted
      BY <1>9 DEF User!Deleted
<1>10. CASE User!Renewed
      BY <1>10 DEF User!Renewed
<1>11. CASE User!RenewStops
      BY <1>11 DEF User!RenewStops, User!BeginStop, User!DropSocket
<1>12. CASE User!RenewStarts
      BY <1>12 DEF User!RenewStarts, User!BeginStart
<1>13. ASSUME NEW own \in BOOLEAN, User!Fire(own) PROVE User!CountsOK'
      BY <1>13 DEF User!Fire
<1>14. CASE User!Opened
      BY <1>14 DEF User!Opened
<1>15. CASE User!Closed
      BY <1>15 DEF User!Closed, User!SocketCloses, User!Schedule
<1>16. CASE UNCHANGED User!vars
      BY <1>16 DEF User!vars
<1> QED
  BY <1>1, <1>2, <1>3, <1>4, <1>5, <1>6, <1>7, <1>8,
     <1>9, <1>10, <1>11, <1>12, <1>13, <1>14, <1>15, <1>16 DEF User!Next

LEMMA NextType ==
  ASSUME User!StreamAssumption
  PROVE  User!TypeOK /\ [User!Next]_(User!vars) => User!TypeOK'
  BY NextFlags, NextCounts DEF User!TypeOK

\* Binance: no step, in any overlap of the calls, leaves a variable without its
\* type; in particular no counter of pending calls, timers or sockets drops below
\* zero.
THEOREM TypeCorrect ==
  ASSUME User!StreamAssumption
  PROVE  User!Spec => []User!TypeOK
  BY InitType, NextType, PTL DEF User!Spec

-----------------------------------------------------------------------------
(* The Binance service: chains.                                            *)

LEMMA InitChains == User!Init => User!OneChainPerStart
  BY DEF User!Init, User!OneChainPerStart, User!Chains, User!Timers, User!AttachedSockets,
         User!Attached

LEMMA NextChains ==
  User!TypeOK /\ User!TypeOK' /\ User!OneChainPerStart /\ [User!Next]_(User!vars)
  => User!OneChainPerStart'
<1> SUFFICES ASSUME User!TypeOK, User!TypeOK', User!OneChainPerStart,
                    [User!Next]_(User!vars)
             PROVE  User!OneChainPerStart'
    OBVIOUS
<1> USE DEF User!TypeOK, User!FlagsOK, User!CountsOK, User!OneChainPerStart, User!Chains,
           User!Timers, User!AttachedSockets, User!Attached, User!NoBound, User!NoBegin,
           User!Outage, User!caller, User!sockets, User!timers, User!pending
<1>1. CASE User!StartBot
      BY <1>1 DEF User!StartBot, User!BeginStart
<1>2. CASE User!StopBot
      BY <1>2 DEF User!StopBot, User!BeginStop, User!DropSocket, User!StopAwaits
<1>3. CASE User!KillDisconnects
      BY <1>3 DEF User!KillDisconnects, User!BeginStop, User!DropSocket, User!StopAwaits
<1>4. CASE User!KeepAlive
      BY <1>4 DEF User!KeepAlive
<1>5. CASE User!Created
      BY <1>5 DEF User!Created, User!Connect
<1>6. CASE User!CreateFails
      BY <1>6 DEF User!CreateFails
<1>7. CASE User!Recreated
      BY <1>7 DEF User!Recreated, User!Connect
<1>8. CASE User!RecreateFails
      BY <1>8 DEF User!RecreateFails, User!Schedule
<1>9. CASE User!Deleted
      BY <1>9 DEF User!Deleted
<1>10. CASE User!Renewed
      BY <1>10 DEF User!Renewed
<1>11. CASE User!RenewStops
      BY <1>11 DEF User!RenewStops, User!BeginStop, User!DropSocket
<1>12. CASE User!RenewStarts
      BY <1>12 DEF User!RenewStarts, User!BeginStart
<1>13. ASSUME NEW own \in BOOLEAN, User!Fire(own) PROVE User!OneChainPerStart'
      BY <1>13 DEF User!Fire
<1>14. CASE User!Opened
      BY <1>14 DEF User!Opened
<1>15. CASE User!Closed
      BY <1>15 DEF User!Closed, User!SocketCloses, User!Schedule
<1>16. CASE UNCHANGED User!vars
      BY <1>16 DEF User!vars
<1> QED
  BY <1>1, <1>2, <1>3, <1>4, <1>5, <1>6, <1>7, <1>8,
     <1>9, <1>10, <1>11, <1>12, <1>13, <1>14, <1>15, <1>16 DEF User!Next

-----------------------------------------------------------------------------
(* The Binance service, as long as no call overlaps another.               *)

\* One chain at most and one call under way at most; a stop, and a bot that is off,
\* leave no chain; what deletes or stops runs after destroyed was set; a socket has
\* its key.
Alone ==
  /\ lost["connecting"] = 0 /\ lost["open"] = 0 /\ forgotten = 0
  /\ User!Chains <= 1
  /\ starting > 0 => recreating = 0 /\ deleting = 0 /\ renewing = "no"
  /\ recreating > 0 => deleting = 0 /\ renewing = "no"
  /\ deleting > 0 => renewing = "no" /\ closed
  /\ renewing \in {"stop", "stopped"} => closed
  /\ closed => User!Chains = 0
  /\ ~enabled => User!Chains = 0 /\ renewing = "no"
  /\ User!AttachedSockets > 0 => key

AloneInv == User!TypeOK /\ (~overlap => Alone)

LEMMA InitAlone == User!Init => Alone
  BY DEF User!Init, Alone, User!Chains, User!Timers, User!AttachedSockets, User!Attached

LEMMA NextAlone ==
  AloneInv /\ [User!Next]_(User!vars) /\ ~overlap' => Alone'
<1> SUFFICES ASSUME AloneInv, [User!Next]_(User!vars), ~overlap' PROVE Alone'
    OBVIOUS
<1> USE DEF AloneInv, Alone, User!TypeOK, User!FlagsOK, User!CountsOK, User!Chains,
           User!Timers, User!AttachedSockets, User!Attached, User!Quiet, User!Begin,
           User!BeginFresh, User!NoBound, User!NoBegin, User!Outage, User!caller,
           User!sockets, User!timers, User!pending
<1>1. CASE User!StartBot
  <2>1. ~overlap /\ ~enabled /\ User!Quiet
        BY <1>1, Zenon DEF User!StartBot
  <2>2. /\ enabled' = TRUE /\ closed' = FALSE /\ starting' = starting + 1
        /\ UNCHANGED <<key, socket, lost, waiting, forgotten, recreating, deleting,
                        renewing>>
        BY <1>1 DEF User!StartBot, User!BeginStart
  <2> QED
    BY <2>1, <2>2
<1>2. CASE User!StopBot
  <2>1. ~overlap /\ User!Quiet
        BY <1>2, Zenon DEF User!StopBot
  <2>2. /\ closed' = TRUE /\ waiting' = FALSE /\ socket' = "null" /\ enabled' = FALSE
        /\ deleting' \in {0, 1} /\ UNCHANGED <<lost, forgotten, starting, recreating,
                        renewing>>
        BY <1>2 DEF User!StopBot, User!BeginStop, User!DropSocket, User!StopAwaits
  <2> QED
    BY <2>1, <2>2
<1>3. CASE User!KillDisconnects
  <2>1. ~overlap /\ User!Quiet
        BY <1>3, Zenon DEF User!KillDisconnects
  <2>2. /\ closed' = TRUE /\ waiting' = FALSE /\ socket' = "null" /\ UNCHANGED enabled
        /\ deleting' \in {0, 1} /\ UNCHANGED <<lost, forgotten, starting, recreating,
                        renewing>>
        BY <1>3 DEF User!KillDisconnects, User!BeginStop, User!DropSocket, User!StopAwaits
  <2> QED
    BY <2>1, <2>2
<1>4. CASE User!KeepAlive
  <2>1. ~overlap /\ User!Quiet
        BY <1>4, Zenon DEF User!KeepAlive
  <2>2. /\ renewing' = "put" /\ enabled' = enabled /\ enabled = TRUE
        /\ UNCHANGED <<closed, key, socket, lost, waiting, forgotten, starting, recreating,
                        deleting>>
        BY <1>4 DEF User!KeepAlive
  <2> QED
    BY <2>1, <2>2
<1>5. CASE User!Created
      BY <1>5 DEF User!Created, User!Connect
<1>6. CASE User!CreateFails
      BY <1>6 DEF User!CreateFails
<1>7. CASE User!Recreated
      BY <1>7 DEF User!Recreated, User!Connect
<1>8. CASE User!RecreateFails
      BY <1>8 DEF User!RecreateFails, User!Schedule
<1>9. CASE User!Deleted
      BY <1>9 DEF User!Deleted
<1>10. CASE User!Renewed
      BY <1>10 DEF User!Renewed
<1>11. CASE User!RenewStops
      BY <1>11 DEF User!RenewStops, User!BeginStop, User!DropSocket
<1>12. CASE User!RenewStarts
      BY <1>12 DEF User!RenewStarts, User!BeginStart
<1>13. ASSUME NEW own \in BOOLEAN, User!Fire(own) PROVE Alone'
      BY <1>13 DEF User!Fire
<1>14. CASE User!Opened
      BY <1>14 DEF User!Opened
<1>15. CASE User!Closed
      BY <1>15 DEF User!Closed, User!SocketCloses, User!Schedule
<1>16. CASE UNCHANGED User!vars
      BY <1>16 DEF User!vars
<1> QED
  BY <1>1, <1>2, <1>3, <1>4, <1>5, <1>6, <1>7, <1>8,
     <1>9, <1>10, <1>11, <1>12, <1>13, <1>14, <1>15, <1>16, Zenon DEF User!Next

\* One event is handled once, a stopped stream is silent, a connection has its key.
LEMMA AloneImplies ==
  AloneInv => /\ ~overlap => User!StoppedIsSilent /\ User!OneSocket /\ User!KeyKept
<1> SUFFICES ASSUME AloneInv, ~overlap
             PROVE  User!StoppedIsSilent /\ User!OneSocket /\ User!KeyKept
    OBVIOUS
<1>1. Alone /\ starting \in Nat /\ recreating \in Nat /\ User!Timers \in Nat
      BY DEF AloneInv, User!TypeOK, User!FlagsOK, User!CountsOK, User!Timers
<1>2. User!AttachedSockets \in Nat
      BY DEF AloneInv, User!TypeOK, User!CountsOK, User!AttachedSockets, User!Attached
<1>3. User!AttachedSockets + User!Timers <= 1 /\ (closed => User!AttachedSockets = 0)
      BY <1>1, <1>2 DEF Alone, User!Chains
<1>4. User!AttachedSockets > 0 => key
      BY <1>1 DEF Alone
<1> QED
  BY <1>3, <1>4, Zenon DEF User!StoppedIsSilent, User!OneSocket, User!KeyKept

-----------------------------------------------------------------------------
(* The Bybit service: the same, and the number of sockets.                 *)

Attempted == socket \in {"connecting", "open", "closing"}

BybitTypes ==
  /\ enabled \in BOOLEAN /\ closed \in BOOLEAN /\ overlap \in BOOLEAN
  /\ socket \in {"null", "connecting", "open", "closing", "closed"}
  /\ failures \in 0..MaxFails /\ waiting \in BOOLEAN /\ forgotten \in Nat
  /\ starts \in Nat /\ sockets \in Nat
  /\ lost = [state \in {"connecting", "open"} |-> 0] /\ starting = 0 /\ recreating = 0

\* Timers and the connection together.
Ways == User!Timers + (IF Attempted THEN 1 ELSE 0)

\* A start() adds a way to a socket; one that closes turns into a timer, a timer that
\* fires into a socket.  A failure that is counted pays for the timer it arms.
BybitBudget ==
  /\ Ways <= starts
  /\ sockets + User!Timers <= failures + starts
\* A stop leaves no socket; while only a stopped bot is started, one way at most.
BybitAlone ==
  /\ closed => ~Attempted
  /\ ~overlap => /\ Ways <= 1 /\ forgotten = 0
                 /\ ~enabled \/ closed => Ways = 0

BybitInv == BybitTypes /\ BybitBudget /\ BybitAlone

LEMMA StepBybit ==
  BybitInv /\ [User!Bybit!Next]_(User!Bybit!vars) /\ UNCHANGED User!binanceOnly => BybitInv'
<1> SUFFICES ASSUME BybitInv, [User!Bybit!Next]_(User!Bybit!vars),
UNCHANGED User!binanceOnly
             PROVE  BybitInv'
    OBVIOUS
<1> USE DEF BybitInv, BybitTypes, BybitBudget, BybitAlone, Ways, Attempted, User!Timers,
           User!binanceOnly, User!pending, User!Bybit!NoBegin, User!Bybit!Outage,
           User!Bybit!caller, User!Bybit!timers, User!Bybit!breaker
<1>0. MaxFails \in Nat
      BY StreamAssumption
<1>1. CASE User!Bybit!StartBot
  <2>1. overlap' \in BOOLEAN /\ (~overlap' => ~overlap /\ ~enabled)
        BY <1>1, Zenon DEF User!Bybit!StartBot
  <2>2. /\ enabled' = TRUE /\ closed' = FALSE /\ socket' = "connecting"
        /\ sockets' = sockets + 1 /\ starts' = starts + 1
        /\ UNCHANGED <<failures, waiting, forgotten, lost, starting, recreating>>
        BY <1>1 DEF User!Bybit!StartBot, User!Bybit!Connect
  <2>3. BybitTypes'
    <3>1. starts' \in Nat /\ sockets' \in Nat
          BY <2>2
    <3> QED
      BY <2>1, <2>2, <3>1, Zenon
  <2>4. BybitBudget'
        BY <1>0, <2>1, <2>2
  <2>5. BybitAlone'
        BY <1>0, <2>1, <2>2
  <2> QED
    BY <2>3, <2>4, <2>5
<1>2. CASE User!Bybit!StopBot
  <2>2. /\ closed' = TRUE /\ waiting' = FALSE /\ socket' = "null" /\ enabled' \in BOOLEAN
        /\ UNCHANGED <<failures, sockets, starts, forgotten, overlap, lost, starting,
                        recreating>>
        BY <1>2 DEF User!Bybit!StopBot, User!Bybit!Stop
  <2>3. BybitTypes'
        BY <1>0, <2>2
  <2>4. BybitBudget'
        BY <1>0, <2>2
  <2>5. BybitAlone'
        BY <1>0, <2>2
  <2> QED
    BY <2>3, <2>4, <2>5
<1>3. CASE User!Bybit!KillDisconnects
  <2>2. /\ closed' = TRUE /\ waiting' = FALSE /\ socket' = "null" /\ enabled' \in BOOLEAN
        /\ UNCHANGED <<failures, sockets, starts, forgotten, overlap, lost, starting,
                        recreating>>
        BY <1>3 DEF User!Bybit!KillDisconnects, User!Bybit!Stop
  <2>3. BybitTypes'
        BY <1>0, <2>2
  <2>4. BybitBudget'
        BY <1>0, <2>2
  <2>5. BybitAlone'
        BY <1>0, <2>2
  <2> QED
    BY <2>3, <2>4, <2>5
<1>4. ASSUME NEW own \in BOOLEAN, User!Bybit!Fire(own) PROVE BybitInv'
      BY <1>0, <1>4 DEF User!Bybit!Fire, User!Bybit!Connect
<1>5. CASE User!Bybit!Opened
      BY <1>0, <1>5 DEF User!Bybit!Opened
<1>6. CASE User!Bybit!AuthAccepted
      BY <1>0, <1>6 DEF User!Bybit!AuthAccepted
<1>7. CASE User!Bybit!AuthRefused
      BY <1>0, <1>7 DEF User!Bybit!AuthRefused
<1>8. CASE User!Bybit!Closed
  <2>1. /\ Attempted /\ socket' = "closed" /\ closed = FALSE
        /\ UNCHANGED <<enabled, closed, sockets, starts, overlap, lost, starting,
                        recreating>>
        BY <1>8 DEF User!Bybit!Closed
  <2>2. CASE failures >= MaxFails
    <3>1. UNCHANGED <<failures, waiting, forgotten>>
          BY <1>8, <2>1, <2>2 DEF User!Bybit!Closed, User!Bybit!Schedule
    <3> QED
      BY <1>0, <2>1, <3>1
  <2>3. CASE ~(failures >= MaxFails)
    <3>1. /\ failures' = failures + 1 /\ waiting' = TRUE
          /\ forgotten' = forgotten + (IF waiting THEN 1 ELSE 0)
          BY <1>8, <2>1, <2>3 DEF User!Bybit!Closed, User!Bybit!Schedule
    <3> QED
      BY <1>0, <2>1, <2>3, <3>1
  <2> QED
    BY <2>2, <2>3
<1>9. CASE UNCHANGED User!Bybit!vars
      BY <1>0, <1>9 DEF User!Bybit!vars
<1> QED
  BY <1>1, <1>2, <1>3, <1>4, <1>5, <1>6, <1>7, <1>8, <1>9, Zenon DEF User!Bybit!Next

\* What BybitInv says of the properties.
LEMMA BybitImplies ==
  BybitInv => /\ User!OneChainPerStart /\ User!Bybit!NoHammering
              /\ ~overlap => User!StoppedIsSilent /\ User!OneSocket
<1> SUFFICES ASSUME BybitInv
             PROVE  /\ User!OneChainPerStart /\ User!Bybit!NoHammering
                    /\ ~overlap => User!StoppedIsSilent /\ User!OneSocket
    OBVIOUS
<1>1. User!AttachedSockets = IF socket \in {"connecting", "open"} THEN 1 ELSE 0
      BY DEF BybitInv, BybitTypes, User!AttachedSockets, User!Attached
<1>2. User!Timers \in Nat /\ MaxFails \in Nat
      BY StreamAssumption DEF BybitInv, BybitTypes, User!Timers
<1>3. User!AttachedSockets + User!Timers <= Ways
      BY <1>1, <1>2 DEF Ways, Attempted
<1>4. User!OneChainPerStart
      BY <1>1, <1>2, <1>3 DEF BybitInv, BybitTypes, BybitBudget, Ways,
                              User!OneChainPerStart,
                              User!Chains
<1>5. User!Bybit!NoHammering
      BY <1>2 DEF BybitInv, BybitTypes, BybitBudget, User!Bybit!NoHammering
<1>6. ASSUME ~overlap PROVE User!OneSocket
      BY <1>1, <1>2, <1>3, <1>6 DEF BybitInv, BybitAlone, Ways, User!OneSocket
<1>7. User!StoppedIsSilent
      BY <1>1 DEF BybitInv, BybitAlone, Attempted, User!StoppedIsSilent
<1> QED
  BY <1>4, <1>5, <1>6, <1>7

-----------------------------------------------------------------------------
(* The two ports.                                                          *)

\* What either provider keeps of the user data port.
UserInv ==
  /\ provider = "binance" => User!TypeOK /\ User!OneChainPerStart /\ (~overlap => Alone)
  /\ provider = "bybit" => BybitInv

PortsInv == PortInv /\ UserInv

LEMMA UserBounds == User!StreamAssumption
  BY UserAssumption DEF User!PortAssumption

LEMMA InitPorts == PortsInit => PortsInv
<1> SUFFICES ASSUME PortsInit PROVE PortsInv
    OBVIOUS
<1>1. PortInv /\ User!Init /\ User!Bybit!Init
      BY InitPort DEF PortsInit, User!PortInit
<1>2. User!TypeOK /\ User!OneChainPerStart /\ Alone
      BY <1>1, InitType, InitChains, InitAlone, UserBounds
<1>3. BybitInv
  <2>1. /\ enabled = FALSE /\ closed = FALSE /\ overlap = FALSE /\ socket = "null"
        /\ failures = 0 /\ waiting = FALSE /\ forgotten = 0 /\ starts = 0 /\ sockets = 0
        /\ lost = [state \in {"connecting", "open"} |-> 0] /\ starting = 0 /\ recreating = 0
        BY <1>1 DEF User!Init, User!Bybit!Init
  <2>2. BybitTypes
    <3>1. failures \in 0..MaxFails /\ starts \in Nat /\ sockets \in Nat /\ forgotten \in Nat
          BY <2>1, StreamAssumption
    <3> QED
      BY <2>1, <3>1, Zenon DEF BybitTypes
  <2> QED
    BY <2>1, <2>2 DEF BybitInv, BybitBudget, BybitAlone, Ways, Attempted, User!Timers
<1> QED
  BY <1>1, <1>2, <1>3 DEF PortsInv, UserInv

LEMMA StepUser ==
  UserInv /\ [User!PortNext]_<<userVars, provider>> => UserInv'
<1> SUFFICES ASSUME UserInv, [User!PortNext]_<<userVars, provider>> PROVE UserInv'
    OBVIOUS
<1>1. provider' = provider
      BY DEF User!PortNext
<1>2. CASE provider = "binance"
  <2>1. [User!Next]_(User!vars)
    <3>1. CASE User!PortNext
          BY <1>2, <3>1 DEF User!PortNext
    <3>2. CASE UNCHANGED <<userVars, provider>>
          BY <3>2 DEF userVars, User!vars, User!caller, User!sockets, User!timers,
                      User!pending
    <3> QED
      BY <3>1, <3>2
  <2>2. User!TypeOK' /\ User!OneChainPerStart'
        BY <1>2, <2>1, NextType, NextChains, UserBounds DEF UserInv
  <2>3. ~overlap' => Alone'
        BY <1>2, <2>1, NextAlone DEF UserInv, AloneInv
  <2> QED
    BY <1>1, <1>2, <2>2, <2>3 DEF UserInv
<1>3. CASE provider = "bybit"
  <2>1. [User!Bybit!Next]_(User!Bybit!vars) /\ UNCHANGED User!binanceOnly
    <3>1. CASE User!PortNext
          BY <1>3, <3>1 DEF User!PortNext
    <3>2. CASE UNCHANGED <<userVars, provider>>
          BY <3>2 DEF userVars, User!binanceOnly, User!pending, User!Bybit!vars,
                      User!Bybit!caller, User!Bybit!timers, User!Bybit!breaker
    <3> QED
      BY <3>1, <3>2
  <2> QED
    BY <1>1, <1>3, <2>1, StepBybit DEF UserInv
<1> QED
  BY <1>1, <1>2, <1>3 DEF UserInv

\* A step of either port is a step of one and a stutter of the other.
LEMMA StepPorts ==
  PortsInv /\ [PortsNext]_<<marketVars, userVars, provider, port>> => PortsInv'
<1> SUFFICES ASSUME PortsInv, [PortsNext]_<<marketVars, userVars, provider, port>>
             PROVE  PortsInv'
    OBVIOUS
<1>1. [PortNext]_<<vars, binanceOnly, provider>>
  <2>1. CASE port = "marketData" /\ PortNext
        BY <2>1
  <2>2. CASE User!PortNext /\ UNCHANGED marketVars
        BY <2>2 DEF User!PortNext, marketVars
  <2>3. CASE UNCHANGED <<marketVars, userVars, provider, port>>
        BY <2>3 DEF marketVars
  <2> QED
    BY <2>1, <2>2, <2>3 DEF PortsNext
<1>2. [User!PortNext]_<<userVars, provider>>
      BY DEF PortsNext, PortNext
<1> QED
  BY <1>1, <1>2, StepPort, StepUser DEF PortsInv

\* However starts, stops, kills, keep-alives, failures and outages overlap,
\* reconnecting never multiplies the sockets that handle an event, and Bybit's
\* breaker bounds the connections that are tried.
THEOREM BoundedChains == PortsSpec => []OneChainPerStart
<1>1. PortsInv => OneChainPerStart
  <2>1. PortsInv /\ provider = "binance" => OneChainPerStart
        BY DEF PortsInv, UserInv, OneChainPerStart, User!NoHammering
  <2>2. PortsInv /\ provider = "bybit" => OneChainPerStart
        BY BybitImplies DEF PortsInv, UserInv, OneChainPerStart, User!NoHammering
  <2> QED
    BY <2>1, <2>2 DEF PortsInv, PortInv
<1> QED
  BY <1>1, InitPorts, StepPorts, PTL DEF PortsSpec

\* While no call overlaps another, either service is silent once stopped, delivers
\* an event once and keeps the key of its connection.
THEOREM SilentAndOnce == PortsSpec => []OneCallAtATime
<1>1. PortsInv => OneCallAtATime
  <2>1. PortsInv /\ provider = "binance" => OneCallAtATime
        BY AloneImplies DEF PortsInv, UserInv, AloneInv, OneCallAtATime, User!OneCallAtATime
  <2>2. PortsInv /\ provider = "bybit" => OneCallAtATime
        BY BybitImplies DEF PortsInv, UserInv, OneCallAtATime, User!OneCallAtATime
  <2> QED
    BY <2>1, <2>2 DEF PortsInv, PortInv
<1> QED
  BY <1>1, InitPorts, StepPorts, PTL DEF PortsSpec

\* Next to the user data port, the market data port keeps what it keeps alone.
THEOREM PortsStream ==
  PortsSpec => [](NeverWedged /\ SymbolsAsked /\ NoHammering /\ SubscribeStartsOver)
<1>1. PortsInv => NeverWedged /\ SymbolsAsked /\ NoHammering /\ SubscribeStartsOver
      BY PortImplies DEF PortsInv
<1> QED
  BY <1>1, InitPorts, StepPorts, PTL DEF PortsSpec
=============================================================================
