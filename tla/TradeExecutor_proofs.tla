------------------------ MODULE TradeExecutor_proofs ------------------------
(***************************************************************************)
(* Theorems of TradeExecutor, for any number of requests beside the        *)
(* listener, any number of failing commands and restarts, any prices, and  *)
(* any limits.                                                             *)
(***************************************************************************)
EXTENDS TradeExecutor, FiniteSetTheorems, TLAPS

(* TypeOK in two parts: what a task's suspending or ending changes, and    *)
(* what a method changes besides.                                          *)
TasksOK ==
    /\ now \in Nat
    /\ StoreOK
    /\ stream \in Seq(StreamEvent)
    /\ IoOK
    /\ pc \in [Tasks -> Labels]
    /\ loc \in [Tasks -> Locals]
    /\ history \in Seq([action : {"BUY", "SELL", "HOLD"}, pnl : Int])
    /\ limits \in Limits
    /\ chainReady \in BOOLEAN
    /\ requests \in Nat
    /\ faults \in Nat
    /\ \A t \in Tasks : pc[t] = "idle" <=> io[t] = None
    /\ \A t \in Requests : pc[t] \notin ListenerLabels
    /\ pc[Listener] = "update_price" => loc[Listener].price \in Prices

AccountOK ==
    /\ position \in Position
    /\ capital \in Int
    /\ opens \in Nat
    /\ risk \in RiskState
    /\ breaker \in BOOLEAN

LEMMA TypeParts == TypeOK <=> TasksOK /\ AccountOK
  BY DEF TypeOK, TasksOK, AccountOK

LEMMA Kinds ==
    /\ Kind("position") = Position
    /\ Kind("risk") = RiskState
    /\ Kind("trades_today") = Nat
    /\ Kind("stream") = StreamEvent
    /\ Kind("daily_pnl") = Int
    /\ Kind("last_trade") = Int
  BY DEF Kind

-----------------------------------------------------------------------------
(* How a task suspends, ends, and is answered                              *)

LEMMA SuspendKeepsTasks ==
    ASSUME TasksOK, NEW t \in Tasks, NEW label, NEW l \in Locals,
           label \in Labels \ {"idle"},
           label \in ListenerLabels => t = Listener,
           label = "update_price" => l.price \in Prices,
           NEW key \in Keys \cup {"stream"}, NEW value \in Kind(key),
           SuspendAt(t, label, l), Send(t, key, value)
    PROVE  TasksOK'
<1> DEFINE c == [key |-> key, value |-> value, landed |-> FALSE]
<1>1. c \in Command(key)
  BY DEF Command
<1>0. c # None
  BY <1>1, ExecutorAssumption
<1>2. io' = [io EXCEPT ![t] = c]
  BY DEF Send
<1> HIDE DEF c
<1>3. IoOK'
  BY <1>0, <1>1, <1>2 DEF TasksOK, IoOK
<1>4. StoreOK'
  BY DEF TasksOK, StoreOK, SuspendAt, Unmoved
<1>5. /\ pc' \in [Tasks -> Labels]
      /\ loc' \in [Tasks -> Locals]
      /\ requests' \in Nat
  BY DEF TasksOK, SuspendAt
<1>6. \A u \in Tasks : pc'[u] = "idle" <=> io'[u] = None
  BY <1>0, <1>1, <1>2 DEF TasksOK, SuspendAt, IoOK
<1>7. \A u \in Requests : pc'[u] \notin ListenerLabels
  BY DEF TasksOK, SuspendAt, Requests
<1>8. pc'[Listener] = "update_price" => loc'[Listener].price \in Prices
  <2>1. CASE t = Listener
    BY <2>1 DEF TasksOK, SuspendAt
  <2>2. CASE t # Listener
    BY <2>2 DEF TasksOK, SuspendAt
  <2> QED BY <2>1, <2>2
<1> QED
  BY <1>3, <1>4, <1>5, <1>6, <1>7, <1>8 DEF TasksOK, SuspendAt, Unmoved

LEMMA NoLocalsType == NoLocals \in Locals
  BY DEF NoLocals, Locals, Signals

LEMMA EndKeepsTasks ==
    ASSUME TasksOK, NEW t \in Tasks,
           NEW h \in Seq([action : {"BUY", "SELL", "HOLD"}, pnl : Int]),
           Ends(t, h), faults' \in Nat
    PROVE  TasksOK'
<1>1. IoOK'
  BY DEF TasksOK, IoOK, Ends
<1>2. StoreOK'
  BY DEF TasksOK, StoreOK, Ends, Unmoved
<1>3. pc' \in [Tasks -> Labels] /\ loc' \in [Tasks -> Locals]
  BY NoLocalsType DEF TasksOK, Ends, Labels
<1>4. \A u \in Tasks : pc'[u] = "idle" <=> io'[u] = None
  BY DEF TasksOK, Ends, IoOK
<1>5. \A u \in Requests : pc'[u] \notin ListenerLabels
  BY DEF TasksOK, Ends, ListenerLabels
<1>6. pc'[Listener] = "update_price" => loc'[Listener].price \in Prices
  BY DEF TasksOK, Ends
<1> QED
  BY <1>1, <1>2, <1>3, <1>4, <1>5, <1>6 DEF TasksOK, Ends, Unmoved

LEMMA DeliveryKeepsTasks ==
    ASSUME TasksOK, NEW t \in Tasks, Delivered(t)
    PROVE  TasksOK'
<1>1. PICK key \in Keys \cup {"stream"} : io[t] \in Command(key)
  BY DEF Delivered, Land, TasksOK, IoOK
<1>2. io[t].key = key /\ io[t].value \in Kind(key)
  BY <1>1 DEF Command
<1> DEFINE c == [io[t] EXCEPT !.landed = TRUE]
<1>3. c \in Command(key) /\ io' = [io EXCEPT ![t] = c]
  BY <1>1 DEF Command, Delivered, Land
<1>0. c # None
  BY <1>3, ExecutorAssumption
<1> HIDE DEF c
<1>4. IoOK'
  BY <1>0, <1>3 DEF TasksOK, IoOK
<1>5. \A u \in Tasks : pc'[u] = "idle" <=> io'[u] = None
  BY <1>0, <1>3 DEF TasksOK, IoOK, Delivered, Land, executorVars
<1>6. StoreOK' /\ stream' \in Seq(StreamEvent)
  <2>1. CASE key = "stream"
    <3>1. store' = store /\ stream' = Append(stream, io[t].value)
      BY <1>2, <2>1 DEF Delivered, Land
    <3>2. io[t].value \in StreamEvent
      BY <1>2, <2>1, Kinds
    <3>3. now' = now
      BY DEF Delivered, Land
    <3>4. stream' \in Seq(StreamEvent)
      BY <3>1, <3>2 DEF TasksOK
    <3> QED
      BY <3>1, <3>3, <3>4 DEF TasksOK, StoreOK
  <2>2. CASE key # "stream"
    <3>1. /\ stream' = stream
          /\ store' = [store EXCEPT ![key] = Stored(key, io[t].value)]
      BY <1>2, <2>2 DEF Delivered, Land
    <3>2. key \in Keys
      BY <2>2
    <3>3. DOMAIN store' = Keys
      BY <3>1 DEF TasksOK, StoreOK
    <3>4. key \in DailyKeys => /\ Stored(key, io[t].value).value \in Kind(key)
                               /\ Stored(key, io[t].value).expires \in Nat
      BY <1>2, RuntimeAssumption DEF Stored, TasksOK
    <3>5. key \notin DailyKeys => Stored(key, io[t].value) \in Kind(key)
      BY <1>2 DEF Stored
    <3>6. \A k \in {"position", "risk"} :
            store'[k] # None => store'[k] \in Kind(k)
      BY <3>1, <3>2, <3>5 DEF TasksOK, StoreOK, Keys, DailyKeys
    <3>7. \A k \in DailyKeys :
            store'[k] # None => /\ store'[k].value \in Kind(k)
                                /\ store'[k].expires \in Nat
      BY <3>1, <3>2, <3>4 DEF TasksOK, StoreOK, Keys
    <3> QED
      BY <3>1, <3>3, <3>6, <3>7 DEF TasksOK, StoreOK
  <2> QED BY <2>1, <2>2
<1> QED
  BY <1>4, <1>5, <1>6 DEF TasksOK, Delivered, Land, executorVars

-----------------------------------------------------------------------------
(* Types of what the methods compute                                       *)

LEMMA Amounts ==
    ASSUME AccountOK, NEW price \in Prices, NEW pct \in Int
    PROVE  /\ price \in Nat \ {0}
           /\ RealizedPnl(price) \in Int
           /\ SizeFor(price, pct) \in Int
<1>1. price \in Nat \ {0}
  BY ExecutorAssumption
<1>2. position.size \in Int /\ position.entry \in Int
  BY DEF AccountOK, Position
<1>3. RealizedPnl(price) \in Int
  BY <1>1, <1>2 DEF RealizedPnl
<1>4. SizeFor(price, pct) \in Int
  <2>1. /\ 2 * capital * pct + 10000 * price \in Int
        /\ 20000 * price \in Int /\ 20000 * price > 0
    BY <1>1 DEF AccountOK
  <2> QED BY <2>1 DEF SizeFor
<1> QED
  BY <1>1, <1>3, <1>4

LEMMA EquityType ==
    ASSUME AccountOK, NEW c \in Int
    PROVE  EquityOf(c) \in Int
<1>1. position.size \in Int /\ position.entry \in Int /\ position.price \in Int
  BY DEF AccountOK, Position
<1> QED
  BY <1>1 DEF EquityOf, UnrealizedPnl

LEMMA ThrottleType == Throttle \in {0, 25, 50, 75, 100}
  BY DEF Throttle

LEMMA StakeType ==
    ASSUME NEW base \in Nat, NEW scalar \in Nat
    PROVE  /\ PositionSize(base, scalar) \in Nat
           /\ PositionSize(base, scalar) <= MaxPositionSize
<1> DEFINE clamped == GreaterOf(50, LesserOf(scalar, 200))
           product == base * clamped * Throttle
<1>1. clamped \in Nat
  BY DEF GreaterOf, LesserOf
<1>2. Throttle \in Nat
  BY ThrottleType
<1>3. MaxPositionSize \in Nat
  BY RiskAssumption
<1> HIDE DEF clamped
<1>4. product \in Nat
  BY <1>1, <1>2
<1>5. PositionSize(base, scalar) = LesserOf(product \div 10000, MaxPositionSize)
  BY DEF PositionSize, clamped
<1> HIDE DEF product
<1>6. product \div 10000 \in Nat
  BY <1>4
<1> QED
  BY <1>3, <1>5, <1>6 DEF LesserOf

LEMMA BpsType ==
    ASSUME NEW x \in Int, NEW y \in Int
    PROVE  Bps(x, y) \in Int
  BY DEF Bps

LEMMA WithEquityType ==
    ASSUME AccountOK, NEW equity \in Int
    PROVE  WithEquity(equity) \in RiskState
<1> DEFINE peak == IF risk.peak <= 0 THEN equity ELSE GreaterOf(risk.peak, equity)
           drawdown == IF peak > 0 THEN Bps(peak - equity, peak)
                                   ELSE risk.drawdown
           worst == GreaterOf(risk.max_drawdown, drawdown)
<1>1. /\ risk \in RiskState
      /\ risk.peak \in Int /\ risk.drawdown \in Int /\ risk.max_drawdown \in Int
  BY DEF AccountOK, RiskState
<1>2. peak \in Int
  BY <1>1 DEF GreaterOf
<1> HIDE DEF peak
<1>3. drawdown \in Int
  BY <1>1, <1>2, BpsType
<1> HIDE DEF drawdown
<1>4. worst \in Int
  BY <1>1, <1>3 DEF GreaterOf
<1> HIDE DEF worst
<1>5. WithEquity(equity) = [risk EXCEPT !.peak = peak, !.drawdown = drawdown,
                                        !.max_drawdown = worst]
  BY DEF WithEquity, peak, drawdown, worst
<1> QED
  BY <1>1, <1>2, <1>3, <1>4, <1>5 DEF RiskState

(* What a new process reads back from Redis has the types of the state.    *)
LEMMA LoadedTypes ==
    ASSUME TasksOK
    PROVE  /\ LoadedRisk \in RiskState
           /\ store["position"] # None => store["position"] \in Position
<1>1. /\ store["risk"] # None => store["risk"] \in RiskState
      /\ store["position"] # None => store["position"] \in Position
      /\ store["daily_pnl"] # None => store["daily_pnl"].value \in Int
      /\ store["trades_today"] # None => store["trades_today"].value \in Nat
      /\ store["last_trade"] # None => store["last_trade"].value \in Int
  BY Kinds DEF TasksOK, StoreOK, DailyKeys
<1> DEFINE snapshot == IF store["risk"] = None THEN FreshRisk ELSE store["risk"]
           Latest(key, field) == IF Live(key) THEN store[key].value ELSE field
<1>2. snapshot \in RiskState
  BY <1>1 DEF FreshRisk, RiskState
<1> HIDE DEF snapshot
<1>3. /\ Latest("daily_pnl", snapshot.daily_pnl) \in Int
      /\ Latest("trades_today", snapshot.trades) \in Nat
      /\ Latest("last_trade", snapshot.last_trade) \in Int \cup {None}
  BY <1>1, <1>2 DEF Live, RiskState
<1>4. LoadedRisk =
        [snapshot EXCEPT
            !.daily_pnl  = Latest("daily_pnl", snapshot.daily_pnl),
            !.trades     = Latest("trades_today", snapshot.trades),
            !.last_trade = Latest("last_trade", snapshot.last_trade)]
  BY DEF LoadedRisk, snapshot
<1> HIDE DEF Latest
<1>5. LoadedRisk \in RiskState
  BY <1>2, <1>3, <1>4 DEF RiskState
<1> QED
  BY <1>1, <1>5

-----------------------------------------------------------------------------
(* Each action keeps the types                                             *)

LEMMA BuyKeepsTypes ==
    ASSUME TasksOK, AccountOK, NEW price \in Prices, NEW pct \in Int,
           Buy(price, pct)
    PROVE  TasksOK' /\ AccountOK'
<1> DEFINE new == [id |-> opens + 1, size |-> SizeFor(price, pct),
                   entry |-> price, price |-> price, since |-> now]
           l == [NoLocals EXCEPT !.action = "BUY"]
<1>1. /\ opens' = opens + 1 /\ position' = new
      /\ Send(Listener, "position", new)
      /\ SuspendAt(Listener, "open.save", l)
      /\ UNCHANGED <<capital, risk, breaker>>
  BY DEF Buy, OpenPosition, riskVars
<1>2. new \in Position
  <2>1. price \in Int /\ SizeFor(price, pct) \in Int
    BY Amounts
  <2>2. opens + 1 \in Nat /\ now \in Int
    BY DEF AccountOK, TasksOK
  <2> QED BY <2>1, <2>2 DEF Position
<1>3. l \in Locals
  BY NoLocalsType DEF Locals
<1>4. Listener \in Tasks /\ "open.save" \in Labels \ {"idle"}
  BY ExecutorAssumption DEF Labels, ListenerLabels
<1> HIDE DEF new, l
<1>5. TasksOK'
  BY <1>1, <1>2, <1>3, <1>4, Kinds, SuspendKeepsTasks DEF Keys
<1> QED
  BY <1>1, <1>2, <1>5 DEF AccountOK

LEMMA SellKeepsTypes ==
    ASSUME TasksOK, AccountOK, NEW t \in Tasks, NEW price \in Prices,
           Sell(t, price)
    PROVE  TasksOK' /\ AccountOK'
<1> DEFINE event == [event |-> "CLOSE", id |-> position.id]
           l == [NoLocals EXCEPT !.pnl = RealizedPnl(price), !.action = "SELL"]
<1>1. /\ Send(t, "stream", event)
      /\ SuspendAt(t, "close.log", l)
      /\ UNCHANGED <<position, capital, opens, risk, breaker>>
  BY DEF Sell, LogClose, riskVars, positionVars
<1>2. event \in StreamEvent
  BY DEF AccountOK, Position, StreamEvent
<1>3. l \in Locals
  BY NoLocalsType, Amounts DEF Locals
<1>4. "close.log" \in Labels \ {"idle"} /\ "close.log" \notin ListenerLabels
  BY DEF Labels, SellLabels, ListenerLabels
<1> HIDE DEF event, l
<1>5. TasksOK'
  BY <1>1, <1>2, <1>3, <1>4, Kinds, SuspendKeepsTasks
<1> QED
  BY <1>1, <1>5 DEF AccountOK

LEMMA ReturnKeepsTypes ==
    ASSUME TasksOK, AccountOK, NEW t \in Tasks,
           NEW h \in Seq([action : {"BUY", "SELL", "HOLD"}, pnl : Int]),
           Returns(t, h), UNCHANGED <<positionVars, riskVars>>
    PROVE  TasksOK' /\ AccountOK'
<1>1. TasksOK'
  BY EndKeepsTasks DEF Returns, TasksOK
<1> QED
  BY <1>1 DEF AccountOK, positionVars, riskVars

LEMMA DecideKeepsTypes ==
    ASSUME TasksOK, AccountOK, NEW price \in Prices, NEW signal,
           Decide(price, signal)
    PROVE  TasksOK' /\ AccountOK'
<1>1. PICK atr \in Atrs, scalar \in VolScalars :
         \/ Buy(price, PositionSize(BasePositionSize, scalar))
         \/ Sell(Listener, price)
         \/ Hold
  BY DEF Decide
<1>2. PositionSize(BasePositionSize, scalar) \in Int
  BY StakeType, ExecutorAssumption
<1>3. Listener \in Tasks
  BY ExecutorAssumption
<1>4. CASE Hold
  BY <1>3, <1>4, ReturnKeepsTypes DEF Hold, TasksOK
<1> QED
  BY <1>1, <1>2, <1>3, <1>4, BuyKeepsTypes, SellKeepsTypes

LEMMA RecordLabelsOK ==
    /\ RecordLabels \cup SellLabels \cup {"reset.save"}
         \subseteq Labels \ ({"idle"} \cup ListenerLabels)
    /\ "update_price" \in ListenerLabels
    /\ ListenerLabels \subseteq Labels \ {"idle"}
  BY DEF RecordLabels, SellLabels, Labels, ListenerLabels

(* The handlers that resume from an await: closing, and record_trade.      *)
LEMMA ContinueKeepsTypes ==
    ASSUME TasksOK, AccountOK, NEW t \in Tasks, Continue(t)
    PROVE  TasksOK' /\ AccountOK'
<1>0. /\ loc[t] \in Locals
      /\ loc[t].pnl \in Int /\ loc[t].pct \in Int /\ loc[t].equity \in Int
      /\ now \in Int
  BY DEF TasksOK, Locals
<1>1. CASE CloseLogged(t)
  <2>1. Empty \in Position
    BY DEF Empty, Position
  <2>2. /\ Send(t, "position", Empty) /\ position' = Empty
        /\ SuspendAt(t, "close.save", loc[t])
        /\ UNCHANGED <<capital, opens, risk, breaker>>
    BY <1>1 DEF CloseLogged, ResetPosition, riskVars
  <2>3. TasksOK'
    BY <1>0, <2>1, <2>2, Kinds, RecordLabelsOK, SuspendKeepsTasks
       DEF SellLabels, Keys
  <2> QED
    BY <2>1, <2>2, <2>3 DEF AccountOK
<1>2. CASE CloseSaved(t)
  <2> DEFINE c == capital + loc[t].pnl
             l == [loc[t] EXCEPT !.pct = Bps(loc[t].pnl, c),
                                 !.equity = EquityOf(c)]
  <2>1. /\ Send(t, "last_trade", now) /\ capital' = c
        /\ risk' = [risk EXCEPT !.last_trade = now]
        /\ SuspendAt(t, "record.time", l)
        /\ UNCHANGED <<position, opens, breaker>>
    BY <1>2 DEF CloseSaved, UpdateCapital, RecordTime
  <2>2. c \in Int
    BY <1>0 DEF AccountOK
  <2> HIDE DEF c
  <2>3. Bps(loc[t].pnl, c) \in Int /\ EquityOf(c) \in Int
    BY <1>0, <2>2, BpsType, EquityType
  <2>4. l \in Locals
    BY <1>0, <2>3 DEF Locals
  <2> HIDE DEF l
  <2>5. TasksOK'
    BY <1>0, <2>1, <2>4, Kinds, RecordLabelsOK, SuspendKeepsTasks
       DEF RecordLabels, Keys, DailyKeys
  <2>6. risk' \in RiskState
    BY <1>0, <2>1 DEF AccountOK, RiskState
  <2> QED
    BY <2>1, <2>2, <2>5, <2>6 DEF AccountOK
<1>3. CASE TimeRecorded(t)
  <2>1. /\ Send(t, "trades_today", risk.trades + 1)
        /\ risk' = [risk EXCEPT !.trades = @ + 1]
        /\ SuspendAt(t, "record.count", loc[t])
        /\ UNCHANGED <<position, capital, opens, breaker>>
    BY <1>3 DEF TimeRecorded, RecordCount, positionVars, AccountOK, RiskState
  <2>2. risk.trades + 1 \in Nat /\ risk' \in RiskState
    BY <2>1 DEF AccountOK, RiskState
  <2>3. TasksOK'
    BY <1>0, <2>1, <2>2, Kinds, RecordLabelsOK, SuspendKeepsTasks
       DEF RecordLabels, Keys, DailyKeys
  <2> QED
    BY <2>1, <2>2, <2>3 DEF AccountOK
<1>4. CASE CountRecorded(t)
  <2>1. /\ Send(t, "daily_pnl", risk.daily_pnl + loc[t].pct)
        /\ risk' = [risk EXCEPT !.daily_pnl = @ + loc[t].pct]
        /\ SuspendAt(t, "record.pnl", loc[t])
        /\ UNCHANGED <<position, capital, opens, breaker>>
    BY <1>4 DEF CountRecorded, RecordPnl, positionVars, AccountOK, RiskState
  <2>2. risk.daily_pnl + loc[t].pct \in Int /\ risk' \in RiskState
    BY <1>0, <2>1 DEF AccountOK, RiskState
  <2>3. TasksOK'
    BY <1>0, <2>1, <2>2, Kinds, RecordLabelsOK, SuspendKeepsTasks
       DEF RecordLabels, Keys, DailyKeys
  <2> QED
    BY <2>1, <2>2, <2>3 DEF AccountOK
<1>5. CASE EquityUpdated(t)
  <2> DEFINE r == WithEquity(loc[t].equity)
             label == IF Trips(r) THEN "breaker.save" ELSE "equity.save"
  <2>1. /\ Send(t, "risk", risk')
        /\ risk' = IF Trips(r) THEN [r EXCEPT !.enabled = FALSE] ELSE r
        /\ breaker' = (breaker \/ Trips(r))
        /\ SuspendAt(t, label, loc[t])
        /\ UNCHANGED <<position, capital, opens>>
    BY <1>5 DEF EquityUpdated, UpdateEquity, positionVars
  <2>2. r \in RiskState
    BY <1>0, WithEquityType
  <2>3. label \in RecordLabels
    BY DEF RecordLabels
  <2> HIDE DEF r, label
  <2>4. risk' \in RiskState
    BY <2>1, <2>2 DEF RiskState
  <2>5. breaker' \in BOOLEAN
    BY <2>1
  <2>6. TasksOK'
    BY <1>0, <2>1, <2>3, <2>4, Kinds, RecordLabelsOK, SuspendKeepsTasks
       DEF Keys
  <2> QED
    BY <2>1, <2>4, <2>5, <2>6 DEF AccountOK
<1>6. CASE BreakerSaved(t)
  <2>1. /\ Send(t, "risk", risk)
        /\ SuspendAt(t, "equity.save", loc[t])
        /\ UNCHANGED <<position, capital, opens, risk, breaker>>
    BY <1>6 DEF BreakerSaved, SaveRisk, riskVars, positionVars
  <2>2. TasksOK'
    BY <1>0, <2>1, Kinds, RecordLabelsOK, SuspendKeepsTasks
       DEF RecordLabels, Keys, AccountOK
  <2> QED
    BY <2>1, <2>2 DEF AccountOK
<1>7. CASE TradeRecorded(t)
  <2> DEFINE trade == [action |-> loc[t].action, pnl |-> loc[t].pnl]
  <2>1. trade \in [action : {"BUY", "SELL", "HOLD"}, pnl : Int]
    BY <1>0 DEF Locals
  <2>2. Returns(t, Append(history, trade))
        /\ UNCHANGED <<positionVars, riskVars>>
    BY <1>7 DEF TradeRecorded
  <2> HIDE DEF trade
  <2>3. Append(history, trade)
          \in Seq([action : {"BUY", "SELL", "HOLD"}, pnl : Int])
    BY <2>1 DEF TasksOK
  <2> QED
    BY <2>2, <2>3, ReturnKeepsTypes
<1> QED
  BY <1>1, <1>2, <1>3, <1>4, <1>5, <1>6, <1>7 DEF Continue

(* Whatever handlers run beside each other, fail or are cut off by a       *)
(* restart, every variable has its type, a task waits for a command        *)
(* exactly when it is suspended, and only the listener opens positions     *)
(* (TypeOK of TradeExecutor).                                              *)
THEOREM TypeCorrect == Spec => []TypeOK
<1>1. Init => TypeOK
  <2> SUFFICES ASSUME Init PROVE TasksOK /\ AccountOK
    BY TypeParts
  <2>1. StoreOK /\ IoOK
    <3>1. StoreOK
      BY DEF Init, StoreOK, Keys, DailyKeys
    <3>2. IoOK
      BY DEF Init, IoOK
    <3> QED BY <3>1, <3>2
  <2>2. AccountOK
    <3>1. Empty \in Position /\ FreshRisk \in RiskState
      BY DEF Empty, Position, FreshRisk, RiskState
    <3>2. InitialCapital \in Int /\ 0 \in Nat
      BY CapitalAssumption
    <3> QED
      BY <3>1, <3>2 DEF Init, AccountOK, PositionInit, RiskInit
  <2>3. limits \in Limits
    BY RiskAssumption DEF Init, DefaultLimits, Limits
  <2>4. loc \in [Tasks -> Locals] /\ pc \in [Tasks -> Labels]
    BY NoLocalsType DEF Init, Labels
  <2>5. /\ \A t \in Tasks : pc[t] = "idle" <=> io[t] = None
        /\ \A t \in Requests : pc[t] \notin ListenerLabels
        /\ pc[Listener] # "update_price"
    BY ExecutorAssumption DEF Init, ListenerLabels, Requests
  <2>6. /\ stream \in Seq(StreamEvent)
        /\ history \in Seq([action : {"BUY", "SELL", "HOLD"}, pnl : Int])
        /\ now \in Nat /\ requests \in Nat /\ faults \in Nat
        /\ chainReady \in BOOLEAN
    <3>1. stream = <<>> /\ history = <<>>
      BY DEF Init
    <3>2. /\ stream \in Seq(StreamEvent)
          /\ history \in Seq([action : {"BUY", "SELL", "HOLD"}, pnl : Int])
      BY <3>1
    <3>3. /\ now \in Nat /\ requests \in Nat /\ faults \in Nat
          /\ chainReady \in BOOLEAN
      BY DEF Init
    <3> QED BY <3>2, <3>3
  <2> QED
    BY <2>1, <2>2, <2>3, <2>4, <2>5, <2>6 DEF TasksOK
<1>2. TypeOK /\ [Next]_vars => TypeOK'
  <2> SUFFICES ASSUME TasksOK, AccountOK, [Next]_vars
               PROVE  TasksOK' /\ AccountOK'
    BY DEF TypeOK, TasksOK, AccountOK
  <2>0. Listener \in Tasks /\ loc[Listener] \in Locals
    BY ExecutorAssumption DEF TasksOK
  <2>1. ASSUME NEW p \in Predictions, PredictionWithPosition(p)
        PROVE  TasksOK' /\ AccountOK'
    <3> DEFINE new == [position EXCEPT !.price = p.price]
               l == [NoLocals EXCEPT !.price = p.price, !.signal = p.signal]
    <3>1. /\ Send(Listener, "position", new) /\ position' = new
          /\ SuspendAt(Listener, "update_price", l)
          /\ UNCHANGED <<capital, opens, risk, breaker>>
      BY <2>1 DEF PredictionWithPosition, UpdatePrice, riskVars
    <3>2. p.price \in Prices /\ p.price \in Int /\ p.signal \in Signals
      <4>1. p \in [price : Prices, signal : {"up", "down", "weak"}]
        BY ExecutorAssumption
      <4>2. \A price \in Prices : price \in Int
        BY ExecutorAssumption
      <4> QED
        BY <4>1, <4>2 DEF Signals
    <3>3. new \in Position /\ l \in Locals /\ l.price \in Prices
      BY <3>2, NoLocalsType DEF AccountOK, Position, Locals
    <3> HIDE DEF new, l
    <3>4. TasksOK'
      BY <2>0, <3>1, <3>3, Kinds, RecordLabelsOK, SuspendKeepsTasks
         DEF ListenerLabels, Keys
    <3> QED
      BY <3>1, <3>3, <3>4 DEF AccountOK
  <2>2. ASSUME NEW p \in Predictions, PredictionWithoutPosition(p)
        PROVE  TasksOK' /\ AccountOK'
    <3>1. p.price \in Prices
      <4>1. p \in [price : Prices, signal : {"up", "down", "weak"}]
        BY ExecutorAssumption
      <4> QED BY <4>1
    <3> QED
      BY <2>2, <3>1, DecideKeepsTypes DEF PredictionWithoutPosition
  <2>3. CASE PriceUpdated
    <3>1. loc[Listener].price \in Prices
      BY <2>3 DEF PriceUpdated, Resumes, TasksOK
    <3> QED
      BY <2>3, <3>1, DecideKeepsTypes DEF PriceUpdated
  <2>4. CASE OpenSaved
    <3> DEFINE event == [event |-> "OPEN", id |-> position.id]
    <3>1. /\ Send(Listener, "stream", event)
          /\ SuspendAt(Listener, "open.log", loc[Listener])
          /\ UNCHANGED <<position, capital, opens, risk, breaker>>
      BY <2>4 DEF OpenSaved, LogOpen, positionVars, riskVars
    <3>2. event \in StreamEvent
      BY DEF StreamEvent, AccountOK, Position
    <3> HIDE DEF event
    <3>3. TasksOK'
      BY <2>0, <3>1, <3>2, Kinds, RecordLabelsOK, SuspendKeepsTasks
         DEF ListenerLabels
    <3> QED
      BY <3>1, <3>3 DEF AccountOK
  <2>5. CASE OpenLogged
    <3> DEFINE l == [loc[Listener] EXCEPT !.equity = CurrentCapital]
    <3>1. /\ Send(Listener, "last_trade", now)
          /\ risk' = [risk EXCEPT !.last_trade = now]
          /\ SuspendAt(Listener, "record.time", l)
          /\ UNCHANGED <<position, capital, opens, breaker>>
      BY <2>5 DEF OpenLogged, RecordTime, positionVars
    <3>2. CurrentCapital \in Int
      BY EquityType DEF CurrentCapital, AccountOK
    <3>3. l \in Locals /\ now \in Int
      <4>1. now \in Int
        BY DEF TasksOK
      <4> HIDE DEF CurrentCapital
      <4>2. l \in Locals
        BY <2>0, <3>2 DEF Locals
      <4> QED BY <4>1, <4>2
    <3> HIDE DEF l
    <3>4. TasksOK'
      BY <2>0, <3>1, <3>3, Kinds, RecordLabelsOK, SuspendKeepsTasks
         DEF RecordLabels, Keys, DailyKeys
    <3>5. risk' \in RiskState
      BY <3>1, <3>3 DEF AccountOK, RiskState
    <3> QED
      BY <3>1, <3>4, <3>5 DEF AccountOK
  <2>6. ASSUME NEW t \in Tasks, Continue(t)
        PROVE  TasksOK' /\ AccountOK'
    BY <2>6, ContinueKeepsTypes
  <2>7. ASSUME NEW t \in Requests, NEW price \in Prices, ManualClose(t, price)
        PROVE  TasksOK' /\ AccountOK'
    BY <2>7, SellKeepsTypes DEF ManualClose, Requests
  <2>8. ASSUME NEW t \in Requests, ResetBreaker(t)
        PROVE  TasksOK' /\ AccountOK'
    <3> DEFINE new == [risk EXCEPT !.enabled = TRUE]
    <3>1. /\ Send(t, "risk", new) /\ risk' = new /\ breaker' = FALSE
          /\ SuspendAt(t, "reset.save", NoLocals)
          /\ UNCHANGED <<position, capital, opens>>
      BY <2>8 DEF ResetBreaker, ResetCircuitBreaker, positionVars
    <3>2. new \in RiskState /\ t \in Tasks
      BY DEF AccountOK, RiskState, Requests
    <3> HIDE DEF new
    <3>3. TasksOK'
      BY <3>1, <3>2, Kinds, NoLocalsType, RecordLabelsOK, SuspendKeepsTasks
         DEF Keys
    <3> QED
      BY <3>1, <3>2, <3>3 DEF AccountOK
  <2>9. ASSUME NEW t \in Requests, BreakerReset(t)
        PROVE  TasksOK' /\ AccountOK'
    BY <2>9, ReturnKeepsTypes DEF BreakerReset, Requests, TasksOK
  <2>10. ASSUME NEW l \in LimitChoices, PutLimits(l)
         PROVE  TasksOK' /\ AccountOK'
    <3>1. l \in Limits
      BY ExecutorAssumption
    <3>2. requests' \in Nat
      BY <2>10 DEF PutLimits, TasksOK
    <3> QED
      BY <2>10, <3>1, <3>2
         DEF PutLimits, TasksOK, AccountOK, StoreOK, IoOK, runtimeVars,
             positionVars, riskVars
  <2>11. CASE ChainConnected
    BY <2>11
       DEF ChainConnected, TasksOK, AccountOK, StoreOK, IoOK, runtimeVars,
           positionVars, riskVars
  <2>12. ASSUME NEW t \in Tasks, Delivered(t)
         PROVE  TasksOK' /\ AccountOK'
    BY <2>12, DeliveryKeepsTasks
       DEF Delivered, AccountOK, positionVars, riskVars
  <2>13. ASSUME NEW t \in Tasks, CommandFailed(t)
         PROVE  TasksOK' /\ AccountOK'
    <3>1. Ends(t, history) /\ faults' \in Nat
      BY <2>13 DEF CommandFailed, TasksOK
    <3>2. TasksOK'
      BY <3>1, EndKeepsTasks DEF TasksOK
    <3> QED
      BY <2>13, <3>2 DEF CommandFailed, AccountOK, positionVars, riskVars
  <2>14. CASE Tick
    <3>1. now' \in Nat
      BY <2>14 DEF Tick, TasksOK
    <3> QED
      BY <2>14, <3>1
         DEF Tick, TasksOK, AccountOK, StoreOK, IoOK, executorVars,
             positionVars, riskVars
  <2>15. CASE Restart
    <3>1. /\ position' \in Position /\ risk' \in RiskState
          /\ capital' \in Int /\ opens' \in Nat /\ breaker' \in BOOLEAN
      <4>1. Empty \in Position
        BY DEF Empty, Position
      <4>2. position' \in Position
        BY <2>15, <4>1, LoadedTypes DEF Restart, LoadPosition
      <4>3. risk' \in RiskState /\ breaker' \in BOOLEAN
        BY <2>15, LoadedTypes DEF Restart, LoadRisk
      <4>4. capital' \in Int /\ opens' \in Nat
        BY <2>15, CapitalAssumption DEF Restart, LoadPosition, AccountOK
      <4> QED BY <4>2, <4>3, <4>4
    <3>2. /\ IoOK' /\ StoreOK'
          /\ loc' \in [Tasks -> Locals] /\ pc' \in [Tasks -> Labels]
      BY <2>15, NoLocalsType
         DEF Restart, TasksOK, IoOK, StoreOK, Unmoved, Labels
    <3>3. /\ \A t \in Tasks : pc'[t] = "idle" <=> io'[t] = None
          /\ \A t \in Requests : pc'[t] \notin ListenerLabels
          /\ pc'[Listener] # "update_price"
      BY <2>0, <2>15 DEF Restart, ListenerLabels, Requests
    <3>4. /\ limits' \in Limits /\ chainReady' \in BOOLEAN
          /\ requests' \in Nat /\ faults' \in Nat /\ now' \in Nat
          /\ stream' \in Seq(StreamEvent)
          /\ history' \in Seq([action : {"BUY", "SELL", "HOLD"}, pnl : Int])
      <4>1. limits' \in Limits /\ chainReady' \in BOOLEAN
        BY <2>15, RiskAssumption DEF Restart, DefaultLimits, Limits
      <4>2. history' = <<>>
        BY <2>15 DEF Restart
      <4>3. history' \in Seq([action : {"BUY", "SELL", "HOLD"}, pnl : Int])
        BY <4>2
      <4>4. /\ requests' \in Nat /\ faults' \in Nat /\ now' \in Nat
            /\ stream' \in Seq(StreamEvent)
        BY <2>15 DEF Restart, TasksOK, Unmoved
      <4> QED BY <4>1, <4>3, <4>4
    <3> QED
      BY <3>1, <3>2, <3>3, <3>4 DEF TasksOK, AccountOK
  <2>16. CASE UNCHANGED vars
    BY <2>16
       DEF vars, TasksOK, AccountOK, StoreOK, IoOK, runtimeVars,
           positionVars, riskVars, executorVars
  <2> QED
    BY <2>1, <2>2, <2>3, <2>4, <2>5, <2>6, <2>7, <2>8, <2>9, <2>10, <2>11,
       <2>12, <2>13, <2>14, <2>15, <2>16 DEF Next
<1> QED
  BY <1>1, <1>2, PTL DEF Spec

-----------------------------------------------------------------------------
(* Opening a position                                                      *)

(* A stake that is not nothing is of some capital, and costs at most the   *)
(* fraction it was sized by, but for rounding.                             *)
LEMMA StakeCosts ==
    ASSUME capital \in Int, NEW price \in Nat \ {0}, NEW pct \in Nat,
           SizeFor(price, pct) > 0
    PROVE  /\ capital > 0
           /\ SizeFor(price, pct) \in Nat
           /\ SizeFor(price, pct) * price * 10000
                <= capital * pct + 5000 * price
<1> DEFINE stake == capital * pct
           a == 2 * stake + 10000 * price
           b == 20000 * price
           q == a \div b
<1>1. stake \in Int /\ a \in Int /\ b \in Int /\ b > 0
  OBVIOUS
<1>2. q = SizeFor(price, pct)
  <2>1. 2 * capital * pct = 2 * stake
    OBVIOUS
  <2> QED BY <2>1 DEF SizeFor
<1> HIDE DEF stake
<1>3. q \in Int /\ b * q <= a
  <2> HIDE DEF a, b
  <2> QED BY <1>1
<1>4. q >= 1
  BY <1>2, <1>3
<1> HIDE DEF q
<1>5. b * q >= b
  <2> HIDE DEF a, b
  <2> QED BY <1>1, <1>3, <1>4
<1>6. stake > 0
  BY <1>1, <1>3, <1>5
<1>7. capital > 0
  <2>1. CASE capital <= 0
    <3>1. stake <= 0
      BY <2>1 DEF stake
    <3> QED BY <1>1, <1>6, <3>1
  <2> QED BY <2>1
<1>8. b * q = 2 * (q * price * 10000)
  BY <1>3
<1>9. q * price * 10000 <= stake + 5000 * price
  BY <1>1, <1>3, <1>8
<1> QED
  BY <1>2, <1>3, <1>4, <1>7, <1>9 DEF stake

(* So it costs at most any fraction that is not smaller.                   *)
LEMMA StakeIsBounded ==
    ASSUME capital \in Int, NEW price \in Nat \ {0}, NEW pct \in Nat,
           pct <= MaxPositionSize, SizeFor(price, pct) > 0
    PROVE  SizeFor(price, pct) * price * 10000
             <= capital * MaxPositionSize + 5000 * price
<1>1. /\ capital > 0 /\ SizeFor(price, pct) \in Nat
      /\ SizeFor(price, pct) * price * 10000 <= capital * pct + 5000 * price
  BY StakeCosts
<1>2. capital * pct <= capital * MaxPositionSize
  BY <1>1, RiskAssumption
<1> DEFINE cost == SizeFor(price, pct) * price * 10000
           x == capital * pct
           y == capital * MaxPositionSize
<1>3. cost \in Int /\ x \in Int /\ y \in Int
  BY <1>1, RiskAssumption
<1>4. cost <= x + 5000 * price /\ x <= y
  BY <1>1, <1>2
<1> HIDE DEF cost, x, y
<1>5. cost <= y + 5000 * price
  BY <1>3, <1>4
<1> QED
  BY <1>5 DEF cost, y

(* From a drawdown of 8% on, the throttle leaves no stake to enter with.   *)
LEMMA ThrottleStopsEntries ==
    ASSUME AccountOK, NEW base \in Nat, NEW scalar \in Nat,
           PositionSize(base, scalar) >= 50
    PROVE  risk.drawdown < 800
<1>1. risk.drawdown \in Int
  BY DEF AccountOK, RiskState
<1>2. CASE risk.drawdown >= 800
  <2>1. Throttle = 0
    BY <1>1, <1>2 DEF Throttle
  <2> DEFINE clamped == GreaterOf(50, LesserOf(scalar, 200))
  <2>2. clamped \in Nat
    BY DEF GreaterOf, LesserOf
  <2>3. PositionSize(base, scalar) =
          LesserOf((base * clamped * Throttle) \div 10000, MaxPositionSize)
    BY DEF PositionSize
  <2> HIDE DEF clamped
  <2>4. base * clamped * Throttle = 0
    BY <2>1, <2>2
  <2>5. (base * clamped * Throttle) \div 10000 = 0
    BY <2>4
  <2>6. PositionSize(base, scalar) <= 0
    BY <2>3, <2>5, RiskAssumption DEF LesserOf
  <2> QED
    BY <2>6, StakeType
<1> QED
  BY <1>1, <1>2

(* A step that opens a position is the listener's BUY, after the checks of *)
(* _evaluate_entry in the same step.                                       *)
LEMMA OnlyBuyOpens ==
    ASSUME TasksOK, Next, opens' # opens
    PROVE  \E price \in Prices, scalar \in VolScalars, signal \in Signals :
             LET pct == PositionSize(BasePositionSize, scalar)
             IN  EntryWanted(signal, pct) /\ Buy(price, pct)
<1>1. ASSUME NEW price, NEW signal, Decide(price, signal)
      PROVE  \E scalar \in VolScalars :
               LET pct == PositionSize(BasePositionSize, scalar)
               IN  EntryWanted(signal, pct) /\ Buy(price, pct)
  BY <1>1 DEF Decide, Sell, LogClose, Hold, positionVars
<1>2. ASSUME NEW p \in Predictions
      PROVE  /\ p.price \in Prices /\ p.signal \in Signals
             /\ ~PredictionWithPosition(p)
  <2>1. p \in [price : Prices, signal : Signals]
    BY ExecutorAssumption DEF Signals
  <2>2. ~PredictionWithPosition(p)
    BY DEF PredictionWithPosition, UpdatePrice
  <2> QED BY <2>1, <2>2
<1>3. ~OpenSaved /\ ~OpenLogged
  BY DEF OpenSaved, OpenLogged, LogOpen, positionVars
<1>4. \A t \in Tasks : ~Continue(t)
  BY DEF Continue, CloseLogged, CloseSaved, TimeRecorded, CountRecorded,
         EquityUpdated, BreakerSaved, TradeRecorded, ResetPosition,
         UpdateCapital, positionVars
<1>5. \A t \in Requests : /\ \A price \in Prices : ~ManualClose(t, price)
                          /\ ~ResetBreaker(t) /\ ~BreakerReset(t)
  BY DEF ManualClose, Sell, LogClose, ResetBreaker, BreakerReset, positionVars
<1>6. /\ \A l \in LimitChoices : ~PutLimits(l)
      /\ \A t \in Tasks : ~Delivered(t) /\ ~CommandFailed(t)
      /\ ~ChainConnected /\ ~Tick /\ ~Restart
  BY DEF PutLimits, Delivered, CommandFailed, ChainConnected, Tick, Restart,
         LoadPosition, positionVars
<1>7. CASE PriceUpdated
  <2>1. loc[Listener] \in Locals /\ loc[Listener].price \in Prices
    BY <1>7, ExecutorAssumption DEF PriceUpdated, Resumes, TasksOK
  <2> QED
    BY <1>1, <1>7, <2>1 DEF PriceUpdated, Locals
<1>8. CASE \E p \in Predictions : PredictionWithoutPosition(p)
  BY <1>1, <1>2, <1>8 DEF PredictionWithoutPosition
<1> QED
  BY <1>2, <1>3, <1>4, <1>5, <1>6, <1>7, <1>8 DEF Next

(* Whatever was running, failed or restarted before, a position is opened  *)
(* only while trading is enabled and the breaker is off, with the          *)
(* drawdown, the daily loss, the cooldown and the trade count within their *)
(* limits, and its stake is at most the maximum fraction of the capital    *)
(* but for rounding (_evaluate_entry to open_position).                    *)
THEOREM EntriesGated == Spec => EntriesPassTheGate
<1> DEFINE Gate ==
      opens' > opens =>
        /\ risk.enabled /\ ~breaker
        /\ risk.drawdown < 800 /\ risk.drawdown <= MaxDrawdown
        /\ risk.daily_pnl >= -MaxDailyLoss
        /\ risk.trades < MaxTradesPerDay
        /\ \/ risk.last_trade = None
           \/ now >= risk.last_trade + MinTradeInterval
        /\ IsOpen(position') =>
             position'.size * position'.entry * 10000
               <= capital * MaxPositionSize + 5000 * position'.entry
<1>1. TypeOK /\ [Next]_vars => [Gate]_vars
  <2> SUFFICES ASSUME TypeOK, Next, opens' > opens
               PROVE  Gate
    BY DEF vars
  <2>1. TasksOK /\ AccountOK
    BY DEF TypeOK, TasksOK, AccountOK
  <2>2. opens' # opens
    BY <2>1 DEF AccountOK
  <2>3. PICK price \in Prices, scalar \in VolScalars, signal \in Signals :
          /\ EntryWanted(signal, PositionSize(BasePositionSize, scalar))
          /\ Buy(price, PositionSize(BasePositionSize, scalar))
    BY <2>1, <2>2, OnlyBuyOpens
  <2> DEFINE pct == PositionSize(BasePositionSize, scalar)
  <2>4. pct \in Nat /\ pct <= MaxPositionSize /\ scalar \in Nat
    BY StakeType, ExecutorAssumption
  <2>5. pct >= 50 /\ CheckTrade("BUY", pct, 0)
    BY <2>3 DEF EntryWanted
  <2>6. risk.drawdown < 800
    BY <2>1, <2>4, <2>5, ThrottleStopsEntries, ExecutorAssumption
  <2> HIDE DEF pct
  <2>7. /\ risk.enabled /\ ~breaker
        /\ risk.drawdown <= MaxDrawdown
        /\ risk.daily_pnl >= -MaxDailyLoss
        /\ risk.trades < MaxTradesPerDay
        /\ CooldownMet
    BY <2>5 DEF CheckTrade
  <2>8. risk.last_trade = None \/ now >= risk.last_trade + MinTradeInterval
    <3>1. risk.last_trade \in Int \cup {None} /\ now \in Int
      BY <2>1 DEF AccountOK, RiskState, TasksOK
    <3> QED
      BY <2>7, <3>1, RiskAssumption DEF CooldownMet
  <2>9. IsOpen(position') =>
          position'.size * position'.entry * 10000
            <= capital * MaxPositionSize + 5000 * position'.entry
    <3>1. position'.size = SizeFor(price, pct) /\ position'.entry = price
      BY <2>3 DEF Buy, OpenPosition, pct
    <3>2. capital \in Int /\ price \in Nat \ {0}
      BY <2>1, ExecutorAssumption DEF AccountOK
    <3> QED
      BY <2>4, <3>1, <3>2, StakeIsBounded DEF IsOpen
  <2> QED
    BY <2>6, <2>7, <2>8, <2>9
<1> QED
  BY <1>1, TypeCorrect, PTL DEF Spec, EntriesPassTheGate

(* While the process runs, an open position changes only its price until   *)
(* it is gone, whatever is saved, fails or closes beside it (open_position *)
(* and close_position guard with has_position; update_price).              *)
THEOREM PositionsKept == Spec => PositionKept
<1> DEFINE Kept == (IsOpen(position) /\ IsOpen(position') /\ ~Restart) =>
                     [position' EXCEPT !.price = position.price] = position
<1>1. TypeOK /\ [Next]_vars => [Kept]_vars
  <2> SUFFICES ASSUME TypeOK, Next, IsOpen(position), IsOpen(position'),
                      ~Restart
               PROVE  [position' EXCEPT !.price = position.price] = position
    BY DEF vars
  <2>0. position \in Position
    BY DEF TypeOK
  <2>1. HasPosition
    BY DEF HasPosition
  <2>2. CASE position' = position
    BY <2>0, <2>2 DEF Position
  <2>3. ASSUME NEW price, NEW signal, Decide(price, signal)
        PROVE  position' = position
    BY <2>1, <2>3 DEF Decide, EntryWanted, Sell, LogClose, Hold, positionVars
  <2>4. ASSUME NEW p \in Predictions, PredictionWithPosition(p)
        PROVE  [position' EXCEPT !.price = position.price] = position
    <3>1. position' = [position EXCEPT !.price = p.price]
      BY <2>4 DEF PredictionWithPosition, UpdatePrice
    <3> QED
      BY <2>0, <3>1 DEF Position
  <2>5. ASSUME NEW p \in Predictions, PredictionWithoutPosition(p)
        PROVE  position' = position
    BY <2>3, <2>5 DEF PredictionWithoutPosition
  <2>6. CASE PriceUpdated
    BY <2>2, <2>3, <2>6 DEF PriceUpdated
  <2>7. CASE OpenSaved \/ OpenLogged
    BY <2>2, <2>7 DEF OpenSaved, OpenLogged, LogOpen, positionVars
  <2>8. ASSUME NEW t \in Tasks, Continue(t)
        PROVE  position' = position
    <3>1. ~CloseLogged(t)
      BY DEF CloseLogged, ResetPosition, Empty, IsOpen
    <3> QED
      BY <2>8, <3>1
         DEF Continue, CloseSaved, TimeRecorded, CountRecorded, EquityUpdated,
             BreakerSaved, TradeRecorded, UpdateCapital, positionVars
  <2>9. ASSUME NEW t \in Requests,
               \/ \E price \in Prices : ManualClose(t, price)
               \/ ResetBreaker(t)
               \/ BreakerReset(t)
        PROVE  position' = position
    BY <2>9 DEF ManualClose, Sell, LogClose, ResetBreaker, BreakerReset,
                positionVars
  <2>10. CASE \/ \E l \in LimitChoices : PutLimits(l)
              \/ \E t \in Tasks : Delivered(t) \/ CommandFailed(t)
              \/ ChainConnected
              \/ Tick
    BY <2>2, <2>10 DEF PutLimits, Delivered, CommandFailed, ChainConnected,
                       Tick, positionVars
  <2> QED
    BY <2>2, <2>4, <2>5, <2>6, <2>7, <2>8, <2>9, <2>10 DEF Next
<1> QED
  BY <1>1, TypeCorrect, PTL DEF Spec, PositionKept

(* A drawdown that shrinks again never turns trading back on: only a reset *)
(* request and a restart do (trigger_circuit_breaker, update_equity and    *)
(* reset_circuit_breaker).                                                 *)
THEOREM OnlyResetsEnable == Spec => OnlyResetEnables
<1> DEFINE Resets == (~risk.enabled /\ risk'.enabled) =>
                        Restart \/ \E t \in Requests : ResetBreaker(t)
<1>1. TypeOK /\ [Next]_vars => [Resets]_vars
  <2> SUFFICES ASSUME TypeOK, Next, ~Restart,
                      ~\E t \in Requests : ResetBreaker(t),
                      risk'.enabled
               PROVE  risk.enabled
    BY DEF vars
  <2>0. risk \in RiskState
    BY DEF TypeOK
  <2>1. CASE risk' = risk
    BY <2>1
  <2>2. ASSUME NEW price, NEW signal, Decide(price, signal)
        PROVE  risk' = risk
    BY <2>2 DEF Decide, Buy, Sell, Hold, riskVars
  <2>3. ASSUME NEW t, RecordTime(t) \/ RecordCount(t)
                        \/ (\E pct : RecordPnl(t, pct)) \/ SaveRisk(t)
        PROVE  risk.enabled
    BY <2>0, <2>3 DEF RecordTime, RecordCount, RecordPnl, SaveRisk, RiskState,
                      riskVars
  <2>4. ASSUME NEW t, NEW equity, UpdateEquity(t, equity)
        PROVE  risk.enabled
    <3>1. WithEquity(equity).enabled = risk.enabled
      BY <2>0 DEF WithEquity, RiskState
    <3>2. CASE Trips(WithEquity(equity))
      <4>1. risk' = [WithEquity(equity) EXCEPT !.enabled = FALSE]
        BY <2>4, <3>2 DEF UpdateEquity
      <4>2. WithEquity(equity) = [risk EXCEPT
                !.peak = WithEquity(equity).peak,
                !.drawdown = WithEquity(equity).drawdown,
                !.max_drawdown = WithEquity(equity).max_drawdown]
        BY <2>0 DEF WithEquity, RiskState
      <4> QED
        BY <2>0, <4>1, <4>2 DEF RiskState
    <3>3. CASE ~Trips(WithEquity(equity))
      BY <2>4, <3>1, <3>3 DEF UpdateEquity
    <3> QED BY <3>2, <3>3
  <2>5. ASSUME NEW p \in Predictions,
               PredictionWithPosition(p) \/ PredictionWithoutPosition(p)
        PROVE  risk' = risk
    BY <2>2, <2>5 DEF PredictionWithPosition, PredictionWithoutPosition,
                      riskVars
  <2>6. CASE PriceUpdated
    BY <2>1, <2>2, <2>6 DEF PriceUpdated
  <2>7. CASE OpenSaved \/ OpenLogged
    BY <2>1, <2>3, <2>7 DEF OpenSaved, OpenLogged, riskVars
  <2>8. ASSUME NEW t \in Tasks, Continue(t)
        PROVE  risk.enabled
    BY <2>1, <2>3, <2>4, <2>8
       DEF Continue, CloseLogged, CloseSaved, TimeRecorded, CountRecorded,
           EquityUpdated, BreakerSaved, TradeRecorded, riskVars
  <2>9. ASSUME NEW t \in Requests,
               (\E price \in Prices : ManualClose(t, price)) \/ BreakerReset(t)
        PROVE  risk' = risk
    BY <2>9 DEF ManualClose, Sell, BreakerReset, riskVars
  <2>10. CASE \/ \E l \in LimitChoices : PutLimits(l)
              \/ \E t \in Tasks : Delivered(t) \/ CommandFailed(t)
              \/ ChainConnected
              \/ Tick
    BY <2>1, <2>10 DEF PutLimits, Delivered, CommandFailed, ChainConnected,
                       Tick, riskVars
  <2> QED
    BY <2>1, <2>5, <2>6, <2>7, <2>8, <2>9, <2>10 DEF Next
<1> QED
  BY <1>1, TypeCorrect, PTL DEF Spec, OnlyResetEnables

-----------------------------------------------------------------------------
(* The count of trades                                                     *)

(* The tasks whose trade is counted and not yet in the history             *)
Underway ==
    {t \in Tasks : pc[t] \in {"record.count", "record.pnl", "breaker.save",
                              "equity.save"}}

CountInv ==
    /\ IsFiniteSet(Underway)
    /\ Len(history) + Cardinality(Underway) <= risk.trades

(* A step counts the trade of one task, or moves it into the history, or   *)
(* drops some of those underway, or starts a new process.                  *)
CountStep ==
    \/ /\ UNCHANGED <<history, risk.trades>>
       /\ Underway' \subseteq Underway
    \/ /\ history' = history /\ risk'.trades = risk.trades + 1
       /\ \E t \in Tasks : Underway' \subseteq Underway \cup {t}
    \/ /\ risk'.trades = risk.trades
       /\ Len(history') = Len(history) + 1
       /\ \E t \in Underway : Underway' = Underway \ {t}
    \/ history' = <<>> /\ risk'.trades \in Nat /\ Underway' = {}

LEMMA AtMostOneMore ==
    ASSUME NEW S, IsFiniteSet(S), NEW x
    PROVE  /\ IsFiniteSet(S \cup {x})
           /\ Cardinality(S \cup {x}) \in Nat
           /\ Cardinality(S \cup {x}) <= Cardinality(S) + 1
<1>1. /\ IsFiniteSet(S \cup {x})
      /\ \/ Cardinality(S \cup {x}) = Cardinality(S)
         \/ Cardinality(S \cup {x}) = Cardinality(S) + 1
  BY FS_AddElement
<1>2. Cardinality(S) \in Nat
  BY FS_CardinalityType
<1> QED
  BY <1>1, <1>2

LEMMA CountKeeps ==
    ASSUME TypeOK, CountInv, CountStep
    PROVE  CountInv'
<1>1. /\ Len(history) \in Nat /\ risk.trades \in Nat
      /\ Cardinality(Underway) \in Nat
  BY FS_CardinalityType DEF TypeOK, RiskState, CountInv
<1>2. ASSUME NEW t, Underway' \subseteq Underway \cup {t}
      PROVE  /\ IsFiniteSet(Underway') /\ Cardinality(Underway') \in Nat
             /\ Cardinality(Underway') <= Cardinality(Underway) + 1
  <2>1. /\ IsFiniteSet(Underway \cup {t})
        /\ Cardinality(Underway \cup {t}) \in Nat
        /\ Cardinality(Underway \cup {t}) <= Cardinality(Underway) + 1
    BY AtMostOneMore DEF CountInv
  <2>2. /\ IsFiniteSet(Underway')
        /\ Cardinality(Underway') <= Cardinality(Underway \cup {t})
    BY <1>2, <2>1, FS_Subset
  <2>3. Cardinality(Underway') \in Nat
    BY <2>2, FS_CardinalityType
  <2> QED
    BY <1>1, <2>1, <2>2, <2>3
<1>3. CASE UNCHANGED <<history, risk.trades>> /\ Underway' \subseteq Underway
  <2>1. /\ IsFiniteSet(Underway') /\ Cardinality(Underway') \in Nat
        /\ Cardinality(Underway') <= Cardinality(Underway)
    BY <1>3, FS_Subset, FS_CardinalityType DEF CountInv
  <2> QED
    BY <1>1, <1>3, <2>1 DEF CountInv
<1>4. CASE /\ history' = history /\ risk'.trades = risk.trades + 1
           /\ \E t \in Tasks : Underway' \subseteq Underway \cup {t}
  <2>1. PICK t \in Tasks : Underway' \subseteq Underway \cup {t}
    BY <1>4
  <2>2. /\ IsFiniteSet(Underway') /\ Cardinality(Underway') \in Nat
        /\ Cardinality(Underway') <= Cardinality(Underway) + 1
    BY <1>2, <2>1
  <2> QED
    BY <1>1, <1>4, <2>2 DEF CountInv
<1>5. CASE /\ risk'.trades = risk.trades
           /\ Len(history') = Len(history) + 1
           /\ \E t \in Underway : Underway' = Underway \ {t}
  <2>1. IsFiniteSet(Underway')
        /\ Cardinality(Underway') = Cardinality(Underway) - 1
    BY <1>5, FS_RemoveElement DEF CountInv
  <2> QED
    BY <1>1, <1>5, <2>1 DEF CountInv
<1>6. CASE history' = <<>> /\ risk'.trades \in Nat /\ Underway' = {}
  BY <1>6, FS_EmptySet DEF CountInv
<1> QED
  BY <1>3, <1>4, <1>5, <1>6 DEF CountStep

LEMMA SuspendCounts ==
    ASSUME TypeOK, NEW t \in Tasks, NEW label, NEW l, SuspendAt(t, label, l)
    PROVE  /\ history' = history
           /\ \/ label \notin {"record.count", "record.pnl", "breaker.save",
                               "equity.save"}
              \/ t \in Underway
              => Underway' \subseteq Underway
           /\ Underway' \subseteq Underway \cup {t}
  BY DEF TypeOK, SuspendAt, Underway

LEMMA EndCounts ==
    ASSUME TypeOK, NEW t \in Tasks, NEW h, Ends(t, h)
    PROVE  history' = h /\ Underway' = Underway \ {t}
  BY DEF TypeOK, Ends, Underway

LEMMA DecideCounts ==
    ASSUME TypeOK, NEW price, NEW signal, Decide(price, signal)
    PROVE  CountStep
<1>1. Listener \in Tasks
  BY ExecutorAssumption
<1>2. PICK scalar \in VolScalars :
         \/ Buy(price, PositionSize(BasePositionSize, scalar))
         \/ Sell(Listener, price)
         \/ Hold
  BY DEF Decide
<1>3. risk' = risk
  BY <1>2 DEF Buy, Sell, Hold, riskVars
<1>4. history' = history /\ Underway' \subseteq Underway
  BY <1>1, <1>2, SuspendCounts, EndCounts DEF Buy, Sell, Hold, Returns
<1> QED
  BY <1>3, <1>4 DEF CountStep

LEMMA ContinueCounts ==
    ASSUME TypeOK, NEW t \in Tasks, Continue(t)
    PROVE  CountStep
<1>0. risk \in RiskState
  BY DEF TypeOK
<1>1. CASE CloseLogged(t) \/ CloseSaved(t)
  <2>1. history' = history /\ Underway' \subseteq Underway
    BY <1>1, SuspendCounts DEF CloseLogged, CloseSaved
  <2>2. risk'.trades = risk.trades
    BY <1>0, <1>1 DEF CloseLogged, CloseSaved, RecordTime, RiskState, riskVars
  <2> QED
    BY <2>1, <2>2 DEF CountStep
<1>2. CASE TimeRecorded(t)
  <2>1. history' = history /\ Underway' \subseteq Underway \cup {t}
    BY <1>2, SuspendCounts DEF TimeRecorded
  <2>2. risk'.trades = risk.trades + 1
    BY <1>0, <1>2 DEF TimeRecorded, RecordCount, RiskState
  <2> QED
    BY <2>1, <2>2 DEF CountStep
<1>3. CASE CountRecorded(t) \/ EquityUpdated(t) \/ BreakerSaved(t)
  <2>1. t \in Underway
    BY <1>3 DEF CountRecorded, EquityUpdated, BreakerSaved, Resumes, Underway
  <2>2. history' = history /\ Underway' \subseteq Underway
    BY <1>3, <2>1, SuspendCounts DEF CountRecorded, EquityUpdated, BreakerSaved
  <2>3. risk'.trades = risk.trades
    <3>1. CASE CountRecorded(t) \/ BreakerSaved(t)
      BY <1>0, <3>1 DEF CountRecorded, BreakerSaved, RecordPnl, SaveRisk,
                        RiskState, riskVars
    <3>2. CASE EquityUpdated(t)
      <4> DEFINE r == WithEquity(loc[t].equity)
      <4>1. r.trades = risk.trades
        BY <1>0 DEF WithEquity, RiskState
      <4>2. r \in RiskState
        <5>1. AccountOK /\ loc[t].equity \in Int
          BY DEF TypeOK, AccountOK, Locals
        <5> QED BY <5>1, WithEquityType
      <4>3. risk' = r \/ risk' = [r EXCEPT !.enabled = FALSE]
        BY <3>2 DEF EquityUpdated, UpdateEquity
      <4> HIDE DEF r
      <4> QED
        BY <4>1, <4>2, <4>3 DEF RiskState
    <3> QED
      BY <1>3, <3>1, <3>2
  <2> QED
    BY <2>2, <2>3 DEF CountStep
<1>4. CASE TradeRecorded(t)
  <2> DEFINE h == Append(history, [action |-> loc[t].action,
                                   pnl |-> loc[t].pnl])
  <2>1. t \in Underway /\ risk' = risk /\ Returns(t, h)
    BY <1>4 DEF TradeRecorded, Resumes, Underway, riskVars
  <2>2. history' = h /\ Underway' = Underway \ {t}
    BY <2>1, EndCounts DEF Returns
  <2>3. Len(h) = Len(history) + 1
    BY DEF TypeOK
  <2> QED
    BY <2>1, <2>2, <2>3 DEF CountStep
<1> QED
  BY <1>1, <1>2, <1>3, <1>4 DEF Continue

LEMMA EveryStepCounts ==
    ASSUME TypeOK, [Next]_vars
    PROVE  CountStep
<1>0. Listener \in Tasks /\ Requests \subseteq Tasks /\ risk \in RiskState
  BY ExecutorAssumption DEF Requests, TypeOK
<1>1. ASSUME NEW p \in Predictions, PredictionWithPosition(p)
      PROVE  CountStep
  BY <1>0, <1>1, SuspendCounts DEF PredictionWithPosition, riskVars, CountStep
<1>2. ASSUME NEW p \in Predictions, PredictionWithoutPosition(p)
      PROVE  CountStep
  BY <1>2, DecideCounts DEF PredictionWithoutPosition
<1>3. CASE PriceUpdated
  BY <1>3, DecideCounts DEF PriceUpdated
<1>4. CASE OpenSaved \/ OpenLogged
  <2>1. history' = history /\ Underway' \subseteq Underway
    BY <1>0, <1>4, SuspendCounts DEF OpenSaved, OpenLogged
  <2>2. risk'.trades = risk.trades
    BY <1>0, <1>4 DEF OpenSaved, OpenLogged, RecordTime, RiskState, riskVars
  <2> QED
    BY <2>1, <2>2 DEF CountStep
<1>5. ASSUME NEW t \in Tasks, Continue(t)
      PROVE  CountStep
  BY <1>5, ContinueCounts
<1>6. ASSUME NEW t \in Requests,
             (\E price \in Prices : ManualClose(t, price)) \/ ResetBreaker(t)
      PROVE  CountStep
  <2>1. history' = history /\ Underway' \subseteq Underway
    <3>1. ASSUME NEW price \in Prices, ManualClose(t, price)
          PROVE  \E l : SuspendAt(t, "close.log", l)
      BY <3>1 DEF ManualClose, Sell
    <3>2. CASE ResetBreaker(t)
      BY <1>0, <3>2, SuspendCounts DEF ResetBreaker
    <3> QED
      BY <1>0, <1>6, <3>1, <3>2, SuspendCounts
  <2>2. risk'.trades = risk.trades
    BY <1>0, <1>6 DEF ManualClose, Sell, ResetBreaker, ResetCircuitBreaker,
                      RiskState, riskVars
  <2> QED
    BY <2>1, <2>2 DEF CountStep
<1>7. ASSUME NEW t \in Tasks, BreakerReset(t) \/ CommandFailed(t)
      PROVE  CountStep
  <2>1. history' = history /\ Underway' \subseteq Underway
    BY <1>7, EndCounts DEF BreakerReset, CommandFailed, Returns
  <2> QED
    BY <1>7, <2>1 DEF BreakerReset, CommandFailed, riskVars, CountStep
<1>8. CASE \/ \E l \in LimitChoices : PutLimits(l)
           \/ \E t \in Tasks : Delivered(t)
           \/ ChainConnected
           \/ Tick
           \/ UNCHANGED vars
  BY <1>8 DEF PutLimits, Delivered, ChainConnected, Tick, vars, executorVars,
              riskVars, Underway, CountStep
<1>9. CASE Restart
  <2>1. history' = <<>> /\ Underway' = {}
    BY <1>9 DEF Restart, Underway
  <2>2. risk'.trades \in Nat
    <3>1. TasksOK
      BY DEF TypeOK, TasksOK
    <3>2. risk' \in RiskState
      BY <1>9, <3>1, LoadedTypes DEF Restart, LoadRisk
    <3> QED BY <3>2 DEF RiskState
  <2> QED
    BY <2>1, <2>2 DEF CountStep
<1> QED
  BY <1>0, <1>1, <1>2, <1>3, <1>4, <1>5, <1>6, <1>7, <1>8, <1>9 DEF Next

(* Every trade in the history was counted against the daily limit, however *)
(* the handlers of record_trade interleave, fail, or are cut off by a      *)
(* restart: the count is raised before the history is, and nothing lowers  *)
(* it while the process runs.                                              *)
THEOREM TradesCounted == Spec => []TradesAreCounted
<1>1. Init => CountInv
  <2> SUFFICES ASSUME Init PROVE CountInv
    OBVIOUS
  <2>1. Underway = {} /\ history = <<>> /\ risk.trades = 0
    BY DEF Init, Underway, RiskInit, FreshRisk
  <2> QED
    BY <2>1, FS_EmptySet DEF CountInv
<1>2. TypeOK /\ CountInv /\ [Next]_vars => CountInv'
  BY CountKeeps, EveryStepCounts
<1>3. TypeOK /\ CountInv => TradesAreCounted
  BY FS_CardinalityType DEF TypeOK, RiskState, CountInv, TradesAreCounted
<1> QED
  BY <1>1, <1>2, <1>3, TypeCorrect, PTL DEF Spec

-----------------------------------------------------------------------------
(* The stake and the stop                                                  *)

(* A stake of the base fraction is scaled by at most two and by what the   *)
(* drawdown leaves of it.                                                  *)
LEMMA StakeIsThrottled ==
    ASSUME risk.drawdown \in Int, NEW base \in Nat, NEW scalar \in Nat
    PROVE  100 * PositionSize(base, scalar) <= 2 * base * Throttle
<1> DEFINE clamped == GreaterOf(50, LesserOf(scalar, 200))
           scaled == base * clamped
           part == scaled * Throttle
<1>1. clamped \in Nat /\ clamped <= 200
  BY DEF GreaterOf, LesserOf
<1>2. PositionSize(base, scalar) = LesserOf(part \div 10000, MaxPositionSize)
  BY DEF PositionSize
<1> HIDE DEF clamped
<1>3. scaled \in Nat /\ scaled <= 200 * base
  BY <1>1
<1> HIDE DEF scaled
<1>4. part \in Nat /\ part <= 100 * (2 * base * Throttle)
  BY <1>3, ThrottleType
<1> HIDE DEF part
<1> DEFINE share == part \div 10000
           most == 2 * base * Throttle
<1>5. share \in Int /\ 10000 * share <= part
  BY <1>4
<1>6. most \in Int
  BY ThrottleType
<1> HIDE DEF share, most
<1>7. /\ LesserOf(share, MaxPositionSize) \in Int
      /\ LesserOf(share, MaxPositionSize) <= share
  BY <1>5, RiskAssumption DEF LesserOf
<1>8. part <= 100 * most
  BY <1>4 DEF most
<1>9. 100 * LesserOf(share, MaxPositionSize) <= most
  BY <1>4, <1>5, <1>6, <1>7, <1>8
<1> QED
  BY <1>2, <1>9 DEF share, most

(* The deeper the drawdown, the smaller the stake, whatever the base and   *)
(* the volatility (get_throttle_factor, calculate_position_size).          *)
THEOREM StakesShrink ==
    ASSUME risk.drawdown \in Int, risk'.drawdown \in Int,
           risk.drawdown <= risk'.drawdown,
           NEW base \in Nat, NEW scalar \in Nat
    PROVE  PositionSize(base, scalar)' <= PositionSize(base, scalar)
<1> DEFINE clamped == GreaterOf(50, LesserOf(scalar, 200))
           scaled == base * clamped
<1>1. clamped \in Nat
  BY DEF GreaterOf, LesserOf
<1>2. /\ PositionSize(base, scalar) =
            LesserOf((scaled * Throttle) \div 10000, MaxPositionSize)
      /\ PositionSize(base, scalar)' =
            LesserOf((scaled * Throttle') \div 10000, MaxPositionSize)
  BY DEF PositionSize
<1> HIDE DEF clamped
<1>3. scaled \in Nat
  BY <1>1
<1> HIDE DEF scaled
<1> DEFINE Left(d) == CASE d < 200 -> 100
                        [] d \in 200..399 -> 75
                        [] d \in 400..599 -> 50
                        [] d \in 600..799 -> 25
                        [] OTHER -> 0
<1>4. /\ Throttle \in Nat /\ Throttle' \in Nat
      /\ Throttle' <= Throttle
  <2>1. Throttle = Left(risk.drawdown) /\ Throttle' = Left(risk'.drawdown)
    BY DEF Throttle
  <2>2. ASSUME NEW d \in Int, NEW e \in Int, d <= e
        PROVE  Left(d) \in Nat /\ Left(e) \in Nat /\ Left(e) <= Left(d)
    <3>1. \A x \in Int :
            Left(x) = IF x < 200 THEN 100 ELSE IF x < 400 THEN 75
                      ELSE IF x < 600 THEN 50 ELSE IF x < 800 THEN 25 ELSE 0
      OBVIOUS
    <3> HIDE DEF Left
    <3> QED
      BY <2>2, <3>1
  <2> QED
    BY <2>1, <2>2
<1> HIDE DEF Left
<1> DEFINE more == scaled * Throttle
           less == scaled * Throttle'
<1>5. more \in Nat /\ less \in Nat /\ less <= more
  <2>1. \A x, y \in Nat : y <= x => /\ scaled * x \in Nat
                                   /\ scaled * y \in Nat
                                   /\ scaled * y <= scaled * x
    BY <1>3
  <2> QED
    BY <1>4, <2>1
<1>6. /\ PositionSize(base, scalar) = LesserOf(more \div 10000, MaxPositionSize)
      /\ PositionSize(base, scalar)' = LesserOf(less \div 10000, MaxPositionSize)
  BY <1>2
<1> HIDE DEF more, less
<1>7. less \div 10000 <= more \div 10000
  BY <1>5
<1> DEFINE high == more \div 10000
           low == less \div 10000
<1>8. high \in Int /\ low \in Int /\ low <= high
  BY <1>5, <1>7
<1> HIDE DEF high, low
<1>9. \A x, y, z \in Int : x <= y => LesserOf(x, z) <= LesserOf(y, z)
  BY DEF LesserOf
<1>10. LesserOf(low, MaxPositionSize) <= LesserOf(high, MaxPositionSize)
  <2>1. MaxPositionSize \in Int
    BY RiskAssumption
  <2> QED
    BY <1>8, <1>9, <2>1
<1> QED
  BY <1>6, <1>10 DEF high, low

(* What an entry may cost: twice the base fraction of the capital, times   *)
(* what the throttle leaves at the drawdown it is made in.                 *)
StakesThrottled ==
    [][opens' > opens /\ IsOpen(position') =>
         position'.size * position'.entry * 1000000
           <= capital * (2 * BasePositionSize * Throttle)
                + 500000 * position'.entry]_vars

(* The throttle in force at the step that opens a position bounds the      *)
(* stake, whatever ran or failed before: no entry is sized by a drawdown   *)
(* from before another task's trade (_evaluate_entry to open_position).    *)
THEOREM StakesAreThrottled == Spec => StakesThrottled
<1> DEFINE Throttled ==
      opens' > opens /\ IsOpen(position') =>
         position'.size * position'.entry * 1000000
           <= capital * (2 * BasePositionSize * Throttle)
                + 500000 * position'.entry
<1>1. TypeOK /\ [Next]_vars => [Throttled]_vars
  <2> SUFFICES ASSUME TypeOK, Next, opens' > opens, IsOpen(position')
               PROVE  Throttled
    BY DEF vars
  <2>1. TasksOK /\ AccountOK
    BY DEF TypeOK, TasksOK, AccountOK
  <2>2. opens' # opens
    BY <2>1 DEF AccountOK
  <2>3. PICK price \in Prices, scalar \in VolScalars, signal \in Signals :
          Buy(price, PositionSize(BasePositionSize, scalar))
    BY <2>1, <2>2, OnlyBuyOpens
  <2> DEFINE pct == PositionSize(BasePositionSize, scalar)
             size == SizeFor(price, pct)
             most == 2 * BasePositionSize * Throttle
  <2>4. pct \in Nat /\ 100 * pct <= most /\ most \in Nat
    <3>1. /\ scalar \in Nat /\ BasePositionSize \in Nat
          /\ risk.drawdown \in Int
      BY <2>1, ExecutorAssumption DEF AccountOK, RiskState
    <3>2. pct \in Nat
      BY <3>1, StakeType
    <3>3. 100 * pct <= most
      BY <3>1, StakeIsThrottled
    <3>4. most \in Nat
      BY <3>1, ThrottleType
    <3> QED
      BY <3>2, <3>3, <3>4
  <2>5. position'.size = size /\ position'.entry = price
    BY <2>3 DEF Buy, OpenPosition
  <2>6. capital \in Int /\ price \in Nat \ {0} /\ size > 0
    BY <2>1, <2>5, ExecutorAssumption DEF AccountOK, IsOpen
  <2> HIDE DEF pct, most
  <2>7. /\ capital > 0 /\ size \in Nat
        /\ size * price * 10000 <= capital * pct + 5000 * price
    BY <2>4, <2>6, StakeCosts
  <2> HIDE DEF size
  <2>8. capital * (100 * pct) <= capital * most
    <3> DEFINE x == 100 * pct
    <3>1. x \in Nat /\ x <= most
      BY <2>4
    <3> HIDE DEF x
    <3>2. capital * x <= capital * most
      BY <2>4, <2>6, <2>7, <3>1
    <3> QED
      BY <3>2 DEF x
  <2> DEFINE cost == size * price
             share == capital * pct
             bound == capital * most
  <2>9. cost \in Int /\ share \in Int /\ bound \in Int
    BY <2>4, <2>6, <2>7
  <2>10. cost * 10000 <= share + 5000 * price /\ 100 * share <= bound
    BY <2>4, <2>6, <2>7, <2>8
  <2> HIDE DEF cost, share, bound
  <2>11. cost * 1000000 <= bound + 500000 * price
    BY <2>6, <2>9, <2>10
  <2> QED
    BY <2>5, <2>11 DEF cost, bound, most
<1> QED
  BY <1>1, TypeCorrect, PTL DEF Spec, StakesThrottled

-----------------------------------------------------------------------------
(* Exits that are due                                                      *)

(* The price the listener decides by is the one the position was given,    *)
(* if the position was not closed while it was saved.                      *)
PriceInHand ==
    pc[Listener] = "update_price" /\ HasPosition =>
        position.price = loc[Listener].price

(* A step of another task, or one after which no price is being saved      *)
PriceStays ==
    \/ pc'[Listener] # "update_price"
    \/ UNCHANGED <<pc[Listener], loc[Listener]>>
         /\ (position' = position \/ ~HasPosition')

LEMMA SuspendKeepsPrice ==
    ASSUME TypeOK, NEW t \in Tasks, NEW label, label # "update_price", NEW l,
           SuspendAt(t, label, l), position' = position \/ ~HasPosition'
    PROVE  PriceStays
<1>1. pc \in [Tasks -> Labels] /\ loc \in [Tasks -> Locals] /\ Listener \in Tasks
  BY ExecutorAssumption DEF TypeOK
<1> QED
  BY <1>1 DEF SuspendAt, PriceStays

LEMMA EndKeepsPrice ==
    ASSUME TypeOK, NEW t \in Tasks, NEW h, Ends(t, h), position' = position
    PROVE  PriceStays
<1>1. pc \in [Tasks -> Labels] /\ loc \in [Tasks -> Locals] /\ Listener \in Tasks
  BY ExecutorAssumption DEF TypeOK
<1> QED
  BY <1>1 DEF Ends, PriceStays

LEMMA DecideKeepsPrice ==
    ASSUME TypeOK, NEW price, NEW signal, Decide(price, signal)
    PROVE  pc'[Listener] # "update_price"
<1>1. pc \in [Tasks -> Labels] /\ Listener \in Tasks
  BY ExecutorAssumption DEF TypeOK
<1> QED
  BY <1>1 DEF Decide, Buy, Sell, Hold, Returns, Ends, SuspendAt

LEMMA PriceStep == TypeOK /\ PriceInHand /\ [Next]_vars => PriceInHand'
<1> SUFFICES ASSUME TypeOK, PriceInHand, [Next]_vars PROVE PriceInHand'
  OBVIOUS
<1>0. /\ Listener \in Tasks /\ pc \in [Tasks -> Labels]
      /\ loc \in [Tasks -> Locals] /\ position \in Position
  BY ExecutorAssumption DEF TypeOK
<1>1. ASSUME NEW p \in Predictions, PredictionWithPosition(p)
      PROVE  PriceInHand'
  <2>1. position' = [position EXCEPT !.price = p.price]
    BY <1>1 DEF PredictionWithPosition, UpdatePrice
  <2>2. loc'[Listener].price = p.price
    BY <1>0, <1>1 DEF PredictionWithPosition, SuspendAt, NoLocals
  <2> QED
    BY <1>0, <2>1, <2>2 DEF PriceInHand, Position
<1>2. ASSUME PriceStays PROVE PriceInHand'
  BY <1>2 DEF PriceStays, PriceInHand, HasPosition, IsOpen
<1>3. ASSUME NEW p \in Predictions, PredictionWithoutPosition(p)
      PROVE  PriceStays
  BY <1>3, DecideKeepsPrice DEF PredictionWithoutPosition, PriceStays
<1>4. CASE PriceUpdated
  BY <1>2, <1>4, DecideKeepsPrice DEF PriceUpdated, PriceStays
<1>5. CASE OpenSaved \/ OpenLogged
  <2>1. \E l : \/ SuspendAt(Listener, "open.log", l)
              \/ SuspendAt(Listener, "record.time", l)
    BY <1>5 DEF OpenSaved, OpenLogged
  <2> QED
    BY <1>0, <1>2, <2>1 DEF SuspendAt, PriceStays
<1>6. ASSUME NEW t \in Tasks, Continue(t)
      PROVE  PriceStays
  <2>1. CASE TradeRecorded(t)
    BY <2>1, EndKeepsPrice DEF TradeRecorded, Returns, positionVars
  <2>2. CASE ~TradeRecorded(t)
    <3>1. PICK label, l :
            label # "update_price" /\ SuspendAt(t, label, l)
      BY <1>6, <2>2
         DEF Continue, CloseLogged, CloseSaved, TimeRecorded, CountRecorded,
             EquityUpdated, BreakerSaved, Labels, SellLabels, RecordLabels
    <3>2. position' = position \/ ~HasPosition'
      BY <1>6, <2>2
         DEF Continue, CloseLogged, CloseSaved, TimeRecorded, CountRecorded,
             EquityUpdated, BreakerSaved, ResetPosition, UpdateCapital, Empty,
             HasPosition, IsOpen, positionVars
    <3> QED
      BY <3>1, <3>2, SuspendKeepsPrice
  <2> QED
    BY <2>1, <2>2
<1>7. ASSUME NEW t \in Requests, NEW price \in Prices, ManualClose(t, price)
      PROVE  PriceStays
  <2>1. \E l : SuspendAt(t, "close.log", l)
    BY <1>7 DEF ManualClose, Sell
  <2>2. position' = position /\ t \in Tasks
    BY <1>7 DEF ManualClose, Sell, LogClose, positionVars, Requests
  <2> QED
    BY <2>1, <2>2, SuspendKeepsPrice
<1>8. ASSUME NEW t \in Requests, ResetBreaker(t)
      PROVE  PriceStays
  BY <1>8, SuspendKeepsPrice DEF ResetBreaker, positionVars, Requests
<1>9. ASSUME NEW t \in Requests, BreakerReset(t)
      PROVE  PriceStays
  BY <1>9, EndKeepsPrice DEF BreakerReset, Returns, positionVars, Requests
<1>10. ASSUME NEW t \in Tasks, CommandFailed(t)
       PROVE  PriceStays
  BY <1>10, EndKeepsPrice DEF CommandFailed, positionVars
<1>11. CASE Restart
  BY <1>0, <1>2, <1>11 DEF Restart, PriceStays
<1>12. CASE \/ \E l \in LimitChoices : PutLimits(l)
            \/ \E t \in Tasks : Delivered(t)
            \/ ChainConnected
            \/ Tick
            \/ UNCHANGED vars
  BY <1>2, <1>12
     DEF PutLimits, Delivered, ChainConnected, Tick, vars, positionVars,
         executorVars, PriceStays
<1> QED
  BY <1>1, <1>2, <1>3, <1>4, <1>5, <1>6, <1>7, <1>8, <1>9, <1>10, <1>11,
     <1>12 DEF Next

(* A position is to be closed at price: the model reverses, its time is    *)
(* over, the profit is reached, or the loss is as wide as both stops, the  *)
(* fixed one and the cap of the one by volatility.                         *)
CloseDue(price) ==
    \/ loc[Listener].signal = "down"
    \/ TooOld(now - position.since)
    \/ TakeProfitHit(position.entry, price)
    \/ /\ StopLossHit(position.entry, price)
       /\ (position.entry - price) * 10000 >= position.entry * MaxStopLoss

(* What is due is done, at the price it was due at.                        *)
DueClosesStart ==
    [][(PriceUpdated /\ HasPosition /\ CloseDue(loc[Listener].price)
          /\ Approved(0)) =>
         /\ pc'[Listener] = "close.log"
         /\ loc'[Listener].pnl = RealizedPnl(loc[Listener].price)]_vars

(* However wide the ATR makes the stop, and whatever runs beside the       *)
(* handler, fails or restarts, the price update of a position that is due  *)
(* to be closed ends in a close, unless the guardrail refuses it, and the  *)
(* profit booked is that of the price that triggered it (_evaluate_exit,   *)
(* check_stop_loss_dynamic, close_position).  That holds while the risk    *)
(* validation fails, too: a SELL does not ask it, contrary to              *)
(* risk_guardian.py's "hard gate that cannot be bypassed".                 *)
THEOREM DueClosesStarted == Spec => DueClosesStart
<1> DEFINE Started ==
      (PriceUpdated /\ HasPosition /\ CloseDue(loc[Listener].price)
         /\ Approved(0)) =>
        /\ pc'[Listener] = "close.log"
        /\ loc'[Listener].pnl = RealizedPnl(loc[Listener].price)
<1>1. TypeOK /\ PriceInHand /\ [Next]_vars => [Started]_vars
  <2> SUFFICES ASSUME TypeOK, PriceInHand, PriceUpdated, HasPosition,
                      CloseDue(loc[Listener].price), Approved(0)
               PROVE  /\ pc'[Listener] = "close.log"
                      /\ loc'[Listener].pnl = RealizedPnl(loc[Listener].price)
    BY DEF vars
  <2> DEFINE price == loc[Listener].price
             signal == loc[Listener].signal
  <2>1. /\ Listener \in Tasks /\ pc \in [Tasks -> Labels]
        /\ loc \in [Tasks -> Locals] /\ position \in Position
        /\ price \in Int
    BY ExecutorAssumption DEF TypeOK, Locals
  <2>2. position.price = price
    BY DEF PriceInHand, PriceUpdated, Resumes
  <2>3. ASSUME NEW atr \in Atrs PROVE ExitWanted(price, signal, atr)
    <3>1. ASSUME (position.entry - price) * 10000 >= position.entry * MaxStopLoss
          PROVE  AtrStopHit(position.entry, price, atr)
      <4> DEFINE fall == (position.entry - price) * 10000
                 width == atr * AtrStopMultiplier * 10000
                 cap == position.entry * MaxStopLoss
      <4>1. fall \in Int /\ width \in Int /\ cap \in Int /\ fall >= cap
        BY <2>1, <3>1, ExecutorAssumption, RiskAssumption DEF Position
      <4>2. AtrStopHit(position.entry, price, atr) <=>
              fall >= LesserOf(width, cap)
        BY DEF AtrStopHit
      <4> HIDE DEF fall, width, cap
      <4> QED
        BY <4>1, <4>2 DEF LesserOf
    <3> QED
      BY <2>2, <3>1 DEF ExitWanted, CloseDue
  <2>4. PICK atr \in Atrs, scalar \in VolScalars :
          \/ EntryWanted(signal, PositionSize(BasePositionSize, scalar))
          \/ Sell(Listener, price)
          \/ ExitWanted(price, signal, atr) => ~Approved(0)
    BY DEF PriceUpdated, Decide
  <2>5. Sell(Listener, price)
    BY <2>3, <2>4 DEF EntryWanted
  <2> QED
    BY <2>1, <2>5 DEF Sell, SuspendAt, NoLocals
<1>2. Init => PriceInHand
  BY ExecutorAssumption DEF Init, PriceInHand
<1> QED
  BY <1>1, <1>2, PriceStep, TypeCorrect, PTL DEF Spec, DueClosesStart
=============================================================================
