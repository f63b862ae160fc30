------------------------- MODULE TradingLoop_proofs -------------------------
(***************************************************************************)
(* Theorems of TradeExecutor about the trading loop by itself: no request  *)
(* runs beside the listener, no command fails and the process does not     *)
(* restart.  Prices, predictions, limits, bounds and the state of the      *)
(* guardrail are any.  These are the properties that do not survive other  *)
(* tasks or failures.                                                      *)
(***************************************************************************)
EXTENDS TradeExecutor_proofs

Alone == Tasks = {Listener} /\ MaxFaults = 0

-----------------------------------------------------------------------------
(* The inductive invariant                                                 *)

(* The listener has sent a command on key that Redis has not executed.     *)
OnItsWay(key) ==
    /\ io[Listener] # None
    /\ io[Listener].key = key
    /\ ~io[Listener].landed

(* The listener's command, if it is on this key, has this value.           *)
Carries(key, value) ==
    io[Listener] # None /\ io[Listener].key = key =>
        io[Listener].value = value

CloseEvent == [event |-> "CLOSE", id |-> position.id]

(* While a close is being logged, the position is open, the profit in hand *)
(* is that of its sale, and the command is its event; when the empty       *)
(* position is being saved, there is none.  No other await logs a close.   *)
SaleInHand ==
    /\ pc[Listener] = "close.log" =>
         /\ HasPosition
         /\ \E price \in Prices : loc[Listener].pnl = RealizedPnl(price)
         /\ Carries("stream", CloseEvent)
    /\ pc[Listener] = "close.save" => ~HasPosition
    /\ pc[Listener] # "close.log"
         /\ io[Listener] # None /\ io[Listener].key = "stream" =>
            io[Listener].value.event = "OPEN"

(* The log has the close of the position that is open only when its close  *)
(* has landed and has not been answered; all events are of positions that  *)
(* were opened.                                                            *)
LoggedCloses ==
    /\ position.id <= opens
    /\ \A i \in DOMAIN stream :
         stream[i].event = "CLOSE" =>
            /\ stream[i].id <= opens
            /\ HasPosition /\ stream[i].id = position.id =>
                 pc[Listener] = "close.log" /\ ~OnItsWay("stream")

(* The position is in Redis or on its way there.                           *)
PositionOnFile ==
    /\ store["position"] = position \/ opens = 0 \/ OnItsWay("position")
    /\ Carries("position", position)

(* Each part of the risk state that has a key of its own agrees with it,   *)
(* if the key is there, or is on its way.                                  *)
DailyOnFile(key, field) ==
    /\ store[key] # None => store[key].value = field \/ OnItsWay(key)
    /\ Carries(key, field)

Recording == pc[Listener] \in {"record.time", "record.count", "record.pnl"}

(* The risk state is in Redis, or was never changed; or it is on its way;  *)
(* or record_trade has not come to saving it.                              *)
RiskOnFile ==
    /\ DailyOnFile("daily_pnl", risk.daily_pnl)
    /\ DailyOnFile("trades_today", risk.trades)
    /\ DailyOnFile("last_trade", risk.last_trade)
    /\ \/ store["risk"] = risk
       \/ store["risk"] = None /\ risk = FreshRisk
       \/ OnItsWay("risk")
       \/ Recording
    /\ Carries("risk", risk)

Current ==
    risk.peak > 0 => /\ risk.peak >= capital
                     /\ risk.drawdown = Bps(risk.peak - capital, risk.peak)

(* The drawdown is that of the capital, except while record_trade is on    *)
(* its way to update it with an equity that is the capital: what is bought *)
(* is worth its price, and what was sold is in the capital.                *)
DrawdownOnTime ==
    /\ pc[Listener] \in {"open.save", "open.log"} =>
         position.price = position.entry
    /\ IF Recording THEN loc[Listener].equity = capital ELSE Current

LoopInv ==
    /\ SaleInHand
    /\ LoggedCloses
    /\ ClosedOnce
    /\ PositionOnFile
    /\ RiskOnFile
    /\ DrawdownOnTime

-----------------------------------------------------------------------------
(* What a step of the loop does, at the only entry of pc, loc and io       *)

(* The listener sends a command and suspends at label.                     *)
Sends(label, key, value) ==
    /\ pc'[Listener] = label
    /\ io'[Listener] = [key |-> key, value |-> value, landed |-> FALSE]
    /\ io'[Listener] # None
    /\ UNCHANGED <<store, stream>>

(* The listener comes to a decision.                                       *)
Deciding ==
    \/ pc[Listener] = "idle" /\ io[Listener] = None
    \/ Resumes(Listener, "update_price")

NewPrice ==
    /\ pc[Listener] = "idle" /\ io[Listener] = None /\ HasPosition
    /\ \E price \in Prices : position' = [position EXCEPT !.price = price]
    /\ Sends("update_price", "position", position')
    /\ UNCHANGED <<capital, opens, risk>>

Bought ==
    /\ Deciding /\ ~HasPosition
    /\ opens' = opens + 1
    /\ \E price \in Prices, pct \in Int :
         position' = [id |-> opens + 1, size |-> SizeFor(price, pct),
                      entry |-> price, price |-> price, since |-> now]
    /\ Sends("open.save", "position", position')
    /\ UNCHANGED <<capital, risk>>

Sold ==
    /\ Deciding /\ HasPosition
    /\ \E price \in Prices : loc'[Listener].pnl = RealizedPnl(price)
    /\ Sends("close.log", "stream", CloseEvent)
    /\ UNCHANGED <<position, capital, opens, risk>>

HandlerEnds ==
    /\ Deciding \/ Resumes(Listener, "equity.save")
    /\ pc'[Listener] = "idle" /\ io'[Listener] = None
    /\ UNCHANGED <<store, stream, position, capital, opens, risk>>

OpenIsSaved ==
    /\ Resumes(Listener, "open.save")
    /\ Sends("open.log", "stream", [event |-> "OPEN", id |-> position.id])
    /\ UNCHANGED <<position, capital, opens, risk>>

OpenIsLogged ==
    /\ Resumes(Listener, "open.log")
    /\ risk' = [risk EXCEPT !.last_trade = now]
    /\ loc'[Listener].equity = CurrentCapital
    /\ Sends("record.time", "last_trade", now)
    /\ UNCHANGED <<position, capital, opens>>

CloseIsLogged ==
    /\ Resumes(Listener, "close.log")
    /\ position' = Empty
    /\ loc'[Listener].pnl = loc[Listener].pnl
    /\ Sends("close.save", "position", Empty)
    /\ UNCHANGED <<capital, opens, risk>>

CloseIsSaved ==
    /\ Resumes(Listener, "close.save")
    /\ capital' = capital + loc[Listener].pnl
    /\ risk' = [risk EXCEPT !.last_trade = now]
    /\ loc'[Listener].equity = EquityOf(capital')
    /\ Sends("record.time", "last_trade", now)
    /\ UNCHANGED <<position, opens>>

Counted ==
    /\ Resumes(Listener, "record.time")
    /\ risk' = [risk EXCEPT !.trades = @ + 1]
    /\ loc'[Listener].equity = loc[Listener].equity
    /\ Sends("record.count", "trades_today", risk'.trades)
    /\ UNCHANGED <<position, capital, opens>>

PnlRecorded ==
    /\ Resumes(Listener, "record.count")
    /\ risk' = [risk EXCEPT !.daily_pnl = @ + loc[Listener].pct]
    /\ loc'[Listener].equity = loc[Listener].equity
    /\ Sends("record.pnl", "daily_pnl", risk'.daily_pnl)
    /\ UNCHANGED <<position, capital, opens>>

EquityTaken ==
    /\ Resumes(Listener, "record.count") \/ Resumes(Listener, "record.pnl")
    /\ LET r == WithEquity(loc[Listener].equity)
       IN  risk' = r \/ risk' = [r EXCEPT !.enabled = FALSE]
    /\ \E label \in {"breaker.save", "equity.save"} :
         Sends(label, "risk", risk')
    /\ UNCHANGED <<position, capital, opens>>

SavedAgain ==
    /\ Resumes(Listener, "breaker.save")
    /\ Sends("equity.save", "risk", risk)
    /\ UNCHANGED <<position, capital, opens, risk>>

Landed ==
    /\ Land(Listener)
    /\ UNCHANGED <<pc, loc, position, capital, opens, risk>>

Aside ==
    UNCHANGED <<pc, loc, io, store, stream, position, capital, opens, risk>>

LoopStep ==
    \/ NewPrice \/ Bought \/ Sold \/ HandlerEnds \/ OpenIsSaved
    \/ OpenIsLogged \/ CloseIsLogged \/ CloseIsSaved \/ Counted
    \/ PnlRecorded \/ EquityTaken \/ SavedAgain \/ Landed \/ Aside

LEMMA SuspendSends ==
    ASSUME TypeOK, TypeOK', NEW label, label # "idle", NEW l, NEW key,
           NEW value, SuspendAt(Listener, label, l),
           Send(Listener, key, value)
    PROVE  Sends(label, key, value) /\ loc'[Listener] = l
<1>1. /\ Listener \in Tasks /\ pc \in [Tasks -> Labels] /\ DOMAIN io = Tasks
      /\ loc \in [Tasks -> Locals]
      /\ pc'[Listener] = "idle" <=> io'[Listener] = None
  BY ExecutorAssumption DEF TypeOK, IoOK
<1> QED
  BY <1>1 DEF SuspendAt, Send, Sends, Unmoved

LEMMA DecideSteps ==
    ASSUME TypeOK, TypeOK', Deciding, NEW price \in Prices, NEW signal,
           Decide(price, signal)
    PROVE  LoopStep
<1>1. PICK scalar \in VolScalars, atr \in Atrs :
        \/ /\ EntryWanted(signal, PositionSize(BasePositionSize, scalar))
           /\ Buy(price, PositionSize(BasePositionSize, scalar))
        \/ ExitWanted(price, signal, atr) /\ Sell(Listener, price)
        \/ Hold
  BY DEF Decide
<1> DEFINE pct == PositionSize(BasePositionSize, scalar)
<1>2. CASE EntryWanted(signal, pct) /\ Buy(price, pct)
  <2>1. pct \in Int
    BY StakeType, ExecutorAssumption
  <2> HIDE DEF pct
  <2>2. /\ Send(Listener, "position", position')
        /\ SuspendAt(Listener, "open.save", [NoLocals EXCEPT !.action = "BUY"])
        /\ opens' = opens + 1 /\ ~HasPosition
        /\ position' = [id |-> opens + 1, size |-> SizeFor(price, pct),
                        entry |-> price, price |-> price, since |-> now]
        /\ UNCHANGED <<capital, risk>>
    BY <1>2 DEF Buy, OpenPosition, riskVars
  <2>3. Sends("open.save", "position", position')
    BY <2>2, SuspendSends
  <2> QED
    BY <2>1, <2>2, <2>3 DEF Bought, LoopStep
<1>3. CASE ExitWanted(price, signal, atr) /\ Sell(Listener, price)
  <2> DEFINE l == [NoLocals EXCEPT !.pnl = RealizedPnl(price),
                                   !.action = "SELL"]
  <2>1. /\ Send(Listener, "stream", CloseEvent)
        /\ SuspendAt(Listener, "close.log", l)
        /\ HasPosition
        /\ UNCHANGED <<position, capital, opens, risk>>
    BY <1>3 DEF Sell, LogClose, CloseEvent, positionVars, riskVars
  <2>2. l.pnl = RealizedPnl(price)
    BY DEF NoLocals
  <2> HIDE DEF l
  <2>3. Sends("close.log", "stream", CloseEvent) /\ loc'[Listener] = l
    BY <2>1, SuspendSends
  <2> QED
    BY <2>1, <2>2, <2>3 DEF Sold, LoopStep
<1>4. CASE Hold
  <2>1. /\ Listener \in Tasks /\ pc \in [Tasks -> Labels] /\ DOMAIN io = Tasks
    BY ExecutorAssumption DEF TypeOK, IoOK
  <2> QED
    BY <1>4, <2>1
       DEF Hold, Returns, Ends, Unmoved, positionVars, riskVars, HandlerEnds,
           LoopStep
<1> QED
  BY <1>1, <1>2, <1>3, <1>4

(* Alone, the listener only takes these steps.                             *)
LEMMA LoopSteps ==
    ASSUME Alone, TypeOK, TypeOK', [Next]_vars
    PROVE  LoopStep
<1>0. /\ Listener \in Tasks /\ pc \in [Tasks -> Labels] /\ DOMAIN io = Tasks
      /\ loc \in [Tasks -> Locals] /\ loc[Listener] \in Locals
      /\ pc[Listener] = "idle" <=> io[Listener] = None
      /\ risk \in RiskState
      /\ pc[Listener] = "update_price" => loc[Listener].price \in Prices
  BY ExecutorAssumption DEF TypeOK, IoOK
<1>1. ASSUME NEW p \in Predictions, PredictionWithPosition(p)
      PROVE  LoopStep
  <2>1. PICK l : SuspendAt(Listener, "update_price", l)
    BY <1>1 DEF PredictionWithPosition
  <2>2. /\ Send(Listener, "position", position') /\ HasPosition
        /\ position' = [position EXCEPT !.price = p.price]
        /\ pc[Listener] = "idle"
        /\ UNCHANGED <<capital, opens, risk>>
    BY <1>1 DEF PredictionWithPosition, UpdatePrice, riskVars
  <2>3. Sends("update_price", "position", position')
    BY <2>1, <2>2, SuspendSends
  <2>4. p.price \in Prices
    BY ExecutorAssumption
  <2> QED
    BY <1>0, <2>2, <2>3, <2>4 DEF NewPrice, LoopStep
<1>2. ASSUME NEW p \in Predictions, PredictionWithoutPosition(p)
      PROVE  LoopStep
  <2>1. p.price \in Prices
    BY ExecutorAssumption
  <2>2. Deciding
    BY <1>0, <1>2 DEF PredictionWithoutPosition, Deciding
  <2> QED
    BY <1>2, <2>1, <2>2, DecideSteps DEF PredictionWithoutPosition
<1>3. CASE PriceUpdated
  <2>1. Deciding /\ loc[Listener].price \in Prices
    BY <1>0, <1>3 DEF PriceUpdated, Deciding, Resumes
  <2> QED
    BY <1>3, <2>1, DecideSteps DEF PriceUpdated
<1>4. CASE OpenSaved
  <2>1. Sends("open.log", "stream", [event |-> "OPEN", id |-> position.id])
    BY <1>4, SuspendSends DEF OpenSaved, LogOpen
  <2> QED
    BY <1>4, <2>1
       DEF OpenSaved, LogOpen, positionVars, riskVars, OpenIsSaved, LoopStep
<1>5. CASE OpenLogged
  <2> DEFINE l == [loc[Listener] EXCEPT !.equity = CurrentCapital]
  <2>1. l.equity = CurrentCapital
    BY <1>0 DEF Locals
  <2>2. SuspendAt(Listener, "record.time", l)
    BY <1>5 DEF OpenLogged
  <2> HIDE DEF l
  <2>3. Sends("record.time", "last_trade", now) /\ loc'[Listener] = l
    BY <1>5, <2>2, SuspendSends DEF OpenLogged, RecordTime
  <2> QED
    BY <1>5, <2>1, <2>3
       DEF OpenLogged, RecordTime, positionVars, OpenIsLogged, LoopStep
<1>6. CASE CloseLogged(Listener)
  <2>1. Sends("close.save", "position", Empty)
          /\ loc'[Listener] = loc[Listener]
    BY <1>6, SuspendSends DEF CloseLogged, ResetPosition
  <2> QED
    BY <1>6, <2>1
       DEF CloseLogged, ResetPosition, riskVars, CloseIsLogged, LoopStep
<1>7. CASE CloseSaved(Listener)
  <2> DEFINE l == [loc[Listener] EXCEPT
                     !.pct = Bps(loc[Listener].pnl, capital'),
                     !.equity = EquityOf(capital')]
  <2>1. l.equity = EquityOf(capital')
    BY <1>0 DEF Locals
  <2>2. SuspendAt(Listener, "record.time", l)
    BY <1>7 DEF CloseSaved
  <2> HIDE DEF l
  <2>3. Sends("record.time", "last_trade", now) /\ loc'[Listener] = l
    BY <1>7, <2>2, SuspendSends DEF CloseSaved, RecordTime
  <2> QED
    BY <1>7, <2>1, <2>3
       DEF CloseSaved, RecordTime, UpdateCapital, CloseIsSaved, LoopStep
<1>8. CASE TimeRecorded(Listener)
  <2>1. Sends("record.count", "trades_today", risk'.trades)
          /\ loc'[Listener] = loc[Listener]
    BY <1>8, SuspendSends DEF TimeRecorded, RecordCount
  <2> QED
    BY <1>8, <2>1
       DEF TimeRecorded, RecordCount, positionVars, Counted, LoopStep
<1>9. CASE CountRecorded(Listener)
  <2>1. Sends("record.pnl", "daily_pnl", risk'.daily_pnl)
          /\ loc'[Listener] = loc[Listener]
    BY <1>9, SuspendSends DEF CountRecorded, RecordPnl
  <2> QED
    BY <1>9, <2>1
       DEF CountRecorded, RecordPnl, positionVars, PnlRecorded, LoopStep
<1>10. CASE EquityUpdated(Listener)
  <2> DEFINE r == WithEquity(loc[Listener].equity)
             label == IF Trips(r) THEN "breaker.save" ELSE "equity.save"
  <2>1. /\ Send(Listener, "risk", risk')
        /\ risk' = r \/ risk' = [r EXCEPT !.enabled = FALSE]
        /\ SuspendAt(Listener, label, loc[Listener])
        /\ UNCHANGED <<position, capital, opens>>
    BY <1>10 DEF EquityUpdated, UpdateEquity, positionVars
  <2>2. label \in {"breaker.save", "equity.save"}
    OBVIOUS
  <2> HIDE DEF label
  <2>3. Sends(label, "risk", risk')
    BY <2>1, <2>2, SuspendSends
  <2> QED
    BY <1>10, <2>1, <2>2, <2>3 DEF EquityUpdated, EquityTaken, LoopStep
<1>11. CASE BreakerSaved(Listener)
  <2>1. Sends("equity.save", "risk", risk)
    BY <1>11, SuspendSends DEF BreakerSaved, SaveRisk
  <2> QED
    BY <1>11, <2>1
       DEF BreakerSaved, SaveRisk, positionVars, riskVars, SavedAgain, LoopStep
<1>12. CASE TradeRecorded(Listener)
  BY <1>0, <1>12
     DEF TradeRecorded, Returns, Ends, Unmoved, positionVars, riskVars,
         HandlerEnds, LoopStep
<1>13. CASE Delivered(Listener)
  BY <1>13 DEF Delivered, executorVars, positionVars, riskVars, Landed, LoopStep
<1>14. CASE \/ \E l \in LimitChoices : PutLimits(l)
            \/ ChainConnected
            \/ Tick
            \/ UNCHANGED vars
  BY <1>14 DEF PutLimits, ChainConnected, Tick, vars, runtimeVars,
               positionVars, riskVars, executorVars, Aside, LoopStep
<1>15. ~Restart /\ ~CommandFailed(Listener)
  BY DEF Alone, Restart, CommandFailed, TypeOK
<1>16. Tasks = {Listener} /\ Requests = {}
  BY DEF Alone, Requests
<1> QED
  BY <1>1, <1>2, <1>3, <1>4, <1>5, <1>6, <1>7, <1>8, <1>9, <1>10, <1>11,
     <1>12, <1>13, <1>14, <1>15, <1>16 DEF Next, Continue

-----------------------------------------------------------------------------
(* Each step keeps the invariant                                           *)

LEMMA ListenerTypes ==
    ASSUME TypeOK
    PROVE  /\ Listener \in Tasks
           /\ pc[Listener] = "idle" <=> io[Listener] = None
           /\ position \in Position
           /\ opens \in Nat /\ capital \in Int
           /\ risk \in RiskState
           /\ stream \in Seq(StreamEvent)
  BY ExecutorAssumption DEF TypeOK

(* When a command lands, the listener sees only that it has landed.        *)
LEMMA LandedEffect ==
    ASSUME TypeOK, Landed
    PROVE  LET c == io[Listener] IN
           /\ c # None /\ ~c.landed
           /\ io'[Listener].key = c.key /\ io'[Listener].value = c.value
           /\ io'[Listener].landed
           /\ IF c.key = "stream"
                THEN store' = store /\ stream' = Append(stream, c.value)
                ELSE /\ stream' = stream
                     /\ \A key \in Keys : store'[key] =
                          IF key = c.key THEN Stored(key, c.value)
                                         ELSE store[key]
<1>1. /\ Listener \in Tasks /\ DOMAIN io = Tasks /\ DOMAIN store = Keys
      /\ io[Listener] # None
      /\ \E key \in Keys \cup {"stream"} : io[Listener] \in Command(key)
  BY ExecutorAssumption DEF TypeOK, IoOK, StoreOK, Landed, Land
<1>2. io'[Listener] = [io[Listener] EXCEPT !.landed = TRUE]
  BY <1>1 DEF Landed, Land
<1> QED
  BY <1>1, <1>2 DEF Landed, Land, Command

(* A handler that goes on has nothing on its way.                          *)
LEMMA ResumedHasLanded ==
    ASSUME Deciding \/ \E label : Resumes(Listener, label), NEW key
    PROVE  ~OnItsWay(key)
  BY DEF Deciding, Resumes, Answered, OnItsWay

LEMMA SaleStep ==
    ASSUME TypeOK, SaleInHand, LoopStep
    PROVE  SaleInHand'
<1> USE DEF SaleInHand, Carries
<1>1. CASE NewPrice
  BY <1>1 DEF NewPrice, Sends
<1>2. CASE Bought
  BY <1>2 DEF Bought, Sends
<1>3. CASE Sold
  BY <1>3 DEF Sold, Sends, CloseEvent, HasPosition, RealizedPnl
<1>4. CASE HandlerEnds
  BY <1>4 DEF HandlerEnds
<1>5. CASE OpenIsSaved
  BY <1>5 DEF OpenIsSaved, Sends
<1>6. CASE CloseIsLogged
  BY <1>6 DEF CloseIsLogged, Sends, HasPosition, IsOpen, Empty
<1>7. CASE OpenIsLogged \/ CloseIsSaved \/ Counted \/ PnlRecorded
  BY <1>7 DEF OpenIsLogged, CloseIsSaved, Counted, PnlRecorded, Sends
<1>8. CASE EquityTaken \/ SavedAgain
  BY <1>8 DEF EquityTaken, SavedAgain, Sends
<1>9. CASE Landed
  BY <1>9, LandedEffect DEF Landed, CloseEvent, HasPosition, RealizedPnl
<1>10. CASE Aside
  BY <1>10 DEF Aside, CloseEvent, HasPosition, RealizedPnl
<1> QED
  BY <1>1, <1>2, <1>3, <1>4, <1>5, <1>6, <1>7, <1>8, <1>9, <1>10 DEF LoopStep

LEMMA ClosesStep ==
    ASSUME TypeOK, SaleInHand, LoggedCloses, ClosedOnce, LoopStep
    PROVE  LoggedCloses' /\ ClosedOnce'
<1>0. opens \in Nat /\ position \in Position /\ position.id \in Nat
  BY ListenerTypes DEF Position
<1>a. stream \in Seq(StreamEvent)
  BY ListenerTypes
<1>b. \A i \in DOMAIN stream : stream[i].id \in Nat
  <2>1. \A i \in DOMAIN stream : stream[i] \in StreamEvent
    BY <1>a
  <2> QED BY <2>1 DEF StreamEvent
<1>1. CASE stream' = stream
  <2>1. ClosedOnce'
    BY <1>1 DEF ClosedOnce
  <2>2. CASE Bought
    BY <2>1, <1>0, <1>1, <1>b, <2>2 DEF LoggedCloses, Bought
  <2>3. CASE CloseIsLogged
    BY <2>1, <1>0, <1>1, <2>3
       DEF LoggedCloses, CloseIsLogged, HasPosition, IsOpen, Empty
  <2>4. CASE NewPrice
    <3>1. position'.id = position.id /\ (HasPosition' <=> HasPosition)
      BY <1>0, <2>4 DEF NewPrice, HasPosition, IsOpen, Position
    <3> QED
      BY <2>1, <1>1, <2>4, <3>1 DEF LoggedCloses, NewPrice, HasPosition, IsOpen
  <2>5. CASE Landed
    BY <2>1, <1>1, <2>5, LandedEffect
       DEF LoggedCloses, Landed, OnItsWay, HasPosition, IsOpen
  <2>6. CASE Aside
    BY <2>1, <2>6 DEF LoggedCloses, Aside, OnItsWay, HasPosition, IsOpen
  <2>7. CASE \/ Sold \/ HandlerEnds \/ OpenIsSaved \/ OpenIsLogged
             \/ CloseIsSaved \/ Counted \/ PnlRecorded \/ EquityTaken
             \/ SavedAgain
    <3>1. pc[Listener] # "close.log" /\ UNCHANGED <<position, opens>>
      BY <2>7 DEF Sold, HandlerEnds, OpenIsSaved, OpenIsLogged, CloseIsSaved,
                  Counted, PnlRecorded, EquityTaken, SavedAgain, Deciding,
                  Resumes
    <3> QED
      BY <2>1, <1>1, <3>1 DEF LoggedCloses, HasPosition, IsOpen
  <2> QED
    BY <2>1, <2>2, <2>3, <2>4, <2>5, <2>6, <2>7 DEF LoopStep
<1>2. CASE stream' # stream
  <2>1. Landed
    BY <1>2 DEF LoopStep, NewPrice, Bought, Sold, HandlerEnds, OpenIsSaved,
                OpenIsLogged, CloseIsLogged, CloseIsSaved, Counted,
                PnlRecorded, EquityTaken, SavedAgain, Sends, Aside
  <2> DEFINE e == io[Listener].value
  <2>2. /\ OnItsWay("stream")
        /\ io'[Listener].landed
        /\ stream' = Append(stream, e)
        /\ UNCHANGED <<pc, position, opens>>
    BY <1>2, <2>1, LandedEffect DEF OnItsWay, Landed
  <2>3. e.event = "CLOSE" =>
          pc[Listener] = "close.log" /\ HasPosition /\ e.id = position.id
    BY <2>2 DEF SaleInHand, Carries, OnItsWay, CloseEvent
  <2>4. \A i \in DOMAIN stream' :
          \/ i \in DOMAIN stream /\ stream'[i] = stream[i]
          \/ i = Len(stream) + 1 /\ i \notin DOMAIN stream /\ stream'[i] = e
    BY <1>a, <2>2
  <2> HIDE DEF e
  <2>5. ~OnItsWay("stream")'
    BY <2>2 DEF OnItsWay
  <2>6. \A i \in DOMAIN stream : stream[i].event = "CLOSE" => stream[i] # e
    BY <2>2, <2>3 DEF LoggedCloses
  <2>7. LoggedCloses'
    BY <2>2, <2>3, <2>4, <2>5 DEF LoggedCloses, HasPosition, IsOpen
  <2>8. ClosedOnce'
    BY <2>4, <2>6 DEF ClosedOnce
  <2> QED
    BY <2>7, <2>8
<1> QED
  BY <1>1, <1>2

LEMMA PositionStep ==
    ASSUME TypeOK, PositionOnFile, LoopStep
    PROVE  PositionOnFile'
<1> USE DEF PositionOnFile, Carries
<1>1. CASE NewPrice \/ Bought \/ CloseIsLogged
  BY <1>1 DEF NewPrice, Bought, CloseIsLogged, Sends, OnItsWay
<1>2. CASE \/ Sold \/ HandlerEnds \/ OpenIsSaved \/ OpenIsLogged
           \/ CloseIsSaved \/ Counted \/ PnlRecorded \/ EquityTaken
           \/ SavedAgain
  <2>1. Deciding \/ \E label : Resumes(Listener, label)
    BY <1>2 DEF Sold, HandlerEnds, OpenIsSaved, OpenIsLogged, CloseIsSaved,
                Counted, PnlRecorded, EquityTaken, SavedAgain
  <2>2. ~OnItsWay("position")
    BY <2>1, ResumedHasLanded
  <2>3. UNCHANGED <<store, position, opens>>
        /\ (io'[Listener] # None => io'[Listener].key # "position")
    BY <1>2 DEF Sold, HandlerEnds, OpenIsSaved, OpenIsLogged, CloseIsSaved,
                Counted, PnlRecorded, EquityTaken, SavedAgain, Sends
  <2> QED
    BY <2>2, <2>3
<1>3. CASE Landed
  <2>1. UNCHANGED <<position, opens>>
    BY <1>3 DEF Landed
  <2>2. "position" \in Keys /\ "position" \notin DailyKeys
    BY DEF Keys, DailyKeys
  <2> QED
    BY <1>3, <2>1, <2>2, LandedEffect DEF OnItsWay, Stored
<1>4. CASE Aside
  BY <1>4 DEF Aside, OnItsWay
<1> QED
  BY <1>1, <1>2, <1>3, <1>4 DEF LoopStep

(* A value that is on its way, or stays while nothing is, is on file.      *)
LEMMA DailyStep ==
    ASSUME TypeOK, LoopStep, NEW key \in DailyKeys, NEW field, NEW after,
           DailyOnFile(key, field),
           \/ after = field /\ (io'[Listener] # None
                                  => io'[Listener].key # key)
           \/ /\ io'[Listener] # None /\ ~io'[Listener].landed
              /\ io'[Listener].key = key /\ io'[Listener].value = after
           \/ after = field /\ (Landed \/ Aside)
    PROVE  /\ store'[key] # None =>
                \/ store'[key].value = after
                \/ /\ io'[Listener] # None
                   /\ io'[Listener].key = key
                   /\ ~io'[Listener].landed
           /\ io'[Listener] # None /\ io'[Listener].key = key =>
                io'[Listener].value = after
<1> USE DEF DailyOnFile, Carries
<1>1. CASE Landed
  <2>1. key \in Keys /\ key # "stream"
    BY DEF Keys, DailyKeys
  <2> QED
    BY <1>1, <2>1, LandedEffect DEF OnItsWay, Stored, Landed
<1>2. CASE Aside
  BY <1>2 DEF Aside, OnItsWay
<1>3. CASE ~Landed /\ ~Aside
  <2>1. UNCHANGED store
    BY <1>3 DEF LoopStep, NewPrice, Bought, Sold, HandlerEnds, OpenIsSaved,
                OpenIsLogged, CloseIsLogged, CloseIsSaved, Counted,
                PnlRecorded, EquityTaken, SavedAgain, Sends
  <2>2. Deciding \/ \E label : Resumes(Listener, label)
    BY <1>3 DEF LoopStep, NewPrice, Bought, Sold, HandlerEnds, OpenIsSaved,
                OpenIsLogged, CloseIsLogged, CloseIsSaved, Counted,
                PnlRecorded, EquityTaken, SavedAgain, Deciding
  <2>3. ~OnItsWay(key)
    BY <2>2, ResumedHasLanded
  <2> QED
    BY <1>3, <2>1, <2>3
<1> QED
  BY <1>1, <1>2, <1>3

(* What update_equity takes in changes nothing that has a key of its own.  *)
LEMMA EquityKeepsCounters ==
    ASSUME TypeOK, EquityTaken
    PROVE  /\ risk'.daily_pnl = risk.daily_pnl
           /\ risk'.trades = risk.trades
           /\ risk'.last_trade = risk.last_trade
<1>1. risk \in RiskState
  BY ListenerTypes
<1>2. PICK r \in RiskState : /\ r.daily_pnl = risk.daily_pnl
                             /\ r.trades = risk.trades
                             /\ r.last_trade = risk.last_trade
                             /\ risk' = r \/ risk' = [r EXCEPT !.enabled = FALSE]
  <2>1. loc[Listener].equity \in Int /\ AccountOK
    BY ExecutorAssumption DEF TypeOK, Locals, AccountOK
  <2>2. WithEquity(loc[Listener].equity) \in RiskState
    BY <2>1, WithEquityType
  <2>3. LET r == WithEquity(loc[Listener].equity)
        IN  /\ r.daily_pnl = risk.daily_pnl /\ r.trades = risk.trades
            /\ r.last_trade = risk.last_trade
    BY <1>1 DEF WithEquity, RiskState
  <2> QED
    BY <2>2, <2>3 DEF EquityTaken
<1> QED
  BY <1>2 DEF RiskState

LEMMA RiskStep ==
    ASSUME TypeOK, RiskOnFile, LoopStep
    PROVE  RiskOnFile'
<1>0. risk \in RiskState
  BY ListenerTypes
<1> DEFINE OtherKey(key) == io'[Listener] # None => io'[Listener].key # key
           Sent(key, value) == /\ io'[Listener] # None
                               /\ ~io'[Listener].landed
                               /\ io'[Listener].key = key
                               /\ io'[Listener].value = value
           Stays(key, field, after) ==
             \/ after = field /\ OtherKey(key)
             \/ Sent(key, after)
             \/ after = field /\ (Landed \/ Aside)
           RiskFiled ==
             /\ \/ store'["risk"] = risk'
                \/ store'["risk"] = None /\ risk' = FreshRisk
                \/ OnItsWay("risk")'
                \/ Recording'
             /\ Carries("risk", risk)'
<1>1. /\ Stays("daily_pnl", risk.daily_pnl, risk'.daily_pnl)
      /\ Stays("trades_today", risk.trades, risk'.trades)
      /\ Stays("last_trade", risk.last_trade, risk'.last_trade)
      /\ RiskFiled
  <2>1. CASE \/ NewPrice \/ Bought \/ Sold \/ HandlerEnds
             \/ OpenIsSaved \/ CloseIsLogged
    <3>1. Deciding \/ \E label : Resumes(Listener, label)
      BY <2>1 DEF NewPrice, Bought, Sold, HandlerEnds, OpenIsSaved,
                  CloseIsLogged, Deciding
    <3>2. ~OnItsWay("risk")
      BY <3>1, ResumedHasLanded
    <3>3. ~Recording
      BY <2>1 DEF NewPrice, Bought, Sold, HandlerEnds, OpenIsSaved,
                  CloseIsLogged, Deciding, Resumes, Recording
    <3>4. /\ UNCHANGED <<risk, store>>
          /\ \A key \in {"risk", "daily_pnl", "trades_today", "last_trade"} :
               OtherKey(key)
      BY <2>1 DEF NewPrice, Bought, Sold, HandlerEnds, OpenIsSaved,
                  CloseIsLogged, Sends
    <3>5. RiskFiled
      BY <3>2, <3>3, <3>4 DEF RiskOnFile, Carries
    <3> QED
      BY <3>4, <3>5
  <2>2. CASE OpenIsLogged \/ CloseIsSaved
    <3>1. /\ Sent("last_trade", now) /\ Recording'
          /\ risk' = [risk EXCEPT !.last_trade = now]
      BY <2>2 DEF OpenIsLogged, CloseIsSaved, Sends, Recording
    <3> QED
      BY <1>0, <3>1 DEF RiskState, Carries
  <2>3. CASE Counted
    <3>1. /\ Sent("trades_today", risk'.trades) /\ Recording'
          /\ risk' = [risk EXCEPT !.trades = @ + 1]
      BY <2>3 DEF Counted, Sends, Recording
    <3> QED
      BY <1>0, <3>1 DEF RiskState, Carries
  <2>4. CASE PnlRecorded
    <3>1. /\ Sent("daily_pnl", risk'.daily_pnl) /\ Recording'
          /\ risk' = [risk EXCEPT !.daily_pnl = @ + loc[Listener].pct]
      BY <2>4 DEF PnlRecorded, Sends, Recording
    <3> QED
      BY <1>0, <3>1 DEF RiskState, Carries
  <2>5. CASE EquityTaken \/ SavedAgain
    <3>1. Sent("risk", risk')
      BY <2>5 DEF EquityTaken, SavedAgain, Sends
    <3>2. /\ risk'.daily_pnl = risk.daily_pnl
          /\ risk'.trades = risk.trades
          /\ risk'.last_trade = risk.last_trade
      BY <2>5, EquityKeepsCounters DEF SavedAgain
    <3> QED
      BY <3>1, <3>2 DEF Carries, OnItsWay
  <2>6. CASE Landed
    <3>1. UNCHANGED <<risk, pc>>
      BY <2>6 DEF Landed
    <3>2. "risk" \in Keys /\ "risk" \notin DailyKeys
      BY DEF Keys, DailyKeys
    <3>3. RiskFiled
      BY <2>6, <3>1, <3>2, LandedEffect
         DEF RiskOnFile, Carries, OnItsWay, Stored, Recording
    <3> QED
      BY <2>6, <3>1, <3>3
  <2>7. CASE Aside
    BY <2>7 DEF Aside, RiskOnFile, Carries, OnItsWay, Recording
  <2> QED
    BY <2>1, <2>2, <2>3, <2>4, <2>5, <2>6, <2>7 DEF LoopStep
<1>2. DailyKeys = {"daily_pnl", "trades_today", "last_trade"}
  BY DEF DailyKeys
<1>3. DailyOnFile("daily_pnl", risk.daily_pnl)'
  BY <1>1, <1>2, DailyStep DEF RiskOnFile, DailyOnFile, Carries, OnItsWay
<1>4. DailyOnFile("trades_today", risk.trades)'
  BY <1>1, <1>2, DailyStep DEF RiskOnFile, DailyOnFile, Carries, OnItsWay
<1>5. DailyOnFile("last_trade", risk.last_trade)'
  BY <1>1, <1>2, DailyStep DEF RiskOnFile, DailyOnFile, Carries, OnItsWay
<1> QED
  BY <1>1, <1>3, <1>4, <1>5 DEF RiskOnFile

(* Taking in the capital as the equity makes the drawdown that of the      *)
(* capital.                                                                *)
LEMMA EquityMakesCurrent ==
    ASSUME TypeOK, EquityTaken, loc[Listener].equity = capital
    PROVE  Current'
<1> DEFINE peak == IF risk.peak <= 0 THEN capital
                                     ELSE GreaterOf(risk.peak, capital)
           drawdown == IF peak > 0 THEN Bps(peak - capital, peak)
                                   ELSE risk.drawdown
           r == WithEquity(capital)
<1>1. risk \in RiskState /\ risk.peak \in Int /\ capital \in Int
  BY ListenerTypes DEF RiskState
<1>2. r.peak = peak /\ r.drawdown = drawdown
  BY <1>1 DEF WithEquity, RiskState
<1>3. r \in RiskState
  BY <1>1, WithEquityType DEF TypeOK, AccountOK
<1>4. risk' = r \/ risk' = [r EXCEPT !.enabled = FALSE]
  BY DEF EquityTaken
<1> HIDE DEF r
<1>5. risk'.peak = peak /\ risk'.drawdown = drawdown
  BY <1>2, <1>3, <1>4 DEF RiskState
<1>6. peak >= capital
  BY <1>1 DEF GreaterOf
<1>7. capital' = capital
  BY DEF EquityTaken
<1> QED
  BY <1>5, <1>6, <1>7 DEF Current

LEMMA DrawdownStep ==
    ASSUME TypeOK, SaleInHand, DrawdownOnTime, LoopStep
    PROVE  DrawdownOnTime'
<1>0. /\ position \in Position /\ capital \in Int
      /\ position.size \in Int /\ position.price \in Int
      /\ position.entry \in Int
  BY ListenerTypes DEF Position
<1>1. CASE Bought
  BY <1>1 DEF DrawdownOnTime, Bought, Deciding, Resumes, Sends, Recording,
              Current
<1>2. CASE \/ NewPrice \/ Sold \/ HandlerEnds \/ CloseIsLogged \/ SavedAgain
  <2>1. ~Recording /\ ~Recording'
        /\ pc'[Listener] \notin {"open.save", "open.log"}
    BY <1>2 DEF NewPrice, Sold, HandlerEnds, CloseIsLogged, SavedAgain,
                Deciding, Resumes, Sends, Recording
  <2>2. UNCHANGED <<risk, capital>>
    BY <1>2 DEF NewPrice, Sold, HandlerEnds, CloseIsLogged, SavedAgain
  <2> QED
    BY <2>1, <2>2 DEF DrawdownOnTime, Current
<1>3. CASE OpenIsSaved
  BY <1>3 DEF DrawdownOnTime, OpenIsSaved, Resumes, Sends, Recording, Current
<1>4. CASE OpenIsLogged
  <2>1. position.price = position.entry
    BY <1>4 DEF DrawdownOnTime, OpenIsLogged, Resumes
  <2>2. CurrentCapital = capital
    BY <1>0, <2>1 DEF CurrentCapital, EquityOf, UnrealizedPnl
  <2> QED
    BY <1>4, <2>2 DEF DrawdownOnTime, OpenIsLogged, Sends, Recording
<1>5. CASE CloseIsSaved
  <2>1. ~HasPosition
    BY <1>5 DEF SaleInHand, CloseIsSaved, Resumes
  <2> QED
    BY <1>5, <2>1
       DEF DrawdownOnTime, CloseIsSaved, EquityOf, Sends, Recording
<1>6. CASE Counted \/ PnlRecorded
  BY <1>6 DEF DrawdownOnTime, Counted, PnlRecorded, Resumes, Sends, Recording
<1>7. CASE EquityTaken
  <2>1. loc[Listener].equity = capital
    BY <1>7 DEF DrawdownOnTime, EquityTaken, Resumes, Recording
  <2>2. /\ ~Recording'
        /\ pc'[Listener] \notin {"open.save", "open.log"}
    BY <1>7 DEF EquityTaken, Sends, Recording
  <2> QED
    BY <1>7, <2>1, <2>2, EquityMakesCurrent DEF DrawdownOnTime
<1>8. CASE Landed \/ Aside
  BY <1>8 DEF DrawdownOnTime, Landed, Aside, Recording, Current
<1> QED
  BY <1>1, <1>2, <1>3, <1>4, <1>5, <1>6, <1>7, <1>8 DEF LoopStep

LEMMA LoopStarts == Init => LoopInv
<1> SUFFICES ASSUME Init PROVE LoopInv
  OBVIOUS
<1>1. /\ Listener \in Tasks /\ pc[Listener] = "idle" /\ io[Listener] = None
      /\ stream = <<>> /\ position = Empty /\ opens = 0
      /\ risk = FreshRisk
      /\ \A key \in Keys : store[key] = None
  BY ExecutorAssumption DEF Init, PositionInit, RiskInit
<1>2. SaleInHand /\ LoggedCloses /\ ClosedOnce /\ PositionOnFile
  BY <1>1 DEF SaleInHand, LoggedCloses, ClosedOnce, PositionOnFile, Carries,
              Empty
<1>3. RiskOnFile
  BY <1>1 DEF RiskOnFile, DailyOnFile, Carries, Keys, DailyKeys
<1>4. DrawdownOnTime
  BY <1>1 DEF DrawdownOnTime, Recording, Current, FreshRisk
<1> QED
  BY <1>2, <1>3, <1>4 DEF LoopInv

LEMMA LoopNext ==
    ASSUME Alone
    PROVE  LoopInv /\ TypeOK /\ TypeOK' /\ [Next]_vars => LoopInv'
  BY LoopSteps, SaleStep, ClosesStep, PositionStep, RiskStep, DrawdownStep
     DEF LoopInv

LEMMA LoopInvHolds ==
    ASSUME Alone
    PROVE  Spec => []LoopInv
  BY LoopStarts, LoopNext, TypeCorrect, PTL DEF Spec

-----------------------------------------------------------------------------
(* When the listener is alone and nothing fails                            *)

(* A position is logged as closed at most once, whatever the prices,       *)
(* predictions and limits: close_position's event and its reset are two    *)
(* awaits apart, and no decision is taken in between.                      *)
THEOREM ClosedAtMostOnce ==
    ASSUME Alone
    PROVE  Spec => []ClosedOnce
  BY LoopInvHolds, PTL DEF LoopInv

(* Between handlers, load_from_redis and load_state of a new process would *)
(* read back the position and the risk state the process has, however many *)
(* of the daily keys have expired.                                         *)
THEOREM RestartsRestore ==
    ASSUME Alone
    PROVE  Spec => []RestartWouldRestore
<1>1. LoopInv /\ TypeOK => RestartWouldRestore
  <2> SUFFICES ASSUME LoopInv, TypeOK, Quiet
               PROVE  /\ store["position"] = position \/ opens = 0
                      /\ LoadedRisk = risk
    BY DEF RestartWouldRestore, PositionSaved
  <2>1. pc[Listener] = "idle" /\ io[Listener] = None /\ risk \in RiskState
    BY ListenerTypes DEF Quiet
  <2>2. store["position"] = position \/ opens = 0
    BY <2>1 DEF LoopInv, PositionOnFile, OnItsWay
  <2>3. store["risk"] = risk \/ (store["risk"] = None /\ risk = FreshRisk)
    BY <2>1 DEF LoopInv, RiskOnFile, OnItsWay, Recording
  <2>4. /\ store["daily_pnl"] # None =>
             store["daily_pnl"].value = risk.daily_pnl
        /\ store["trades_today"] # None =>
             store["trades_today"].value = risk.trades
        /\ store["last_trade"] # None =>
             store["last_trade"].value = risk.last_trade
    BY <2>1 DEF LoopInv, RiskOnFile, DailyOnFile, OnItsWay
  <2> DEFINE snapshot ==
        IF store["risk"] = None THEN FreshRisk ELSE store["risk"]
  <2>5. risk # None
    BY <2>1, ExecutorAssumption
  <2>6. snapshot = risk
    BY <2>3, <2>5
  <2>7. LoadedRisk = [risk EXCEPT !.daily_pnl = risk.daily_pnl,
                                  !.trades = risk.trades,
                                  !.last_trade = risk.last_trade]
    BY <2>4, <2>6 DEF LoadedRisk, Live
  <2> QED
    BY <2>1, <2>2, <2>7 DEF RiskState
<1> QED
  BY <1>1, LoopInvHolds, TypeCorrect, PTL

(* Between handlers, without a position, the drawdown that throttles and   *)
(* trips is the one of the capital as it stands: record_trade takes in the *)
(* equity after update_capital.                                            *)
THEOREM DrawdownsAreCurrent ==
    ASSUME Alone
    PROVE  Spec => []DrawdownIsCurrent
<1>1. LoopInv /\ TypeOK => DrawdownIsCurrent
  BY ListenerTypes
     DEF LoopInv, DrawdownOnTime, DrawdownIsCurrent, Quiet, Recording, Current
<1> QED
  BY <1>1, LoopInvHolds, TypeCorrect, PTL

-----------------------------------------------------------------------------
(* The ledger                                                              *)

Held == IF HasPosition THEN [entry |-> position.entry, size |-> position.size]
                       ELSE None
Cash == IF pc[Listener] = "close.save" THEN capital + loc[Listener].pnl
                                       ELSE capital

Ledgered == [Ledger!Next]_<<Held, Cash>>

LEMMA BoughtIsBuy ==
    ASSUME TypeOK, Bought
    PROVE  Ledgered
<1>1. Held = None /\ Cash = capital /\ Cash' = capital
  BY DEF Held, Cash, Bought, Deciding, Resumes, Sends
<1>2. PICK price \in Prices, pct \in Int :
        position' = [id |-> opens + 1, size |-> SizeFor(price, pct),
                     entry |-> price, price |-> price, since |-> now]
  BY DEF Bought
<1>3. position'.entry = price /\ position'.size = SizeFor(price, pct)
      /\ SizeFor(price, pct) \in Int
  BY <1>2, Amounts DEF TypeOK, AccountOK
<1>4. CASE HasPosition'
  <2>1. Held' = [entry |-> price, size |-> SizeFor(price, pct)]
    BY <1>3, <1>4 DEF Held
  <2>2. SizeFor(price, pct) \in Nat \ {0}
    BY <1>3, <1>4 DEF HasPosition, IsOpen
  <2>3. Held' \in [entry : Prices, size : Nat \ {0}]
    BY <2>1, <2>2
  <2> QED
    BY <1>1, <2>3 DEF Held, Cash, Ledgered, Ledger!Next, Ledger!Buy
<1>5. CASE ~HasPosition'
  BY <1>1, <1>5 DEF Held, Ledgered
<1> QED
  BY <1>4, <1>5

LEMMA CloseIsSell ==
    ASSUME TypeOK, SaleInHand, CloseIsLogged
    PROVE  Ledgered
<1>1. HasPosition /\ ~HasPosition'
  BY DEF SaleInHand, CloseIsLogged, Resumes, HasPosition, IsOpen, Empty
<1>2. PICK price \in Prices : loc[Listener].pnl = RealizedPnl(price)
  BY DEF SaleInHand, CloseIsLogged, Resumes
<1>3. position.entry \in Int /\ position.size \in Int
  BY ListenerTypes DEF Position
<1>4. Held = [entry |-> position.entry, size |-> position.size]
      /\ Held' = None
  BY <1>1 DEF Held
<1>5. Held # None
  BY <1>3, <1>4, ExecutorAssumption
<1>6. Cash = capital /\ Cash' = capital + loc[Listener].pnl
  BY DEF Cash, CloseIsLogged, Resumes, Sends
<1>7. Cash' = Cash + (price - Held.entry) * Held.size
  BY <1>2, <1>4, <1>6 DEF RealizedPnl
<1> QED
  BY <1>4, <1>5, <1>7
     DEF Held, Cash, Ledgered, Ledger!Next, Ledger!Sell

LEMMA LedgerStep ==
    ASSUME TypeOK, SaleInHand, LoopStep
    PROVE  Ledgered
<1>1. CASE NewPrice
  <2>1. /\ position'.entry = position.entry /\ position'.size = position.size
        /\ (HasPosition' <=> HasPosition)
    BY <1>1, ListenerTypes DEF NewPrice, Position, HasPosition, IsOpen
  <2>2. Cash' = Cash
    BY <1>1 DEF NewPrice, Cash, Sends
  <2> QED
    BY <2>1, <2>2 DEF Held, Ledgered
<1>2. CASE CloseIsSaved
  BY <1>2 DEF CloseIsSaved, Resumes, Sends, Held, Cash, HasPosition, IsOpen,
              Ledgered
<1>3. CASE \/ Sold \/ HandlerEnds \/ OpenIsSaved \/ OpenIsLogged \/ Counted
           \/ PnlRecorded \/ EquityTaken \/ SavedAgain
  <2>1. UNCHANGED <<position, capital>>
        /\ pc[Listener] # "close.save" /\ pc'[Listener] # "close.save"
    BY <1>3 DEF Sold, HandlerEnds, OpenIsSaved, OpenIsLogged, Counted,
                PnlRecorded, EquityTaken, SavedAgain, Deciding, Resumes, Sends
  <2> QED
    BY <2>1 DEF Held, Cash, HasPosition, IsOpen, Ledgered
<1>4. CASE Landed \/ Aside
  BY <1>4 DEF Landed, Aside, Held, Cash, HasPosition, IsOpen, Ledgered
<1> QED
  BY <1>1, <1>2, <1>3, <1>4, BoughtIsBuy, CloseIsSell DEF LoopStep

(* Opening and closing, spread over their Redis commands, implement the    *)
(* ledger's atomic buy and sell: no position is overwritten or lost, and   *)
(* every close moves the profit it was decided at into the capital once    *)
(* (position_manager.open_position, close_position, update_capital).       *)
THEOREM LedgerIsImplemented ==
    ASSUME Alone
    PROVE  Spec => LedgerImplemented
<1>1. Init => Ledger!Init
  <2> SUFFICES ASSUME Init PROVE Ledger!Init
    OBVIOUS
  <2>1. pc[Listener] = "idle" /\ ~HasPosition /\ capital = InitialCapital
    BY ExecutorAssumption
       DEF Init, PositionInit, Empty, HasPosition, IsOpen
  <2> QED
    BY <2>1 DEF Ledger!Init
<1>2. LoopInv /\ TypeOK /\ TypeOK' /\ [Next]_vars => Ledgered
  BY LoopSteps, LedgerStep DEF LoopInv
<1> QED
  BY <1>1, <1>2, LoopInvHolds, TypeCorrect, PTL
     DEF Spec, LedgerImplemented, Ledger!Spec, Ledgered, Held, Cash
=============================================================================
