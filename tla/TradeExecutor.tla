--------------------------- MODULE TradeExecutor ---------------------------
(***************************************************************************)
(* backend/services/trade_executor.py with the position manager, the risk  *)
(* guardian and Redis under it, and the HTTP handlers of backend/main.py   *)
(* that change the same state.                                             *)
(*                                                                         *)
(* The task Listener is EventSubscriber._listen: it handles one prediction *)
(* at a time.  Every other task is an HTTP request: a manual close or a    *)
(* reset of the circuit breaker.  pc[t] is the await task t is suspended   *)
(* at, named for the method and the command it waits for.  An action runs  *)
(* one task from the return of an await to its next one, atomically, as    *)
(* the event loop does.  The guardrail (blockchain_client.approve_trade),  *)
(* the risk checks and the decision record never suspend.                  *)
(***************************************************************************)
EXTENDS PositionManager, RiskGuardian

CONSTANTS
    Listener,           \* the task that handles predictions
    Prices,             \* prices the feed can carry
    Predictions,        \* predictions the model can publish
    Atrs, VolScalars,   \* values the latest features can give
    BasePositionSize,   \* BASE_POSITION_SIZE_PCT, in basis points
    ChainEnabled,       \* settings.blockchain_enabled
    ProgramDeployed,    \* settings.decision_program_id is set
    LimitChoices,       \* limits an operator may PUT to /risk/limits
    MaxTime,            \* bounds of the exploration: clock ticks,
    MaxOpens,           \* positions opened,
    MaxRequests,        \* HTTP requests,
    MaxFaults           \* failing Redis commands and restarts, together

VARIABLES
    pc,         \* where each task is suspended
    loc,        \* the local variables of each task that outlive an await
    history,    \* trade_history
    limits,     \* the limits in settings, which approve_trade reads
    chainReady, \* blockchain_client._initialized
    requests,   \* how many requests there have been
    faults      \* how many commands failed and processes restarted

executorVars == <<pc, loc, history, limits, chainReady, requests, faults>>
vars == <<runtimeVars, positionVars, riskVars, executorVars>>

Requests == Tasks \ {Listener}
Limits == [position : Nat, loss : Nat, drawdown : Nat]

StreamEvent == [event : {"OPEN", "CLOSE"}, id : Nat]

(* The values that are kept under key                                      *)
Kind(key) ==
    CASE key = "position" -> Position
      [] key = "risk" -> RiskState
      [] key = "trades_today" -> Nat
      [] key = "stream" -> StreamEvent
      [] OTHER -> Int

Command(key) == [key : {key}, value : Kind(key), landed : BOOLEAN]

ASSUME ExecutorAssumption ==
    /\ Listener \in Tasks
    /\ None \notin Int
    /\ None \notin RiskState
    /\ None \notin [entry : Int, size : Int]
    /\ \A key \in Keys \cup {"stream"} : None \notin Command(key)
    /\ Prices \subseteq Nat \ {0}
    /\ Predictions \subseteq [price : Prices, signal : {"up", "down", "weak"}]
    /\ Atrs \subseteq Nat
    /\ VolScalars \subseteq Nat
    /\ BasePositionSize \in Nat
    /\ ChainEnabled \in BOOLEAN
    /\ ProgramDeployed \in BOOLEAN
    /\ LimitChoices \subseteq Limits
    /\ {MaxTime, MaxOpens, MaxRequests, MaxFaults} \subseteq Nat

(* What the thresholds on direction and confidence tell apart: UP with at  *)
(* least ENTRY_CONFIDENCE_THRESHOLD, DOWN with at least                    *)
(* EXIT_REVERSAL_CONFIDENCE, and anything else.                            *)
Signals == {"up", "down", "weak"}

NoLocals == [price |-> 0, signal |-> "weak", pnl |-> 0, pct |-> 0,
             equity |-> 0, action |-> "HOLD"]

DefaultLimits == [position |-> MaxPositionSize, loss |-> MaxDailyLoss,
                  drawdown |-> MaxDrawdown]

Init ==
    /\ now = 0
    /\ store = [k \in Keys |-> None]
    /\ stream = <<>>
    /\ io = [t \in Tasks |-> None]
    /\ PositionInit
    /\ RiskInit
    /\ pc = [t \in Tasks |-> "idle"]
    /\ loc = [t \in Tasks |-> NoLocals]
    /\ history = <<>>
    /\ limits = DefaultLimits
    /\ chainReady = FALSE
    /\ requests = 0
    /\ faults = 0

Unmoved == UNCHANGED <<now, store, stream>>

(* Task t suspends at the await named by label, with the locals l.         *)
SuspendAt(t, label, l) ==
    /\ pc' = [pc EXCEPT ![t] = label]
    /\ loc' = [loc EXCEPT ![t] = l]
    /\ requests' = requests + (IF pc[t] = "idle" /\ t # Listener THEN 1 ELSE 0)
    /\ UNCHANGED <<history, limits, chainReady, faults>>
    /\ Unmoved

(* Task t, suspended at label, has its answer.                             *)
Resumes(t, label) == pc[t] = label /\ Answered(t)

(* Mutant: the command of an abandoned handler is not forgotten.           *)
EndsPending(t, h) ==
    /\ pc' = [pc EXCEPT ![t] = "idle"]
    /\ loc' = [loc EXCEPT ![t] = NoLocals]
    /\ history' = h
    /\ UNCHANGED <<io, limits, chainReady, requests>>
    /\ Unmoved

(* The handler of task t ends, with the trades recorded in h.              *)
Ends(t, h) ==
    /\ pc' = [pc EXCEPT ![t] = "idle"]
    /\ loc' = [loc EXCEPT ![t] = NoLocals]
    /\ io' = [io EXCEPT ![t] = None]
    /\ history' = h
    /\ UNCHANGED <<limits, chainReady, requests>>
    /\ Unmoved

Returns(t, h) == Ends(t, h) /\ UNCHANGED faults

-----------------------------------------------------------------------------
(* Deciding                                                                *)

Magnitude(x) == IF x < 0 THEN -x ELSE x

(* approve_trade: without a deployed program, the live limits are compared *)
(* here; with one, the answer is yes.                                      *)
Approved(pct) ==
    ChainEnabled =>
        /\ chainReady
        /\ \/ ProgramDeployed
           \/ /\ pct <= limits.position
              /\ Magnitude(risk.daily_pnl) <= limits.loss
              /\ risk.drawdown <= limits.drawdown

(* _evaluate_entry                                                         *)
EntryWanted(signal, pct) ==
    /\ ~HasPosition
    /\ signal = "up"
    /\ pct >= 50
    /\ CheckTrade("BUY", pct, 0)

(* _evaluate_exit.  No check of the risk guardian is among its conditions. *)
ExitWanted(price, signal, atr) ==
    /\ HasPosition
    /\ \/ IF atr > 0 THEN AtrStopHit(position.entry, price, atr)
                     ELSE StopLossHit(position.entry, position.price)
       \/ TakeProfitHit(position.entry, position.price)
       \/ signal = "down"
       \/ TooOld(now - position.since)

(* The first part of _execute_trade, for a BUY and for a SELL              *)
Buy(price, pct) ==
    /\ Approved(pct)
    /\ OpenPosition(Listener, price, pct)
    /\ SuspendAt(Listener, "open.save",
                 [NoLocals EXCEPT !.action = "BUY"])
    /\ UNCHANGED riskVars

Sell(t, price) ==
    /\ Approved(0)
    /\ LogClose(t)
    /\ SuspendAt(t, "close.log", [NoLocals EXCEPT !.pnl = RealizedPnl(price),
                                                  !.action = "SELL"])
    /\ UNCHANGED riskVars

(* The handler ends without a trade: it held, or the guardrail refused.    *)
Hold ==
    /\ Returns(Listener, history)
    /\ UNCHANGED <<positionVars, riskVars>>

(* _evaluate_action and what follows it, for the features of the moment    *)
Decide(price, signal) ==
    \E atr \in Atrs, scalar \in VolScalars :
        LET pct == PositionSize(BasePositionSize, scalar)
        IN  \/ EntryWanted(signal, pct) /\ Buy(price, pct)
            \/ ExitWanted(price, signal, atr) /\ Sell(Listener, price)
            \/ /\ EntryWanted(signal, pct) => ~Approved(pct)
               /\ ExitWanted(price, signal, atr) => ~Approved(0)
               /\ Hold

-----------------------------------------------------------------------------
(* _on_prediction                                                          *)

(* The bound on opens cuts off the predictions that could lead to one more *)
Explored(p) == p.signal = "up" => opens < MaxOpens

(* With a position, its price is updated and saved before anything else.   *)
PredictionWithPosition(p) ==
    /\ Explored(p)
    /\ pc[Listener] = "idle"
    /\ UpdatePrice(Listener, p.price)
    /\ SuspendAt(Listener, "update_price",
                 [NoLocals EXCEPT !.price = p.price, !.signal = p.signal])
    /\ UNCHANGED riskVars

PriceUpdated ==
    /\ Resumes(Listener, "update_price")
    /\ Decide(loc[Listener].price, loc[Listener].signal)

PredictionWithoutPosition(p) ==
    /\ Explored(p)
    /\ pc[Listener] = "idle"
    /\ ~HasPosition
    /\ Decide(p.price, p.signal)

(* open_position and the BUY that waits for it                             *)
OpenSaved ==
    /\ Resumes(Listener, "open.save")
    /\ LogOpen(Listener)
    /\ SuspendAt(Listener, "open.log", loc[Listener])
    /\ UNCHANGED riskVars

OpenLogged ==
    /\ Resumes(Listener, "open.log")
    /\ RecordTime(Listener)
    /\ SuspendAt(Listener, "record.time",
                 [loc[Listener] EXCEPT !.equity = CurrentCapital])
    /\ UNCHANGED positionVars

(* main.close_position with manual_close                                   *)
ManualClose(t, price) ==
    /\ pc[t] = "idle"
    /\ requests < MaxRequests
    /\ Sell(t, price)

(* close_position resumes, in a SELL or in manual_close.                   *)
CloseLogged(t) ==
    /\ Resumes(t, "close.log")
    /\ ResetPosition(t)
    /\ SuspendAt(t, "close.save", loc[t])
    /\ UNCHANGED riskVars

(* Mutant: the equity is computed before the capital is updated.           *)
CloseSavedStale(t) ==
    /\ Resumes(t, "close.save")
    /\ UpdateCapital(loc[t].pnl)
    /\ RecordTime(t)
    /\ SuspendAt(t, "record.time",
                 [loc[t] EXCEPT !.pct = Bps(loc[t].pnl, capital'),
                                !.equity = CurrentCapital])

(* The close is complete, and record_trade starts.                         *)
CloseSaved(t) ==
    /\ Resumes(t, "close.save")
    /\ UpdateCapital(loc[t].pnl)
    /\ RecordTime(t)
    /\ SuspendAt(t, "record.time",
                 [loc[t] EXCEPT !.pct = Bps(loc[t].pnl, capital'),
                                !.equity = EquityOf(capital')])

(* record_trade                                                            *)
TimeRecorded(t) ==
    /\ Resumes(t, "record.time")
    /\ RecordCount(t)
    /\ SuspendAt(t, "record.count", loc[t])
    /\ UNCHANGED positionVars

CountRecorded(t) ==
    /\ Resumes(t, "record.count")
    /\ loc[t].pnl # 0
    /\ RecordPnl(t, loc[t].pct)
    /\ SuspendAt(t, "record.pnl", loc[t])
    /\ UNCHANGED positionVars

(* The equity is the one computed before the first command of record_trade *)
EquityUpdated(t) ==
    /\ \/ Resumes(t, "record.count") /\ loc[t].pnl = 0
       \/ Resumes(t, "record.pnl")
    /\ UpdateEquity(t, loc[t].equity)
    /\ SuspendAt(t, IF Trips(WithEquity(loc[t].equity)) THEN "breaker.save"
                                                        ELSE "equity.save",
                 loc[t])
    /\ UNCHANGED positionVars

(* Mutant: a triggered breaker is triggered again.                         *)
BreakerSavedAgain(t) ==
    /\ Resumes(t, "breaker.save")
    /\ SaveRisk(t)
    /\ SuspendAt(t, "breaker.save", loc[t])
    /\ UNCHANGED positionVars

BreakerSaved(t) ==
    /\ Resumes(t, "breaker.save")
    /\ SaveRisk(t)
    /\ SuspendAt(t, "equity.save", loc[t])
    /\ UNCHANGED positionVars

(* The audit rows in PostgreSQL and the event that follow swallow their    *)
(* errors or change nothing here.                                          *)
TradeRecorded(t) ==
    /\ Resumes(t, "equity.save")
    /\ Returns(t, Append(history, [action |-> loc[t].action, pnl |-> loc[t].pnl]))
    /\ UNCHANGED <<positionVars, riskVars>>

-----------------------------------------------------------------------------
(* The other handlers                                                      *)

ResetBreaker(t) ==
    /\ pc[t] = "idle"
    /\ requests < MaxRequests
    /\ ResetCircuitBreaker(t)
    /\ SuspendAt(t, "reset.save", NoLocals)
    /\ UNCHANGED positionVars

BreakerReset(t) ==
    /\ Resumes(t, "reset.save")
    /\ Returns(t, history)
    /\ UNCHANGED <<positionVars, riskVars>>

(* update_risk_limits changes settings; RiskGuardian keeps its own copy.   *)
PutLimits(l) ==
    /\ requests < MaxRequests
    /\ requests' = requests + 1
    /\ limits' = l
    /\ UNCHANGED <<runtimeVars, positionVars, riskVars, pc, loc, history,
                   chainReady, faults>>

(* blockchain_client.initialize succeeds.  It runs after the listener was  *)
(* started, and waits for an RPC node.                                     *)
ChainConnected ==
    /\ ChainEnabled
    /\ ~chainReady
    /\ chainReady' = TRUE
    /\ UNCHANGED <<runtimeVars, positionVars, riskVars, pc, loc, history,
                   limits, requests, faults>>

-----------------------------------------------------------------------------
(* Redis, time and faults                                                  *)

Delivered(t) ==
    /\ Land(t)
    /\ UNCHANGED <<positionVars, riskVars, executorVars>>

Tick ==
    /\ now < MaxTime
    /\ now' = now + 1
    /\ UNCHANGED <<store, stream, io, positionVars, riskVars, executorVars>>

(* The command of task t raises, before or after it took effect.  The      *)
(* handler is abandoned where it is: _listen prints the error and takes    *)
(* the next message, a request answers 500.                                *)
CommandFailed(t) ==
    /\ faults < MaxFaults
    /\ faults' = faults + 1
    /\ io[t] # None
    /\ Ends(t, history)
    /\ UNCHANGED <<positionVars, riskVars>>

(* The process stops, wherever its tasks are, and a new one starts.  A     *)
(* graceful stop cancels the listener mid-handler and is the same step.    *)
Restart ==
    /\ faults < MaxFaults
    /\ faults' = faults + 1
    /\ LoadPosition
    /\ LoadRisk
    /\ io' = [t \in Tasks |-> None]
    /\ pc' = [t \in Tasks |-> "idle"]
    /\ loc' = [t \in Tasks |-> NoLocals]
    /\ history' = <<>>
    /\ limits' = DefaultLimits
    /\ chainReady' = FALSE
    /\ requests' = requests
    /\ Unmoved

(* A handler that resumes from an await                                    *)
Continue(t) ==
    \/ CloseLogged(t)
    \/ CloseSaved(t)
    \/ TimeRecorded(t)
    \/ CountRecorded(t)
    \/ EquityUpdated(t)
    \/ BreakerSaved(t)
    \/ TradeRecorded(t)

Next ==
    \/ \E p \in Predictions : \/ PredictionWithPosition(p)
                              \/ PredictionWithoutPosition(p)
    \/ PriceUpdated
    \/ OpenSaved
    \/ OpenLogged
    \/ \E t \in Tasks : Continue(t)
    \/ \E t \in Requests : \/ \E price \in Prices : ManualClose(t, price)
                           \/ ResetBreaker(t)
                           \/ BreakerReset(t)
    \/ \E l \in LimitChoices : PutLimits(l)
    \/ ChainConnected
    \/ \E t \in Tasks : Delivered(t) \/ CommandFailed(t)
    \/ Tick
    \/ Restart

(* Redis answers, and the event loop runs every task whose await is over.  *)
(* Nothing is assumed of predictions, of requests, or of faults.           *)
Fairness ==
    /\ \A t \in Tasks : WF_vars(Delivered(t))
    /\ \A t \in Tasks : WF_vars(Continue(t))
    /\ WF_vars(PriceUpdated)
    /\ WF_vars(OpenSaved)
    /\ WF_vars(OpenLogged)
    /\ \A t \in Requests : WF_vars(BreakerReset(t))

Spec == Init /\ [][Next]_vars
FairSpec == Spec /\ Fairness

-----------------------------------------------------------------------------
(* Types                                                                   *)

ListenerLabels == {"update_price", "open.save", "open.log"}
SellLabels == {"close.log", "close.save"}
RecordLabels == {"record.time", "record.count", "record.pnl", "breaker.save",
                 "equity.save"}

Labels == {"idle", "reset.save"} \cup ListenerLabels \cup SellLabels
            \cup RecordLabels

Locals == [price : Int, signal : Signals, pnl : Int, pct : Int, equity : Int,
           action : {"BUY", "SELL", "HOLD"}]

StoreOK ==
    /\ DOMAIN store = Keys
    /\ \A k \in {"position", "risk"} : store[k] # None => store[k] \in Kind(k)
    /\ \A k \in DailyKeys :
         store[k] # None => /\ store[k].value \in Kind(k)
                            /\ store[k].expires \in Nat

IoOK ==
    /\ DOMAIN io = Tasks
    /\ \A t \in Tasks : io[t] # None =>
         \E key \in Keys \cup {"stream"} : io[t] \in Command(key)

(* Every variable has its type, a task waits for a command exactly when it *)
(* is suspended, only the listener opens positions, and a prediction that  *)
(* waits for its price to be saved keeps a price of the feed.              *)
TypeOK ==
    /\ now \in Nat
    /\ StoreOK
    /\ stream \in Seq(StreamEvent)
    /\ IoOK
    /\ position \in Position
    /\ capital \in Int
    /\ opens \in Nat
    /\ risk \in RiskState
    /\ breaker \in BOOLEAN
    /\ pc \in [Tasks -> Labels]
    /\ loc \in [Tasks -> Locals]
    /\ history \in Seq([action : {"BUY", "SELL", "HOLD"}, pnl : Int])
    /\ limits \in Limits
    /\ chainReady \in BOOLEAN
    /\ requests \in Nat
    /\ faults \in Nat
    /\ \A t \in Tasks : pc[t] = "idle" <=> io[t] = None
    /\ \A t \in Requests : pc[t] \notin ListenerLabels
    /\ pc[Listener] = "update_price" => loc[Listener].price \in Prices

-----------------------------------------------------------------------------
(* What holds when the listener is the only task and nothing fails         *)

(* The profit of a close is credited to the capital only after the empty   *)
(* position was saved; in between, the closing task carries it.            *)
Ledger == INSTANCE PositionLedger WITH
    held <- IF HasPosition
              THEN [entry |-> position.entry, size |-> position.size]
              ELSE None,
    cash <- IF pc[Listener] = "close.save" THEN capital + loc[Listener].pnl
                                           ELSE capital

(* Opening and closing, spread over their Redis commands, are the atomic   *)
(* buy and sell of the ledger: no position is overwritten or lost, and     *)
(* each close is credited once, at the price it was decided at             *)
(* (position_manager.open_position, close_position, update_capital).       *)
LedgerImplemented == Ledger!Spec

(* A position is logged as closed at most once (close_position's guard,    *)
(* "No position to close").                                                *)
ClosedOnce ==
    \A i, j \in DOMAIN stream :
        (stream[i] = stream[j] /\ stream[i].event = "CLOSE") => i = j

Quiet == \A t \in Tasks : pc[t] = "idle"

(* Between handlers, Redis has the position the process has                *)
(* (PositionManager, "Manages position state in Redis").                   *)
PositionSaved == Quiet => (store["position"] = position \/ opens = 0)

(* Between handlers, a restart would lose nothing but the capital and the  *)
(* breaker flag: what load_from_redis and load_state would read is what    *)
(* the process has in memory.                                              *)
RestartWouldRestore == PositionSaved /\ (Quiet => LoadedRisk = risk)

(* Between handlers, without a position, the drawdown that throttles and   *)
(* trips is the one of the capital as it stands (record_trade after        *)
(* update_capital).                                                        *)
DrawdownIsCurrent ==
    (Quiet /\ ~HasPosition /\ risk.peak > 0) =>
        /\ risk.peak >= capital
        /\ risk.drawdown = Bps(risk.peak - capital, risk.peak)

(* A trade that was started is recorded: the loop always comes back for    *)
(* the next prediction.                                                    *)
HandlerReturns == pc[Listener] # "idle" ~> pc[Listener] = "idle"

(* A day without trades leaves room for one (RiskConfig, "Max 50           *)
(* trades/day").  Ttl is a day.                                            *)
DailyCountIsDaily ==
    (Quiet /\ risk.last_trade # None /\ now - risk.last_trade >= Ttl)
        => risk.trades < MaxTradesPerDay

-----------------------------------------------------------------------------
(* What holds with requests beside the listener, failing commands and      *)
(* restarts                                                                *)

(* Whatever was running or failed before, a position is opened only while  *)
(* trading is enabled, below the 8% bracket, within the daily loss, the    *)
(* cooldown and the trade count, and with a stake of at most the maximum   *)
(* fraction of the capital, but for the rounding of its size by half a     *)
(* unit (_evaluate_entry to open_position).  Closes are not in it: the     *)
(* validation is computed for a SELL as well and put on record, but not    *)
(* asked, although risk_guardian.py has "All trades must pass risk         *)
(* validation before execution. This is a hard gate that cannot be         *)
(* bypassed".                                                              *)
EntriesPassTheGate ==
    [][opens' > opens =>
        /\ risk.enabled /\ ~breaker
        /\ risk.drawdown < 800 /\ risk.drawdown <= MaxDrawdown
        /\ risk.daily_pnl >= -MaxDailyLoss
        /\ risk.trades < MaxTradesPerDay
        /\ \/ risk.last_trade = None
           \/ now >= risk.last_trade + MinTradeInterval
        /\ IsOpen(position') =>
             position'.size * position'.entry * 10000
               <= capital * MaxPositionSize + 5000 * position'.entry
      ]_vars

(* While the process runs, a position is replaced only by no position: its *)
(* size, entry price and age are those it was opened with.                 *)
PositionKept ==
    [][(IsOpen(position) /\ IsOpen(position') /\ ~Restart) =>
            [position' EXCEPT !.price = position.price] = position]_vars

(* Every trade in the history was counted against the daily limit, however *)
(* the handlers of record_trade interleave or fail.                        *)
TradesAreCounted == Len(history) <= risk.trades

(* Trading that was disabled is enabled again only by a reset or by a      *)
(* restart (reset_circuit_breaker, "manual only").                         *)
OnlyResetEnables ==
    [][(~risk.enabled /\ risk'.enabled) =>
            Restart \/ \E t \in Requests : ResetBreaker(t)]_vars
=============================================================================
