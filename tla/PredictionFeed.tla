--------------------------- MODULE PredictionFeed ---------------------------
(***************************************************************************)
(* From stored candles to handled predictions: the endpoints /features,    *)
(* /predict and /trade/submit-demo of backend/main.py, the services below  *)
(* them, and the listener that passes predictions to the trade executor.   *)
(*                                                                         *)
(* A request is a task; pc[t] is the await it is suspended at, named for   *)
(* what it waits for.  An action is what the event loop runs from the      *)
(* return of an await to the next one.  Two awaits in a row with nothing   *)
(* between them that the model keeps are one: SETEX and PUBLISH of the     *)
(* features, which nobody reads, and SETEX and PUBLISH of a prediction.    *)
(* Of the executor's handler only the outcome and the rows are kept: it    *)
(* holds, trades, or raises.                                               *)
(***************************************************************************)
EXTENDS PredictionService, EventChannel, AuditTrail

CONSTANTS
    Histories,      \* candles there may be before the first start
    Requests,       \* HTTP requests that may be served at a time
    MaxRows,        \* bounds of the exploration: candles,
    MaxRequests,    \* requests served,
    MaxFaults       \* failures and stops, together

VARIABLES
    stage,      \* the process: "down", "starting" or "up"
    pc, loc,    \* where each request is suspended, its locals
    requests, faults

feedVars == <<rows, latestFeatures, modelLoaded, latestPrediction>>
processVars == <<stage, pc, loc, requests, faults>>
vars == <<feedVars, channelVars, auditVars, processVars>>

ASSUME FeedAssumption ==
    /\ Histories \subseteq Seq(Candles)
    /\ {MaxRows, MaxRequests, MaxFaults} \subseteq Nat

(* /features/compute and /trade/submit-demo, /predict                      *)
Operations == {"features", "predict"}

NoLocals == [op |-> "features", n |-> 0]

Idle == [t \in Requests |-> "idle"]

Init ==
    /\ rows \in Histories
    /\ EngineInit
    /\ modelLoaded = FALSE
    /\ latestPrediction = None
    /\ ChannelInit
    /\ AuditInit
    /\ stage = "down"
    /\ pc = Idle
    /\ loc = [t \in Requests |-> NoLocals]
    /\ requests = 0
    /\ faults = 0

(* The market data service stores one more closed candle, in this process  *)
(* or, as history, in a later one.                                         *)
CandleClosed(c) ==
    /\ Len(rows) < MaxRows
    /\ rows' = Append(rows, c)
    /\ UNCHANGED <<latestFeatures, modelLoaded, latestPrediction>>
    /\ UNCHANGED <<channelVars, auditVars, processVars>>

(***************************************************************************)
(* The process                                                             *)
(***************************************************************************)

(* lifespan up to the start of the trade executor: the model, then the     *)
(* listener.  Requests are not served yet.                                 *)
Started ==
    /\ stage = "down"
    /\ stage' = "starting"
    /\ LoadModel
    /\ Listening
    /\ UNCHANGED <<rows, latestFeatures, latestPrediction, auditVars>>
    /\ UNCHANGED <<pc, loc, requests, faults>>

(* lifespan yields, after the clients of the chain are initialized.        *)
Serving ==
    /\ stage = "starting"
    /\ stage' = "up"
    /\ UNCHANGED <<feedVars, channelVars, auditVars, pc, loc, requests, faults>>

(* A graceful stop or a crash.  What is in PostgreSQL stays.               *)
Stopped ==
    /\ stage # "down"
    /\ faults < MaxFaults
    /\ faults' = faults + 1
    /\ stage' = "down"
    /\ latestFeatures' = None
    /\ modelLoaded' = FALSE
    /\ latestPrediction' = None
    /\ Disconnected
    /\ pc' = Idle
    /\ loc' = [t \in Requests |-> NoLocals]
    /\ UNCHANGED <<rows, auditVars, requests>>

Disconnects ==
    /\ faults < MaxFaults
    /\ faults' = faults + 1
    /\ ConnectionLost
    /\ UNCHANGED <<feedVars, auditVars, stage, pc, loc, requests>>

(***************************************************************************)
(* Requests                                                                *)
(***************************************************************************)

Suspend(t, label) == pc' = [pc EXCEPT ![t] = label]

Waits(t) == UNCHANGED <<stage, loc, requests, faults, auditVars, rows, modelLoaded>>

(* compute_features starts with its query.  /features/latest does the same *)
(* if there are no features yet; otherwise it answers from memory, as      *)
(* /predict/latest always does.                                            *)
Request(t, op) ==
    /\ stage = "up"
    /\ pc[t] = "idle"
    /\ requests < MaxRequests
    /\ requests' = requests + 1
    /\ loc' = [loc EXCEPT ![t] = [op |-> op, n |-> 0]]
    /\ Suspend(t, "candles")
    /\ UNCHANGED <<feedVars, channelVars, auditVars, stage, faults>>

(* PostgreSQL runs the query; the task has not seen the answer.            *)
QueryRuns(t) ==
    /\ pc[t] = "candles"
    /\ loc' = [loc EXCEPT ![t].n = Len(rows)]
    /\ Suspend(t, "rows")
    /\ UNCHANGED <<feedVars, channelVars, auditVars, stage, requests, faults>>

(* compute_features, with too few candles: the request is answered.        *)
TooFewCandles(t) ==
    /\ pc[t] = "rows"
    /\ ~Computable(loc[t].n)
    /\ Suspend(t, "idle")
    /\ Waits(t)
    /\ UNCHANGED <<latestFeatures, latestPrediction, channelVars>>

(* Mutant: the features get the close time of the candle closed last, not  *)
(* of the last one they were computed from.                                *)
ComputedLate(t) ==
    /\ pc[t] = "rows"
    /\ Computable(loc[t].n)
    /\ latestFeatures' = [FeaturesAt(loc[t].n) EXCEPT !.timestamp = Len(rows)]
    /\ Suspend(t, "features")
    /\ Waits(t)
    /\ UNCHANGED <<latestPrediction, channelVars>>

(* compute_features: the indicators, latest_features, SETEX features:latest *)
Computed(t) ==
    /\ pc[t] = "rows"
    /\ Computable(loc[t].n)
    /\ KeepFeatures(loc[t].n)
    /\ Suspend(t, "features")
    /\ Waits(t)
    /\ UNCHANGED <<latestPrediction, channelVars>>

(* compute_features returns to an endpoint that only wanted the features,  *)
(* or predict has no model.                                                *)
FeaturesAnswered(t) ==
    /\ pc[t] = "features"
    /\ loc[t].op # "predict" \/ ~modelLoaded
    /\ Suspend(t, "idle")
    /\ Waits(t)
    /\ UNCHANGED <<latestFeatures, latestPrediction, channelVars>>

(* Mutant: the prediction is made from the features computed last, by any  *)
(* request, with the price of the own ones.                                *)
PredictedFromLatest(t) ==
    /\ pc[t] = "features"
    /\ loc[t].op = "predict"
    /\ modelLoaded
    /\ latestPrediction' =
            [Prediction(FeaturesAt(loc[t].n)) EXCEPT
                !.timestamp = latestFeatures.timestamp]
    /\ Suspend(t, "prediction")
    /\ Waits(t)
    /\ UNCHANGED <<latestFeatures, channelVars>>

(* predict_and_publish, with the features compute_features returned        *)
Predicted(t) ==
    /\ pc[t] = "features"
    /\ loc[t].op = "predict"
    /\ modelLoaded
    /\ Predict(FeaturesAt(loc[t].n))
    /\ Suspend(t, "prediction")
    /\ Waits(t)
    /\ UNCHANGED <<latestFeatures, channelVars>>

(* Redis passes the message on.  Its answer may be later: the task only    *)
(* goes on to its next command.                                            *)
PredictionPublished(t) ==
    /\ pc[t] = "prediction"
    /\ Publish
    /\ Suspend(t, "stream")
    /\ Waits(t)
    /\ UNCHANGED <<latestFeatures, latestPrediction>>

(* stream:predictions has it, and the request is answered.                 *)
PredictionLogged(t) ==
    /\ pc[t] = "stream"
    /\ Suspend(t, "idle")
    /\ Waits(t)
    /\ UNCHANGED <<latestFeatures, latestPrediction, channelVars>>

(* Any command of a request raises: the client gets an error.              *)
RequestFails(t) ==
    /\ pc[t] # "idle"
    /\ faults < MaxFaults
    /\ faults' = faults + 1
    /\ Suspend(t, "idle")
    /\ UNCHANGED <<feedVars, channelVars, auditVars, stage, loc, requests>>

(***************************************************************************)
(* The listener                                                            *)
(***************************************************************************)

(* The message in hand                                                     *)
InHand == handled[Len(handled)]

Receives ==
    /\ Receive
    /\ UNCHANGED <<feedVars, auditVars, processVars>>

Resubscribes ==
    /\ Resubscribed
    /\ UNCHANGED <<feedVars, auditVars, processVars>>

(* _on_prediction holds or is refused, and returns.                        *)
HandlerHolds ==
    /\ listen = "handle"
    /\ ListenAt("get")
    /\ UNCHANGED <<feedVars, auditVars, processVars>>

(* Mutant: _listen ends with a handler that raises.                        *)
HandlerEndsListener ==
    /\ listen \in {"handle", "announce"}
    /\ faults < MaxFaults
    /\ faults' = faults + 1
    /\ ListenAt("off")
    /\ UNCHANGED <<feedVars, auditVars, stage, pc, loc, requests>>

(* _on_prediction raises, in a command of the trade or of its announcement; *)
(* _listen prints the error and goes on.                                   *)
HandlerFails ==
    /\ listen \in {"handle", "announce"}
    /\ faults < MaxFaults
    /\ faults' = faults + 1
    /\ ListenAt("get")
    /\ UNCHANGED <<feedVars, auditVars, stage, pc, loc, requests>>

(* Mutant: the trade's row is written first.                               *)
HandlerFilesTrade ==
    /\ listen = "handle"
    /\ ListenAt("decision.row")
    /\ SaveTrade(InHand)
    /\ UNCHANGED <<feedVars, processVars>>

(* _on_prediction trades: the position and the risk state have changed,    *)
(* and what is left is to file it.                                         *)
HandlerTrades ==
    /\ listen = "handle"
    /\ ListenAt("decision.row")
    /\ UNCHANGED <<feedVars, auditVars, processVars>>

DecisionFiled ==
    /\ listen = "decision.row"
    /\ ListenAt("trade.row")
    /\ SaveDecision(InHand)
    /\ UNCHANGED <<feedVars, processVars>>

DecisionNotFiled ==
    /\ listen = "decision.row"
    /\ faults < MaxFaults
    /\ faults' = faults + 1
    /\ ListenAt("trade.row")
    /\ SaveDecisionRaises(InHand)
    /\ UNCHANGED <<feedVars, stage, pc, loc, requests>>

TradeFiled ==
    /\ listen = "trade.row"
    /\ ListenAt("announce")
    /\ SaveTrade(InHand)
    /\ UNCHANGED <<feedVars, processVars>>

TradeNotFiled ==
    /\ listen = "trade.row"
    /\ faults < MaxFaults
    /\ faults' = faults + 1
    /\ ListenAt("announce")
    /\ SaveTradeRaises(InHand)
    /\ UNCHANGED <<feedVars, stage, pc, loc, requests>>

(* event:trade_executed is published, and the handler returns.             *)
TradeAnnounced ==
    /\ listen = "announce"
    /\ ListenAt("get")
    /\ UNCHANGED <<feedVars, auditVars, processVars>>

Listens ==
    \/ Receives \/ Resubscribes \/ HandlerHolds \/ HandlerTrades
    \/ DecisionFiled \/ DecisionNotFiled \/ TradeFiled \/ TradeNotFiled
    \/ TradeAnnounced

Next ==
    \/ \E c \in Candles : CandleClosed(c)
    \/ Started \/ Serving \/ Stopped \/ Disconnects
    \/ \E t \in Requests :
        \/ \E op \in Operations : Request(t, op)
        \/ QueryRuns(t) \/ TooFewCandles(t) \/ Computed(t)
        \/ FeaturesAnswered(t) \/ Predicted(t)
        \/ PredictionPublished(t) \/ PredictionLogged(t) \/ RequestFails(t)
    \/ Listens \/ HandlerFails

Spec == Init /\ [][Next]_vars

(* A command of the listener is answered or raises.  Nobody need send      *)
(* requests, nothing need fail, and a stopped process need not come back.  *)
FairSpec == Spec /\ WF_vars(Listens \/ HandlerFails)

(***************************************************************************)
(* Properties                                                              *)
(***************************************************************************)

Labels == {"idle", "candles", "rows", "features", "prediction", "stream"}
Awaits == {"off", "get", "handle", "decision.row", "trade.row", "announce"}

(* The features are those of a window of stored candles                    *)
OfStoredWindow(features) ==
    /\ features.timestamp \in 1..Len(rows)
    /\ Computable(features.timestamp)
    /\ features = FeaturesAt(features.timestamp)

(* Types.  The features kept are those of a window of stored candles, with *)
(* the close time of its last one, although candles are closed between the *)
(* query and the computation.                                              *)
TypeOK ==
    /\ rows \in Seq(Candles)
    /\ latestFeatures = None \/ OfStoredWindow(latestFeatures)
    /\ modelLoaded \in BOOLEAN
    /\ subscribed \in BOOLEAN
    /\ {inbox, handled} \subseteq Seq(1..published)
    /\ listen \in Awaits
    /\ published \in Nat
    /\ since \in 0..published
    /\ UNION {decisionRows, tradeRows, unsaved} \subseteq ToSet(handled)
    /\ stage \in {"down", "starting", "up"}
    /\ pc \in [Requests -> Labels]
    /\ loc \in [Requests -> [op : Operations, n : 0..Len(rows)]]
    /\ requests \in 0..MaxRequests
    /\ faults \in 0..MaxFaults

(* Time, price and signal of the latest prediction come from one window of *)
(* stored candles, however many requests computed features since           *)
(* (predict_and_publish after the awaits of compute_features).             *)
PredictionIsOfOneWindow ==
    latestPrediction # None =>
        /\ latestPrediction.timestamp \in 1..Len(rows)
        /\ Computable(latestPrediction.timestamp)
        /\ latestPrediction = Prediction(FeaturesAt(latestPrediction.timestamp))

(* While the connection holds, a prediction that was published is with the *)
(* handler or waits for it: requests are served only after the listener    *)
(* has subscribed, and the listener drops none, whatever its handlers do   *)
(* (lifespan, EventSubscriber.start, _listen).                             *)
NoneLost ==
    subscribed =>
        (since + 1)..published \subseteq ToSet(handled) \cup ToSet(inbox)

(* The channel is in order and at most once; what is lost is lost for good *)
(* (EventPublisher.publish to EventSubscriber._listen).                    *)
Channel == INSTANCE LossyChannel WITH unread <- inbox, received <- handled
ChannelImplemented == Channel!Spec

(* A prediction that waits is handled, unless the connection or the        *)
(* process ends: a handler that raises does not end the listener.          *)
InboxDrains ==
    \A i \in 1..MaxRequests : i \in ToSet(inbox) ~> i \notin ToSet(inbox)

(* A trade on file has its decision on file, unless saving the decision    *)
(* raised: the process may stop between the two rows                       *)
(* (_save_decision, _save_trade_execution).                                *)
TradeRowHasDecision == tradeRows \subseteq decisionRows \cup unsaved

(* The indicators against what they are defined to be, on every window the *)
(* service may read: a moving average is a weighted mean of its values; the *)
(* RSI of falling prices mirrors that of rising ones, except that prices   *)
(* that do not move are at 100 both ways; a candle whose close is in its   *)
(* range needs no clipping of the range position; and the volatility       *)
(* regime is a share of windows that includes the current one, and all of  *)
(* them for prices that do not move (ema, compute_rsi,                     *)
(* compute_range_position, compute_volatility_regime).                     *)
IndicatorsMatchReference ==
    LET w == RecentCandles(Len(rows))
        x == Closes(w)
        still == \A i \in DOMAIN x : x[i] = x[1]
    IN  Computable(Len(rows)) =>
            /\ LastEma(x, EmaPeriod) = WeightedMean(x, EmaPeriod)
            /\ Rsi(x) + Rsi(Mirrored(x)) \in IF still THEN {200} ELSE {99, 100}
            /\ RawRangePosition(Highs(w), Lows(w), x) \in -100..100
            /\ AtMostCurrent(Returns(x)) # {}
            /\ VolatilityRegime(x) \in 0..100
            /\ still => VolatilityRegime(x) = 100
=============================================================================
