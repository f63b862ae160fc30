------------------------ MODULE PredictionFeed_proofs ------------------------
(***************************************************************************)
(* Theorems of PredictionFeed, for any candles and indicator periods, any  *)
(* model, and any number of requests, failures and restarts.               *)
(***************************************************************************)
EXTENDS PredictionFeed, Indicators_proofs, TLAPS

(***************************************************************************)
(* The channel                                                             *)
(***************************************************************************)

(* What a step of the system may do to the channel                         *)
ChannelStep ==
    \/ Publish \/ Listening \/ Receive \/ ConnectionLost
    \/ Resubscribed \/ Disconnected
    \/ \E label \in Awaits \ {"off"} :
          /\ label = "get" \/ listen \notin {"off", "get"}
          /\ ListenAt(label)
    \/ UNCHANGED channelVars

(* Every action of the system is a step of the channel.                    *)
LEMMA StepsOfChannel == [Next]_vars => ChannelStep
<1>1. ASSUME NEW c \in Candles, CandleClosed(c) PROVE ChannelStep
  BY <1>1 DEF CandleClosed, ChannelStep
<1>2. CASE Started
  BY <1>2 DEF Started, ChannelStep
<1>3. CASE Serving
  BY <1>3 DEF Serving, ChannelStep
<1>4. CASE Stopped
  BY <1>4 DEF Stopped, ChannelStep
<1>5. CASE Disconnects
  BY <1>5 DEF Disconnects, ChannelStep
<1>6. ASSUME NEW t \in Requests, PredictionPublished(t) PROVE ChannelStep
  BY <1>6 DEF PredictionPublished, ChannelStep
<1>7. ASSUME NEW t \in Requests,
             \/ \E op \in Operations : Request(t, op)
             \/ QueryRuns(t) \/ TooFewCandles(t) \/ Computed(t)
             \/ FeaturesAnswered(t) \/ Predicted(t)
             \/ PredictionLogged(t) \/ RequestFails(t)
      PROVE  ChannelStep
  <2>1. UNCHANGED channelVars
    BY <1>7 DEF Request, QueryRuns, TooFewCandles, Computed, FeaturesAnswered,
                Predicted, PredictionLogged, RequestFails
  <2> QED
    BY <2>1 DEF ChannelStep
<1>8. CASE Receives
  BY <1>8 DEF Receives, ChannelStep
<1>9. CASE Resubscribes
  BY <1>9 DEF Resubscribes, ChannelStep
<1>10. ASSUME \/ HandlerHolds \/ HandlerFails \/ HandlerTrades \/ DecisionFiled
              \/ DecisionNotFiled \/ TradeFiled \/ TradeNotFiled
              \/ TradeAnnounced
       PROVE  ChannelStep
  <2>1. PICK label \in {"get", "decision.row", "trade.row", "announce"} :
            ListenAt(label) /\ listen \notin {"off", "get"}
    BY <1>10 DEF HandlerHolds, HandlerFails, HandlerTrades, DecisionFiled,
                 DecisionNotFiled, TradeFiled, TradeNotFiled, TradeAnnounced
  <2>2. label \in Awaits \ {"off"}
    BY DEF Awaits
  <2> QED
    BY <2>1, <2>2 DEF ChannelStep
<1>11. CASE UNCHANGED vars
  BY <1>11 DEF vars, ChannelStep
<1> QED
  BY <1>1, <1>2, <1>3, <1>4, <1>5, <1>6, <1>7, <1>8, <1>9, <1>10, <1>11
     DEF Next, Listens

(* The inductive invariant of the channel: its types, and where every      *)
(* message is since the connection was made.                               *)
ChannelInv ==
    /\ subscribed \in BOOLEAN
    /\ published \in Nat
    /\ since \in 0..published
    /\ inbox \in Seq(1..published)
    /\ handled \in Seq(1..published)
    /\ listen \in Awaits
    /\ listen \notin {"off", "get"} => handled # <<>>
    /\ NoneLost

LEMMA ChannelStarts == Init => ChannelInv
<1> SUFFICES ASSUME Init PROVE ChannelInv
  OBVIOUS
<1>1. /\ subscribed = FALSE /\ inbox = <<>> /\ handled = <<>>
      /\ listen = "off" /\ published = 0 /\ since = 0
  BY DEF Init, ChannelInit
<1>2. <<>> \in Seq(1..published)
  OBVIOUS
<1>3. inbox \in Seq(1..published) /\ handled \in Seq(1..published)
  BY <1>1, <1>2, Zenon
<1>4. NoneLost
  BY <1>1 DEF NoneLost
<1>5. published \in Nat /\ since \in 0..published
  BY <1>1
<1> QED
  BY <1>1, <1>3, <1>4, <1>5, Zenon DEF ChannelInv, Awaits

(* What is in a sequence is in the longer one.                             *)
LEMMA AppendedSet ==
    ASSUME NEW S, NEW s \in Seq(S), NEW e
    PROVE  ToSet(Append(s, e)) = ToSet(s) \cup {e}
<1> DEFINE a == Append(s, e)
<1>1. /\ DOMAIN s = 1..Len(s) /\ DOMAIN a = 1..(Len(s) + 1)
      /\ Len(s) \in Nat
      /\ \A i \in 1..Len(s) : a[i] = s[i]
      /\ a[Len(s) + 1] = e
  OBVIOUS
<1> HIDE DEF a
<1>2. ASSUME NEW i \in 1..(Len(s) + 1) PROVE a[i] \in ToSet(s) \cup {e}
  <2>1. CASE i = Len(s) + 1
    BY <1>1, <2>1
  <2>2. CASE i \in 1..Len(s)
    BY <1>1, <2>2 DEF ToSet
  <2> QED
    BY <1>1, <2>1, <2>2
<1>3. ToSet(s) \subseteq ToSet(a)
  <2>1. ASSUME NEW i \in 1..Len(s) PROVE s[i] \in ToSet(a)
    <3>1. i \in 1..(Len(s) + 1)
      BY <1>1
    <3> QED
      BY <1>1, <3>1 DEF ToSet
  <2> QED
    BY <1>1, <2>1 DEF ToSet
<1>4. e \in ToSet(a)
  <2>1. Len(s) + 1 \in 1..(Len(s) + 1)
    BY <1>1
  <2> QED
    BY <1>1, <2>1 DEF ToSet
<1>5. ToSet(a) \subseteq ToSet(s) \cup {e}
  BY <1>1, <1>2 DEF ToSet
<1>6. ToSet(a) = ToSet(s) \cup {e}
  BY <1>3, <1>4, <1>5
<1> QED
  BY <1>6 DEF a

(* A non-empty sequence is its head and its tail.                          *)
LEMMA SplitSet ==
    ASSUME NEW S, NEW s \in Seq(S), s # <<>>
    PROVE  /\ Head(s) \in S
           /\ Tail(s) \in Seq(S)
           /\ ToSet(s) = {Head(s)} \cup ToSet(Tail(s))
<1>1. /\ Head(s) = s[1] /\ Head(s) \in S /\ Tail(s) \in Seq(S)
      /\ Len(s) \in Nat \ {0} /\ DOMAIN s = 1..Len(s)
      /\ Len(Tail(s)) = Len(s) - 1
      /\ DOMAIN Tail(s) = 1..(Len(s) - 1)
      /\ \A i \in 1..(Len(s) - 1) : Tail(s)[i] = s[i + 1]
  OBVIOUS
<1>2. ASSUME NEW e \in ToSet(s) PROVE e = Head(s) \/ e \in ToSet(Tail(s))
  <2>1. PICK i \in 1..Len(s) : e = s[i]
    BY <1>1 DEF ToSet
  <2>2. CASE i = 1
    BY <1>1, <2>1, <2>2
  <2>3. CASE i # 1
    <3>1. i - 1 \in 1..(Len(s) - 1) /\ Tail(s)[i - 1] = e
      BY <1>1, <2>1, <2>3
    <3> QED
      BY <1>1, <3>1 DEF ToSet
  <2> QED
    BY <2>2, <2>3
<1>3. Head(s) \in ToSet(s)
  BY <1>1 DEF ToSet
<1>4. ToSet(Tail(s)) \subseteq ToSet(s)
  <2>1. ASSUME NEW i \in 1..(Len(s) - 1) PROVE Tail(s)[i] \in ToSet(s)
    BY <1>1 DEF ToSet
  <2> QED
    BY <1>1, <2>1 DEF ToSet
<1> QED
  BY <1>1, <1>2, <1>3, <1>4

LEMMA ChannelNext == ChannelInv /\ ChannelStep => ChannelInv'
<1> SUFFICES ASSUME ChannelInv, ChannelStep PROVE ChannelInv'
  OBVIOUS
<1> USE DEF ChannelInv
<1>1. CASE Publish
  <2>1. /\ published' = published + 1 /\ published' \in Nat
        /\ UNCHANGED <<subscribed, listen, handled, since>>
    BY <1>1 DEF Publish
  <2>2. /\ inbox \in Seq(1..published') /\ handled' \in Seq(1..published')
        /\ since' \in 0..published'
    BY <2>1
  <2>3. CASE subscribed
    <3>1. inbox' = Append(inbox, published')
      BY <1>1, <2>3 DEF Publish
    <3>2. inbox' \in Seq(1..published')
      BY <2>1, <2>2, <3>1
    <3>3. ToSet(inbox') = ToSet(inbox) \cup {published'}
      BY <2>2, <3>1, AppendedSet
    <3>4. (since + 1)..published' \subseteq ((since + 1)..published) \cup {published'}
      BY <2>1
    <3>5. NoneLost'
      BY <2>1, <2>3, <3>3, <3>4 DEF NoneLost
    <3> QED
      BY <2>1, <2>2, <3>2, <3>5
  <2>4. CASE ~subscribed
    BY <1>1, <2>1, <2>2, <2>4 DEF Publish, NoneLost
  <2> QED
    BY <2>3, <2>4
<1>2. CASE Listening \/ Resubscribed
  <2>1. /\ UNCHANGED <<inbox, published, handled>> /\ since' = published
        /\ subscribed' = TRUE /\ listen' = "get"
    BY <1>2 DEF Listening, Resubscribed
  <2>2. NoneLost'
    BY <2>1 DEF NoneLost
  <2> QED
    BY <2>1, <2>2 DEF Awaits
<1>3. CASE Receive
  <2>1. /\ inbox # <<>> /\ inbox' = Tail(inbox)
        /\ handled' = Append(handled, Head(inbox))
        /\ listen' = "handle" /\ UNCHANGED <<subscribed, published, since>>
    BY <1>3 DEF Receive
  <2>2. /\ Head(inbox) \in 1..published /\ inbox' \in Seq(1..published)
        /\ ToSet(inbox) = {Head(inbox)} \cup ToSet(inbox')
    BY <2>1, SplitSet
  <2>3. handled' \in Seq(1..published) /\ handled' # <<>>
    BY <2>1, <2>2
  <2>4. ToSet(handled') = ToSet(handled) \cup {Head(inbox)}
    BY <2>1, AppendedSet
  <2>5. NoneLost'
    BY <2>1, <2>2, <2>4 DEF NoneLost
  <2> QED
    BY <2>1, <2>2, <2>3, <2>5 DEF Awaits
<1>4. CASE ConnectionLost \/ Disconnected
  <2>1. /\ subscribed' = FALSE /\ inbox' = <<>> /\ listen' \in {listen, "off"}
        /\ UNCHANGED <<published, handled, since>>
    BY <1>4 DEF ConnectionLost, Disconnected
  <2>2. <<>> \in Seq(1..published)
    OBVIOUS
  <2>3. NoneLost'
    BY <2>1 DEF NoneLost
  <2> QED
    BY <2>1, <2>2, <2>3 DEF Awaits
<1>5. ASSUME NEW label \in Awaits \ {"off"}, ListenAt(label),
             label = "get" \/ listen \notin {"off", "get"}
      PROVE  ChannelInv'
  BY <1>5 DEF ListenAt, NoneLost
<1>6. CASE UNCHANGED channelVars
  BY <1>6 DEF channelVars, NoneLost
<1> QED
  BY <1>1, <1>2, <1>3, <1>4, <1>5, <1>6 DEF ChannelStep

LEMMA ChannelAlways == Spec => []ChannelInv
<1>1. ChannelInv /\ [Next]_vars => ChannelInv'
  BY StepsOfChannel, ChannelNext
<1> QED
  BY ChannelStarts, <1>1, PTL DEF Spec

(* While the connection holds, no prediction is lost, whatever the         *)
(* handlers, the requests and the failures do.                             *)
THEOREM NoneLostAlways == Spec => []NoneLost
<1>1. ChannelInv => NoneLost
  BY DEF ChannelInv
<1> QED
  BY ChannelAlways, <1>1, PTL

(* The publisher, Redis and the listener implement the channel that is in  *)
(* order and delivers at most once.                                        *)
THEOREM ChannelIsImplemented == Spec => ChannelImplemented
<1>1. Init => Channel!Init
  BY DEF Init, ChannelInit, Channel!Init
<1>2. ChannelStep => [Channel!Next]_(Channel!channelVars)
  BY DEF ChannelStep, Publish, Listening, Receive, ConnectionLost,
         Resubscribed, Disconnected, ListenAt, channelVars, Channel!Next,
         Channel!Publish, Channel!Receive, Channel!Lose, Channel!channelVars
<1>3. [Next]_vars => [Channel!Next]_(Channel!channelVars)
  BY StepsOfChannel, <1>2
<1> QED
  BY <1>1, <1>3, PTL DEF Spec, ChannelImplemented, Channel!Spec

(***************************************************************************)
(* The rows of decisions and trades                                        *)
(***************************************************************************)

(* Between the two rows, the decision in hand is filed or known not to be. *)
AuditInv ==
    /\ TradeRowHasDecision
    /\ listen = "trade.row" => InHand \in decisionRows \cup unsaved
    /\ UNION {decisionRows, tradeRows, unsaved} \subseteq ToSet(handled)

LEMMA AuditStarts == Init => AuditInv
BY DEF Init, ChannelInit, AuditInit, AuditInv, TradeRowHasDecision

(* What is in hand is among what was handled.                              *)
LEMMA InHandHandled ==
    ASSUME ChannelInv, listen \notin {"off", "get"}
    PROVE  InHand \in ToSet(handled)
<1>1. handled \in Seq(1..published) /\ handled # <<>>
  BY DEF ChannelInv
<1>2. DOMAIN handled = 1..Len(handled) /\ Len(handled) \in 1..Len(handled)
  BY <1>1
<1> QED
  BY <1>2 DEF InHand, ToSet

(* An action that files nothing, and does not pass on to the trade's row   *)
LEMMA NothingFiled ==
    ASSUME ChannelInv, AuditInv, ChannelStep,
           UNCHANGED auditVars,
           listen' = "trade.row" => UNCHANGED <<listen, handled>>
    PROVE  AuditInv'
<1>1. ToSet(handled) \subseteq ToSet(handled')
  <2>1. CASE Receive
    <3>1. handled \in Seq(1..published) /\ handled' = Append(handled, Head(inbox))
      BY <2>1 DEF Receive, ChannelInv
    <3> QED
      BY <3>1, AppendedSet
  <2>2. CASE ~Receive
    <3>1. handled' = handled
      BY <2>2 DEF ChannelStep, Publish, Listening, ConnectionLost, Resubscribed,
                  Disconnected, ListenAt, channelVars
    <3> QED
      BY <3>1
  <2> QED
    BY <2>1, <2>2
<1> QED
  BY <1>1 DEF AuditInv, auditVars, TradeRowHasDecision, InHand

LEMMA AuditNext == ChannelInv /\ AuditInv /\ [Next]_vars => AuditInv'
<1> SUFFICES ASSUME ChannelInv, AuditInv, [Next]_vars PROVE AuditInv'
  OBVIOUS
<1>1. ChannelStep
  BY StepsOfChannel
<1>2. CASE UNCHANGED auditVars /\ (listen' = "trade.row" => UNCHANGED <<listen, handled>>)
  BY <1>1, <1>2, NothingFiled
<1>3. CASE DecisionFiled \/ DecisionNotFiled
  <2>1. /\ listen = "decision.row" /\ UNCHANGED <<handled, tradeRows>>
        /\ InHand \in decisionRows' \cup unsaved'
        /\ decisionRows \subseteq decisionRows' /\ unsaved \subseteq unsaved'
        /\ decisionRows' \cup unsaved' \subseteq decisionRows \cup unsaved \cup {InHand}
    BY <1>3 DEF DecisionFiled, DecisionNotFiled, ListenAt, SaveDecision,
                SaveDecisionRaises
  <2>2. InHand \in ToSet(handled)
    BY <2>1, InHandHandled
  <2> QED
    BY <2>1, <2>2 DEF AuditInv, TradeRowHasDecision, InHand
<1>4. CASE TradeFiled \/ TradeNotFiled
  <2>1. /\ listen = "trade.row" /\ listen' = "announce"
        /\ UNCHANGED <<handled, decisionRows, unsaved>>
        /\ tradeRows' \subseteq tradeRows \cup {InHand}
    BY <1>4 DEF TradeFiled, TradeNotFiled, ListenAt, SaveTrade, SaveTradeRaises
  <2>2. InHand \in ToSet(handled)
    BY <2>1, InHandHandled
  <2> QED
    BY <2>1, <2>2 DEF AuditInv, TradeRowHasDecision
<1>5. ASSUME NEW t \in Requests,
             \/ \E op \in Operations : Request(t, op)
             \/ QueryRuns(t) \/ TooFewCandles(t) \/ Computed(t)
             \/ FeaturesAnswered(t) \/ Predicted(t) \/ PredictionPublished(t)
             \/ PredictionLogged(t) \/ RequestFails(t)
      PROVE  UNCHANGED <<auditVars, listen, handled>>
  BY <1>5 DEF Request, QueryRuns, TooFewCandles, Computed, FeaturesAnswered,
              Predicted, PredictionPublished, PredictionLogged, RequestFails,
              Waits, Publish, channelVars
<1>6. ASSUME \/ \E c \in Candles : CandleClosed(c)
             \/ Started \/ Serving \/ Stopped \/ Disconnects
             \/ UNCHANGED vars
      PROVE  UNCHANGED auditVars /\ (listen' = "trade.row" => UNCHANGED <<listen, handled>>)
  BY <1>6 DEF CandleClosed, Started, Serving, Stopped, Disconnects, vars,
              channelVars, Listening, Disconnected, ConnectionLost
<1>7. ASSUME \/ Receives \/ Resubscribes \/ HandlerHolds \/ HandlerFails
             \/ HandlerTrades \/ TradeAnnounced
      PROVE  UNCHANGED auditVars /\ (listen' = "trade.row" => UNCHANGED <<listen, handled>>)
  BY <1>7 DEF Receives, Resubscribes, HandlerHolds, HandlerFails, HandlerTrades,
              TradeAnnounced, Receive, Resubscribed, ListenAt
<1> QED
  BY <1>2, <1>3, <1>4, <1>5, <1>6, <1>7 DEF Next, Listens

LEMMA AuditAlways == Spec => []AuditInv
<1> QED
  BY ChannelAlways, AuditStarts, AuditNext, PTL DEF Spec

(* No trade is on file without its decision, unless saving that raised,    *)
(* wherever the process stops.                                             *)
THEOREM TradesHaveDecisions == Spec => []TradeRowHasDecision
<1>1. AuditInv => TradeRowHasDecision
  BY DEF AuditInv
<1> QED
  BY AuditAlways, <1>1, PTL

(***************************************************************************)
(* Features and predictions                                                *)
(***************************************************************************)

(* A window that is long enough is not empty.                              *)
LEMMA ComputableIsPositive ==
    ASSUME NEW n \in Nat, Computable(n)
    PROVE  n >= 1
<1>1. /\ MacdSlow \in Nat /\ MacdSignal \in Nat /\ RegimeLookback \in Nat
      /\ MacdSlow >= 1 /\ Limit \in Nat
  BY IndicatorAssumption, EngineAssumption DEF Periods
<1>2. MinCandles >= 1 /\ MinCandles \in Int
  BY <1>1, MaxOfTwo DEF MinCandles
<1>3. Min({n, Limit}) \in Int /\ Min({n, Limit}) <= n
  BY <1>1, MinOfTwo
<1> QED
  BY <1>2, <1>3 DEF Computable

(* One more candle leaves the earlier windows as they are.                 *)
LEMMA WindowStays ==
    ASSUME rows \in Seq(Candles), NEW c \in Candles, rows' = Append(rows, c),
           NEW n \in 1..Len(rows)
    PROVE  FeaturesAt(n)' = FeaturesAt(n)
<1> DEFINE first == Max({1, n - Limit + 1})
<1>1. first \in Nat \ {0}
  <2>1. Limit \in Nat
    BY EngineAssumption
  <2>2. 1 \in Int /\ n - Limit + 1 \in Int
    BY <2>1
  <2>3. /\ Max({1, n - Limit + 1}) \in {1, n - Limit + 1}
        /\ Max({1, n - Limit + 1}) >= 1
    BY <2>2, MaxOfTwo
  <2> QED
    BY <2>2, <2>3
<1> HIDE DEF first
<1>2. SubSeq(Append(rows, c), first, n) = SubSeq(rows, first, n)
  BY <1>1
<1>3. RecentCandles(n)' = RecentCandles(n)
  BY <1>2 DEF RecentCandles, first
<1> QED
  BY <1>3 DEF FeaturesAt

(* What is kept of the features and the prediction is of stored windows,   *)
(* and a request that has features has them of one.                        *)
WindowInv ==
    /\ rows \in Seq(Candles)
    /\ pc \in [Requests -> Labels]
    /\ loc \in [Requests -> [op : Operations, n : 0..Len(rows)]]
    /\ \A t \in Requests : pc[t] = "features" => Computable(loc[t].n)
    /\ latestFeatures = None \/ OfStoredWindow(latestFeatures)
    /\ PredictionIsOfOneWindow

LEMMA WindowStarts == Init => WindowInv
<1> SUFFICES ASSUME Init PROVE WindowInv
  OBVIOUS
<1>1. rows \in Seq(Candles)
  BY FeedAssumption DEF Init
<1>2. /\ latestFeatures = None /\ latestPrediction = None
      /\ pc \in [Requests -> Labels]
      /\ \A t \in Requests : pc[t] # "features"
  BY DEF Init, EngineInit, Idle, Labels
<1>3. loc \in [Requests -> [op : Operations, n : 0..Len(rows)]]
  BY <1>1 DEF Init, NoLocals, Operations
<1> QED
  BY <1>1, <1>2, <1>3 DEF WindowInv, PredictionIsOfOneWindow

(* The windows of an action that stores no candle                          *)
LEMMA SameWindows ==
    ASSUME UNCHANGED rows, NEW n
    PROVE  Computable(n)' = Computable(n) /\ FeaturesAt(n)' = FeaturesAt(n)
BY DEF Computable, FeaturesAt, RecentCandles

LEMMA WindowNext == WindowInv /\ [Next]_vars => WindowInv'
<1> SUFFICES ASSUME WindowInv, [Next]_vars PROVE WindowInv'
  OBVIOUS
<1> USE DEF WindowInv
<1>1. ASSUME NEW c \in Candles, CandleClosed(c) PROVE WindowInv'
  <2>1. /\ rows' = Append(rows, c)
        /\ UNCHANGED <<pc, loc, latestFeatures, latestPrediction>>
    BY <1>1 DEF CandleClosed, processVars
  <2>2. rows' \in Seq(Candles) /\ Len(rows) \in Nat /\ Len(rows') = Len(rows) + 1
    BY <2>1
  <2>3. \A n \in 1..Len(rows) : n \in 1..Len(rows') /\ FeaturesAt(n)' = FeaturesAt(n)
    BY <2>1, <2>2, WindowStays
  <2>4. \A n : Computable(n)' = Computable(n)
    BY DEF Computable
  <2>5. loc' \in [Requests -> [op : Operations, n : 0..Len(rows')]]
    BY <2>1, <2>2
  <2>6. latestFeatures' = None \/ OfStoredWindow(latestFeatures)'
    BY <2>1, <2>2, <2>3, <2>4 DEF OfStoredWindow
  <2>7. PredictionIsOfOneWindow'
    BY <2>1, <2>2, <2>3, <2>4 DEF PredictionIsOfOneWindow, Prediction
  <2> QED
    BY <2>1, <2>2, <2>4, <2>5, <2>6, <2>7
<1>2. ASSUME UNCHANGED <<rows, latestFeatures, latestPrediction>>,
             pc' \in [Requests -> Labels],
             loc' \in [Requests -> [op : Operations, n : 0..Len(rows)]],
             \A t \in Requests : pc'[t] = "features" => Computable(loc'[t].n)
      PROVE  WindowInv'
  <2>1. \A n : Computable(n)' = Computable(n) /\ FeaturesAt(n)' = FeaturesAt(n)
    BY <1>2, SameWindows
  <2>2. latestFeatures' = None \/ OfStoredWindow(latestFeatures)'
    BY <1>2, <2>1 DEF OfStoredWindow
  <2>3. PredictionIsOfOneWindow'
    BY <1>2, <2>1 DEF PredictionIsOfOneWindow, Prediction
  <2> QED
    BY <1>2, <2>1, <2>2, <2>3
<1>3. ASSUME \/ Serving \/ Disconnects \/ Listens \/ HandlerFails \/ UNCHANGED vars
      PROVE  WindowInv'
  <2>1. UNCHANGED <<rows, latestFeatures, latestPrediction, pc, loc>>
    BY <1>3 DEF Serving, Disconnects, Listens, Receives, Resubscribes,
                HandlerHolds, HandlerTrades, DecisionFiled, DecisionNotFiled,
                TradeFiled, TradeNotFiled, TradeAnnounced, HandlerFails, vars,
                feedVars, processVars
  <2> QED
    BY <2>1, <1>2
<1>4. CASE Started
  BY <1>2, <1>4 DEF Started
<1>5. CASE Stopped
  <2>1. /\ UNCHANGED rows /\ latestFeatures' = None /\ latestPrediction' = None
        /\ pc' = Idle /\ loc' = [t \in Requests |-> NoLocals]
    BY <1>5 DEF Stopped
  <2>2. pc' \in [Requests -> Labels] /\ \A t \in Requests : pc'[t] # "features"
    BY <2>1 DEF Idle, Labels
  <2>3. loc' \in [Requests -> [op : Operations, n : 0..Len(rows')]]
    BY <2>1 DEF NoLocals, Operations
  <2> QED
    BY <2>1, <2>2, <2>3 DEF PredictionIsOfOneWindow
<1>6. ASSUME NEW t \in Requests, NEW op \in Operations, Request(t, op)
      PROVE  WindowInv'
  <2>1. /\ UNCHANGED <<rows, latestFeatures, latestPrediction>>
        /\ pc' = [pc EXCEPT ![t] = "candles"]
        /\ loc' = [loc EXCEPT ![t] = [op |-> op, n |-> 0]]
    BY <1>6 DEF Request, Suspend, feedVars
  <2>2. pc' \in [Requests -> Labels]
    BY <2>1 DEF Labels
  <2>3. loc' \in [Requests -> [op : Operations, n : 0..Len(rows)]]
    BY <2>1
  <2> QED
    BY <2>1, <2>2, <2>3, <1>2
<1>7. ASSUME NEW t \in Requests, QueryRuns(t) PROVE WindowInv'
  <2>1. /\ UNCHANGED <<rows, latestFeatures, latestPrediction>>
        /\ pc' = [pc EXCEPT ![t] = "rows"]
        /\ loc' = [loc EXCEPT ![t].n = Len(rows)]
    BY <1>7 DEF QueryRuns, Suspend, feedVars
  <2>2. pc' \in [Requests -> Labels]
    BY <2>1 DEF Labels
  <2>3. loc' \in [Requests -> [op : Operations, n : 0..Len(rows)]]
    <3>1. Len(rows) \in 0..Len(rows)
      OBVIOUS
    <3>2. loc[t] \in [op : Operations, n : 0..Len(rows)]
      OBVIOUS
    <3>3. [loc[t] EXCEPT !.n = Len(rows)] \in [op : Operations, n : 0..Len(rows)]
      BY <3>1, <3>2
    <3> QED
      BY <2>1, <3>3
  <2> QED
    BY <2>1, <2>2, <2>3, <1>2
<1>8. ASSUME NEW t \in Requests,
             \/ TooFewCandles(t) \/ FeaturesAnswered(t)
             \/ PredictionPublished(t) \/ PredictionLogged(t) \/ RequestFails(t)
      PROVE  WindowInv'
  <2>1. /\ UNCHANGED <<rows, latestFeatures, latestPrediction, loc>>
        /\ \E label \in {"idle", "stream"} : pc' = [pc EXCEPT ![t] = label]
    BY <1>8 DEF TooFewCandles, FeaturesAnswered, PredictionPublished,
                PredictionLogged, RequestFails, Suspend, Waits, feedVars
  <2>2. /\ pc' \in [Requests -> Labels]
        /\ \A u \in Requests : pc'[u] = "features" => pc[u] = "features"
    BY <2>1 DEF Labels
  <2> QED
    BY <2>1, <2>2, <1>2
<1>9. ASSUME NEW t \in Requests, Computed(t) PROVE WindowInv'
  <2>1. /\ UNCHANGED <<rows, loc, latestPrediction>>
        /\ Computable(loc[t].n)
        /\ latestFeatures' = FeaturesAt(loc[t].n)
        /\ pc' = [pc EXCEPT ![t] = "features"]
    BY <1>9 DEF Computed, Waits, KeepFeatures, Suspend
  <2>2. pc' \in [Requests -> Labels]
    BY <2>1 DEF Labels
  <2>3. \A n : Computable(n)' = Computable(n) /\ FeaturesAt(n)' = FeaturesAt(n)
    BY <2>1, SameWindows
  <2>4. loc[t].n \in 1..Len(rows)
    <3>1. loc[t].n \in Nat /\ loc[t].n <= Len(rows)
      BY <2>1
    <3> QED
      BY <2>1, <3>1, ComputableIsPositive
  <2>5. OfStoredWindow(latestFeatures)'
    <3>1. FeaturesAt(loc[t].n).timestamp = loc[t].n
      BY DEF FeaturesAt
    <3> QED
      BY <2>1, <2>3, <2>4, <3>1 DEF OfStoredWindow
  <2>6. \A u \in Requests : pc'[u] = "features" => Computable(loc[u].n)
    BY <2>1
  <2>7. PredictionIsOfOneWindow'
    BY <2>1, <2>3 DEF PredictionIsOfOneWindow, Prediction
  <2> QED
    BY <2>1, <2>2, <2>3, <2>5, <2>6, <2>7
<1>10. ASSUME NEW t \in Requests, Predicted(t) PROVE WindowInv'
  <2>1. /\ UNCHANGED <<rows, loc, latestFeatures>>
        /\ pc[t] = "features"
        /\ latestPrediction' = Prediction(FeaturesAt(loc[t].n))
        /\ pc' = [pc EXCEPT ![t] = "prediction"]
    BY <1>10 DEF Predicted, Waits, Predict, Suspend
  <2>2. /\ pc' \in [Requests -> Labels]
        /\ \A u \in Requests : pc'[u] = "features" => pc[u] = "features"
    BY <2>1 DEF Labels
  <2>3. \A n : Computable(n)' = Computable(n) /\ FeaturesAt(n)' = FeaturesAt(n)
    BY <2>1, SameWindows
  <2>4. PICK n \in 1..Len(rows) : n = loc[t].n /\ Computable(n)
    <3>1. loc[t].n \in Nat /\ loc[t].n <= Len(rows) /\ Computable(loc[t].n)
      BY <2>1
    <3> QED
      BY <3>1, ComputableIsPositive
  <2>5. Prediction(FeaturesAt(n)).timestamp = n
    BY DEF FeaturesAt, Prediction
  <2>6. PredictionIsOfOneWindow'
    <3>1. latestPrediction' = Prediction(FeaturesAt(n))
      BY <2>1, <2>4
    <3>2. latestPrediction'.timestamp = n
      BY <2>5, <3>1
    <3>3. Computable(n)' /\ n \in 1..Len(rows')
      BY <2>1, <2>3, <2>4
    <3>4. Prediction(FeaturesAt(n))' = Prediction(FeaturesAt(n))
      BY <2>3 DEF Prediction
    <3> QED
      BY <3>1, <3>2, <3>3, <3>4 DEF PredictionIsOfOneWindow
  <2>7. latestFeatures' = None \/ OfStoredWindow(latestFeatures)'
    BY <2>1, <2>3 DEF OfStoredWindow
  <2> QED
    BY <2>1, <2>2, <2>3, <2>6, <2>7
<1> QED
  BY <1>1, <1>3, <1>4, <1>5, <1>6, <1>7, <1>8, <1>9, <1>10 DEF Next

LEMMA WindowAlways == Spec => []WindowInv
BY WindowStarts, WindowNext, PTL DEF Spec

(* A prediction is of one window of stored candles, whatever other         *)
(* requests and the market do while it is made.                            *)
THEOREM PredictionsAreOfOneWindow == Spec => []PredictionIsOfOneWindow
<1>1. WindowInv => PredictionIsOfOneWindow
  BY DEF WindowInv
<1> QED
  BY WindowAlways, <1>1, PTL

(***************************************************************************)
(* Types                                                                   *)
(***************************************************************************)

(* What only the process changes                                           *)
ProcessInv ==
    /\ modelLoaded \in BOOLEAN
    /\ stage \in {"down", "starting", "up"}
    /\ requests \in 0..MaxRequests
    /\ faults \in 0..MaxFaults

(* What one step may do to it                                              *)
ProcessStep ==
    /\ modelLoaded' \in {modelLoaded, TRUE, FALSE}
    /\ UNCHANGED stage \/ stage' \in {"down", "starting", "up"}
    /\ UNCHANGED requests \/ (requests < MaxRequests /\ requests' = requests + 1)
    /\ UNCHANGED faults \/ (faults < MaxFaults /\ faults' = faults + 1)

LEMMA ProcessNext == ProcessInv /\ [Next]_vars => ProcessInv'
<1> SUFFICES ASSUME ProcessInv, [Next]_vars PROVE ProcessInv'
  OBVIOUS
<1>1. MaxRequests \in Nat /\ MaxFaults \in Nat
  BY FeedAssumption
<1>2. ProcessStep
  <2>1. ASSUME NEW c \in Candles, CandleClosed(c) PROVE ProcessStep
    BY <2>1 DEF CandleClosed, processVars, ProcessStep
  <2>2. ASSUME Started \/ Serving \/ Stopped \/ Disconnects \/ UNCHANGED vars
        PROVE  ProcessStep
    BY <2>2 DEF Started, Serving, Stopped, Disconnects, LoadModel, feedVars,
                processVars, vars, ProcessStep
  <2>3. ASSUME NEW t \in Requests,
               \/ \E op \in Operations : Request(t, op)
               \/ QueryRuns(t) \/ TooFewCandles(t) \/ Computed(t)
               \/ FeaturesAnswered(t) \/ Predicted(t) \/ PredictionPublished(t)
               \/ PredictionLogged(t) \/ RequestFails(t)
        PROVE  ProcessStep
    BY <2>3 DEF Request, QueryRuns, TooFewCandles, Computed, FeaturesAnswered,
                Predicted, PredictionPublished, PredictionLogged, RequestFails,
                Waits, feedVars, ProcessStep
  <2>4. CASE Listens \/ HandlerFails
    BY <2>4 DEF Listens, Receives, Resubscribes, HandlerHolds, HandlerTrades,
                DecisionFiled, DecisionNotFiled, TradeFiled, TradeNotFiled,
                TradeAnnounced, HandlerFails, feedVars, processVars,
                ProcessStep
  <2> QED
    BY <2>1, <2>2, <2>3, <2>4 DEF Next
<1>3. requests' \in 0..MaxRequests /\ faults' \in 0..MaxFaults
  BY <1>1, <1>2 DEF ProcessInv, ProcessStep
<1>4. modelLoaded' \in BOOLEAN /\ stage' \in {"down", "starting", "up"}
  BY <1>2, Zenon DEF ProcessInv, ProcessStep
<1> QED
  BY <1>3, <1>4 DEF ProcessInv

(* All variables keep their types; above all, the features kept are of a   *)
(* window of stored candles and carry the close time of its last one.      *)
THEOREM TypesHold == Spec => []TypeOK
<1>1. Init => ProcessInv
  <2>1. MaxRequests \in Nat /\ MaxFaults \in Nat
    BY FeedAssumption
  <2>2. ASSUME Init PROVE requests \in 0..MaxRequests /\ faults \in 0..MaxFaults
    BY <2>1, <2>2 DEF Init
  <2>3. ASSUME Init
        PROVE  modelLoaded \in BOOLEAN /\ stage \in {"down", "starting", "up"}
    BY <2>3, Zenon DEF Init
  <2> QED
    BY <2>2, <2>3 DEF ProcessInv
<1>2. Spec => []ProcessInv
  BY <1>1, ProcessNext, PTL DEF Spec
<1>3. ChannelInv /\ AuditInv /\ WindowInv /\ ProcessInv => TypeOK
  <2> SUFFICES ASSUME ChannelInv, AuditInv, WindowInv, ProcessInv PROVE TypeOK
    OBVIOUS
  <2>1. {inbox, handled} \subseteq Seq(1..published)
    BY DEF ChannelInv
  <2>2. /\ rows \in Seq(Candles)
        /\ latestFeatures = None \/ OfStoredWindow(latestFeatures)
        /\ pc \in [Requests -> Labels]
        /\ loc \in [Requests -> [op : Operations, n : 0..Len(rows)]]
    BY DEF WindowInv
  <2>3. /\ subscribed \in BOOLEAN /\ listen \in Awaits
        /\ published \in Nat /\ since \in 0..published
    BY DEF ChannelInv
  <2>4. UNION {decisionRows, tradeRows, unsaved} \subseteq ToSet(handled)
    BY DEF AuditInv
  <2>5. /\ modelLoaded \in BOOLEAN /\ stage \in {"down", "starting", "up"}
        /\ requests \in 0..MaxRequests /\ faults \in 0..MaxFaults
    BY DEF ProcessInv
  <2> QED
    BY <2>1, <2>2, <2>3, <2>4, <2>5 DEF TypeOK
<1> QED
  BY <1>2, <1>3, ChannelAlways, AuditAlways, WindowAlways, PTL

(***************************************************************************)
(* The indicators of the windows that are read                             *)
(***************************************************************************)

(* A window that is long enough, as the sequences the indicators take      *)
LEMMA ComputableWindow ==
    ASSUME rows \in Seq(Candles), NEW n \in 0..Len(rows), Computable(n)
    PROVE  LET w == RecentCandles(n)
               last == Len(Closes(w))
           IN  /\ Integral(Closes(w)) /\ Integral(Highs(w)) /\ Integral(Lows(w))
               /\ last > RsiPeriod /\ last >= RegimeLookback /\ last > 0
               /\ Len(Highs(w)) = last /\ Len(Lows(w)) = last
               /\ \A i \in 1..last : /\ Closes(w)[i] > 0
                                     /\ Lows(w)[i] <= Closes(w)[i]
                                     /\ Closes(w)[i] <= Highs(w)[i]
<1> DEFINE w == RecentCandles(n)
           first == Max({1, n - Limit + 1})
           m == n - first + 1
<1>1. /\ Limit \in Nat \ {0} /\ Len(rows) \in Nat /\ n \in Nat
      /\ \A i \in 1..Len(rows) : rows[i] \in Candles
  BY EngineAssumption
<1>2. n >= 1
  BY <1>1, ComputableIsPositive
<1>3. first \in 1..n /\ (first = 1 \/ first = n - Limit + 1) /\ first >= n - Limit + 1
  <2>1. 1 \in Int /\ n - Limit + 1 \in Int
    BY <1>1
  <2>2. first \in {1, n - Limit + 1} /\ first >= 1 /\ first >= n - Limit + 1
    BY <2>1, MaxOfTwo
  <2> HIDE DEF first
  <2> QED
    BY <1>1, <1>2, <2>2
<1> HIDE DEF first
<1>4. m = Min({n, Limit})
  <2>1. n \in Int /\ Limit \in Int
    BY <1>1
  <2>2. /\ Min({n, Limit}) \in {n, Limit}
        /\ Min({n, Limit}) <= n /\ Min({n, Limit}) <= Limit
    BY <2>1, MinOfTwo
  <2> QED
    BY <1>1, <1>3, <2>2
<1>5. m \in Nat /\ m >= MinCandles /\ m > 0
  BY <1>1, <1>3, <1>4 DEF Computable
<1>6. MinCandles \in Int /\ MinCandles >= RegimeLookback /\ RsiPeriod < MinCandles
  <2>1. MacdSlow + MacdSignal \in Int /\ RegimeLookback \in Int
    <3>1. MacdSlow \in Int /\ MacdSignal \in Int /\ RegimeLookback \in Int
      BY IndicatorAssumption DEF Periods
    <3> QED
      BY <3>1
  <2>2. MinCandles \in {MacdSlow + MacdSignal, RegimeLookback}
            /\ MinCandles >= RegimeLookback
    BY <2>1, MaxOfTwo DEF MinCandles
  <2> QED
    BY <2>1, <2>2, PeriodsAssumption
<1>7. RsiPeriod \in Int /\ RegimeLookback \in Int
  BY IndicatorAssumption DEF Periods
<1>8. w = [i \in 1..m |-> rows[first + i - 1]]
  <2>1. w = SubSeq(rows, first, n)
    BY DEF RecentCandles, first
  <2>2. first \in Nat
    BY <1>3
  <2> QED
    BY <1>1, <2>1, <2>2
<1> HIDE DEF w
<1>9. ASSUME NEW i \in 1..m
      PROVE  /\ w[i] \in Candles
             /\ w[i].close \in Int /\ w[i].high \in Int /\ w[i].low \in Int
             /\ w[i].close > 0
             /\ w[i].low <= w[i].close /\ w[i].close <= w[i].high
  <2>1. first + i - 1 \in 1..Len(rows)
    BY <1>1, <1>3
  <2>2. w[i] \in Candles
    BY <1>1, <1>8, <2>1
  <2> QED
    BY <2>2, EngineAssumption
<1>10. DOMAIN w = 1..m
  BY <1>8
<1> HIDE DEF m
<1>11. /\ Closes(w) \in [1..m -> Int] /\ Highs(w) \in [1..m -> Int]
       /\ Lows(w) \in [1..m -> Int]
       /\ \A i \in 1..m : /\ Closes(w)[i] = w[i].close
                          /\ Highs(w)[i] = w[i].high
                          /\ Lows(w)[i] = w[i].low
  BY <1>9, <1>10 DEF Closes, Highs, Lows
<1>12. /\ Integral(Closes(w)) /\ Len(Closes(w)) = m
       /\ Integral(Highs(w)) /\ Len(Highs(w)) = m
       /\ Integral(Lows(w)) /\ Len(Lows(w)) = m
  BY <1>5, <1>11, FunctionIsSequence DEF Integral
<1>13. m > RsiPeriod /\ m >= RegimeLookback
  BY <1>5, <1>6, <1>7
<1> QED
  BY <1>5, <1>9, <1>11, <1>12, <1>13 DEF w

(* On every window the service may read, the indicators are what they are  *)
(* defined to be: the four theorems of Indicators_proofs, for the candles  *)
(* that are stored.                                                        *)
THEOREM IndicatorsAlwaysMatch == Spec => []IndicatorsMatchReference
<1>1. WindowInv => IndicatorsMatchReference
  <2> SUFFICES ASSUME rows \in Seq(Candles), Computable(Len(rows))
               PROVE  LET w == RecentCandles(Len(rows))
                          x == Closes(w)
                          still == \A i \in DOMAIN x : x[i] = x[1]
                      IN  /\ LastEma(x, EmaPeriod) = WeightedMean(x, EmaPeriod)
                          /\ Rsi(x) + Rsi(Mirrored(x))
                                \in IF still THEN {200} ELSE {99, 100}
                          /\ RawRangePosition(Highs(w), Lows(w), x) \in -100..100
                          /\ AtMostCurrent(Returns(x)) # {}
                          /\ VolatilityRegime(x) \in 0..100
                          /\ still => VolatilityRegime(x) = 100
    BY DEF WindowInv, IndicatorsMatchReference
  <2> DEFINE w == RecentCandles(Len(rows))
             x == Closes(w)
  <2>1. /\ Integral(x) /\ Integral(Highs(w)) /\ Integral(Lows(w))
        /\ Len(x) > RsiPeriod /\ Len(x) >= RegimeLookback /\ Len(x) > 0
        /\ Len(Highs(w)) = Len(x) /\ Len(Lows(w)) = Len(x)
        /\ \A i \in 1..Len(x) : /\ x[i] > 0
                                /\ Lows(w)[i] <= x[i] /\ x[i] <= Highs(w)[i]
    <3>1. Len(rows) \in 0..Len(rows)
      OBVIOUS
    <3> QED
      BY <3>1, ComputableWindow
  <2> HIDE DEF w, x
  <2>2. Len(x) \in 1..Len(x)
    BY <2>1 DEF Integral
  <2>3. EmaPeriod \in Nat \ {0}
    BY IndicatorAssumption DEF Periods
  <2>4. LastEma(x, EmaPeriod) = WeightedMean(x, EmaPeriod)
    BY <2>1, <2>3, EmaIsWeightedMean
  <2>5. Rsi(x) + Rsi(Mirrored(x))
            \in IF \A i \in DOMAIN x : x[i] = x[1] THEN {200} ELSE {99, 100}
    BY <2>1, RsiMirrors
  <2>6. RawRangePosition(Highs(w), Lows(w), x) \in -100..100
    BY <2>1, <2>2, RangePositionNeedsNoClipping
  <2>7. /\ AtMostCurrent(Returns(x)) # {}
        /\ VolatilityRegime(x) \in 0..100
        /\ (\A i \in DOMAIN x : x[i] = x[1]) => VolatilityRegime(x) = 100
    BY <2>1, RegimeIsShare
  <2> QED
    BY <2>4, <2>5, <2>6, <2>7 DEF w, x
<1> QED
  BY WindowAlways, <1>1, PTL

(* The features that are kept, and so those shown and predicted from, are  *)
(* in the ranges that FeatureVector documents (rsi, bollinger_position,    *)
(* adx, volatility_regime, range_position); the clipping of the ADX and of *)
(* the range position never changed one.                                   *)
KeptFeaturesInRange ==
    latestFeatures # None =>
        LET f == latestFeatures.values
            w == RecentCandles(latestFeatures.timestamp)
        IN  /\ f.rsi \in 0..100
            /\ f.adx \in 0..100
            /\ f.bollinger_position \in -1..1
            /\ f.volatility_regime \in 0..100
            /\ f.range_position \in -100..100
            /\ f.range_position = RawRangePosition(Highs(w), Lows(w), Closes(w))

THEOREM FeaturesInRange == Spec => []KeptFeaturesInRange
<1>1. WindowInv => KeptFeaturesInRange
  <2> SUFFICES ASSUME WindowInv, latestFeatures # None
               PROVE  KeptFeaturesInRange
    BY DEF KeptFeaturesInRange
  <2>1. PICK n \in 0..Len(rows) : Computable(n) /\ latestFeatures = FeaturesAt(n)
    BY DEF WindowInv, OfStoredWindow
  <2>2. rows \in Seq(Candles)
    BY DEF WindowInv
  <2> DEFINE w == RecentCandles(n)
             x == Closes(w)
             h == Highs(w)
             l == Lows(w)
             f == AllFeatures(w)
  <2>3. /\ Integral(x) /\ Integral(h) /\ Integral(l)
        /\ Len(x) >= RegimeLookback /\ Len(h) = Len(x) /\ Len(l) = Len(x)
        /\ \A i \in 1..Len(x) : x[i] > 0 /\ l[i] <= x[i] /\ x[i] <= h[i]
    BY <2>1, <2>2, ComputableWindow
  <2>4. latestFeatures.timestamp = n /\ latestFeatures.values = f
    BY <2>1 DEF FeaturesAt
  <2>5. /\ f.rsi = Rsi(x) /\ f.adx = Adx(h, l, x)
        /\ f.bollinger_position = BollingerPosition(x)
        /\ f.volatility_regime = VolatilityRegime(x)
        /\ f.range_position = RangePosition(h, l, x)
    BY DEF AllFeatures
  <2> HIDE DEF x, h, l
  <2>6. /\ Rsi(x) \in 0..100 /\ Adx(h, l, x) \in 0..100
        /\ BollingerPosition(x) \in -1..1 /\ VolatilityRegime(x) \in 0..100
        /\ RangePosition(h, l, x) \in -100..100
        /\ RangePosition(h, l, x) = RawRangePosition(h, l, x)
    BY <2>3, FeaturesWithinRange
  <2> HIDE DEF f
  <2> QED
    BY <2>4, <2>5, <2>6 DEF KeptFeaturesInRange, x, h, l
<1> QED
  BY WindowAlways, <1>1, PTL
=============================================================================
