# Verification of the VAPM agent

TLA+ models of the VAPM trading agent (`backend/`) and of its on-chain program
(`programs/vapm_decisions`), TLC instances that check them, and TLAPS proofs of
what matters most about them. Paths below are those of the repository.

## The system

| component | state | operations | talks to |
|---|---|---|---|
| market data (`backend/services/market_data.py`) | latest price, the candle being accumulated | start, poll loop, tick | price API, PostgreSQL, event bus |
| features and prediction (`feature_engine.py`, `prediction_service.py`, `core/indicators.py`) | loaded model, latest features, latest prediction | compute, predict, publish | PostgreSQL, event bus |
| event bus and hot state (`backend/events`) | Redis: keys, one stream, pub/sub | publish, set, get, append; one listening task | everything in the backend |
| trade executor (`trade_executor.py`) | trade history, the prediction in hand | `_on_prediction`, `manual_close` | position manager, risk guardian, blockchain client, PostgreSQL |
| position manager (`position_manager.py`) | the position, the capital | open, close, update price, load | Redis |
| risk guardian (`risk_guardian.py`) | daily counters, drawdown, breaker | check, size, stops, record, trip, reset | Redis |
| HTTP endpoints (`main.py`) | settings | predict, close, reset the breaker, set limits, register, reads | the services above |
| blockchain client (`blockchain_client.py`) | session, decision count | guardrail, transactions, swap | Solana RPC, Jupiter |
| encrypt, dWallet and on-chain reader clients | caches | encrypt, poll for a signature, read accounts | Encrypt, Ika, Solana RPC |
| on-chain program (`programs/vapm_decisions/src/lib.rs`) | agent, proposal and decision accounts | six instructions | Encrypt and Ika programs |
| audit database (`backend/db`) | decisions, trades, candles | insert, query | PostgreSQL |
| model training, backtest, frontend, scripts, end-to-end demos | files; nothing; nothing; test accounts | offline or read-only | |

Closed candles are stored by the market data service. A request to `/predict` reads
them back, computes the indicators and the prediction, and publishes it on
`event:prediction_ready`; nothing in the backend asks for one by itself. The listener of
`events/subscriber.py` passes it to `_on_prediction`, which updates the price of
an open position, decides to enter, exit or hold, asks the guardrail, changes the
position, and records the trade with the risk guardian. HTTP handlers run as
other tasks of the same event loop and reach the same singletons.

### Where it is hard

* **Interleaving.** `open_position`, `close_position` and `record_trade` are
  sequences of Redis commands, each an `await`. Another task runs in between,
  on the same position, capital and counters.
* **Ordering.** Commands of different tasks use different connections: they may
  take effect in any order, and after newer ones.
* **Partial failure and restart.** Any command may raise, before or after it
  took effect; `_listen` drops the handler where it is. A new process reads a
  snapshot and three expiring keys that were written at different moments, and
  no capital at all.
* **Daily and cumulative limits.** Counters, drawdown and breaker are moved by
  long sequences of trades.
* **State read before an await and used after it.** The candles of a prediction, the
  cache of the on-chain reader and the accounts it reads one after the other are old
  when they are used, while other requests write the same fields.
* **Lossy delivery, timeouts.** A prediction published while nobody is subscribed is
  gone; a transaction may land after the wait for its confirmation ended, or be dropped
  after a node had processed it.
* **On chain.** Instructions may be repeated, reordered and interleaved by any
  number of agents; accounts and the verdict are arguments of the caller.

### What makes each part correct

* executor and position manager: one position at a time, never replaced; opened
  only behind every check; closed once; its profit credited once; the handler
  returns;
* risk guardian: every trade counts; the drawdown is that of the capital; only a
  reset re-enables trading; Redis can restore it;
* on-chain program: an index belongs to one account; a verdict, its counter and
  its signing approval agree; a comparison has a proposal's own parameter and its own
  agent's limit as inputs;
* features and prediction: a prediction's time, price and signal belong to one window of
  candles; the indicators compute what they are defined to be;
* event bus: a prediction is handled at most once and in order, and is not lost while
  the connection holds;
* market data: a candle is the fold of its minute's prices, is not dropped before it
  is stored, and is not torn between history and live polls;
* clients: a transaction reported as a success has landed; the agent and the
  trades that the reader shows are on the chain, and not too old; every request is answered;
* audit database: a trade on file has its decision on file.

## Modules

| module | models | remarks |
|---|---|---|
| `Runtime` | the event loop and Redis under `events/publisher.py` | a command is sent, lands, is answered |
| `PositionManager` | `position_manager.py` | one operator per stretch between two awaits |
| `RiskGuardian` | `risk_guardian.py`, `models/risk.py` | the same |
| `TradeExecutor` | `trade_executor.py` on top of the three, the state-changing endpoints of `main.py`, `_listen` | the composition; all actions and properties |
| `PositionLedger` | what the position manager promises its callers | the abstract specification `TradeExecutor` implements |
| `TradeExecutor_proofs` | theorems of `TradeExecutor` | any tasks, failures and restarts |
| `TradingLoop_proofs` | theorems of `TradeExecutor` with the listener alone and no failure | the refinement of `PositionLedger` |
| `VapmProgram` | `programs/vapm_decisions/src/lib.rs` | one action per instruction |
| `VapmProgram_proofs` | theorems of `VapmProgram` | |
| `MarketData` | `market_data.py` | one action per stretch between two awaits |
| `MarketData_proofs` | theorems of `MarketData` | |
| `Indicators` | `core/indicators.py` | integer functions of a window of candles |
| `Indicators_proofs` | theorems of `Indicators` | powers, averages, sums; any window of integers |
| `FeatureEngine` | `feature_engine.py` | the query, the window and the features kept |
| `PredictionService` | `prediction_service.py` | the trained model is a constant |
| `EventChannel` | `EventPublisher.publish`, `events/subscriber.py` | publishing, subscribing, the listener |
| `LossyChannel` | what the event bus promises | the abstract specification `EventChannel` implements |
| `AuditTrail` | the rows of a decision and of its trade | two transactions |
| `PredictionFeed` | the five above, with the endpoints `/features/*`, `/predict` and `/trade/submit-demo` of `main.py` and `lifespan` | the composition; all actions and properties |
| `PredictionFeed_proofs` | theorems of `PredictionFeed` | |
| `OnchainReader` | `onchain_reader.py` | parsing and cache |
| `BlockchainClient` | `blockchain_client.py` but the guardrail | what `initialize` leaves, the local answers |
| `EncryptClient`, `DWalletClient` | `encrypt_client.py`, `dwallet_client.py` | values kept; the polling loop |
| `AgentEndpoints` | the four clients and `VapmProgram`, with the endpoints of `main.py` that use them | the composition; all actions and properties |
| `AgentEndpoints_proofs` | theorems of `AgentEndpoints` | time, answers and transactions |
| `AgentViews_proofs` | theorems of `AgentEndpoints` about what is read of the chain | uses those of `VapmProgram` |
| `MCTradeExecutor`, `MCVapmProgram`, `MCMarketData`, `MCPredictionFeed`, `MCAgentEndpoints` | inputs and symmetry of the small instances | |

### From code to actions: the trading process

`pc[t]` is the `await` at which task `t` is suspended and `loc[t]` its locals that
outlive it. An action is what the event loop runs without interruption:
everything from the return of one await to the next.

| await (`pc`) | code | the action that resumes from it |
|---|---|---|
| `update_price` | `PositionManager.update_price`, its SET | `PriceUpdated`: evaluate, then open, close or hold |
| `open.save` | `open_position`, its SET | `OpenSaved` |
| `open.log` | `open_position`, its XADD | `OpenLogged`: equity, and `record_trade` starts |
| `close.log` | `close_position`, its XADD | `CloseLogged`: the position is reset |
| `close.save` | `close_position`, its SET | `CloseSaved`: capital, pnl, equity, `record_trade` starts |
| `record.time`, `record.count`, `record.pnl` | the three SETEX of `record_trade` | `TimeRecorded`, `CountRecorded`, `EquityUpdated` |
| `breaker.save` | `trigger_circuit_breaker`, its SET | `BreakerSaved` |
| `equity.save` | `update_equity`, its SET | `TradeRecorded` |
| `reset.save` | `reset_circuit_breaker`, its SET | `BreakerReset` |

`PredictionWithPosition` and `PredictionWithoutPosition` start a handler in the
listener, `ManualClose` and `ResetBreaker` in a request, `PutLimits` is a request
without an await, `ChainConnected` is the end of `blockchain_client.initialize`.
`Delivered` is Redis executing a command, `CommandFailed` an exception out of one,
`Restart` a crash or a graceful stop followed by a start, and `Tick` the clock.

`blockchain_client.approve_trade`, `log_decision` and `mark_executed`, the encrypt
client and `check_trade` are declared `async` and contain no await that suspends, so
they belong to the action around them.

Abstractions:

* amounts are integers in the unit `calculate_position_size` rounds to, and sizes are
  rounded to the nearest as there; fractions are basis points rounded down, so a property about an exact floating-point value
  is not stated;
* a prediction is a price and what the two thresholds on direction and confidence
  tell apart (`up`, `down`, `weak`); the features give any ATR and any volatility
  scalar of two small sets;
* a position's uuid is the number of positions opened;
* the rows in PostgreSQL and the `event:trade_executed` message are in
  `PredictionFeed`: their errors are swallowed or come after the last change of the
  trading state;
* `RiskGuardian.check_trade` also computes a score and a list of violations, of
  which only emptiness decides;
* capital and equity are taken to be positive where the code divides by them: a
  stake is at most a fraction of the capital and prices are positive.

### From code to actions: the on-chain program

One action per instruction; `finalize_trade` is two, one per value of `risk_passed`.
Accounts at derived addresses are functions of their seeds, which makes `init` the
guard that a key is new. A transaction that fails changes nothing and is no step.
Encrypt and Ika are external: a call to them may succeed, with the effect the
program relies on, or fail. What the program passes on unchecked is the caller's choice in
the model as well: the output account of a comparison, which may hold an earlier result,
and the dWallet of an approval, which may be another than the agent's. `computed` is a
history of the comparisons asked for, with inputs and output; `signable` are pairs of a
dWallet and a message. `AgentState.dwallet` is written once and read by no instruction, and
the graph is passed through; both are left out. The release profile of
`Cargo.toml` sets `overflow-checks`, so a counter at its maximum fails the
transaction.

### From code to actions: market data

One task, `_price_poll_loop`, after `start`. `pc` is its await:

| await (`pc`) | code | the action that resumes from it |
|---|---|---|
| `start` | `_fetch_historical_candles` | `Start`: the rows of the history are merged |
| `sleep` | the sleep between polls and the request to Jupiter | `Poll`: `latest_price` and the tick |
| `tick` | the three commands of `_emit_tick` | `TickEmitted`: open or extend the candle, or go on to store it |
| `store` | `_store_candles` of the closed candle | `CandleStored` |
| `publish` | `event:candle_closed` | `CandlePublished`: the next candle begins |
| `current` | the SET of `market:current_candle` | `CurrentSaved` |

`PollFailed` is an exception out of any of them, caught by the loop; a store that
raises may have taken effect. `Restart` is a stop or a crash followed by a start. A poll
that brings no price changes nothing and is no step. Jupiter and Birdeye are
external: a poll brings some price, the history some candles up to the current
minute, each consistent in itself. The tick and current-candle keys are written for
others and hold no state the service reads back, so the three commands of a tick are
one await. Volume is left out: a poll has none. `rows` is the table by minute;
`taken`, a history variable, are the prices the candle was built from.

### From code to actions: the prediction feed

`pc[t]` is the await of a request, `listen` that of the listener. Two awaits in a row
with nothing in between that the model keeps are one: SETEX and PUBLISH of the
features, which nobody reads, and SETEX and PUBLISH of a prediction.

| await (`pc`) | code | the action that resumes from it |
|---|---|---|
| `candles` | the query of `_get_recent_candles`, not yet run | `QueryRuns` |
| `rows` | the same, its answer under way | `TooFewCandles`; `Computed`: indicators and `latest_features` |
| `features` | SETEX and PUBLISH of `compute_features` | `FeaturesAnswered`; `Predicted`: `latest_prediction` |
| `prediction` | SETEX and PUBLISH of `predict_and_publish` | `PredictionPublished` |
| `stream` | its XADD | `PredictionLogged` |

| await (`listen`) | code | the action that resumes from it |
|---|---|---|
| `off` | no subscription | `Started`, `Resubscribes` |
| `get` | the wait for a message | `Receives` |
| `handle` | `_on_prediction` up to its outcome | `HandlerHolds`, `HandlerTrades`, `HandlerFails` |
| `decision.row`, `trade.row` | `_save_decision`, `_save_trade_execution` | `DecisionFiled`, `TradeFiled`, or `...NotFiled` |
| `announce` | `event:trade_executed` | `TradeAnnounced` |

Rows of candles are only added in the model, and their number tells what a query saw, while
`market_data.py` upserts them: a row that is stored twice with different values (the minute
in progress at a start, by the history and by the polls, as in `torn`) changes under a query
that has run. What a prediction then mixes is outside
`PredictionIsOfOneWindow`.

`Started` and `Serving` are the two halves of `lifespan`: the listener subscribes before
the first request is served, and handles what others publish in between.
`Disconnects` is a lost connection, after which redis-py subscribes again; what was in
its buffer is gone. `TradeExecutor` has the handler await by await; here only its outcome
matters. A manual close files its rows through the same two functions and is not
repeated here.

Indicators are integers: prices are in ticks, averages keep their denominators,
percentages are rounded down, and volatilities are compared as variances, without the
square root. Rounding down makes the share of one rolling window among more than a hundred
a 0. Powers, averages and the references are recursive functions and folds, which the
proofs can reason about. The periods are constants. The trained model is external: `Classify` is any
function of the features.

### From code to actions: the clients of the chain

A call of an RPC node takes two steps: the node answers or the call raises
(`AccountRead`, `ApprovalRead`, `TxAccepted`, `TxAnswered`, `CallRaises`), and later the
event loop resumes the task with the answer. The chain moves in between
(`ChainMoves`, any transaction of `VapmProgram`).

| await (`pc`) | code | the action that resumes from it |
|---|---|---|
| `live.agent`, `live.trade` | `get_live_data`: the agent's account, a proposal's | `LiveAgent`, `LiveTrade` |
| `info`, `count` | `get_agent_info`, `get_decision_count` | `InfoAnswered`, `CountAnswered` |
| `register` | `register_agent`: looks for the account | `RegisterAnswered` |
| `send`, `status`, `pause` | `_send_and_confirm_tx`: send, poll, sleep | `SendAnswered`, `StatusAnswered`, `PauseEnds` |
| `order`, `execute` | `execute_swap`: Jupiter's order, its execution | `OrderAnswered`, `ExecuteAnswered` |
| `poll`, `sleep` | `poll_message_approval` | `PollAnswered`, `PollWakes` |

`Decides` is what a decision of the executor does to these clients (encrypt, log), and
`SubmitsDemo` what `/trade/submit-demo` does: it logs the decision without encrypting it.
`_send_and_confirm_tx`, `execute_swap` and `poll_message_approval` have no endpoint and
are requests of their own. `execute_swap` reports any HTTP 200 as success, so its result
is called "executed", and nothing is claimed of its confirmation. `asOf` in a view is a
history variable: when the first account in it was read.

The program stores a name with its length, up to 32 bytes, and the reader skips 32. With a
shorter name it takes the count from other bytes, and from 24 bytes on the counters of the
verdicts too: `ParsedAgents` is the program's record for a name of 32 bytes and any member of
the constant `Misreadings` for a shorter one. An RPC reply without a result is taken for
"not there" and the view goes on without what was asked for (`CallRaises`).

### Observations

Beside the findings, worth knowing next to the models:

* `features:latest`, `prediction:latest` and `stream:predictions` are written and never
  read by the backend;
* a comment says that the prediction "uses normalized values", but the features are raw
  (`normalize_features` is called in training only);
* prices that do not move have RSI 100 and volatility regime 1.0; the regime is never 0,
  since the current value is ranked among itself;
* nothing ties a row of `trade_executions` to a row of `decisions`;
* `blockchain_client._parse_agent_state` reads `registered_at` from bytes of another
  field;
* the risk validation of a SELL is computed and recorded but not asked: it executes in the
  cooldown, at the daily maximum or after the breaker all the same, although
  `risk_guardian.py` says "All trades must pass risk validation before execution. This is a
  hard gate that cannot be bypassed." (likewise `README.md`). The model follows the code;
  what is checked of the gate is about entries;
* the guardrail compares the absolute value of the day's profit with the loss limit, so a
  day's profit above it refuses every trade, closes included;
* `finalize_trade` does not compare its dWallet with `agent_state.dwallet`, so an approved
  message may be signable by another one; a comparison's output account may be named again
  by a later check, and a check may be repeated after the verdict;
* a comment promises the "up to last 5" trades and the first five are read;
* `register_agent` answers success whether the account is there or not, and sends nothing;
* a fetch that began earlier may end later and overwrite a newer cache entry; since an
  entry is kept under the time at which its reading began, it is never served beyond its
  time to live.

## What is checked

| run | specification, instance | properties | result |
|---|---|---|---|
| `seq` | `FairSpec`, the listener alone, no faults | `ClosedOnce`, `RestartWouldRestore`, `DrawdownIsCurrent`, `LedgerImplemented`, `HandlerReturns` | hold |
| `conc` | `Spec`, listener and one request, one fault, local guardrail | `TypeOK`, `TradesAreCounted`, `EntriesPassTheGate`, `PositionKept`, `OnlyResetEnables` | hold |
| `race` | listener and one request, no faults | `ClosedOnce` | violated |
| `late` | the same | `PositionSaved` | violated |
| `day` | listener alone | `DailyCountIsDaily` | violated |
| `program` | two wallets, hashes, ciphertexts, outputs and dWallets; three accounts beside the agents' | `TypeOK`, `SlotsPartition`, `ApprovedIsSignable`, `ResultsCompareOwnLimits`, `VerdictsAreCounted` | hold |
| `unchecked` | the same | `NoApprovalWithoutChecks` | violated |
| `market` | `FairSpec`, three prices, one candle of history, one fault, one restart | `TypeOK`, `CandleIsFold`, `ClosesInRange`, `LastPollCounts`, `MinuteKept`, `MinuteIsStored` | hold |
| `torn` | the same, without faults and restarts | `OpensInRange` | violated |
| `feed` | `FairSpec`, two requests at a time, windows of four and five candles, one fault | `TypeOK`, `PredictionIsOfOneWindow`, `NoneLost`, `TradeRowHasDecision`, `IndicatorsMatchReference`, `ChannelImplemented`, `InboxDrains` | hold |
| `clients` | `FairSpec`, two requests at a time, one agent, one fault | `TypeOK`, `LiveDataIsFresh`, `ShownIsOnChain`, `SuccessIsReal`, `RequestsEnd` | hold |
| `misread` | the same | `CountersAreReal` | violated |

What the passing runs show:

* `seq`: with nothing else running, the many-step open and close are the atomic
  buy and sell of `PositionLedger` (refinement: the profit that the closing task
  carries is counted as cash from the moment the position is reset), nothing is
  closed twice, between handlers Redis holds what a restart needs except the capital
  and the breaker's flag, the drawdown is that of the capital, and every handler returns.
* `conc`: what survives requests beside the listener, late commands, an exception
  or a restart anywhere: whatever happened before, an entry passes all checks in the
  very step that opens it; an open position is never overwritten by another; each
  trade in the history was counted; and only a reset or a restart enables trading.
* `program`: for every order of transactions of two agents, and whatever outputs and
  dWallets callers name: each index has one account, an approved message is signable by
  some dWallet, every comparison has a proposal's own parameter and its own agent's limit as
  inputs and the account of the latest one is kept, and the counters cover the verdicts
  shown. Not claimed, and not so: that the account kept still holds that comparison, and
  that the dWallet is the agent's.
* `market`: whatever fails, a candle is the fold of the prices polled in its minute, the
  service stays with it until it is in the database, and a minute that is over gets
  its row unless the process restarts. A price that comes with a failing poll is dropped:
  `LastPollCounts` is about a run without failures.

* `feed`: from a stored candle to a filed trade. However requests interleave with each
  other and with new candles, a prediction's time, price and signal are of one window;
  publisher and listener are a channel that is in order and at most once (refinement of
  `LossyChannel`), loses nothing while the connection holds, and is emptied although
  handlers raise; a trade on file has its decision on file unless saving that raised; and
  on every window the indicators are what they are defined to be.
* `clients`: while transactions run, several requests read accounts one after the other
  and share a cache. The agent and the trades they show are on the chain, one shown as
  approved is signable by some dWallet, and nothing is older than the cache allows; that the
  agent's counters are the program's holds for names of 32 bytes only (`misread`). A success was confirmed; every request is answered, whatever the networks
  do. A failure may have landed all the same: the caller is not told, and nothing is
  claimed of it.

What the violated runs show, each a disagreement of the code with its own words:

* `race`: `close_position` awaits its log entry before it resets the position, so a
  manual close in that window passes the guard "No position to close" and the
  position is closed, logged and credited twice.
* `late`: a price update's SET that lands after the close's SET leaves a closed
  position in Redis, for the next process to load.
* `day`: `trades_today` is never reset while the process runs; after "Max 50
  trades/day" there is no further trade on any day.
* `unchecked`: `finalize_trade` takes the verdict as an argument and does not read
  the results of the encrypted checks.
* `torn`: `_store_candles` updates every column but the open, so a live candle stored
  over the history's candle of the minute in progress makes a row whose open is
  outside its own range.
* `misread`: the reader, which "Parses AgentState and TradeProposal PDAs using exact byte
  offsets from the deployed Anchor program.", skips 32 bytes for a name stored with its
  length, so for the default name of ten bytes live data shows a decision count out of the
  bytes of the dWallet's address.

Bounds, and why they are enough:

* `Tasks`: the listener and one request. All races here are between two closers, or
  a closer and an opener; the listener is the only opener.
* `MaxOpens` 2 or 3, `MaxTime` 1 or 3, `MaxRequests` 1, `MaxFaults` 1: a second
  position after a first is what makes stale data harmful; a fault at each point of
  a handler is explored, then a full handler after it.
* Fractions are larger than the deployed ones (a stake of 30%): one losing trade at
  7 after an entry at 10 crosses the 8% breaker, one gain at 12 exceeds the daily
  limit, so two trades visit every bracket the checks tell apart.
* `VapmProgram`: `U64Max` 2 and `U32Max` 1 put every counter at its limit,
  two accounts per agent let a proposal and a decision share the index range, two
  ciphertexts distinguish an agent's own limits from another's, and two outputs let a
  check overwrite the result of another or go to a new account. At most three proposals and
  decisions exist over both agents (`AtMostThree`, a constraint): one agent can fill its
  range while the other has one account. Two comparisons (`MaxComputations`) are enough for
  a repeated check and for one that takes another's output. Wallets, hashes, outputs and
  dWallets are symmetric. The deadlock check is off because an instance whose counters are all
  exhausted really stops.

* `MarketData`: minutes of two ticks, so a minute can pass with several polls or none;
  two polls after a candle's first tell a new high, a new low and neither apart. The
  history's one candle lies above every polled price, so that mixing the two shows. The
  deadlock check is off because the clock and the polls are bounded.

* `PredictionFeed`: indicators with periods of one to three candles, so that a window of
  four computes and one of three does not; histories of three, one short of a
  computation, at one close, followed by up to two candles with that close or a higher one,
  so that windows rise, fall and stand still; two requests, of either kind, at a time or one
  after the other; one failure, lost connection or stop anywhere. The deadlock check is
  off because the instance stops when nothing arrives any more.
* `AgentEndpoints`: two requests for live data, or one of another kind (which shares no
  state with a second and so uses up both); one raising call; a clock up to 2 with a time to live of 1
  and a timeout of 2, so that a cache entry is used, expires and is overwritten by an older
  one, and the polling ends by timeout; two polls for a confirmation; `U64Max` 1 and one
  shown trade reach the ends of the account; names of 10 bytes (the default) and of 32, the
  shorter one misread as a count of 2; one dWallet and one output, which nothing in the
  clients tells apart.
  `MaxComputations` 0 leaves out the encrypted checks, which the reader does not look at.
  Five setups: everything configured, only the key loaded, no program, no key, disabled.
  The deadlock check is off because requests and time are bounded.

Fairness (`FairSpec` of `TradeExecutor`, in `seq`): Redis executes and answers each command, and
the event loop runs each task whose await is over. Weak fairness suffices, since
nothing but the task's own step disables either in that run. asyncio runs ready
callbacks in order, and redis-py returns or raises; nothing is assumed of predictions,
requests, the clock or faults. `FairSpec` of `MarketData`, in `market`: the event loop
resumes the service, Jupiter answers some poll (without which no minute would be
noticed to be over) and time passes. `FairSpec` of `PredictionFeed`, in `feed`: an await
of the listener ends, by an answer or an exception; nobody need send requests, nothing
need fail, and a stopped process need not come back. `FairSpec` of `AgentEndpoints`, in
`clients`: time passes and every call is answered or raises (the HTTP clients have
timeouts); the networks need not sign, confirm or process anything.

## What is proved

For every value of the constants that the named assumptions allow: any number of
requests beside the listener, any predictions, prices and limits, any number of
faults and restarts; any number of wallets, hashes, ciphertexts, outputs and dWallets;
any prices, any history, and a minute of any length; any model, periods, candles and
number of predictions; any number of requests to the clients, polls and shown trades.

| module | theorem | states |
|---|---|---|
| `TradeExecutor_proofs` | `TypeCorrect` | `Spec => []TypeOK` |
| | `EntriesGated` | `Spec => EntriesPassTheGate` |
| | `PositionsKept` | `Spec => PositionKept` |
| | `OnlyResetsEnable` | `Spec => OnlyResetEnables` |
| | `TradesCounted` | `Spec => []TradesAreCounted` |
| | `StakesShrink` | a deeper drawdown never makes a larger stake |
| | `StakesAreThrottled` | every entry costs at most twice the base fraction times the throttle in force, but for rounding |
| | `DueClosesStarted` | a close that is due is started, at the price it was due at, unless the guardrail refuses |
| `TradingLoop_proofs` | `ClosedAtMostOnce`, `RestartsRestore`, `DrawdownsAreCurrent` | the three invariants of `seq`, assuming `Alone` |
| | `LedgerIsImplemented` | `Spec => LedgerImplemented`, the refinement of `PositionLedger`, assuming `Alone` |
| `VapmProgram_proofs` | `TypeCorrect` | `Spec => []TypeOK` |
| | `ApprovedSignable`, `ResultsCompare`, `SlotsPartitioned`, `VerdictsCounted` | the four safety invariants |
| | `NextAccountsFree` | the account that a submission or a log entry creates next is never taken |
| | `FinitelyMany` | there are finitely many proposals, which counting needs |
| | `AccountsOnlyGrow` | no step removes an agent or a proposal, changes a proposal's hash, lowers a counter or makes a message unsignable |
| `MarketData_proofs` | `TypeCorrect` | `Spec => []TypeOK` |
| | `CandleFolds`, `ClosesStayInRange`, `LastPollsCount` | three safety invariants |
| | `MinutesKept` | `Spec => MinuteKept` |
| `PredictionFeed_proofs` | `TypesHold` | `Spec => []TypeOK` |
| | `IndicatorsAlwaysMatch` | `Spec => []IndicatorsMatchReference` |
| | `FeaturesInRange` | the kept features are in the ranges `FeatureVector` documents, the ADX and the range position without clipping |
| | `PredictionsAreOfOneWindow`, `NoneLostAlways`, `TradesHaveDecisions` | three safety invariants |
| | `ChannelIsImplemented` | `Spec => ChannelImplemented`, the refinement of `LossyChannel` |
| `Indicators_proofs` | `EmaIsWeightedMean` | the running computation of an average is the weighted mean of all values |
| | `RsiMirrors` | prices turned upside down have 100 minus the RSI, but for rounding |
| | `RangePositionNeedsNoClipping` | closes between lows and highs are within -1 and 1 before clipping |
| | `RegimeIsShare` | the volatility regime counts the current window and is a share |
| | `FeaturesWithinRange` | the same of the features of a window |
| `AgentEndpoints_proofs` | `LiveDataFresh`, `SuccessesAreReal` | two safety invariants |
| | `EndpointsInvHolds` | the inductive invariant they follow from |
| `AgentViews_proofs` | `ChainIsProgram` | `Spec` implies the specification of `VapmProgram` |
| | `EndpointsTyped` | `Spec => []TypeOK` |
| | `ShownOnChain` | `Spec => []ShownIsOnChain` |
| | `ViewsInvHolds` | the inductive invariant they follow from |

*Trading process.* `TypeOK` is inductive because it carries more than types: a task
waits for a command exactly when it is suspended, a command has the kind of value its
key keeps, the listener alone can be at the labels of an open, and a prediction that
waits for its price update keeps a price of the feed. Each label's action is then
either a suspension (`SuspendKeepsTasks`), an end (`EndKeepsTasks`) or a delivery
(`DeliveryKeepsTasks`). The three action properties follow from `TypeOK` and one step:
`OnlyBuyOpens` shows that `opens` grows only in `Buy`, `ThrottleStopsEntries` that a
drawdown of 8% or more makes the stake 0 and so refuses the entry, and
`StakeIsBounded` that rounding puts a stake above its fraction by at most half a unit.
`StakesAreThrottled` is the same step with the fraction `StakeIsThrottled` bounds by the
throttle, which `StakesShrink` shows to fall with the drawdown.

`TradesAreCounted` is not inductive: between `record_trade`'s increment and the history
there are several awaits, in any number of tasks. `CountInv` adds the tasks `Underway`
there: they are finitely many, and the history and they together are no more than the
count. Each step is one of four (`CountStep`): a task is counted and joins, a task leaves
for the history, some are dropped (a failure, an end), or a new process starts with an
empty history.

`DueClosesStarted` needs `PriceInHand`: a position that is still open when its price has
been saved has the price of the prediction in hand, since only the listener changes
prices and opens. An exit is judged partly by the one and partly by the other; that they
agree is why a wide ATR stop cannot hide a loss beyond both the fixed stop and the cap.

*The trading loop by itself.* Four properties do not survive other tasks or failures, so
their theorems assume `Alone`: the listener is the only task and no command fails (nor
does the process restart, which is counted as a fault). Each part is needed: with one
request, `race` and `late` violate two of them, and with one failing command TLC finds
`ClosedOnce`, `RestartWouldRestore` and `DrawdownIsCurrent` violated: an answer to the
log that is lost and a second close, a save that never lands, an abandoned handler
between a close and its record. Prices, predictions, limits, ATRs and the number of
trades are any. `LoopInv` says what is in hand or on its way at each await: the profit of
the sale that is being logged (`SaleInHand`), that the log has an open position's close
only while its answer is awaited (`LoggedCloses`), that the position and each part of the
risk state is in Redis or in the command under way (`PositionOnFile`, `RiskOnFile`), and
that the drawdown is the capital's or `record_trade` carries an equity that is the
capital (`DrawdownOnTime`). `LoopSteps` reduces `Next` to fourteen kinds of step, and each
part has one lemma over them. For the refinement, a BUY is the ledger's `Buy`
(`BoughtIsBuy`), the answer to a close's log entry its `Sell` (`CloseIsSell`), and every other step
leaves what is held and the cash alone (`LedgerStep`).

*On-chain program.* `ApprovedIsSignable`, `ResultsCompareOwnLimits` and `SlotsPartition`
are inductive over `TypeOK`. Approvals are only added. Comparisons are only appended, and a
step leaves the inputs they were made with alone, since neither limits nor parameters ever
change (`StepsKeepInputs`); the reference a proposal keeps is that of its latest comparison
because it is set in the step that appends one (`KeepsLatest`). `decision_count` grows by one
exactly when an account takes its value as index, so the next
index is always free (`NextAccountsFree`), and only the limit of the counter stops an agent.
`VerdictsAreCounted` needs `FinitelyMany` besides: with finitely many proposals a new
verdict adds at most one element to the set it joins (`OneMore`) and none elsewhere
(`NoMore`). `AccountsOnlyGrow` takes each instruction in turn (`StepsGrow`).

*Market data.* `CandleIsFold` is inductive over `TypeOK` (`OpenedIsFold`,
`ExtendedIsFold`). `ClosesInRange` follows from it: the closed candle's close is the last
of its prices, hence in its range, and `Upsert` shows that a merge changes a candle's
open at most. `MinuteKept` needs `ClosedIsStored`: between the store and the end of the
announcement neither the row nor the candle changes. `LastPollCounts` needs
`PriceInHand`, which follows the price from the poll to the candle and knows that the
clock is past minute 0, where a candle would look like none.

*Prediction feed.* The kept features and the latest prediction are those of a window that
is a prefix of the table, and the table only grows: `WindowInv` is inductive because a
request remembers how many rows its query saw. The channel's part of the
invariant says that what is handled and what waits are in order and end at the last
message published; every action is then a step of `LossyChannel` or changes neither
queue, which is the refinement, and `NoneLost` follows with where `since` was set. A
decision's row or its failure precedes the trade's row at the listener's label
(`TradesHaveDecisions`).

*Indicators.* `IndicatorsMatchReference` speaks of every window, of any length and any
prices, so its proof is an induction over data. The library's induction theorems take an
operator as a parameter, which the provers cannot instantiate; `SetInduction` is stated
with a set instead: a set of numbers that has 1 and with each number its successor has them
all, for otherwise there is a least one missing (`LeastNumber`, from the well-foundedness
of the naturals). A recursive function then satisfies its equation (`PowerEquation`,
`EmaEquation`), because the function that satisfies it can be built one argument at a time,
and a fold over a set does not depend on which element it takes first
(`SumDefined`, `SumsAgree`, `SumRemoves`). With these, one more value turns the weighted
mean of k values into that of k + 1 exactly as `ema` does (`EmaIsWeightedMean`). Mirroring
swaps gains and losses (`MirroredChanges`), their averages are not negative and not both zero
unless no price moved (`EmaSigns`, `NoChangeNoMove`), and two percentages rounded down lose at
most one (`PercentsTogether`): hence `RsiMirrors`. The other two are about one comparison of integers and
about a set of windows that has the current one. `FeaturesWithinRange` adds that an average of
values up to a bound stays within it (`EmaBounded`), so that the clipping of the ADX and of
the range position never changes a value; `FeaturesInRange` carries it, through `WindowInv`, to the
features that are shown and predicted from. `ComputableWindow` says what the table
gives them: at least `MinCandles` candles, prices above zero, closes in their range.

*Clients.* `EndpointsInv` has four parts: what the locals of a task may be (`LocalsOk`), that
a view was not begun before its request (`ReadSince`), that the cache is as old as its
entry says (`CacheOk`), and what a task waiting at a label knows of its transaction
(`TaskOk`: an answer "confirmed" is the state of the transaction, which no later step
changes). `TaskKeeps` carries a task over every step that is not its own; the steps of
networks, answers, handlers and requests are one lemma each, joined in `StepKeeps`.

What the clients read is proved about in `AgentViews_proofs`. The chain under the requests
takes the program's steps and no others (`ChainIsProgram`), so the program's theorems hold
of it by instantiation. Two of them carry the argument: `ApprovedSignable`, for a trade
shown as approved (by some dWallet), and `StepsGrow`, which says that what was true of the chain when an
account was read is true in every later state (`WorldGrows`, `SeenStays`, `ViewStays`).
`ViewsInv` is the cache and every task's view, the counts it holds and where it waits, all
sound against the present chain (`CacheSound`, `TaskSound`); it is inductive given
`EndpointsInv` and the program's invariants. Growth alone is not enough: a view under
construction must know that its agent's account was read before its first trade, and the
second count of a status that the account was there for the first. Of the agent's counters the
theorem speaks only when the name has 32 bytes; for other names they are anything the
parsing may make of the account, and only that the agent is there is proved.

Assumptions: `RuntimeAssumption`, `CapitalAssumption`, `RiskAssumption`,
`ExecutorAssumption`, `ProgramAssumption`, `MarketAssumption`, `IndicatorAssumption`, `PeriodsAssumption`,
`EngineAssumption`, `FeedAssumption`, `ReaderAssumption`, `DWalletAssumption`,
`EndpointsAssumption` and `ChainAssumption`. They give the constants their types, say that
`None` and the marks of a call are no command, no integer, no record of the model and no
answer, and that a confirmation is polled for at least once. `PeriodsAssumption` is what the
periods of `indicators.py` satisfy (an RSI over 14 changes, a lookback of 100 candles, windows of at
least 5 returns and of a fifth of them): with an RSI over one change, prices that ended still would
not mirror. Every run evaluates those of
its modules. `Alone` is not among them: it is a hypothesis of the theorems of
`TradingLoop_proofs` and of no other.

Model-checked only: liveness (`HandlerReturns`, `MinuteIsStored`,
`InboxDrains`, `RequestsEnd`), which needs fairness and ENABLED and so is beyond the prover.
The findings are counterexamples of TLC's.

## Not modelled, and why

* The trained model, its training, SHAP values, `normalize_features` and the backtest:
  floating-point batch programs without interaction; the feed takes any model.
* The comparison graphs (`programs/vapm_decisions/src/encrypt_fns.rs`): the program passes their
  serialized form through without reading it. The Encrypt and Ika networks are external.
* `/verify`, whose answer is a hash of one stored row (`verify_decision` itself always
  answers True), and the endpoints that format what is in memory or in a file. Two routes
  of `main.py` that repeat an earlier path are never reached.
* The fields of a decision record, which nothing reads back; the tables nothing writes.
* Functions nothing calls: `save_capital_to_db`, `load_capital_from_db`,
  `request_airdrop`, the reading of streams.
* The frontend, the setup and check scripts and the end-to-end programs hold no state of
  the system.
* `AgentState.dwallet` and the graph of a comparison, as said above.

## Plan

1. `TradeExecutor` and its parts, `PositionLedger`, `VapmProgram`, their runs and first
   theorems. *Done.*
2. `MarketData`: polls, ticks, candle accumulation, the upsert of live and historical
   candles. *Done.*
3. `PredictionFeed`: the prediction service, publisher, pub/sub and listener, composed
   with the rows of the audit trail; abstract specification `LossyChannel`. *Done.*
4. `AgentEndpoints`: send and confirm against a transaction that lands late or is dropped,
   the reader with its cache, polling for a signature, composed with `VapmProgram`. *Done.*
5. Indicators against reference definitions. *Done*, over bounded windows in `feed` and for all
   windows in `Indicators_proofs`.
6. Sizing and stops. *Done* as theorems: `StakesShrink`, `StakesAreThrottled`,
   `DueClosesStarted`. *Open*: the exact value of a stake against a reference definition.
7. Proofs. *Done*: every safety invariant, action property and refinement of the passing
   runs. *Open*: a reference for the MACD, whose signal is an average of a difference of two.
