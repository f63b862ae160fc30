--------------------------- MODULE FeatureEngine ---------------------------
(***************************************************************************)
(* backend/services/feature_engine.py, on the closed candles that          *)
(* MarketDataService.get_recent_candles reads from PostgreSQL.  Rows are   *)
(* only added here, so what a query sees is told by how many there were;   *)
(* their number also stands for the close time of the last of them.  The   *)
(* service upserts: the minute in progress at a start may be stored twice, *)
(* and that its row changes is left out (MarketData has it).               *)
(***************************************************************************)
EXTENDS Indicators

CONSTANTS
    Candles,    \* candles the market may produce
    Limit,      \* the most candles a computation reads
    None        \* Python's None

VARIABLES
    rows,           \* PostgreSQL: the closed candles, the oldest first
    latestFeatures  \* latest_features

ASSUME EngineAssumption ==
    /\ Candles \subseteq [close : Nat \ {0}, high : Nat, low : Nat,
                          volume : Nat]
    /\ \A c \in Candles : c.low <= c.close /\ c.close <= c.high
    /\ Limit \in Nat \ {0}

(* get_recent_candles, when there are n rows                               *)
RecentCandles(n) == SubSeq(rows, Max({1, n - Limit + 1}), n)

(* compute_features has enough candles among n rows.                       *)
Computable(n) == Min({n, Limit}) >= MinCandles

(* FeatureVector.from_dict of what was computed from n rows                *)
FeaturesAt(n) == [timestamp |-> n, values |-> AllFeatures(RecentCandles(n))]

EngineInit == latestFeatures = None

KeepFeatures(n) == latestFeatures' = FeaturesAt(n)
=============================================================================
