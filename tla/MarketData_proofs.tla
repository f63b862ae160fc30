-------------------------- MODULE MarketData_proofs --------------------------
(***************************************************************************)
(* Theorems of MarketData, for any prices and history, any length of a     *)
(* minute and any number of polls, failures and restarts.                  *)
(***************************************************************************)
EXTENDS MarketData, TLAPS

(* Every time is in a minute, and not in minute 0 once a minute is over.   *)
LEMMA MinuteOf ==
    ASSUME NEW time \in Nat
    PROVE  /\ Minute(time) \in Nat
           /\ time >= MinuteLength => Minute(time) # 0
<1>1. MinuteLength \in Nat /\ MinuteLength > 0
  BY MarketAssumption
<1> QED
  BY <1>1, SMTT(30) DEF Minute

(* What _store_candles leaves in the table: rows of candles, those stored  *)
(* with their own range and close.                                         *)
LEMMA Upsert ==
    ASSUME NEW candles, DOMAIN candles \subseteq Nat,
           candles \in [DOMAIN candles -> Candle],
           DOMAIN rows \subseteq Nat, rows \in [DOMAIN rows -> Candle]
    PROVE  /\ DOMAIN Merged(candles) = DOMAIN rows \cup DOMAIN candles
           /\ Merged(candles) \in [DOMAIN Merged(candles) -> Candle]
           /\ \A m \in DOMAIN candles :
                \E open \in Nat : Merged(candles)[m] = [candles[m] EXCEPT !.open = open]
           /\ \A m \in DOMAIN rows \ DOMAIN candles : Merged(candles)[m] = rows[m]
<1>1. DOMAIN Merged(candles) = DOMAIN rows \cup DOMAIN candles
  BY DEF Merged
<1>2. ASSUME NEW m \in DOMAIN candles
      PROVE  \E open \in Nat : Merged(candles)[m] = [candles[m] EXCEPT !.open = open]
  <2>1. candles[m] \in Candle
    OBVIOUS
  <2>2. CASE m \in DOMAIN rows
    <3>1. rows[m].open \in Nat
      BY <2>2 DEF Candle
    <3>2. Merged(candles)[m] = [candles[m] EXCEPT !.open = rows[m].open]
      BY <2>2 DEF Merged
    <3> QED
      BY <3>1, <3>2
  <2>3. CASE m \notin DOMAIN rows
    <3>1. candles[m].open \in Nat /\ candles[m] = [candles[m] EXCEPT !.open = candles[m].open]
      BY <2>1 DEF Candle
    <3>2. Merged(candles)[m] = candles[m]
      BY <2>3 DEF Merged
    <3> QED
      BY <3>1, <3>2
  <2> QED
    BY <2>2, <2>3
<1>3. ASSUME NEW m \in DOMAIN rows \ DOMAIN candles
      PROVE  Merged(candles)[m] = rows[m]
  BY DEF Merged
<1>4. ASSUME NEW m \in DOMAIN Merged(candles) PROVE Merged(candles)[m] \in Candle
  <2>1. CASE m \in DOMAIN candles
    <3>1. PICK open \in Nat : Merged(candles)[m] = [candles[m] EXCEPT !.open = open]
      BY <1>2, <2>1
    <3>2. candles[m] \in Candle
      BY <2>1
    <3> QED
      BY <3>1, <3>2 DEF Candle
  <2>2. CASE m \notin DOMAIN candles
    BY <1>1, <1>3, <2>2
  <2> QED
    BY <2>1, <2>2
<1>5. Merged(candles) = [m \in DOMAIN Merged(candles) |-> Merged(candles)[m]]
  BY <1>1 DEF Merged
<1> QED
  BY <1>1, <1>2, <1>3, <1>4, <1>5

(* What Birdeye answers are candles, each consistent in itself.            *)
LEMMA HistoryType ==
    ASSUME now \in Nat, NEW minutes \in SUBSET (1..Minute(now)),
           NEW candles \in [minutes -> History]
    PROVE  /\ minutes \subseteq Nat /\ DOMAIN candles = minutes
           /\ candles \in [DOMAIN candles -> Candle]
           /\ \A m \in minutes : candles[m] \in Candle /\ InRange(candles[m])
<1>1. minutes \subseteq Nat
  <2>1. Minute(now) \in Nat
    BY MinuteOf
  <2> QED
    BY <2>1
<1>2. History \subseteq Candle /\ \A c \in History : InRange(c)
  BY MarketAssumption
<1>3. DOMAIN candles = minutes /\ \A m \in minutes : candles[m] \in History
  OBVIOUS
<1>4. candles \in [DOMAIN candles -> Candle]
  BY <1>2, <1>3
<1> QED
  BY <1>1, <1>2, <1>3, <1>4

(* The row of the current candle is a candle, and storing it keeps types.  *)
LEMMA UpsertCurrent ==
    ASSUME TypeOK
    PROVE  /\ Row(candle) \in Candle
           /\ DOMAIN MergedCandle = DOMAIN rows \cup {candle.start}
           /\ MergedCandle \in [DOMAIN MergedCandle -> Candle]
           /\ \E open \in Nat :
                MergedCandle[candle.start] = [Row(candle) EXCEPT !.open = open]
           /\ \A m \in DOMAIN rows \ {candle.start} : MergedCandle[m] = rows[m]
<1> DEFINE one == [m \in {candle.start} |-> Row(candle)]
<1>1. Row(candle) \in Candle /\ candle.start \in Nat
  BY DEF TypeOK, Row, Candle
<1>2. /\ DOMAIN one = {candle.start}
      /\ one[candle.start] = Row(candle)
      /\ one \in [DOMAIN one -> Candle]
      /\ DOMAIN one \subseteq Nat
  BY <1>1
<1>3. MergedCandle = Merged(one)
  BY DEF MergedCandle
<1>4. DOMAIN rows \subseteq Nat /\ rows \in [DOMAIN rows -> Candle]
  BY DEF TypeOK
<1> HIDE DEF one
<1>5. /\ DOMAIN Merged(one) = DOMAIN rows \cup DOMAIN one
      /\ Merged(one) \in [DOMAIN Merged(one) -> Candle]
      /\ \A m \in DOMAIN one :
           \E open \in Nat : Merged(one)[m] = [one[m] EXCEPT !.open = open]
      /\ \A m \in DOMAIN rows \ DOMAIN one : Merged(one)[m] = rows[m]
  BY <1>2, <1>4, Upsert
<1>6. \E open \in Nat : Merged(one)[candle.start] = [one[candle.start] EXCEPT !.open = open]
  BY <1>2, <1>5
<1> QED
  BY <1>1, <1>2, <1>3, <1>5, <1>6

(* Types, and a candle is closed only if there is one (TypeOK).            *)
THEOREM TypeCorrect == Spec => []TypeOK
<1>1. Init => TypeOK
  BY MarketAssumption DEF Init, TypeOK, NoTick, NoCandle, Labels, Candle
<1>2. TypeOK /\ [Next]_vars => TypeOK'
  <2> SUFFICES ASSUME TypeOK, [Next]_vars PROVE TypeOK'
    OBVIOUS
  <2>0. /\ now \in Nat /\ faults \in Nat /\ restarts \in Nat /\ latestPrice \in Nat
        /\ rows \in [DOMAIN rows -> Candle] /\ DOMAIN rows \subseteq Nat
        /\ taken \in Seq(Nat) /\ Prices \subseteq Nat
        /\ tick \in [price : Nat, minute : Nat]
        /\ candle \in [start : Nat, open : Nat, high : Nat, low : Nat,
                       close : Nat, trades : Nat]
    BY MarketAssumption DEF TypeOK
  <2>1. CASE Start
    <3>0. PICK minutes \in SUBSET (1..Minute(now)) :
            \E candles \in [minutes -> History] : rows' = Merged(candles)
      BY <2>1 DEF Start
    <3>1. PICK candles \in [minutes -> History] : rows' = Merged(candles)
      BY <3>0
    <3>2. /\ minutes \subseteq Nat /\ DOMAIN candles = minutes
          /\ candles \in [DOMAIN candles -> Candle]
      BY <2>0, HistoryType
    <3>3. rows' \in [DOMAIN rows' -> Candle] /\ DOMAIN rows' \subseteq Nat
      BY <2>0, <3>1, <3>2, Upsert
    <3> QED
      BY <2>1, <3>3 DEF Start, TypeOK, Labels
  <2>2. ASSUME NEW price \in Prices, Poll(price) PROVE TypeOK'
    BY <2>0, <2>2, MinuteOf DEF Poll, TypeOK, Labels
  <2>3. CASE TickEmitted
    <3>1. CASE OpenCandle
      BY <2>0, <2>3, <3>1 DEF OpenCandle, TickEmitted, TypeOK, Labels
    <3>2. CASE ExtendCandle
      <4> DEFINE high == GreaterOf(candle.high, tick.price)
                 low == LesserOf(candle.low, tick.price)
                 close == tick.price
                 trades == candle.trades + 1
      <4>1. high \in Nat /\ low \in Nat /\ close \in Nat /\ trades \in Nat
        BY <2>0 DEF GreaterOf, LesserOf
      <4>2. candle' = [candle EXCEPT !.high = high, !.low = low,
                                     !.close = close, !.trades = trades]
        BY <3>2 DEF ExtendCandle
      <4>3. taken' \in Seq(Nat) /\ pc' = "current"
        BY <2>0, <3>2 DEF ExtendCandle
      <4> HIDE DEF high, low, close, trades
      <4>4. candle' \in [start : Nat, open : Nat, high : Nat, low : Nat,
                         close : Nat, trades : Nat]
        BY <2>0, <4>1, <4>2
      <4> QED
        BY <2>0, <2>3, <4>3, <4>4 DEF TickEmitted, TypeOK, Labels
    <3>3. CASE candle.start # 0 /\ pc' = "store" /\ UNCHANGED <<candle, taken>>
      BY <2>0, <2>3, <3>3 DEF TickEmitted, TypeOK, Labels
    <3> QED
      BY <2>3, <3>1, <3>2, <3>3 DEF TickEmitted
  <2>4. CASE CandleStored
    BY <2>0, <2>4, UpsertCurrent DEF CandleStored, TypeOK, Labels
  <2>5. CASE CandlePublished
    BY <2>0, <2>5 DEF CandlePublished, OpenCandle, TypeOK, Labels
  <2>6. CASE CurrentSaved
    BY <2>6 DEF CurrentSaved, TypeOK, Labels
  <2>7. CASE PollFailed
    BY <2>0, <2>7, UpsertCurrent DEF PollFailed, TypeOK, Labels
  <2>8. CASE Restart
    BY <2>0, <2>8 DEF Restart, NoTick, NoCandle, TypeOK, Labels
  <2>9. CASE Tick
    BY <2>9 DEF Tick, memory, TypeOK
  <2>10. CASE UNCHANGED vars
    BY <2>10 DEF vars, memory, TypeOK
  <2> QED
    BY <2>1, <2>2, <2>3, <2>4, <2>5, <2>6, <2>7, <2>8, <2>9, <2>10 DEF Next, Continue
<1> QED
  BY <1>1, <1>2, PTL DEF Spec

-----------------------------------------------------------------------------
(* A new candle is the fold of the price in hand.                          *)
LEMMA OpenedIsFold ==
    ASSUME TypeOK, OpenCandle PROVE CandleIsFold'
<1>1. tick.price \in Nat
  BY DEF TypeOK
<1>2. taken' = <<tick.price>> /\ DOMAIN taken' = {1} /\ Len(taken') = 1
      /\ taken'[1] = tick.price
  BY DEF OpenCandle
<1>3. /\ candle'.open = tick.price /\ candle'.high = tick.price
      /\ candle'.low = tick.price /\ candle'.close = tick.price
      /\ candle'.trades = 0
  BY DEF OpenCandle
<1> QED
  BY <1>1, <1>2, <1>3 DEF CandleIsFold

(* One more price extends the fold.                                        *)
LEMMA ExtendedIsFold ==
    ASSUME TypeOK, CandleIsFold, ExtendCandle PROVE CandleIsFold'
<1> DEFINE price == tick.price
           n == Len(taken)
<1>1. /\ price \in Nat /\ candle.high \in Nat /\ candle.low \in Nat
      /\ candle.trades \in Nat /\ taken \in Seq(Nat) /\ n \in Nat
  BY DEF TypeOK
<1>2. /\ candle'.start = candle.start
      /\ candle'.open = candle.open
      /\ candle'.high = GreaterOf(candle.high, price)
      /\ candle'.low = LesserOf(candle.low, price)
      /\ candle'.close = price
      /\ candle'.trades = candle.trades + 1
  BY DEF ExtendCandle, TypeOK
<1>3. /\ Len(taken') = n + 1
      /\ DOMAIN taken' = 1..(n + 1) /\ DOMAIN taken = 1..n
      /\ taken'[n + 1] = price
      /\ \A i \in 1..n : taken'[i] = taken[i]
  BY <1>1 DEF ExtendCandle
<1> SUFFICES ASSUME candle.start # 0 PROVE CandleIsFold'
  BY <1>2 DEF CandleIsFold
<1>4. /\ n >= 1 /\ 1 \in 1..n
      /\ candle.open = taken[1]
      /\ \E i \in 1..n : candle.high = taken[i]
      /\ \E i \in 1..n : candle.low = taken[i]
      /\ \A i \in 1..n : candle.low <= taken[i] /\ taken[i] <= candle.high
      /\ candle.trades = n - 1
  <2>1. taken # <<>> /\ DOMAIN taken = 1..n
    BY <1>1 DEF CandleIsFold
  <2>2. n >= 1
    BY <1>1, <2>1
  <2>3. /\ candle.high \in {taken[i] : i \in 1..n}
        /\ candle.low \in {taken[i] : i \in 1..n}
        /\ \A i \in 1..n : candle.low <= taken[i] /\ taken[i] <= candle.high
        /\ candle.open = taken[1] /\ candle.trades = n - 1
    BY <2>1 DEF CandleIsFold
  <2>4. n \in Nat
    BY <1>1
  <2> HIDE DEF n
  <2>5. 1 \in 1..n
    BY <2>2, <2>4
  <2>6. /\ \E i \in 1..n : candle.high = taken[i]
        /\ \E i \in 1..n : candle.low = taken[i]
    BY <2>3
  <2> QED
    BY <2>2, <2>3, <2>5, <2>6
<1> HIDE DEF price, n
<1>5. /\ taken' # <<>>
      /\ candle'.open = taken'[1]
      /\ candle'.close = taken'[Len(taken')]
      /\ candle'.trades = Len(taken') - 1
  BY <1>1, <1>2, <1>3, <1>4
<1>6. \E i \in 1..(n + 1) : candle'.high = taken'[i]
  BY <1>1, <1>2, <1>3, <1>4 DEF GreaterOf
<1>7. \E i \in 1..(n + 1) : candle'.low = taken'[i]
  BY <1>1, <1>2, <1>3, <1>4 DEF LesserOf
<1>8. ASSUME NEW i \in 1..(n + 1)
      PROVE  candle'.low <= taken'[i] /\ taken'[i] <= candle'.high
  <2>1. CASE i = n + 1
    BY <1>1, <1>2, <1>3, <2>1 DEF LesserOf, GreaterOf
  <2>2. CASE i \in 1..n
    <3>1. taken'[i] = taken[i] /\ taken[i] \in Nat
      BY <1>1, <1>3, <2>2
    <3>2. candle.low <= taken[i] /\ taken[i] <= candle.high
      BY <1>4, <2>2
    <3> QED
      BY <1>1, <1>2, <3>1, <3>2 DEF LesserOf, GreaterOf
  <2> QED
    BY <1>1, <2>1, <2>2
<1> QED
  BY <1>3, <1>5, <1>6, <1>7, <1>8 DEF CandleIsFold

(* The candle in memory is the fold of the prices polled in its minute     *)
(* (CandleIsFold), whatever fails.                                         *)
THEOREM CandleFolds == Spec => []CandleIsFold
<1>1. Init => CandleIsFold
  BY DEF Init, NoCandle, CandleIsFold
<1>2. TypeOK /\ CandleIsFold /\ [Next]_vars => CandleIsFold'
  <2> SUFFICES ASSUME TypeOK, CandleIsFold, [Next]_vars PROVE CandleIsFold'
    OBVIOUS
  <2>1. CASE OpenCandle
    BY <2>1, OpenedIsFold
  <2>2. CASE ExtendCandle
    BY <2>2, ExtendedIsFold
  <2>3. CASE UNCHANGED <<candle, taken>>
    BY <2>3 DEF CandleIsFold
  <2>4. CASE Restart
    BY <2>4 DEF Restart, NoCandle, CandleIsFold
  <2> QED
    BY <2>1, <2>2, <2>3, <2>4
    DEF Next, Continue, Start, Poll, TickEmitted, CandleStored, CandlePublished,
        CurrentSaved, PollFailed, Tick, vars, memory
<1> QED
  BY <1>1, <1>2, TypeCorrect, PTL DEF Spec

(* The close of a stored candle is in its range (ClosesInRange), because   *)
(* _store_candles replaces it together with the range.                     *)
THEOREM ClosesStayInRange == Spec => []ClosesInRange
<1>1. Init => ClosesInRange
  BY DEF Init, ClosesInRange
<1>2. TypeOK /\ CandleIsFold /\ ClosesInRange /\ [Next]_vars => ClosesInRange'
  <2> SUFFICES ASSUME TypeOK, CandleIsFold, ClosesInRange, [Next]_vars
               PROVE  ClosesInRange'
    OBVIOUS
  <2>0. DOMAIN rows \subseteq Nat /\ rows \in [DOMAIN rows -> Candle]
    BY DEF TypeOK
  <2>1. CASE Start
    <3>1. PICK minutes \in SUBSET (1..Minute(now)) :
            \E candles \in [minutes -> History] : rows' = Merged(candles)
      BY <2>1 DEF Start
    <3>2. PICK candles \in [minutes -> History] : rows' = Merged(candles)
      BY <3>1
    <3>3. /\ minutes \subseteq Nat /\ DOMAIN candles = minutes
          /\ candles \in [DOMAIN candles -> Candle]
          /\ \A m \in minutes : candles[m] \in Candle /\ InRange(candles[m])
      BY HistoryType DEF TypeOK
    <3>4. /\ DOMAIN Merged(candles) = DOMAIN rows \cup minutes
          /\ \A m \in minutes :
               \E open \in Nat : Merged(candles)[m] = [candles[m] EXCEPT !.open = open]
          /\ \A m \in DOMAIN rows \ minutes : Merged(candles)[m] = rows[m]
      BY <2>0, <3>3, Upsert
    <3>5. \A m \in minutes : InRange(Merged(candles)[m])
      BY <3>3, <3>4 DEF InRange, Candle
    <3> QED
      BY <3>2, <3>4, <3>5 DEF ClosesInRange
  <2>2. CASE rows' = MergedCandle /\ pc = "store"
    <3>1. Row(candle) \in Candle /\ InRange(Row(candle))
      <4>1. /\ candle.start # 0 /\ taken \in Seq(Nat)
            /\ candle.low \in Nat /\ candle.high \in Nat
        BY <2>2 DEF TypeOK
      <4>2. Len(taken) \in DOMAIN taken
        BY <4>1 DEF CandleIsFold
      <4>3. candle.low <= candle.close /\ candle.close <= candle.high
        BY <4>1, <4>2 DEF CandleIsFold
      <4> QED
        BY <4>3, UpsertCurrent DEF InRange, Row
    <3>2. PICK open \in Nat : rows'[candle.start] = [Row(candle) EXCEPT !.open = open]
      BY <2>2, UpsertCurrent
    <3>3. InRange(rows'[candle.start])
      BY <3>1, <3>2 DEF InRange, Candle
    <3> QED
      BY <2>2, <3>3, UpsertCurrent DEF ClosesInRange
  <2>3. CASE rows' = rows
    BY <2>3 DEF ClosesInRange
  <2> QED
    BY <2>1, <2>2, <2>3
    DEF Next, Continue, Poll, TickEmitted, CandleStored, CandlePublished,
        CurrentSaved, PollFailed, Restart, Tick, vars, memory
<1> QED
  BY <1>1, <1>2, TypeCorrect, CandleFolds, PTL DEF Spec

-----------------------------------------------------------------------------
Agrees(row) == [row EXCEPT !.open = candle.open] = Row(candle)

(* While a closed candle is announced, it is in the database: why the      *)
(* minute may be left afterwards.                                          *)
ClosedIsStored ==
    pc = "publish" => candle.start \in DOMAIN rows /\ Agrees(rows[candle.start])

(* ClosedIsStored holds in every state: nothing writes the table or the    *)
(* candle between the store and the announcement (_accumulate_candle).     *)
LEMMA AnnouncedIsStored == Spec => []ClosedIsStored
<1>1. Init => ClosedIsStored
  BY DEF Init, ClosedIsStored
<1>2. TypeOK /\ ClosedIsStored /\ [Next]_vars => ClosedIsStored'
  <2> SUFFICES ASSUME TypeOK, ClosedIsStored, [Next]_vars PROVE ClosedIsStored'
    OBVIOUS
  <2>1. CASE CandleStored
    <3>1. PICK open \in Nat : rows'[candle.start] = [Row(candle) EXCEPT !.open = open]
      BY <2>1, UpsertCurrent DEF CandleStored
    <3>2. [rows'[candle.start] EXCEPT !.open = candle.open] = Row(candle)
      <4>1. rows'[candle.start] =
              [open |-> open, high |-> candle.high, low |-> candle.low,
               close |-> candle.close, trades |-> candle.trades]
        BY <3>1 DEF Row
      <4> QED
        BY <4>1 DEF Row
    <3>3. candle.start \in DOMAIN rows'
      BY <2>1, UpsertCurrent DEF CandleStored
    <3> QED
      BY <2>1, <3>2, <3>3 DEF CandleStored, ClosedIsStored, Agrees, Row
  <2>2. CASE UNCHANGED <<pc, candle, rows>>
    BY <2>2 DEF ClosedIsStored, Agrees, Row
  <2>3. CASE pc' # "publish"
    BY <2>3 DEF ClosedIsStored
  <2> QED
    BY <2>1, <2>2, <2>3
    DEF Next, Continue, Start, Poll, TickEmitted, OpenCandle, ExtendCandle,
        CandlePublished, CurrentSaved, PollFailed, Restart, Tick, vars, memory
<1> QED
  BY <1>1, <1>2, TypeCorrect, PTL DEF Spec

(* A running process leaves a minute only when its candle is stored        *)
(* (MinuteKept): only the end of an announcement replaces a candle.        *)
THEOREM MinutesKept == Spec => MinuteKept
<1>1. ASSUME ClosedIsStored, Next, ~Restart,
             candle.start # 0, candle'.start # candle.start
      PROVE  candle.start \in DOMAIN rows /\ Agrees(rows[candle.start])
  <2>1. CASE CandlePublished
    BY <1>1, <2>1 DEF CandlePublished, ClosedIsStored
  <2>2. CASE ~CandlePublished
    <3>1. CASE ExtendCandle
      BY <1>1, <3>1 DEF ExtendCandle
    <3>2. CASE ~ExtendCandle
      BY <1>1, <2>2, <3>2
      DEF Next, Continue, Start, Poll, TickEmitted, CandleStored, CurrentSaved,
          PollFailed, Tick, memory
    <3> QED
      BY <3>1, <3>2
  <2> QED
    BY <2>1, <2>2
<1>2. ClosedIsStored /\ [Next]_vars =>
        [(candle.start # 0 /\ candle'.start # candle.start /\ ~Restart) =>
           /\ candle.start \in DOMAIN rows
           /\ [rows[candle.start] EXCEPT !.open = candle.open] = Row(candle)]_vars
  BY <1>1 DEF vars, Agrees
<1> QED
  BY <1>2, AnnouncedIsStored, PTL DEF Spec, MinuteKept

(* The price in hand is the last one, from the poll to the candle.         *)
PriceInHand ==
    /\ now >= MinuteLength
    /\ pc = "start" => latestPrice = 0
    /\ faults = 0 /\ pc \in {"tick", "store", "publish"} =>
         tick.price = latestPrice /\ tick.minute # 0
    /\ faults = 0 /\ pc = "current" =>
         candle.start # 0 /\ candle.close = latestPrice

(* As long as no poll failed, the last price is in the candle whenever the *)
(* loop sleeps (LastPollCounts).                                           *)
THEOREM LastPollsCount == Spec => []LastPollCounts
<1> DEFINE Inv == PriceInHand /\ LastPollCounts
<1>1. Init => Inv
  BY MarketAssumption DEF Init, PriceInHand, LastPollCounts
<1>2. TypeOK /\ Inv /\ [Next]_vars => Inv'
  <2> SUFFICES ASSUME TypeOK, Inv, [Next]_vars PROVE Inv'
    OBVIOUS
  <2>0. MinuteLength \in Nat /\ now \in Nat /\ faults \in Nat
    BY MarketAssumption DEF TypeOK
  <2>1. CASE Start
    BY <2>0, <2>1 DEF Start, PriceInHand, LastPollCounts
  <2>2. ASSUME NEW price \in Prices, Poll(price) PROVE Inv'
    <3>1. Minute(now) # 0
      BY <2>0, MinuteOf DEF PriceInHand
    <3> QED
      BY <2>0, <2>2, <3>1 DEF Poll, PriceInHand, LastPollCounts
  <2>3. CASE TickEmitted
    <3>0. UNCHANGED <<now, tick, latestPrice, faults>> /\ pc = "tick"
      BY <2>3 DEF TickEmitted
    <3>1. CASE OpenCandle
      BY <2>0, <3>0, <3>1 DEF OpenCandle, PriceInHand, LastPollCounts
    <3>2. CASE ExtendCandle /\ candle.start = tick.minute
      <4>1. candle'.start = tick.minute /\ candle'.close = tick.price
        BY <3>2 DEF ExtendCandle, TypeOK
      <4> QED
        BY <2>0, <3>0, <3>2, <4>1 DEF ExtendCandle, PriceInHand, LastPollCounts
    <3>3. CASE pc' = "store" /\ UNCHANGED candle
      BY <2>0, <3>0, <3>3 DEF PriceInHand, LastPollCounts
    <3> QED
      BY <2>3, <3>1, <3>2, <3>3 DEF TickEmitted
  <2>4. CASE CandleStored
    BY <2>0, <2>4 DEF CandleStored, PriceInHand, LastPollCounts
  <2>5. CASE CandlePublished
    BY <2>0, <2>5 DEF CandlePublished, OpenCandle, PriceInHand, LastPollCounts
  <2>6. CASE CurrentSaved
    BY <2>0, <2>6 DEF CurrentSaved, PriceInHand, LastPollCounts
  <2>7. CASE PollFailed
    BY <2>0, <2>7 DEF PollFailed, PriceInHand, LastPollCounts
  <2>8. CASE Restart
    BY <2>0, <2>8 DEF Restart, PriceInHand, LastPollCounts
  <2>9. CASE Tick
    BY <2>0, <2>9 DEF Tick, memory, PriceInHand, LastPollCounts
  <2>10. CASE UNCHANGED vars
    BY <2>10 DEF vars, memory, PriceInHand, LastPollCounts
  <2> QED
    BY <2>1, <2>2, <2>3, <2>4, <2>5, <2>6, <2>7, <2>8, <2>9, <2>10 DEF Next, Continue
<1> QED
  BY <1>1, <1>2, TypeCorrect, PTL DEF Spec
=============================================================================
