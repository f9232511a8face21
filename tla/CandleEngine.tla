---------------------------- MODULE CandleEngine ----------------------------
(***************************************************************************)
(* The candle engine (app/market/candle_engine.py): once a round it folds  *)
(* the price of each symbol in market_state into one open candle per       *)
(* timeframe, and hands a finished candle to market_state.candles          *)
(* (app/market/market_state.py).                                           *)
(*                                                                         *)
(* The round reads the clock once and awaits a broadcast after each        *)
(* symbol: the prices of later symbols are newer than the time they are    *)
(* booked at.  Writers of prices are MarketFeed's; here any price may come *)
(* at any time.                                                            *)
(***************************************************************************)
EXTENDS Integers, Sequences

CONSTANTS Symbols,     \* SYMBOLS
          Prices,      \* prices market_state may hold
          Timeframes,  \* TIMEFRAMES, labels
          Width,       \* TIMEFRAMES, bucket sizes
          MaxCandles,  \* MAX_CANDLES
          MaxTime      \* bound on the clock

ASSUME PricesAssumption == Prices \subseteq Nat \ {0}
ASSUME WidthAssumption == Width \in [Timeframes -> Nat \ {0}]
ASSUME BoundAssumption == MaxTime \in Nat /\ MaxCandles \in Nat \ {0}

VARIABLES now,     \* time.time(), in seconds
          price,   \* market_state.prices
          todo,    \* symbols the round has still to fold
          tick,    \* now_int of the round
          active,  \* _active: the open candle per symbol and timeframe
          closed   \* market_state.candles

vars == <<now, price, todo, tick, active, closed>>

NoPrice == 0
NoCandle == [time |-> -1, open |-> 0, high |-> 0, low |-> 0, close |-> 0]

Larger(p, q) == IF p > q THEN p ELSE q
Smaller(p, q) == IF p > q THEN q ELSE p

-----------------------------------------------------------------------------
(* _update_candle *)

BucketStart(ts, tf) == ts - (ts % Width[tf])

NewCandle(b, p) == [time |-> b, open |-> p, high |-> p, low |-> p, close |-> p]
LastHigh(c, p) == [c EXCEPT !.high = p, !.low = Smaller(c.low, p), !.close = p]  \* mutant: no max
Folded(c, p) == [c EXCEPT !.high = Larger(c.high, p), !.low = Smaller(c.low, p), !.close = p]

(* A deque of maxlen MAX_CANDLES. *)
Unbounded(cs, c) == Append(cs, c)  \* mutant: a list
AddCandle(cs, c) == IF Len(cs) = MaxCandles THEN Append(Tail(cs), c) ELSE Append(cs, c)

NewSecond(s, tf) == active[s][tf].time # tick  \* mutant: not the bucket's start
RollsOver(s, tf) == active[s][tf].time # BucketStart(tick, tf)

(* start_candle_engine: now_int is read once per round. *)
StartRound ==
  /\ todo = {}
  /\ todo' = Symbols
  /\ tick' = now
  /\ UNCHANGED <<now, price, active, closed>>

FoldTick(s) ==
  /\ s \in todo
  /\ todo' = todo \ {s}
  /\ IF price[s] = NoPrice THEN UNCHANGED <<active, closed>>
     ELSE /\ active' = [active EXCEPT ![s] = [tf \in Timeframes |->
               IF RollsOver(s, tf) THEN NewCandle(BucketStart(tick, tf), price[s])
               ELSE Folded(active[s][tf], price[s])]]
          /\ closed' = [closed EXCEPT ![s] = [tf \in Timeframes |->
               IF RollsOver(s, tf) /\ active[s][tf] # NoCandle
               THEN AddCandle(closed[s][tf], active[s][tf]) ELSE closed[s][tf]]]
  /\ UNCHANGED <<now, price, tick>>

-----------------------------------------------------------------------------
(* The environment *)

UpdatePrice(s, p) ==
  /\ price' = [price EXCEPT ![s] = p]
  /\ UNCHANGED <<now, todo, tick, active, closed>>

Clock ==
  /\ now < MaxTime
  /\ now' = now + 1
  /\ UNCHANGED <<price, todo, tick, active, closed>>

Init ==
  /\ now = 0
  /\ price = [s \in Symbols |-> NoPrice]
  /\ todo = {}
  /\ tick = 0
  /\ active = [s \in Symbols |-> [tf \in Timeframes |-> NoCandle]]
  /\ closed = [s \in Symbols |-> [tf \in Timeframes |-> <<>>]]

Next ==
  \/ StartRound
  \/ \E s \in Symbols : FoldTick(s)
  \/ \E s \in Symbols, p \in Prices : UpdatePrice(s, p)
  \/ Clock

Spec == Init /\ [][Next]_vars

-----------------------------------------------------------------------------
(* Properties *)

Candle == [time : Nat, open : Prices, high : Prices, low : Prices, close : Prices]

TypeOK ==
  /\ now \in Nat
  /\ price \in [Symbols -> Prices \cup {NoPrice}]
  /\ todo \in SUBSET Symbols
  /\ tick \in Nat
  /\ active \in [Symbols -> [Timeframes -> Candle \cup {NoCandle}]]
  /\ closed \in [Symbols -> [Timeframes -> Seq(Candle)]]
  /\ \A s \in Symbols, tf \in Timeframes : Len(closed[s][tf]) <= MaxCandles

(* One candle per bucket (candle_engine.py:64): the closed candles of a     *)
(* timeframe and its open one are of different buckets, in order of time,   *)
(* although the tick lags behind the clock.                                 *)
OneCandlePerBucket ==
  \A s \in Symbols, tf \in Timeframes :
    LET cs == closed[s][tf]
    IN /\ \A i, j \in 1..Len(cs) : i < j => cs[i].time < cs[j].time
       /\ \A i \in 1..Len(cs) : cs[i].time < active[s][tf].time

(* The timeframes tell one story (candle_engine.py:96): the open candle of  *)
(* a wide timeframe is what the candles of a narrow one in its bucket add   *)
(* up to, over roll-overs of the narrow one, while MAX_CANDLES of them      *)
(* reach back that far.                                                     *)
NestedCandlesAgree ==
  \A s \in Symbols, wide, narrow \in Timeframes :
    LET w == active[s][wide]
        cs == Append(closed[s][narrow], active[s][narrow])
        inside == {i \in 1..Len(cs) : cs[i].time >= w.time}
    IN (/\ w # NoCandle
        /\ Width[wide] % Width[narrow] = 0
        /\ Width[wide] <= MaxCandles * Width[narrow]) =>
         /\ w.close = active[s][narrow].close
         /\ \E i \in inside : w.open = cs[i].open /\ \A j \in inside : i <= j
         /\ \E i \in inside : w.high = cs[i].high /\ \A j \in inside : w.high >= cs[j].high
         /\ \E i \in inside : w.low = cs[i].low /\ \A j \in inside : w.low <= cs[j].low
=============================================================================
