------------------------- MODULE CandleEngineProofs -------------------------
(***************************************************************************)
(* What CandleEngine keeps true for every set of symbols, timeframes,      *)
(* bucket widths and prices, for any length of the candle history and      *)
(* however long it runs.                                                   *)
(***************************************************************************)
EXTENDS CandleEngine, TLAPS

(* No candle is of a later bucket than the round's tick, which lags behind  *)
(* the clock: with it a roll-over always opens a later bucket.              *)
NoCandleAhead ==
  /\ tick <= now
  /\ \A s \in Symbols, tf \in Timeframes : active[s][tf].time <= BucketStart(tick, tf)

IInv == TypeOK /\ NoCandleAhead /\ OneCandlePerBucket

Ordered(cs) == \A i, j \in 1..Len(cs) : i < j => cs[i].time < cs[j].time
Before(cs, t) == \A i \in 1..Len(cs) : cs[i].time < t

(* A bucket starts at or before its seconds, and later seconds are in the   *)
(* same bucket or a later one (candle_engine.py:50).                        *)
LEMMA BucketsAreOrdered ==
  ASSUME NEW tf \in Timeframes, NEW a \in Nat, NEW b \in Nat, a <= b
  PROVE  /\ BucketStart(a, tf) \in Nat
         /\ BucketStart(a, tf) <= BucketStart(b, tf)
<1> DEFINE w == Width[tf]
<1>1. w \in Nat /\ w > 0
  BY WidthAssumption
<1> HIDE DEF w
<1>2. a % w \in 0..(w - 1) /\ a % w <= a
  BY <1>1
<1>3. a - (a % w) <= b - (b % w)
  BY <1>1
<1> QED BY <1>1, <1>2, <1>3 DEF BucketStart, w

(* The history is a queue: what it keeps stays in order, and nothing in it  *)
(* is later than the candle that was added.                                 *)
LEMMA HistoryStaysOrdered ==
  ASSUME NEW cs \in Seq(Candle), NEW c \in Candle, NEW t \in Nat,
         Len(cs) <= MaxCandles, Ordered(cs), Before(cs, c.time), c.time < t
  PROVE  /\ AddCandle(cs, c) \in Seq(Candle)
         /\ Len(AddCandle(cs, c)) <= MaxCandles
         /\ Ordered(AddCandle(cs, c)) /\ Before(AddCandle(cs, c), t)
<1>1. c.time \in Nat /\ \A i \in 1..Len(cs) : cs[i].time \in Nat
  <2>1. \A d \in Candle : d.time \in Nat
    BY DEF Candle
  <2>2. \A i \in 1..Len(cs) : cs[i] \in Candle
    OBVIOUS
  <2> QED BY <2>1, <2>2
<1>2. MaxCandles \in Nat \ {0}
  BY BoundAssumption
<1>3. CASE Len(cs) = MaxCandles
  <2> DEFINE ds == Append(Tail(cs), c)
  <2>1. cs # <<>> /\ Len(cs) \in Nat \ {0}
    BY <1>2, <1>3
  <2>2. /\ ds \in Seq(Candle) /\ Len(ds) = Len(cs)
        /\ \A i \in 1..Len(ds) : ds[i] = IF i = Len(ds) THEN c ELSE cs[i + 1]
    BY <2>1
  <2>3. AddCandle(cs, c) = ds
    BY <1>3 DEF AddCandle
  <2> HIDE DEF ds
  <2>4. Ordered(ds)
    <3> SUFFICES ASSUME NEW i \in 1..Len(ds), NEW j \in 1..Len(ds), i < j
                 PROVE  ds[i].time < ds[j].time
      BY DEF Ordered
    <3>1. i + 1 \in 1..Len(cs) /\ ds[i] = cs[i + 1]
      BY <2>1, <2>2
    <3>2. CASE j = Len(ds)
      BY <2>2, <3>1, <3>2 DEF Before
    <3>3. CASE j # Len(ds)
      <4>1. j + 1 \in 1..Len(cs) /\ i + 1 < j + 1 /\ ds[j] = cs[j + 1]
        BY <2>1, <2>2, <3>3
      <4> QED BY <3>1, <4>1 DEF Ordered
    <3> QED BY <3>2, <3>3
  <2>5. Before(ds, t)
    <3> SUFFICES ASSUME NEW i \in 1..Len(ds)
                 PROVE  ds[i].time < t
      BY DEF Before
    <3>1. CASE i = Len(ds)
      BY <2>2, <3>1
    <3>2. CASE i # Len(ds)
      <4>1. i + 1 \in 1..Len(cs) /\ ds[i] = cs[i + 1]
        BY <2>1, <2>2, <3>2
      <4>2. cs[i + 1].time < c.time /\ cs[i + 1].time \in Nat /\ c.time \in Nat
        BY <1>1, <4>1 DEF Before
      <4> QED BY <4>1, <4>2
    <3> QED BY <3>1, <3>2
  <2> QED BY <1>3, <2>2, <2>3, <2>4, <2>5
<1>4. CASE Len(cs) # MaxCandles
  <2> DEFINE ds == Append(cs, c)
  <2>1. /\ ds \in Seq(Candle) /\ Len(ds) = Len(cs) + 1 /\ Len(cs) \in Nat
        /\ \A i \in 1..Len(ds) : ds[i] = IF i = Len(ds) THEN c ELSE cs[i]
    OBVIOUS
  <2>2. AddCandle(cs, c) = ds
    BY <1>4 DEF AddCandle
  <2> HIDE DEF ds
  <2>3. Ordered(ds)
    <3> SUFFICES ASSUME NEW i \in 1..Len(ds), NEW j \in 1..Len(ds), i < j
                 PROVE  ds[i].time < ds[j].time
      BY DEF Ordered
    <3>1. i \in 1..Len(cs) /\ ds[i] = cs[i]
      BY <2>1
    <3>2. CASE j = Len(ds)
      BY <2>1, <3>1, <3>2 DEF Before
    <3>3. CASE j # Len(ds)
      <4>1. j \in 1..Len(cs) /\ ds[j] = cs[j]
        BY <2>1, <3>3
      <4> QED BY <3>1, <4>1 DEF Ordered
    <3> QED BY <3>2, <3>3
  <2>4. Before(ds, t)
    <3> SUFFICES ASSUME NEW i \in 1..Len(ds)
                 PROVE  ds[i].time < t
      BY DEF Before
    <3>1. CASE i = Len(ds)
      BY <2>1, <3>1
    <3>2. CASE i # Len(ds)
      <4>1. i \in 1..Len(cs) /\ ds[i] = cs[i]
        BY <2>1, <3>2
      <4>2. cs[i].time < c.time /\ cs[i].time \in Nat /\ c.time \in Nat
        BY <1>1, <4>1 DEF Before
      <4> QED BY <4>1, <4>2
    <3> QED BY <3>1, <3>2
  <2> QED BY <1>2, <1>4, <2>1, <2>2, <2>3, <2>4
<1> QED BY <1>3, <1>4

(* Folding a price into a candle keeps it a candle of its bucket.           *)
LEMMA FoldedIsCandle ==
  ASSUME NEW c \in Candle, NEW p \in Prices
  PROVE  Folded(c, p) \in Candle /\ Folded(c, p).time = c.time
BY DEF Folded, Larger, Smaller, Candle

LEMMA InitIInv == Init => IInv
<1> SUFFICES ASSUME Init PROVE IInv
  OBVIOUS
<1>1. TypeOK
  BY BoundAssumption DEF Init, TypeOK
<1>2. NoCandleAhead
  <2> SUFFICES ASSUME NEW s \in Symbols, NEW tf \in Timeframes
               PROVE  active[s][tf].time <= BucketStart(tick, tf)
    BY DEF Init, NoCandleAhead
  <2>1. active[s][tf].time = -1 /\ tick \in Nat
    BY DEF Init, NoCandle
  <2> QED BY <2>1, BucketsAreOrdered
<1>3. OneCandlePerBucket
  BY DEF Init, OneCandlePerBucket
<1> QED BY <1>1, <1>2, <1>3 DEF IInv

LEMMA StartRoundStep == ASSUME IInv, StartRound PROVE IInv'
<1> USE DEF IInv, StartRound
<1>1. TypeOK'
  BY DEF TypeOK
<1>2. NoCandleAhead'
  <2>1. now \in Nat /\ tick \in Nat /\ tick <= now /\ tick' = now /\ now' = now
    BY DEF TypeOK, NoCandleAhead
  <2> SUFFICES ASSUME NEW s \in Symbols, NEW tf \in Timeframes
               PROVE  (active[s][tf].time <= BucketStart(tick, tf))'
    BY <2>1 DEF NoCandleAhead
  <2>2. active[s][tf].time <= BucketStart(tick, tf) /\ active[s][tf].time \in Int
    BY DEF NoCandleAhead, TypeOK, Candle, NoCandle
  <2>3. BucketStart(tick, tf) <= BucketStart(now, tf) /\ BucketStart(tick, tf) \in Nat
    BY <2>1, BucketsAreOrdered
  <2>4. BucketStart(now, tf) \in Nat
    BY <2>1, BucketsAreOrdered
  <2>5. active'[s][tf].time = active[s][tf].time /\ BucketStart(tick, tf)' = BucketStart(now, tf)
    BY <2>1 DEF BucketStart
  <2> QED BY <2>2, <2>3, <2>4, <2>5
<1>3. OneCandlePerBucket'
  BY DEF OneCandlePerBucket
<1> QED BY <1>1, <1>2, <1>3

(* What the fold of one symbol does to one of its timeframes.               *)
LEMMA FoldOneTimeframe ==
  ASSUME IInv, NEW s \in Symbols, s \in todo, FoldTick(s), price[s] # NoPrice,
         NEW tf \in Timeframes
  PROVE  /\ active'[s][tf] \in Candle
         /\ active'[s][tf].time <= BucketStart(tick, tf)
         /\ closed'[s][tf] \in Seq(Candle) /\ Len(closed'[s][tf]) <= MaxCandles
         /\ Ordered(closed'[s][tf]) /\ Before(closed'[s][tf], active'[s][tf].time)
<1> DEFINE a == active[s][tf]
           cs == closed[s][tf]
           b == BucketStart(tick, tf)
           p == price[s]
<1>1. /\ p \in Prices /\ tick \in Nat /\ b \in Nat
      /\ a \in Candle \cup {NoCandle} /\ cs \in Seq(Candle) /\ Len(cs) <= MaxCandles
  BY BucketsAreOrdered DEF IInv, TypeOK
<1>2. a.time <= b /\ Ordered(cs) /\ Before(cs, a.time)
  BY DEF IInv, NoCandleAhead, OneCandlePerBucket, Ordered, Before
<1>3. /\ active'[s][tf] = IF RollsOver(s, tf) THEN NewCandle(b, p) ELSE Folded(a, p)
      /\ closed'[s][tf] = IF RollsOver(s, tf) /\ a # NoCandle THEN AddCandle(cs, a) ELSE cs
  BY DEF FoldTick, IInv, TypeOK
<1>4. a.time \in Int /\ (a = NoCandle => a.time = -1) /\ (a \in Candle => a.time \in Nat)
  BY <1>1 DEF Candle, NoCandle
<1>5. NewCandle(b, p) \in Candle /\ NewCandle(b, p).time = b
  BY <1>1 DEF NewCandle, Candle
<1>6. CASE ~RollsOver(s, tf)
  <2>1. a.time = b
    BY <1>6 DEF RollsOver
  <2>2. a \in Candle
    BY <1>1, <1>4, <2>1
  <2>3. Folded(a, p) \in Candle /\ Folded(a, p).time = b
    BY <1>1, <2>1, <2>2, FoldedIsCandle
  <2>4. active'[s][tf] = Folded(a, p) /\ closed'[s][tf] = cs
    BY <1>3, <1>6
  <2>5. active'[s][tf] \in Candle /\ active'[s][tf].time = b /\ a.time = active'[s][tf].time
    BY <2>1, <2>3, <2>4
  <2> QED BY <1>1, <1>2, <2>4, <2>5
<1>7. CASE RollsOver(s, tf)
  <2>1. a.time < b
    BY <1>1, <1>2, <1>4, <1>7 DEF RollsOver
  <2>2. CASE a = NoCandle
    <3>1. Before(cs, b)
      <4> SUFFICES ASSUME NEW i \in 1..Len(cs) PROVE cs[i].time < b
        BY DEF Before
      <4>1. cs[i] \in Candle
        BY <1>1
      <4>2. cs[i].time < a.time /\ cs[i].time \in Nat
        BY <1>2, <4>1 DEF Before, Candle
      <4> QED BY <1>1, <1>4, <2>1, <4>2
    <3>2. active'[s][tf] = NewCandle(b, p) /\ closed'[s][tf] = cs
      BY <1>3, <1>7, <2>2
    <3> QED BY <1>1, <1>2, <1>5, <3>1, <3>2
  <2>3. CASE a \in Candle
    <3>1. a # NoCandle
      BY <1>4, <2>3
    <3>2. /\ AddCandle(cs, a) \in Seq(Candle) /\ Len(AddCandle(cs, a)) <= MaxCandles
          /\ Ordered(AddCandle(cs, a)) /\ Before(AddCandle(cs, a), b)
      BY <1>1, <1>2, <2>1, <2>3, HistoryStaysOrdered
    <3>3. active'[s][tf] = NewCandle(b, p) /\ closed'[s][tf] = AddCandle(cs, a)
      BY <1>3, <1>7, <3>1
    <3> QED BY <1>1, <1>5, <3>2, <3>3
  <2> QED BY <1>1, <2>2, <2>3
<1> QED BY <1>6, <1>7

LEMMA FoldTickStep == ASSUME IInv, NEW s \in Symbols, FoldTick(s) PROVE IInv'
<1>1. CASE price[s] = NoPrice
  <2>1. UNCHANGED <<now, price, tick, active, closed>> /\ todo' = todo \ {s}
    BY <1>1 DEF FoldTick
  <2> QED BY <2>1 DEF IInv, TypeOK, NoCandleAhead, OneCandlePerBucket, BucketStart
<1>2. CASE price[s] # NoPrice
  <2>1. s \in todo /\ todo' = todo \ {s} /\ UNCHANGED <<now, price, tick>>
    BY DEF FoldTick
  <2>2. \A tf \in Timeframes :
          /\ active'[s][tf] \in Candle
          /\ active'[s][tf].time <= BucketStart(tick, tf)
          /\ closed'[s][tf] \in Seq(Candle) /\ Len(closed'[s][tf]) <= MaxCandles
          /\ Ordered(closed'[s][tf]) /\ Before(closed'[s][tf], active'[s][tf].time)
    BY <1>2, <2>1, FoldOneTimeframe
  <2>3. \A u \in Symbols \ {s} : active'[u] = active[u] /\ closed'[u] = closed[u]
    BY <1>2 DEF FoldTick, IInv, TypeOK
  <2>4. /\ active' = [active EXCEPT ![s] = active'[s]] /\ DOMAIN active'[s] = Timeframes
        /\ closed' = [closed EXCEPT ![s] = closed'[s]] /\ DOMAIN closed'[s] = Timeframes
        /\ active'[s] = [tf \in Timeframes |-> active'[s][tf]]
        /\ closed'[s] = [tf \in Timeframes |-> closed'[s][tf]]
    BY <1>2 DEF FoldTick, IInv, TypeOK
  <2>5. TypeOK'
    <3>1. active' \in [Symbols -> [Timeframes -> Candle \cup {NoCandle}]]
      BY <2>2, <2>4 DEF IInv, TypeOK
    <3>2. closed' \in [Symbols -> [Timeframes -> Seq(Candle)]]
      BY <2>2, <2>4 DEF IInv, TypeOK
    <3>3. \A u \in Symbols, tf \in Timeframes : Len(closed'[u][tf]) <= MaxCandles
      BY <2>2, <2>3 DEF IInv, TypeOK
    <3> QED BY <2>1, <3>1, <3>2, <3>3 DEF IInv, TypeOK
  <2>6. NoCandleAhead'
    BY <2>1, <2>2, <2>3 DEF IInv, NoCandleAhead, BucketStart
  <2>7. OneCandlePerBucket'
    BY <2>2, <2>3 DEF IInv, OneCandlePerBucket, Ordered, Before
  <2> QED BY <2>5, <2>6, <2>7 DEF IInv
<1> QED BY <1>1, <1>2

LEMMA UpdatePriceStep ==
  ASSUME IInv, NEW s \in Symbols, NEW p \in Prices, UpdatePrice(s, p) PROVE IInv'
BY DEF IInv, TypeOK, NoCandleAhead, OneCandlePerBucket, BucketStart, UpdatePrice

LEMMA ClockStep == ASSUME IInv, Clock PROVE IInv'
BY DEF IInv, TypeOK, NoCandleAhead, OneCandlePerBucket, BucketStart, Clock

LEMMA StutterStep == ASSUME IInv, UNCHANGED vars PROVE IInv'
BY DEF IInv, TypeOK, NoCandleAhead, OneCandlePerBucket, BucketStart, vars

THEOREM InductiveInvariant == Spec => []IInv
<1>1. Init => IInv
  BY InitIInv
<1>2. IInv /\ [Next]_vars => IInv'
  <2> SUFFICES ASSUME IInv, [Next]_vars PROVE IInv'
    OBVIOUS
  <2> QED BY StartRoundStep, FoldTickStep, UpdatePriceStep, ClockStep, StutterStep DEF Next
<1> QED BY <1>1, <1>2, PTL DEF Spec

(* The engine's state keeps its type, and the history its bound.            *)
THEOREM TypeCorrect == Spec => []TypeOK
<1>1. IInv => TypeOK
  BY DEF IInv
<1> QED BY <1>1, InductiveInvariant, PTL

(* There is never a second candle for a bucket, however far the round's     *)
(* clock lags behind (candle_engine.py:64, 88).                             *)
THEOREM BucketsNeverRepeat == Spec => []OneCandlePerBucket
<1>1. IInv => OneCandlePerBucket
  BY DEF IInv
<1> QED BY <1>1, InductiveInvariant, PTL

-----------------------------------------------------------------------------
(* Buckets of two widths *)

LEMMA Euclid ==
  ASSUME NEW t \in Nat, NEW n \in Nat \ {0}
  PROVE  t \div n \in Nat /\ t % n \in 0..(n - 1) /\ t - (t % n) = n * (t \div n)
OBVIOUS

LEMMA Divides ==
  ASSUME NEW t \in Nat, NEW n \in Nat \ {0}, t % n = 0
  PROVE  t \div n \in Nat /\ t = n * (t \div n)
<1>1. t - (t % n) = n * (t \div n) /\ t \div n \in Nat
  BY Euclid
<1> QED BY <1>1

LEMMA NextMultiple ==
  ASSUME NEW n \in Nat, NEW q \in Nat, NEW r \in Nat, q < r
  PROVE  n * q + n <= n * r
<1>1. PICK d \in Nat : r = q + 1 + d
  <2>1. r - q - 1 \in Nat /\ r = q + 1 + (r - q - 1)
    OBVIOUS
  <2> QED BY <2>1
<1>2. n * r = n * q + n + n * d /\ n * d \in Nat
  BY <1>1
<1> QED BY <1>2

(* A bucket holds its seconds, and another one begins a width away at least. *)
LEMMA BucketsDoNotOverlap ==
  ASSUME NEW tf \in Timeframes, NEW a \in Nat, NEW b \in Nat
  PROVE  /\ BucketStart(a, tf) \in Nat /\ Width[tf] \in Nat \ {0}
         /\ BucketStart(a, tf) <= a /\ a < BucketStart(a, tf) + Width[tf]
         /\ BucketStart(a, tf) < BucketStart(b, tf) =>
              BucketStart(a, tf) + Width[tf] <= BucketStart(b, tf)
<1> DEFINE w == Width[tf]
<1>1. w \in Nat \ {0}
  BY WidthAssumption
<1> HIDE DEF w
<1>2. /\ a \div w \in Nat /\ a % w \in 0..(w - 1) /\ a - (a % w) = w * (a \div w)
      /\ b \div w \in Nat /\ b % w \in 0..(w - 1) /\ b - (b % w) = w * (b \div w)
  BY <1>1, Euclid
<1>3. /\ a - (a % w) \in Nat /\ a - (a % w) <= a /\ a < a - (a % w) + w
  <2> DEFINE q == a \div w
  <2>1. q \in Nat /\ w * q \in Nat
    BY <1>1, <1>2
  <2> QED BY <1>1, <1>2, <2>1
<1>4. ASSUME a - (a % w) < b - (b % w)
      PROVE  a - (a % w) + w <= b - (b % w)
  <2> DEFINE q == a \div w
             r == b \div w
  <2>1. q \in Nat /\ r \in Nat /\ w * q < w * r
    BY <1>2, <1>4
  <2> HIDE DEF q, r
  <2>2. q < r
    <3>1. ASSUME r < q PROVE FALSE
      <4>1. w * r + w <= w * q
        BY <1>1, <2>1, <3>1, NextMultiple
      <4>2. w * q \in Nat /\ w * r \in Nat
        BY <1>1, <2>1
      <4> QED BY <1>1, <2>1, <4>1, <4>2
    <3>2. ASSUME r = q PROVE FALSE
      <4>1. w * q \in Nat
        BY <1>1, <2>1
      <4> QED BY <2>1, <3>2, <4>1
    <3> QED BY <2>1, <3>1, <3>2
  <2>3. w * q + w <= w * r
    BY <1>1, <2>1, <2>2, NextMultiple
  <2> QED BY <1>2, <2>3 DEF q, r
<1> QED BY <1>1, <1>3, <1>4 DEF BucketStart, w

(* A wide bucket that is made of narrow ones holds whole ones: it begins   *)
(* with one of them, and only rolls over when the narrow one does.         *)
LEMMA WideBucketsRollTogether ==
  ASSUME NEW wide \in Timeframes, NEW narrow \in Timeframes,
         Width[wide] % Width[narrow] = 0, NEW a \in Nat, NEW b \in Nat
  PROVE  /\ BucketStart(a, wide) <= BucketStart(a, narrow)
         /\ BucketStart(a, narrow) = BucketStart(b, narrow) =>
              BucketStart(a, wide) = BucketStart(b, wide)
<1>1. ASSUME NEW t \in Nat
      PROVE  BucketStart(t, wide) <= BucketStart(t, narrow)
  <2> DEFINE w == Width[wide]
             n == Width[narrow]
             k == w \div n
             q == t \div w
             r == t \div n
  <2>1. w \in Nat \ {0} /\ n \in Nat \ {0} /\ w % n = 0
    BY WidthAssumption
  <2>2. k \in Nat /\ w = n * k
    BY <2>1, Divides
  <2>3. /\ q \in Nat /\ BucketStart(t, wide) = w * q
        /\ r \in Nat /\ BucketStart(t, narrow) = n * r
    BY <2>1, Euclid DEF BucketStart
  <2>4. w * q <= t /\ t < n * r + n
    BY <2>3, BucketsDoNotOverlap
  <2> HIDE DEF w, n, k, q, r
  <2>5. k * q \in Nat /\ w * q = n * (k * q)
    BY <2>1, <2>2, <2>3
  <2>6. k * q <= r
    <3>1. ASSUME r < k * q PROVE FALSE
      <4>1. n * r + n <= n * (k * q)
        BY <2>1, <2>3, <2>5, <3>1, NextMultiple
      <4>2. n * r \in Nat /\ w * q \in Nat
        BY <2>1, <2>3
      <4> QED BY <2>1, <2>4, <2>5, <4>1, <4>2
    <3> QED BY <2>3, <2>5, <3>1
  <2>7. CASE k * q = r
    BY <2>1, <2>3, <2>5, <2>7
  <2>8. CASE k * q < r
    <3>1. n * (k * q) + n <= n * r
      BY <2>1, <2>3, <2>5, <2>8, NextMultiple
    <3>2. n * r \in Nat /\ n * (k * q) \in Nat
      BY <2>1, <2>3, <2>5
    <3> QED BY <2>1, <2>3, <2>5, <3>1, <3>2
  <2> QED BY <2>3, <2>5, <2>6, <2>7, <2>8
<1>2. ASSUME NEW u \in Nat, NEW v \in Nat, BucketStart(u, narrow) = BucketStart(v, narrow)
      PROVE  ~(BucketStart(u, wide) < BucketStart(v, wide))
  <2>1. BucketStart(v, wide) <= BucketStart(v, narrow)
    BY <1>1
  <2>2. BucketStart(u, narrow) <= u /\ u < BucketStart(u, wide) + Width[wide]
    BY BucketsDoNotOverlap
  <2>3. /\ BucketStart(u, wide) \in Nat /\ BucketStart(v, wide) \in Nat
        /\ BucketStart(u, narrow) \in Nat /\ Width[wide] \in Nat
    BY BucketsDoNotOverlap
  <2>4. ASSUME BucketStart(u, wide) < BucketStart(v, wide)
        PROVE  BucketStart(u, wide) + Width[wide] <= BucketStart(v, wide)
    BY <2>4, BucketsDoNotOverlap
  <2> QED BY <1>2, <2>1, <2>2, <2>3, <2>4
<1>3. /\ BucketStart(a, wide) \in Nat /\ BucketStart(b, wide) \in Nat
  BY BucketsDoNotOverlap
<1> QED BY <1>1, <1>2, <1>3

-----------------------------------------------------------------------------
(* What a candle of a wide timeframe has in common with the narrow ones of *)
(* its bucket.                                                             *)

LEMMA CandleShape ==
  ASSUME NEW c \in Candle
  PROVE  /\ c.time \in Nat /\ c.high \in Int /\ c.low \in Int
         /\ c.open \in Prices /\ c.close \in Prices
<1>1. c.time \in Nat /\ c.high \in Prices /\ c.low \in Prices /\ c.open \in Prices /\ c.close \in Prices
  BY DEF Candle
<1>2. Prices \subseteq Int
  BY PricesAssumption
<1> QED BY <1>1, <1>2

Inside(w, cs) == {i \in 1..Len(cs) : cs[i].time >= w.time}
Tells(w, cs) ==
  /\ w.close = cs[Len(cs)].close
  /\ \E i \in Inside(w, cs) : w.open = cs[i].open /\ \A j \in Inside(w, cs) : i <= j
  /\ \E i \in Inside(w, cs) : w.high = cs[i].high /\ \A j \in Inside(w, cs) : w.high >= cs[j].high
  /\ \E i \in Inside(w, cs) : w.low = cs[i].low /\ \A j \in Inside(w, cs) : w.low <= cs[j].low

(* The first price of a bucket is that of its only narrow candle. *)
LEMMA FirstPriceTells ==
  ASSUME NEW ds \in Seq(Candle), Len(ds) # 0, NEW p \in Prices, NEW b \in Nat, NEW c \in Nat,
         ds[Len(ds)] = NewCandle(c, p), b <= c,
         \A i \in 1..Len(ds) : i # Len(ds) => ds[i].time < b
  PROVE  Tells(NewCandle(b, p), ds)
<1> DEFINE w == NewCandle(b, p)
           n == Len(ds)
<1>1. n \in Nat \ {0} /\ n \in 1..n
  OBVIOUS
<1>2. /\ w.time = b /\ w.open = p /\ w.high = p /\ w.low = p /\ w.close = p
      /\ ds[n].time = c /\ ds[n].open = p /\ ds[n].high = p /\ ds[n].low = p /\ ds[n].close = p
  BY DEF NewCandle
<1>3. \A i \in 1..n : ds[i].time \in Nat
  <2>1. \A i \in 1..n : ds[i] \in Candle
    OBVIOUS
  <2> QED BY <2>1 DEF Candle
<1> HIDE DEF w
<1>4. Inside(w, ds) = {n}
  BY <1>1, <1>2, <1>3 DEF Inside
<1>5. p >= p /\ p <= p
  BY PricesAssumption
<1> QED BY <1>1, <1>2, <1>4, <1>5 DEF Tells, w

(* The same price folded into both, in the same narrow bucket. *)
LEMMA SameNarrowBucketTells ==
  ASSUME NEW cs \in Seq(Candle), NEW ds \in Seq(Candle), NEW w \in Candle, NEW p \in Prices,
         Len(cs) # 0, Len(ds) = Len(cs), cs[Len(cs)].time >= w.time, Tells(w, cs),
         \A i \in 1..Len(ds) : i # Len(ds) => ds[i] = cs[i],
         ds[Len(ds)] = Folded(cs[Len(cs)], p)
  PROVE  Tells(Folded(w, p), ds)
<1> DEFINE n == Len(cs)
           v == Folded(w, p)
           l == cs[n]
           m == ds[n]
<1>1. /\ n \in Nat \ {0} /\ n \in 1..n /\ l \in Candle /\ Len(ds) = n /\ p \in Int
      /\ \A i \in 1..n : cs[i] \in Candle
  BY PricesAssumption
<1>2. \A c \in Candle : /\ c.time \in Nat /\ c.high \in Int /\ c.low \in Int
                        /\ c.open \in Prices /\ c.close \in Prices
  BY CandleShape
<1>3. /\ v.time = w.time /\ v.open = w.open /\ v.close = p
      /\ v.high = Larger(w.high, p) /\ v.low = Smaller(w.low, p)
      /\ m.time = l.time /\ m.open = l.open /\ m.close = p
      /\ m.high = Larger(l.high, p) /\ m.low = Smaller(l.low, p)
  BY <1>1 DEF Folded, Candle
<1>4. \A i \in 1..n : i # n => ds[i] = cs[i]
  BY <1>1
<1> HIDE DEF v, l, m
<1>5. \A i \in 1..n : ds[i].time = cs[i].time /\ ds[i].open = cs[i].open
  BY <1>1, <1>3, <1>4 DEF l, m
<1>6. Inside(v, ds) = Inside(w, cs) /\ n \in Inside(w, cs) /\ Inside(w, cs) \subseteq 1..n
  BY <1>1, <1>3, <1>5 DEF Inside
<1>7. \E i \in Inside(v, ds) : v.open = ds[i].open /\ \A j \in Inside(v, ds) : i <= j
  BY <1>3, <1>5, <1>6 DEF Tells
<1>8. \E i \in Inside(v, ds) : v.high = ds[i].high /\ \A j \in Inside(v, ds) : v.high >= ds[j].high
  <2>1. PICK i \in Inside(w, cs) : w.high = cs[i].high /\ \A j \in Inside(w, cs) : w.high >= cs[j].high
    BY DEF Tells
  <2>2. \A j \in Inside(w, cs) : /\ ds[j].high \in Int /\ cs[j].high \in Int /\ v.high >= ds[j].high
                                 /\ ds[j].high = cs[j].high \/ (j = n /\ ds[j].high = Larger(cs[j].high, p))
    BY <1>1, <1>2, <1>3, <1>4, <1>6, <2>1 DEF Larger, l, m
  <2>3. CASE p > w.high
    <3>1. v.high = p /\ ds[n].high = p
      BY <1>1, <1>2, <1>3, <1>6, <2>1, <2>2, <2>3 DEF Larger, l, m
    <3> QED BY <1>6, <2>2, <3>1
  <2>4. CASE ~(p > w.high)
    <3>1. v.high = w.high /\ ds[i].high = w.high
      BY <1>1, <1>2, <1>3, <1>6, <2>1, <2>2, <2>4 DEF Larger, l, m
    <3> QED BY <1>6, <2>1, <2>2, <3>1
  <2> QED BY <2>3, <2>4
<1>9. \E i \in Inside(v, ds) : v.low = ds[i].low /\ \A j \in Inside(v, ds) : v.low <= ds[j].low
  <2>1. PICK i \in Inside(w, cs) : w.low = cs[i].low /\ \A j \in Inside(w, cs) : w.low <= cs[j].low
    BY DEF Tells
  <2>2. \A j \in Inside(w, cs) : /\ ds[j].low \in Int /\ cs[j].low \in Int /\ v.low <= ds[j].low
                                 /\ ds[j].low = cs[j].low \/ (j = n /\ ds[j].low = Smaller(cs[j].low, p))
    BY <1>1, <1>2, <1>3, <1>4, <1>6, <2>1 DEF Smaller, l, m
  <2>3. CASE w.low > p
    <3>1. v.low = p /\ ds[n].low = p
      BY <1>1, <1>2, <1>3, <1>6, <2>1, <2>2, <2>3 DEF Smaller, l, m
    <3> QED BY <1>6, <2>2, <3>1
  <2>4. CASE ~(w.low > p)
    <3>1. v.low = w.low /\ ds[i].low = w.low
      BY <1>1, <1>2, <1>3, <1>6, <2>1, <2>2, <2>4 DEF Smaller, l, m
    <3> QED BY <1>6, <2>1, <2>2, <3>1
  <2> QED BY <2>3, <2>4
<1>10. v.close = ds[Len(ds)].close
  BY <1>1, <1>3 DEF m
<1> QED BY <1>7, <1>8, <1>9, <1>10 DEF Tells, v

(* The next narrow bucket: the queue has a new candle at its end, and has   *)
(* lost none or one at its head that the wide bucket does not need.         *)
LEMMA NextNarrowBucketTells ==
  ASSUME NEW cs \in Seq(Candle), NEW ds \in Seq(Candle), NEW w \in Candle, NEW p \in Prices,
         NEW b \in Nat, NEW k \in {0, 1},
         Len(cs) # 0, Len(ds) = Len(cs) + 1 - k, b >= w.time, Tells(w, cs),
         \A i \in 1..Len(ds) : i # Len(ds) => ds[i] = cs[i + k],
         ds[Len(ds)] = NewCandle(b, p),
         k = 1 => cs[1].time < w.time
  PROVE  Tells(Folded(w, p), ds)
<1> DEFINE n == Len(ds)
           v == Folded(w, p)
           m == NewCandle(b, p)
<1>1. /\ n \in Nat \ {0} /\ n \in 1..n /\ ds[n] = m /\ p \in Int
      /\ Len(cs) = n - 1 + k /\ Len(cs) \in Nat
      /\ \A i \in 1..Len(cs) : cs[i] \in Candle
      /\ \A i \in 1..n : ds[i] \in Candle
  BY PricesAssumption
<1>2. \A c \in Candle : c.time \in Nat /\ c.high \in Int /\ c.low \in Int
  BY CandleShape
<1>3. /\ v.time = w.time /\ v.open = w.open /\ v.close = p
      /\ v.high = Larger(w.high, p) /\ v.low = Smaller(w.low, p)
      /\ m.time = b /\ m.close = p /\ m.high = p /\ m.low = p
  BY DEF Folded, NewCandle, Candle
<1>4. \A i \in 1..n : i # n => ds[i] = cs[i + k]
  OBVIOUS
<1> HIDE DEF n, v, m
<1>5. /\ \A i \in Inside(w, cs) : i - k \in Inside(v, ds) /\ i - k # n /\ ds[i - k] = cs[i]
      /\ \A j \in Inside(v, ds) : j = n \/ (j + k \in Inside(w, cs) /\ ds[j] = cs[j + k])
      /\ n \in Inside(v, ds)
  <2>1. ASSUME NEW i \in Inside(w, cs)
        PROVE  i - k \in Inside(v, ds) /\ i - k # n /\ ds[i - k] = cs[i]
    <3>1. i \in 1..Len(cs) /\ cs[i].time >= w.time
      BY DEF Inside
    <3>2. i # 1 \/ k = 0
      BY <1>1, <1>2, <3>1
    <3>3. i - k \in 1..n /\ i - k # n /\ (i - k) + k = i
      BY <1>1, <3>1, <3>2
    <3>4. ds[i - k] = cs[i]
      BY <1>4, <3>3
    <3> QED BY <1>3, <3>1, <3>3, <3>4 DEF Inside, n
  <2>2. ASSUME NEW j \in Inside(v, ds), j # n
        PROVE  j + k \in Inside(w, cs) /\ ds[j] = cs[j + k]
    <3>1. j \in 1..n /\ ds[j].time >= w.time
      BY <1>3 DEF Inside, n
    <3>2. ds[j] = cs[j + k] /\ j + k \in 1..Len(cs)
      BY <1>1, <1>4, <2>2, <3>1
    <3> QED BY <3>1, <3>2 DEF Inside
  <2>3. n \in Inside(v, ds)
    BY <1>1, <1>3 DEF Inside, n
  <2> QED BY <2>1, <2>2, <2>3
<1>6. Inside(w, cs) \subseteq 1..Len(cs) /\ Inside(v, ds) \subseteq 1..n
  BY DEF Inside, n
<1>7. \E i \in Inside(v, ds) : v.open = ds[i].open /\ \A j \in Inside(v, ds) : i <= j
  <2>1. PICK i \in Inside(w, cs) : w.open = cs[i].open /\ \A j \in Inside(w, cs) : i <= j
    BY DEF Tells
  <2>2. i - k \in Inside(v, ds) /\ v.open = ds[i - k].open /\ i - k <= n
    BY <1>1, <1>3, <1>5, <1>6, <2>1
  <2>3. ASSUME NEW j \in Inside(v, ds) PROVE i - k <= j
    <3>1. i \in Int /\ j \in Int
      BY <1>1, <1>6
    <3>2. CASE j = n
      BY <2>2, <3>2
    <3>3. CASE j # n
      <4>1. i <= j + k
        BY <1>5, <2>1, <3>3
      <4> QED BY <3>1, <4>1
    <3> QED BY <3>2, <3>3
  <2> QED BY <2>2, <2>3
<1>8. \E i \in Inside(v, ds) : v.high = ds[i].high /\ \A j \in Inside(v, ds) : v.high >= ds[j].high
  <2>1. PICK i \in Inside(w, cs) : w.high = cs[i].high /\ \A j \in Inside(w, cs) : w.high >= cs[j].high
    BY DEF Tells
  <2>2. \A j \in Inside(w, cs) : cs[j].high \in Int
    BY <1>1, <1>2, <1>6
  <2>3. ASSUME NEW j \in Inside(v, ds) PROVE v.high >= ds[j].high
    <3>1. w.high \in Int /\ p \in Int
      BY <1>1, <1>2
    <3>2. CASE j = n
      BY <1>1, <1>3, <3>1, <3>2 DEF Larger
    <3>3. CASE j # n
      <4>1. ds[j].high \in Int /\ w.high >= ds[j].high
        BY <1>5, <2>1, <2>2, <3>3
      <4> QED BY <1>3, <3>1, <4>1 DEF Larger
    <3> QED BY <3>2, <3>3
  <2>4. CASE p > w.high
    BY <1>1, <1>2, <1>3, <1>5, <2>3, <2>4 DEF Larger
  <2>5. CASE ~(p > w.high)
    <3>1. v.high = ds[i - k].high
      <4>1. v.high = w.high
        BY <1>1, <1>2, <1>3, <2>5 DEF Larger
      <4> QED BY <1>5, <2>1, <4>1
    <3> QED BY <1>5, <2>1, <2>3, <3>1
  <2> QED BY <2>4, <2>5
<1>9. \E i \in Inside(v, ds) : v.low = ds[i].low /\ \A j \in Inside(v, ds) : v.low <= ds[j].low
  <2>1. PICK i \in Inside(w, cs) : w.low = cs[i].low /\ \A j \in Inside(w, cs) : w.low <= cs[j].low
    BY DEF Tells
  <2>2. \A j \in Inside(w, cs) : cs[j].low \in Int
    BY <1>1, <1>2, <1>6
  <2>3. ASSUME NEW j \in Inside(v, ds) PROVE v.low <= ds[j].low
    <3>1. w.low \in Int /\ p \in Int
      BY <1>1, <1>2
    <3>2. CASE j = n
      BY <1>1, <1>3, <3>1, <3>2 DEF Smaller
    <3>3. CASE j # n
      <4>1. ds[j].low \in Int /\ w.low <= ds[j].low
        BY <1>5, <2>1, <2>2, <3>3
      <4> QED BY <1>3, <3>1, <4>1 DEF Smaller
    <3> QED BY <3>2, <3>3
  <2>4. CASE w.low > p
    BY <1>1, <1>2, <1>3, <1>5, <2>3, <2>4 DEF Smaller
  <2>5. CASE ~(w.low > p)
    <3>1. v.low = ds[i - k].low
      <4>1. v.low = w.low
        BY <1>1, <1>2, <1>3, <2>5 DEF Smaller
      <4> QED BY <1>5, <2>1, <4>1
    <3> QED BY <1>5, <2>1, <2>3, <3>1
  <2> QED BY <2>4, <2>5
<1>10. v.close = ds[Len(ds)].close
  BY <1>1, <1>3 DEF n
<1> QED BY <1>7, <1>8, <1>9, <1>10 DEF Tells, v

-----------------------------------------------------------------------------
(* The candles of a symbol move together. *)

(* All open candles of a symbol were last written at the same second. *)
SameSecond ==
  \A s \in Symbols :
    \/ \A tf \in Timeframes : active[s][tf] = NoCandle
    \/ \E l \in 0..tick : \A tf \in Timeframes :
         active[s][tf] \in Candle /\ active[s][tf].time = BucketStart(l, tf)

History(s, tf) == Append(closed[s][tf], active[s][tf])
Spaced(cs, n) == \A i, j \in 1..Len(cs) : i <= j => cs[i].time + (j - i) * n <= cs[j].time

(* Candles are a width apart at least: the history reaches back as far as   *)
(* its length says.                                                         *)
SpacedInv ==
  \A s \in Symbols, tf \in Timeframes :
    active[s][tf] # NoCandle => Spaced(History(s, tf), Width[tf])

(* NestedCandlesAgree, of one symbol and two timeframes. *)
Agree(s, wide, narrow) ==
  (/\ active[s][wide] # NoCandle
   /\ Width[wide] % Width[narrow] = 0
   /\ Width[wide] <= MaxCandles * Width[narrow]) =>
     Tells(active[s][wide], History(s, narrow))

NestInv == SameSecond /\ SpacedInv /\ \A s \in Symbols, wide, narrow \in Timeframes : Agree(s, wide, narrow)

(* What the fold does to the history of one timeframe: it begins it, folds  *)
(* the price into its last candle, or adds one and perhaps drops the first. *)
LEMMA HistoryGrows ==
  ASSUME IInv, NEW s \in Symbols, s \in todo, FoldTick(s), price[s] # NoPrice,
         NEW tf \in Timeframes
  PROVE  LET a == active[s][tf]
             b == BucketStart(tick, tf)
             cs == History(s, tf)
             ds == Append(closed'[s][tf], active'[s][tf])
         IN /\ active'[s][tf] \in Candle /\ active'[s][tf].time = b
            /\ active'[s][tf] = IF a.time = b THEN Folded(a, price[s]) ELSE NewCandle(b, price[s])
            /\ ds \in Seq(Candle) /\ Len(ds) # 0
            /\ a = NoCandle => Len(ds) = 1 /\ ds[1] = NewCandle(b, price[s])
            /\ a \in Candle /\ a.time = b =>
                 /\ Len(ds) = Len(cs) /\ ds[Len(ds)] = Folded(cs[Len(cs)], price[s])
                 /\ \A i \in 1..Len(ds) : i # Len(ds) => ds[i] = cs[i]
            /\ a \in Candle /\ a.time # b => \E k \in {0, 1} :
                 /\ Len(ds) = Len(cs) + 1 - k /\ ds[Len(ds)] = NewCandle(b, price[s])
                 /\ \A i \in 1..Len(ds) : i # Len(ds) => ds[i] = cs[i + k]
                 /\ k = 1 => Len(cs) = MaxCandles + 1
<1> DEFINE a == active[s][tf]
           old == closed[s][tf]
           b == BucketStart(tick, tf)
           p == price[s]
           cs == History(s, tf)
           a2 == active'[s][tf]
           old2 == closed'[s][tf]
           ds == Append(old2, a2)
<1>1. /\ p \in Prices /\ tick \in Nat /\ b \in Nat
      /\ a \in Candle \cup {NoCandle} /\ old \in Seq(Candle) /\ Len(old) <= MaxCandles
  BY BucketsAreOrdered DEF IInv, TypeOK
<1>2. /\ a2 = IF a.time # b THEN NewCandle(b, p) ELSE Folded(a, p)
      /\ old2 = IF a.time # b /\ a # NoCandle THEN AddCandle(old, a) ELSE old
  BY DEF FoldTick, IInv, TypeOK, RollsOver
<1>3. a2 \in Candle /\ old2 \in Seq(Candle)
  BY FoldOneTimeframe
<1>4. cs = Append(old, a)
  BY DEF History
<1>5. NoCandle.time = -1 /\ \A c \in Candle : c.time \in Nat
  BY DEF NoCandle, Candle
<1>6. NewCandle(b, p).time = b /\ \A c \in Candle : Folded(c, p).time = c.time
  BY <1>1, FoldedIsCandle DEF NewCandle
<1>7. \A i \in 1..Len(old) : old[i].time < a.time
  BY DEF IInv, OneCandlePerBucket
<1>8. MaxCandles \in Nat \ {0} /\ Len(old) \in Nat
  BY <1>1, BoundAssumption
<1> HIDE DEF a, old, b, p, cs, a2, old2
<1>9. /\ ds \in Seq(Candle) /\ Len(ds) = Len(old2) + 1 /\ Len(ds) # 0 /\ ds[Len(ds)] = a2
      /\ \A i \in 1..Len(ds) : i # Len(ds) => ds[i] = old2[i] /\ i \in 1..Len(old2)
  BY <1>3
<1>10. a2.time = b
  BY <1>1, <1>2, <1>5, <1>6
<1>11. ASSUME a = NoCandle PROVE Len(ds) = 1 /\ ds[1] = NewCandle(b, p)
  <2>1. a2 = NewCandle(b, p) /\ old2 = old
    BY <1>1, <1>2, <1>5, <1>11
  <2>2. Len(old) = 0
    <3>1. ASSUME Len(old) # 0 PROVE FALSE
      <4>1. 1 \in 1..Len(old) /\ old[1] \in Candle
        BY <1>1, <1>8, <3>1
      <4>2. old[1].time < -1 /\ old[1].time \in Nat
        BY <1>5, <1>7, <1>11, <4>1
      <4> QED BY <4>2
    <3> QED BY <3>1
  <2> QED BY <1>9, <2>1, <2>2
<1>12. ASSUME a \in Candle
       PROVE  /\ Len(cs) = Len(old) + 1 /\ cs[Len(cs)] = a
              /\ \A i \in 1..Len(old) : cs[i] = old[i]
  BY <1>1, <1>4, <1>12
<1>13. ASSUME a \in Candle, a.time = b
       PROVE  /\ Len(ds) = Len(cs) /\ ds[Len(ds)] = Folded(cs[Len(cs)], p)
              /\ \A i \in 1..Len(ds) : i # Len(ds) => ds[i] = cs[i]
  <2>1. a2 = Folded(a, p) /\ old2 = old
    BY <1>2, <1>13
  <2> QED BY <1>9, <1>12, <1>13, <2>1
<1>14. ASSUME a \in Candle, a.time # b
       PROVE  \E k \in {0, 1} :
                 /\ Len(ds) = Len(cs) + 1 - k /\ ds[Len(ds)] = NewCandle(b, p)
                 /\ \A i \in 1..Len(ds) : i # Len(ds) => ds[i] = cs[i + k]
                 /\ k = 1 => Len(cs) = MaxCandles + 1
  <2>1. a2 = NewCandle(b, p) /\ old2 = AddCandle(old, a)
    BY <1>2, <1>5, <1>14
  <2>2. CASE Len(old) = MaxCandles
    <3>1. old2 = Append(Tail(old), a) /\ old # <<>>
      BY <1>1, <1>8, <2>1, <2>2 DEF AddCandle
    <3>2. /\ Len(old2) = Len(old)
          /\ \A i \in 1..Len(old2) : old2[i] = IF i = Len(old2) THEN a ELSE old[i + 1]
      BY <1>1, <1>14, <3>1
    <3>3. \A i \in 1..Len(old2) : old2[i] = cs[i + 1]
      BY <1>8, <1>12, <1>14, <3>2
    <3> QED BY <1>8, <1>9, <1>12, <1>14, <2>1, <2>2, <3>2, <3>3
  <2>3. CASE Len(old) # MaxCandles
    <3>1. old2 = Append(old, a)
      BY <2>1, <2>3 DEF AddCandle
    <3>2. old2 = cs
      BY <1>4, <3>1
    <3>3. Len(ds) = Len(cs) + 1 - 0 /\ \A i \in 1..Len(ds) : i # Len(ds) => ds[i] = cs[i + 0]
      BY <1>8, <1>9, <1>12, <1>14, <3>2
    <3> QED BY <1>9, <2>1, <3>3
  <2> QED BY <2>2, <2>3
<1> HIDE DEF ds
<1>15. /\ a2 \in Candle /\ a2.time = b
       /\ a2 = IF a.time = b THEN Folded(a, p) ELSE NewCandle(b, p)
       /\ ds \in Seq(Candle) /\ Len(ds) # 0
  BY <1>2, <1>3, <1>9, <1>10
<1> QED BY <1>11, <1>13, <1>14, <1>15 DEF a, b, p, cs, a2, old2, ds

(* Where the open candle stands, and that the next one is a width away. *)
LEMMA OpenCandle ==
  ASSUME IInv, SameSecond, NEW s \in Symbols, NEW tf \in Timeframes, active[s][tf] # NoCandle
  PROVE  /\ active[s][tf] \in Candle /\ active[s][tf].time \in Nat
         /\ BucketStart(tick, tf) \in Nat /\ Width[tf] \in Nat \ {0}
         /\ active[s][tf].time # BucketStart(tick, tf) =>
              active[s][tf].time + Width[tf] <= BucketStart(tick, tf)
<1>1. PICK l \in 0..tick : active[s][tf] \in Candle /\ active[s][tf].time = BucketStart(l, tf)
  BY DEF SameSecond
<1>2. tick \in Nat /\ l \in Nat
  BY DEF IInv, TypeOK
<1>3. active[s][tf].time <= BucketStart(tick, tf)
  BY DEF IInv, NoCandleAhead
<1>4. BucketStart(tick, tf) \in Nat /\ BucketStart(l, tf) \in Nat /\ Width[tf] \in Nat \ {0}
  BY <1>2, BucketsDoNotOverlap
<1>5. BucketStart(l, tf) < BucketStart(tick, tf) =>
        BucketStart(l, tf) + Width[tf] <= BucketStart(tick, tf)
  BY <1>2, BucketsDoNotOverlap
<1> QED BY <1>1, <1>3, <1>4, <1>5

LEMMA OneMore == ASSUME NEW x \in Int, NEW n \in Nat PROVE x * n + n = (x + 1) * n
OBVIOUS

LEMMA HistoryIsCandles ==
  ASSUME IInv, NEW s \in Symbols, NEW tf \in Timeframes, active[s][tf] \in Candle
  PROVE  /\ History(s, tf) \in Seq(Candle) /\ Len(History(s, tf)) \in Nat \ {0}
         /\ History(s, tf)[Len(History(s, tf))] = active[s][tf]
         /\ \A i \in 1..Len(History(s, tf)) : History(s, tf)[i] \in Candle
<1>1. closed[s][tf] \in Seq(Candle)
  BY DEF IInv, TypeOK
<1> QED BY <1>1 DEF History

LEMMA FoldStaysSpaced ==
  ASSUME IInv, NestInv, NEW s \in Symbols, s \in todo, FoldTick(s), price[s] # NoPrice,
         NEW tf \in Timeframes
  PROVE  Spaced(Append(closed'[s][tf], active'[s][tf]), Width[tf])
<1> DEFINE a == active[s][tf]
           b == BucketStart(tick, tf)
           cs == History(s, tf)
           ds == Append(closed'[s][tf], active'[s][tf])
           n == Width[tf]
           p == price[s]
<1>1. /\ ds \in Seq(Candle) /\ Len(ds) # 0
      /\ a = NoCandle => Len(ds) = 1 /\ ds[1] = NewCandle(b, p)
      /\ a \in Candle /\ a.time = b =>
           /\ Len(ds) = Len(cs) /\ ds[Len(ds)] = Folded(cs[Len(cs)], p)
           /\ \A i \in 1..Len(ds) : i # Len(ds) => ds[i] = cs[i]
      /\ a \in Candle /\ a.time # b => \E k \in {0, 1} :
           /\ Len(ds) = Len(cs) + 1 - k /\ ds[Len(ds)] = NewCandle(b, p)
           /\ \A i \in 1..Len(ds) : i # Len(ds) => ds[i] = cs[i + k]
  BY HistoryGrows
<1>2. n \in Nat \ {0} /\ a \in Candle \cup {NoCandle} /\ p \in Prices
  BY WidthAssumption DEF IInv, TypeOK
<1>3. a # NoCandle =>
        /\ a \in Candle /\ a.time \in Nat /\ b \in Nat /\ (a.time # b => a.time + n <= b)
        /\ Spaced(cs, n)
  BY OpenCandle DEF NestInv, SpacedInv
<1>4. a \in Candle =>
        cs \in Seq(Candle) /\ Len(cs) \in Nat \ {0} /\ cs[Len(cs)] = a /\ \A i \in 1..Len(cs) : cs[i] \in Candle
  BY HistoryIsCandles
<1>5. Len(ds) \in Nat \ {0} /\ \A i \in 1..Len(ds) : ds[i] \in Candle /\ ds[i].time \in Nat
  <2>1. \A i \in 1..Len(ds) : ds[i] \in Candle
    BY <1>1
  <2> QED BY <1>1, <2>1, CandleShape
<1>6. NewCandle(b, p).time = b /\ \A c \in Candle : Folded(c, p).time = c.time
  BY <1>2, FoldedIsCandle DEF NewCandle
<1> HIDE DEF a, b, cs, ds, n, p
<1>7. ASSUME a = NoCandle PROVE Spaced(ds, n)
  <2>1. Len(ds) = 1
    BY <1>1, <1>7
  <2> SUFFICES ASSUME NEW i \in 1..Len(ds), NEW j \in 1..Len(ds), i <= j
               PROVE  ds[i].time + (j - i) * n <= ds[j].time
    BY DEF Spaced
  <2>2. i = j /\ (j - i) * n = 0 /\ ds[i].time \in Nat
    BY <1>2, <1>5, <2>1
  <2> QED BY <2>2
<1>8. ASSUME a # NoCandle, a.time = b PROVE Spaced(ds, n)
  <2>1. \A i \in 1..Len(cs) : ds[i].time = cs[i].time
    BY <1>1, <1>3, <1>4, <1>6, <1>8
  <2>2. Len(ds) = Len(cs)
    BY <1>1, <1>3, <1>8
  <2> QED BY <1>3, <1>8, <2>1, <2>2 DEF Spaced
<1>9. ASSUME a # NoCandle, a.time # b PROVE Spaced(ds, n)
  <2>1. PICK k \in {0, 1} :
          /\ Len(ds) = Len(cs) + 1 - k /\ ds[Len(ds)] = NewCandle(b, p)
          /\ \A i \in 1..Len(ds) : i # Len(ds) => ds[i] = cs[i + k]
    BY <1>1, <1>3, <1>9
  <2> DEFINE m == Len(cs)
             l == Len(ds)
  <2>2. /\ m \in Nat \ {0} /\ l = m + 1 - k /\ l \in Nat /\ k \in Int /\ cs[m].time + n <= b
        /\ ds[l].time = b
        /\ \A i \in 1..l : i # l => ds[i] = cs[i + k] /\ i + k \in 1..m
        /\ \A i, j \in 1..m : i <= j => cs[i].time + (j - i) * n <= cs[j].time
    BY <1>3, <1>4, <1>6, <1>9, <2>1 DEF Spaced
  <2> HIDE DEF m, l
  <2> SUFFICES ASSUME NEW i \in 1..l, NEW j \in 1..l, i <= j
               PROVE  ds[i].time + (j - i) * n <= ds[j].time
    BY DEF Spaced, l
  <2>3. CASE i = j
    <3>1. (j - i) * n = 0 /\ ds[i].time \in Nat
      BY <1>2, <1>5, <2>3 DEF l
    <3> QED BY <2>3, <3>1
  <2>4. CASE i # j /\ j # l
    <3>1. i # l /\ i + k \in 1..m /\ j + k \in 1..m /\ i + k <= j + k /\ (j + k) - (i + k) = j - i
      BY <2>2, <2>4
    <3>2. ds[i] = cs[i + k] /\ ds[j] = cs[j + k]
      BY <2>2, <2>4, <3>1
    <3>3. cs[i + k].time + ((j + k) - (i + k)) * n <= cs[j + k].time
      BY <2>2, <3>1
    <3> QED BY <3>1, <3>2, <3>3
  <2>5. CASE i # j /\ j = l
    <3>1. i # l /\ i + k \in 1..m /\ m \in 1..m /\ i + k <= m /\ j - i = (m - (i + k)) + 1
      BY <2>2, <2>5
    <3>2. ds[i] = cs[i + k] /\ ds[i].time \in Nat
      BY <1>5, <2>2, <2>5, <3>1 DEF l
    <3>3. cs[i + k].time + (m - (i + k)) * n <= cs[m].time
      BY <2>2, <3>1
    <3> DEFINE d == m - (i + k)
    <3>4. d \in Int /\ d * n + n = (d + 1) * n /\ d * n \in Int /\ j - i = d + 1
      <4>1. d \in Int /\ j - i = d + 1
        BY <2>2, <3>1
      <4> HIDE DEF d
      <4> QED BY <1>2, <4>1, OneMore
    <3>5. cs[m].time \in Nat /\ b \in Nat
      BY <1>3, <1>4, <1>9 DEF m
    <3> HIDE DEF d
    <3>6. cs[i + k].time + d * n <= cs[m].time
      BY <3>3 DEF d
    <3>7. (j - i) * n = d * n + n
      BY <3>4
    <3> QED BY <1>2, <2>2, <2>5, <3>2, <3>4, <3>5, <3>6, <3>7
  <2> QED BY <2>3, <2>4, <2>5
<1>10. Spaced(ds, n)
  BY <1>7, <1>8, <1>9
<1> QED BY <1>10 DEF ds, n

(* One story after the fold, whichever of the two roll over. *)
LEMMA FoldKeepsAgreement ==
  ASSUME IInv, NestInv, NEW s \in Symbols, s \in todo, FoldTick(s), price[s] # NoPrice,
         NEW wide \in Timeframes, NEW narrow \in Timeframes,
         Width[wide] % Width[narrow] = 0, Width[wide] <= MaxCandles * Width[narrow]
  PROVE  Tells(active'[s][wide], Append(closed'[s][narrow], active'[s][narrow]))
<1> DEFINE w == active[s][wide]
           v == active'[s][wide]
           a == active[s][narrow]
           bw == BucketStart(tick, wide)
           b == BucketStart(tick, narrow)
           cs == History(s, narrow)
           ds == Append(closed'[s][narrow], active'[s][narrow])
           n == Width[narrow]
           p == price[s]
<1>1. /\ ds \in Seq(Candle) /\ Len(ds) # 0
      /\ v \in Candle /\ v = IF w.time = bw THEN Folded(w, p) ELSE NewCandle(bw, p)
      /\ a = NoCandle => Len(ds) = 1 /\ ds[1] = NewCandle(b, p)
      /\ a \in Candle /\ a.time = b =>
           /\ Len(ds) = Len(cs) /\ ds[Len(ds)] = Folded(cs[Len(cs)], p)
           /\ \A i \in 1..Len(ds) : i # Len(ds) => ds[i] = cs[i]
      /\ a \in Candle /\ a.time # b => \E k \in {0, 1} :
           /\ Len(ds) = Len(cs) + 1 - k /\ ds[Len(ds)] = NewCandle(b, p)
           /\ \A i \in 1..Len(ds) : i # Len(ds) => ds[i] = cs[i + k]
           /\ k = 1 => Len(cs) = MaxCandles + 1
  BY HistoryGrows
<1>2. /\ p \in Prices /\ tick \in Nat /\ n \in Nat \ {0} /\ Width[wide] \in Nat \ {0}
      /\ MaxCandles \in Nat \ {0} /\ b \in Nat /\ bw \in Nat /\ bw <= b
      /\ b <= tick /\ tick < bw + Width[wide]
  BY WidthAssumption, BoundAssumption, BucketsDoNotOverlap, WideBucketsRollTogether DEF IInv, TypeOK
<1>3. CASE w = NoCandle
  <2>1. a = NoCandle
    BY <1>3, CandleShape DEF NestInv, SameSecond, NoCandle
  <2>2. w.time # bw
    BY <1>2, <1>3 DEF NoCandle
  <2>3. v = NewCandle(bw, p)
    BY <1>1, <2>2
  <2> HIDE DEF ds, v, b, bw
  <2>4. Tells(NewCandle(bw, p), ds)
    BY <1>1, <1>2, <2>1, FirstPriceTells
  <2> QED BY <2>3, <2>4 DEF ds, v
<1>4. CASE w # NoCandle
  <2>1. PICK l \in 0..tick : \A tf \in Timeframes :
          active[s][tf] \in Candle /\ active[s][tf].time = BucketStart(l, tf)
    BY <1>4 DEF NestInv, SameSecond
  <2>2. /\ w \in Candle /\ a \in Candle /\ l \in Nat /\ l <= tick
        /\ w.time = BucketStart(l, wide) /\ a.time = BucketStart(l, narrow)
    BY <1>2, <2>1
  <2>3. /\ w.time \in Nat /\ a.time \in Nat /\ w.time <= a.time /\ a.time <= l
        /\ l < w.time + Width[wide]
        /\ a.time = b => w.time = bw
        /\ w.time < bw => w.time + Width[wide] <= bw
        /\ a.time < b => a.time + n <= b
    BY <1>2, <2>2, BucketsDoNotOverlap, WideBucketsRollTogether
  <2>4. w.time <= bw /\ a.time <= b
    BY DEF IInv, NoCandleAhead
  <2>5. Tells(w, cs) /\ Spaced(cs, n)
    BY <1>4, <2>2, <2>3 DEF NestInv, Agree, SpacedInv, NoCandle
  <2>6. /\ cs \in Seq(Candle) /\ Len(cs) \in Nat \ {0} /\ cs[Len(cs)] = a
        /\ \A i \in 1..Len(cs) : cs[i] \in Candle
    BY <2>2, HistoryIsCandles
  <2>7. \A i \in 1..Len(cs) : cs[i].time \in Nat /\ cs[i].time + (Len(cs) - i) * n <= a.time
    BY <2>5, <2>6, CandleShape DEF Spaced
  <2> HIDE DEF w, v, a, bw, b, cs, ds, n, p
  <2>8. ASSUME w.time = bw, a.time = b PROVE Tells(v, ds)
    <3>1. cs[Len(cs)].time >= w.time
      BY <2>3, <2>6
    <3>2. Tells(Folded(w, p), ds)
      BY <1>1, <1>2, <2>2, <2>5, <2>6, <2>8, <3>1, SameNarrowBucketTells
    <3> QED BY <1>1, <2>8, <3>2
  <2>9. ASSUME w.time = bw, a.time # b PROVE Tells(v, ds)
    <3>1. PICK k \in {0, 1} :
            /\ Len(ds) = Len(cs) + 1 - k /\ ds[Len(ds)] = NewCandle(b, p)
            /\ \A i \in 1..Len(ds) : i # Len(ds) => ds[i] = cs[i + k]
            /\ k = 1 => Len(cs) = MaxCandles + 1
      BY <1>1, <2>2, <2>9
    <3>2. k = 1 => cs[1].time < w.time
      <4> SUFFICES ASSUME k = 1 PROVE cs[1].time < w.time
        OBVIOUS
      <4>1. Len(cs) - 1 = MaxCandles /\ 1 \in 1..Len(cs)
        BY <1>2, <2>6, <3>1
      <4>2. cs[1].time \in Nat /\ cs[1].time + MaxCandles * n <= a.time
        BY <2>7, <4>1
      <4>3. a.time < b /\ a.time + n <= b /\ b < w.time + Width[wide]
        BY <1>2, <2>3, <2>4, <2>9
      <4>4. Width[wide] <= MaxCandles * n /\ MaxCandles * n \in Nat
        BY <1>2 DEF n
      <4> QED BY <1>2, <2>3, <4>2, <4>3, <4>4
    <3>3. b >= w.time
      BY <1>2, <2>9
    <3>4. Tells(Folded(w, p), ds)
      BY <1>1, <1>2, <2>2, <2>5, <2>6, <3>1, <3>2, <3>3, NextNarrowBucketTells
    <3> QED BY <1>1, <2>9, <3>4
  <2>10. ASSUME w.time # bw PROVE Tells(v, ds)
    <3>1. w.time < bw /\ a.time < bw /\ a.time # b
      BY <1>2, <2>2, <2>3, <2>4, <2>10
    <3>2. PICK k \in {0, 1} :
            /\ Len(ds) = Len(cs) + 1 - k /\ ds[Len(ds)] = NewCandle(b, p)
            /\ \A i \in 1..Len(ds) : i # Len(ds) => ds[i] = cs[i + k]
      BY <1>1, <2>2, <3>1
    <3>3. ASSUME NEW i \in 1..Len(ds), i # Len(ds) PROVE ds[i].time < bw
      <4>1. i + k \in 1..Len(cs) /\ ds[i] = cs[i + k]
        BY <2>6, <3>2, <3>3
      <4>2. (Len(cs) - (i + k)) * n \in Nat
        <5>1. Len(cs) - (i + k) \in Nat
          BY <2>6, <4>1
        <5> QED BY <1>2, <5>1
      <4>3. cs[i + k].time \in Nat /\ cs[i + k].time + (Len(cs) - (i + k)) * n <= a.time
        BY <2>7, <4>1
      <4> QED BY <1>2, <2>3, <3>1, <4>1, <4>2, <4>3
    <3>4. Tells(NewCandle(bw, p), ds)
      BY <1>1, <1>2, <3>2, <3>3, FirstPriceTells
    <3> QED BY <1>1, <2>10, <3>4
  <2>11. Tells(v, ds)
    BY <2>8, <2>9, <2>10
  <2> QED BY <2>11 DEF v, ds
<1> QED BY <1>3, <1>4

LEMMA FoldKeepsNest ==
  ASSUME IInv, NestInv, NEW s \in Symbols, FoldTick(s)
  PROVE  NestInv'
<1>1. CASE price[s] = NoPrice
  <2>1. UNCHANGED <<tick, active, closed>>
    BY <1>1 DEF FoldTick
  <2> QED BY <2>1 DEF NestInv, SameSecond, SpacedInv, Agree, History, BucketStart
<1>2. CASE price[s] # NoPrice
  <2>1. s \in todo /\ tick' = tick /\ tick \in Nat
    BY DEF FoldTick, IInv, TypeOK
  <2>2. \A u \in Symbols \ {s} : active'[u] = active[u] /\ closed'[u] = closed[u]
    BY <1>2 DEF FoldTick, IInv, TypeOK
  <2>3. \A tf \in Timeframes : active'[s][tf] \in Candle /\ active'[s][tf].time = BucketStart(tick, tf)
    BY <1>2, <2>1, HistoryGrows
  <2>4. SameSecond'
    <3> SUFFICES ASSUME NEW u \in Symbols
                 PROVE  \/ \A tf \in Timeframes : active'[u][tf] = NoCandle
                        \/ \E l \in 0..tick : \A tf \in Timeframes :
                             active'[u][tf] \in Candle /\ active'[u][tf].time = BucketStart(l, tf)
      BY <2>1 DEF SameSecond, BucketStart
    <3>1. CASE u = s
      <4>1. tick \in 0..tick
        BY <2>1
      <4> QED BY <2>3, <3>1, <4>1
    <3>2. CASE u # s
      BY <2>2, <3>2 DEF NestInv, SameSecond
    <3> QED BY <3>1, <3>2
  <2>5. SpacedInv'
    <3> SUFFICES ASSUME NEW u \in Symbols, NEW tf \in Timeframes, active'[u][tf] # NoCandle
                 PROVE  Spaced(Append(closed'[u][tf], active'[u][tf]), Width[tf])
      BY DEF SpacedInv, History
    <3>1. CASE u = s
      BY <1>2, <2>1, <3>1, FoldStaysSpaced
    <3>2. CASE u # s
      BY <2>2, <3>2 DEF NestInv, SpacedInv, History
    <3> QED BY <3>1, <3>2
  <2>6. ASSUME NEW u \in Symbols, NEW wide \in Timeframes, NEW narrow \in Timeframes
        PROVE  Agree(u, wide, narrow)'
    <3> SUFFICES ASSUME active'[u][wide] # NoCandle, Width[wide] % Width[narrow] = 0,
                        Width[wide] <= MaxCandles * Width[narrow]
                 PROVE  Tells(active'[u][wide], Append(closed'[u][narrow], active'[u][narrow]))
      BY DEF Agree, History
    <3>1. CASE u = s
      BY <1>2, <2>1, <3>1, FoldKeepsAgreement
    <3>2. CASE u # s
      BY <2>2, <3>2 DEF NestInv, Agree, History
    <3> QED BY <3>1, <3>2
  <2> QED BY <2>4, <2>5, <2>6 DEF NestInv
<1> QED BY <1>1, <1>2

LEMMA NestInvariant == Spec => []NestInv
<1>1. Init => NestInv
  BY DEF Init, NestInv, SameSecond, SpacedInv, Agree
<1>2. IInv /\ NestInv /\ [Next]_vars => NestInv'
  <2> SUFFICES ASSUME IInv, NestInv, [Next]_vars PROVE NestInv'
    OBVIOUS
  <2>1. ASSUME UNCHANGED <<active, closed>>, tick' \in Nat, tick <= tick'
        PROVE  NestInv'
    <3>1. SameSecond'
      <4>1. 0..tick \subseteq 0..tick'
        BY <2>1 DEF IInv, TypeOK
      <4> QED BY <2>1, <4>1 DEF NestInv, SameSecond, BucketStart
    <3> QED BY <2>1, <3>1 DEF NestInv, SpacedInv, Agree, History
  <2>2. CASE UNCHANGED vars
    BY <2>1, <2>2 DEF vars, IInv, TypeOK
  <2>3. CASE StartRound
    BY <2>1, <2>3 DEF StartRound, IInv, TypeOK, NoCandleAhead
  <2>4. CASE \E s \in Symbols, p \in Prices : UpdatePrice(s, p)
    BY <2>1, <2>4 DEF UpdatePrice, IInv, TypeOK
  <2>5. CASE Clock
    BY <2>1, <2>5 DEF Clock, IInv, TypeOK
  <2> QED BY <2>2, <2>3, <2>4, <2>5, FoldKeepsNest DEF Next
<1> QED BY <1>1, <1>2, InductiveInvariant, PTL DEF Spec

(* Every chart tells the same story (candle_engine.py:96): a wide candle is *)
(* what the narrow ones of its bucket add up to, whatever the widths, as    *)
(* long as the history is as deep as the wide bucket.                       *)
THEOREM ChartsTellOneStory == Spec => []NestedCandlesAgree
<1>1. ASSUME IInv, NestInv, NEW s \in Symbols, NEW wide \in Timeframes, NEW narrow \in Timeframes,
             active[s][wide] # NoCandle, Width[wide] % Width[narrow] = 0,
             Width[wide] <= MaxCandles * Width[narrow]
      PROVE  /\ active[s][wide].close = active[s][narrow].close
             /\ Tells(active[s][wide], Append(closed[s][narrow], active[s][narrow]))
  <2>1. active[s][narrow] \in Candle
    BY <1>1 DEF NestInv, SameSecond
  <2>2. Tells(active[s][wide], History(s, narrow))
    BY <1>1 DEF NestInv, Agree
  <2>3. History(s, narrow)[Len(History(s, narrow))] = active[s][narrow]
    BY <1>1, <2>1, HistoryIsCandles
  <2>4. active[s][wide].close = History(s, narrow)[Len(History(s, narrow))].close
    BY <2>2 DEF Tells
  <2> QED BY <2>2, <2>3, <2>4 DEF History
<1>2. IInv /\ NestInv => NestedCandlesAgree
  <2> SUFFICES ASSUME IInv, NestInv, NEW s \in Symbols, NEW wide \in Timeframes, NEW narrow \in Timeframes
               PROVE  LET w == active[s][wide]
                          cs == Append(closed[s][narrow], active[s][narrow])
                          inside == {i \in 1..Len(cs) : cs[i].time >= w.time}
                      IN (/\ w # NoCandle
                          /\ Width[wide] % Width[narrow] = 0
                          /\ Width[wide] <= MaxCandles * Width[narrow]) =>
                           /\ w.close = active[s][narrow].close
                           /\ \E i \in inside : w.open = cs[i].open /\ \A j \in inside : i <= j
                           /\ \E i \in inside : w.high = cs[i].high /\ \A j \in inside : w.high >= cs[j].high
                           /\ \E i \in inside : w.low = cs[i].low /\ \A j \in inside : w.low <= cs[j].low
    BY Zenon DEF NestedCandlesAgree
  <2> DEFINE w == active[s][wide]
             cs == Append(closed[s][narrow], active[s][narrow])
  <2>1. ASSUME w # NoCandle, Width[wide] % Width[narrow] = 0, Width[wide] <= MaxCandles * Width[narrow]
        PROVE  w.close = active[s][narrow].close /\ Tells(w, cs)
    BY <1>1, <2>1
  <2> HIDE DEF cs
  <2> QED BY <2>1, Zenon DEF Tells, Inside, cs
<1> QED BY <1>2, InductiveInvariant, NestInvariant, PTL
=============================================================================
