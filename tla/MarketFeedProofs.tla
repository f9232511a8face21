-------------------------- MODULE MarketFeedProofs --------------------------
(***************************************************************************)
(* Proofs about MarketFeed, for any set of symbols, prices, requests and   *)
(* screens: a price that an overtaken writer puts back is one the provider *)
(* has quoted since that writer began, or within 15% of one.               *)
(***************************************************************************)
EXTENDS MarketFeed, TLAPS

Messages == UNION {[S -> Prices] : S \in SUBSET Symbols}

(* Nothing is known from the future. *)
ClockInv ==
  /\ \A s \in Symbols : stamp[s] <= now
  /\ \A s \in Symbols, p \in Prices : left[s][p] <= now

(* p was the provider's price of s at some time since t. *)
Recent(s, t, p) == p = spot[s] \/ left[s][p] >= t

(* What is stored is close to a quote since its writer began. *)
PriceInv ==
  \A s \in Symbols : price[s] # NoPrice =>
    /\ origin[s] \in 0..now
    /\ \E q \in Prices : Recent(s, origin[s], q) /\ Apart(price[s], q) * 100 <= 15 * q

(* What the engine has fetched was quoted since it fetched it. *)
FeedInv ==
  \A s \in Followed :
    /\ feed[s].at = "store" => feed[s].quote # NoPrice
    /\ feed[s].quote # NoPrice => feed[s].since \in 0..now /\ Recent(s, feed[s].since, feed[s].quote)

(* What a request has fetched was quoted since it asked. *)
GetInv ==
  \A r \in Requests : get[r].at # "idle" =>
    /\ get[r].sym \in Symbols
    /\ get[r].asked \in 0..now
    /\ get[r].quote # NoPrice => Recent(get[r].sym, get[r].asked, get[r].quote)

ScreenInv == chan \in [Screens -> Seq(Messages)] /\ shown \in [Screens -> [Symbols -> Prices \cup {NoPrice}]]

MarketInv == TypeOK /\ ClockInv /\ PriceInv /\ FeedInv /\ GetInv /\ ScreenInv

-----------------------------------------------------------------------------
(* The operators *)

LEMMA MaxWithZero ==
  ASSUME NEW t \in Nat
  PROVE  Max({t, 0}) = t
<1>1. \A x \in {t, 0} : (\A y \in {t, 0} : x >= y) <=> x = t
  OBVIOUS
<1> QED
  BY <1>1 DEF Max

LEMMA RecentIsQuotedSince ==
  ASSUME NEW s \in Symbols, NEW t \in Nat, NEW p \in Prices, Recent(s, t, p)
  PROVE  p \in QuotedSince(s, t)
BY MaxWithZero DEF Recent, QuotedSince

(* A price is close to itself. *)
LEMMA CloseToItself ==
  ASSUME NEW p \in Prices
  PROVE  Apart(p, p) * 100 <= 15 * p
BY FeedAssumption DEF Apart

LEMMA PricesAreNotNone == NoPrice \notin Prices
BY FeedAssumption DEF NoPrice

Books ==
  [at : {"sleep", "fetch", "store", "done"}, quote : Prices \cup {NoPrice}, since : Times]
Questions ==
  [at : {"idle", "fetch", "reply"}, sym : Symbols \cup {""}, price : Prices \cup {NoPrice},
   stamp : Times, asked : Times, quote : Prices \cup {NoPrice}]

LEMMA Typed ==
  ASSUME TypeOK
  PROVE  /\ now \in Nat /\ now \in Times
         /\ spot \in [Symbols -> Prices] /\ left \in [Symbols -> [Prices -> Times]]
         /\ price \in [Symbols -> Prices \cup {NoPrice}]
         /\ stamp \in [Symbols -> Times] /\ origin \in [Symbols -> Times]
         /\ feed \in [Followed -> Books] /\ get \in [Requests -> Questions]
<1>1. now \in 0..MaxTime
  BY Zenon DEF TypeOK
<1>2. /\ spot \in [Symbols -> Prices] /\ left \in [Symbols -> [Prices -> Times]]
      /\ price \in [Symbols -> Prices \cup {NoPrice}]
      /\ stamp \in [Symbols -> Times] /\ origin \in [Symbols -> Times]
      /\ feed \in [Followed -> Books] /\ get \in [Requests -> Questions]
  BY Zenon DEF TypeOK, Books, Questions
<1>3. now \in Nat /\ now \in Times
  BY <1>1, BoundAssumption DEF Times, Never
<1> QED
  BY <1>2, <1>3

(* A quote that comes leaves the one it replaces in the history: what was  *)
(* recent stays recent.                                                    *)
LEMMA RecentStays ==
  ASSUME TypeOK, NEW s \in Symbols, NEW p \in Prices, Quote(s, p),
         NEW u \in Symbols, NEW t \in 0..now, NEW q \in Prices, Recent(u, t, q)
  PROVE  Recent(u, t, q)'
<1>1. /\ left' = [left EXCEPT ![s][spot[s]] = now] /\ spot' = [spot EXCEPT ![s] = p]
  BY DEF Quote
<1>0. left \in [Symbols -> [Prices -> Times]] /\ spot \in [Symbols -> Prices] /\ now \in Nat
  BY Typed
<1>2. CASE u # s
  <2>1. left'[u] = left[u] /\ spot'[u] = spot[u]
    BY <1>0, <1>1, <1>2
  <2> QED
    BY <2>1 DEF Recent
<1>3. CASE u = s /\ q = spot[s]
  <2>1. left'[s][q] = now
    BY <1>0, <1>1, <1>3
  <2> QED
    BY <1>0, <1>1, <1>3, <2>1 DEF Recent
<1>4. CASE u = s /\ q # spot[s]
  <2>1. left'[s][q] = left[s][q]
    BY <1>0, <1>1, <1>4
  <2> QED
    BY <1>4, <2>1 DEF Recent
<1> QED
  BY <1>2, <1>3, <1>4

-----------------------------------------------------------------------------
(* What a step may leave alone *)

LEMMA FeedOnly ==
  ASSUME MarketInv, UNCHANGED <<now, provider, state, get, screens>>,
         feed' \in [Followed -> Books], FeedInv'
  PROVE  MarketInv'
<1>1. UNCHANGED <<now, spot, left, price, stamp, origin, get, chan, shown>>
  BY DEF provider, state, screens
<1>2. TypeOK'
  BY <1>1, Zenon DEF MarketInv, TypeOK, Books
<1>3. ClockInv' /\ ScreenInv'
  BY <1>1 DEF MarketInv, ClockInv, ScreenInv
<1>4. PriceInv'
  BY <1>1 DEF MarketInv, PriceInv, Recent
<1>5. GetInv'
  BY <1>1 DEF MarketInv, GetInv, Recent
<1> QED
  BY <1>2, <1>3, <1>4, <1>5 DEF MarketInv

LEMMA GetOnly ==
  ASSUME MarketInv, UNCHANGED <<now, provider, state, feed, screens>>,
         get' \in [Requests -> Questions], GetInv'
  PROVE  MarketInv'
<1>1. UNCHANGED <<now, spot, left, price, stamp, origin, feed, chan, shown>>
  BY DEF provider, state, screens
<1>2. TypeOK'
  BY <1>1, Zenon DEF MarketInv, TypeOK, Questions
<1>3. ClockInv' /\ ScreenInv'
  BY <1>1 DEF MarketInv, ClockInv, ScreenInv
<1>4. PriceInv'
  BY <1>1 DEF MarketInv, PriceInv, Recent
<1>5. FeedInv'
  BY <1>1 DEF MarketInv, FeedInv, Recent
<1> QED
  BY <1>2, <1>3, <1>4, <1>5 DEF MarketInv

LEMMA ScreensOnly ==
  ASSUME MarketInv, UNCHANGED <<now, provider, state, feed, get>>,
         ScreenInv', \A c \in Screens : Len(chan'[c]) <= MaxQueue
  PROVE  MarketInv'
<1>1. UNCHANGED <<now, spot, left, price, stamp, origin, feed, get>>
  BY DEF provider, state
<1>2. \A c \in Screens : shown'[c] \in [Symbols -> Prices \cup {NoPrice}]
  BY DEF ScreenInv
<1>3. TypeOK'
  BY <1>1, <1>2, Zenon DEF MarketInv, TypeOK
<1>4. ClockInv'
  BY <1>1 DEF MarketInv, ClockInv
<1>5. PriceInv'
  BY <1>1 DEF MarketInv, PriceInv, Recent
<1>6. FeedInv' /\ GetInv'
  BY <1>1 DEF MarketInv, FeedInv, GetInv, Recent
<1> QED
  BY <1>3, <1>4, <1>5, <1>6 DEF MarketInv

(* A price that is written is close to a quote since its writer began. *)
LEMMA Stores ==
  ASSUME MarketInv, UNCHANGED <<now, provider>>,
         NEW s \in Symbols, NEW p \in Prices, NEW ts \in 0..now, NEW began \in 0..now,
         UpdatePrice(s, p, ts, began),
         \E q \in Prices : Recent(s, began, q) /\ Apart(p, q) * 100 <= 15 * q
  PROVE  /\ ClockInv' /\ PriceInv'
         /\ price' \in [Symbols -> Prices \cup {NoPrice}]
         /\ stamp' \in [Symbols -> Times] /\ origin' \in [Symbols -> Times]
<1>0. UNCHANGED <<now, spot, left>>
  BY DEF provider
<1>1. /\ now \in Nat /\ 0..now \subseteq Times
      /\ price \in [Symbols -> Prices \cup {NoPrice}]
      /\ stamp \in [Symbols -> Times] /\ origin \in [Symbols -> Times]
  <2>1. now \in 0..MaxTime
    BY Zenon DEF MarketInv, TypeOK
  <2>2. 0..now \subseteq Times
    BY <2>1, BoundAssumption DEF Times, Never
  <2> QED
    BY <2>2, Typed DEF MarketInv
<1>2. /\ price' = [price EXCEPT ![s] = p]
      /\ stamp' = [stamp EXCEPT ![s] = ts]
      /\ origin' = [origin EXCEPT ![s] = began]
  BY DEF UpdatePrice
<1>3. ClockInv'
  BY <1>0, <1>1, <1>2 DEF MarketInv, ClockInv
<1>4. PriceInv'
  <2> SUFFICES ASSUME NEW u \in Symbols, price'[u] # NoPrice
               PROVE  /\ origin'[u] \in 0..now'
                      /\ \E q \in Prices : Recent(u, origin[u], q)' /\ Apart(price'[u], q) * 100 <= 15 * q
    BY DEF PriceInv
  <2>1. CASE u = s
    BY <1>0, <1>1, <1>2, <2>1 DEF Recent
  <2>2. CASE u # s
    <3>1. price'[u] = price[u] /\ origin'[u] = origin[u]
      BY <1>1, <1>2, <2>2
    <3> QED
      BY <1>0, <3>1 DEF MarketInv, PriceInv, Recent
  <2> QED
    BY <2>1, <2>2
<1> QED
  BY <1>1, <1>2, <1>3, <1>4

(* A message is added at the end of every queue, and there is room for it. *)
LEMMA Broadcasts ==
  ASSUME TypeOK, ScreenInv, NEW m \in Messages, Broadcast(m)
  PROVE  ScreenInv' /\ \A c \in Screens : Len(chan'[c]) <= MaxQueue
<1>1. chan' = [c \in Screens |-> Append(chan[c], m)] /\ shown' = shown
      /\ \A c \in Screens : Len(chan[c]) < MaxQueue
  BY DEF Broadcast
<1>2. \A c \in Screens : Append(chan[c], m) \in Seq(Messages) /\ Len(Append(chan[c], m)) = Len(chan[c]) + 1
  BY DEF ScreenInv
<1>3. \A c \in Screens : Len(chan[c]) \in Nat
  BY DEF ScreenInv
<1> QED
  BY <1>1, <1>2, <1>3, BoundAssumption DEF ScreenInv

-----------------------------------------------------------------------------
(* The market data engine *)

LEMMA Shapes ==
  /\ Asleep \in Books /\ Asleep.at = "sleep" /\ Asleep.quote = NoPrice
  /\ [Asleep EXCEPT !.at = "fetch"] \in Books /\ [Asleep EXCEPT !.at = "fetch"].at = "fetch"
  /\ [Asleep EXCEPT !.at = "fetch"].quote = NoPrice
  /\ NotAsked \in Questions /\ NotAsked.at = "idle"
<1>1. Never \in Times
  BY BoundAssumption DEF Times, Never
<1>2. Asleep \in Books /\ Asleep.at = "sleep" /\ Asleep.quote = NoPrice
  BY <1>1 DEF Asleep, Books
<1>3. /\ [Asleep EXCEPT !.at = "fetch"] \in Books /\ [Asleep EXCEPT !.at = "fetch"].at = "fetch"
      /\ [Asleep EXCEPT !.at = "fetch"].quote = NoPrice
  BY <1>1 DEF Asleep, Books
<1>4. NotAsked \in Questions
  BY <1>1, Zenon DEF NotAsked, Questions
<1>5. NotAsked.at = "idle"
  BY Zenon DEF NotAsked
<1> QED
  BY <1>2, <1>3, <1>4, <1>5

LEMMA FeedRoundStep == ASSUME MarketInv, FeedRound PROVE MarketInv'
<1>1. feed' = [s \in Followed |-> [Asleep EXCEPT !.at = "fetch"]]
      /\ UNCHANGED <<now, provider, state, get, screens>>
  BY DEF FeedRound
<1> DEFINE a == [Asleep EXCEPT !.at = "fetch"]
<1>2. a \in Books /\ a.at = "fetch" /\ a.quote = NoPrice
  BY Shapes
<1> HIDE DEF a
<1>3. feed' = [s \in Followed |-> a]
  BY <1>1 DEF a
<1>4. feed' \in [Followed -> Books] /\ FeedInv'
  BY <1>2, <1>3 DEF FeedInv
<1> QED
  BY <1>1, <1>4, FeedOnly

LEMMA FeedFetchStep == ASSUME MarketInv, NEW s \in Followed, FeedFetch(s) PROVE MarketInv'
<1> DEFINE b == [at |-> "store", quote |-> spot[s], since |-> now]
<1>0. /\ feed \in [Followed -> Books] /\ now \in Nat /\ now \in Times
      /\ spot \in [Symbols -> Prices] /\ s \in Symbols
  BY Typed, FeedAssumption DEF MarketInv
<1>1. feed' = [feed EXCEPT ![s] = b] /\ UNCHANGED <<now, provider, state, get, screens>>
  BY DEF FeedFetch
<1>2. b \in Books /\ b.at = "store" /\ b.quote = spot[s] /\ b.since = now /\ b.quote # NoPrice
  BY <1>0, PricesAreNotNone DEF Books
<1> HIDE DEF b
<1>3. feed' \in [Followed -> Books] /\ feed'[s] = b /\ \A u \in Followed \ {s} : feed'[u] = feed[u]
  BY <1>0, <1>1, <1>2
<1>4. FeedInv'
  <2> SUFFICES ASSUME NEW u \in Followed
               PROVE  /\ feed'[u].at = "store" => feed'[u].quote # NoPrice
                      /\ feed'[u].quote # NoPrice =>
                           feed'[u].since \in 0..now' /\ Recent(u, feed[u].since, feed[u].quote)'
    BY DEF FeedInv
  <2>1. CASE u = s
    BY <1>0, <1>1, <1>2, <1>3, <2>1 DEF Recent, provider
  <2>2. CASE u # s
    <3>1. feed'[u] = feed[u]
      BY <1>3, <2>2
    <3> QED
      BY <1>1, <3>1 DEF MarketInv, FeedInv, Recent, provider
  <2> QED
    BY <2>1, <2>2
<1> QED
  BY <1>1, <1>3, <1>4, FeedOnly

(* What is done keeps what it stored, for the batch. *)
LEMMA Done ==
  ASSUME MarketInv, NEW s \in Followed, feed' = [feed EXCEPT ![s].at = "done"],
         UNCHANGED <<now, provider>>
  PROVE  feed' \in [Followed -> Books] /\ FeedInv'
<1>0. feed \in [Followed -> Books] /\ UNCHANGED <<now, spot, left>>
  BY Typed DEF MarketInv, provider
<1>1. /\ feed' \in [Followed -> Books]
      /\ feed'[s].at = "done" /\ feed'[s].quote = feed[s].quote /\ feed'[s].since = feed[s].since
      /\ \A u \in Followed \ {s} : feed'[u] = feed[u]
  BY <1>0 DEF Books
<1>2. FeedInv'
  <2> SUFFICES ASSUME NEW u \in Followed
               PROVE  /\ feed'[u].at = "store" => feed'[u].quote # NoPrice
                      /\ feed'[u].quote # NoPrice =>
                           feed'[u].since \in 0..now' /\ Recent(u, feed[u].since, feed[u].quote)'
    BY DEF FeedInv
  <2>1. feed'[u].quote = feed[u].quote /\ feed'[u].since = feed[u].since
        /\ (feed'[u].at = "store" => feed[u].at = "store")
    BY <1>1
  <2> QED
    BY <1>0, <2>1 DEF MarketInv, FeedInv, Recent
<1> QED
  BY <1>1, <1>2

LEMMA FeedFailsStep == ASSUME MarketInv, NEW s \in Followed, FeedFails(s) PROVE MarketInv'
BY Done, FeedOnly DEF FeedFails, provider

LEMMA FeedStoreStep == ASSUME MarketInv, NEW s \in Followed, FeedStore(s) PROVE MarketInv'
<1>0. /\ feed \in [Followed -> Books] /\ now \in Nat /\ s \in Symbols
  BY Typed, FeedAssumption DEF MarketInv
<1>1. /\ feed[s].at = "store" /\ UpdatePrice(s, feed[s].quote, now, feed[s].since)
      /\ feed' = [feed EXCEPT ![s].at = "done"] /\ UNCHANGED <<now, provider, get, screens>>
  BY DEF FeedStore
<1>2. /\ feed[s].quote \in Prices /\ feed[s].since \in 0..now
      /\ Recent(s, feed[s].since, feed[s].quote)
  BY <1>0, <1>1 DEF MarketInv, FeedInv, Books
<1>3. \E q \in Prices : Recent(s, feed[s].since, q) /\ Apart(feed[s].quote, q) * 100 <= 15 * q
  BY <1>2, CloseToItself
<1>4. now \in 0..now
  BY <1>0
<1>5. /\ ClockInv' /\ PriceInv'
      /\ price' \in [Symbols -> Prices \cup {NoPrice}]
      /\ stamp' \in [Symbols -> Times] /\ origin' \in [Symbols -> Times]
  <2> DEFINE p == feed[s].quote
             b == feed[s].since
  <2>1. /\ p \in Prices /\ b \in 0..now /\ UpdatePrice(s, p, now, b)
        /\ \E q \in Prices : Recent(s, b, q) /\ Apart(p, q) * 100 <= 15 * q
    BY <1>1, <1>2, <1>3
  <2> HIDE DEF p, b
  <2> QED
    BY <1>0, <1>1, <1>4, <2>1, Stores
<1>6. feed' \in [Followed -> Books] /\ FeedInv'
  BY <1>1, Done
<1>7. UNCHANGED <<now, spot, left, get, chan, shown>>
  BY <1>1 DEF provider, screens
<1>8. TypeOK'
  BY <1>5, <1>6, <1>7, Zenon DEF MarketInv, TypeOK, Books
<1>9. ScreenInv' /\ GetInv'
  BY <1>7 DEF MarketInv, ScreenInv, GetInv, Recent
<1> QED
  BY <1>5, <1>6, <1>8, <1>9 DEF MarketInv

LEMMA FeedBroadcastStep == ASSUME MarketInv, FeedBroadcast PROVE MarketInv'
<1> DEFINE stored == {s \in Followed : feed[s].quote # NoPrice}
           m == [s \in stored |-> feed[s].quote]
<1>1. /\ feed' = [s \in Followed |-> Asleep] /\ UNCHANGED <<now, provider, state, get>>
      /\ UNCHANGED screens \/ Broadcast(m)
  BY DEF FeedBroadcast
<1>2. m \in Messages
  <2>1. stored \in SUBSET Symbols
    BY FeedAssumption
  <2>2. \A s \in stored : feed[s].quote \in Prices
    BY Typed DEF MarketInv, Books
  <2>3. m \in [stored -> Prices]
    BY <2>2
  <2> QED
    BY <2>1, <2>3 DEF Messages
<1>3. ScreenInv' /\ \A c \in Screens : Len(chan'[c]) <= MaxQueue
  <2> HIDE DEF m
  <2>1. CASE UNCHANGED screens
    <3>1. \A c \in Screens : Len(chan[c]) <= MaxQueue
      BY Zenon DEF MarketInv, TypeOK
    <3> QED
      BY <2>1, <3>1 DEF MarketInv, ScreenInv, screens
  <2>2. CASE Broadcast(m)
    BY <1>2, <2>2, Broadcasts DEF MarketInv
  <2> QED
    BY <1>1, <2>1, <2>2
<1>4. feed' \in [Followed -> Books] /\ FeedInv'
  BY <1>1, Shapes DEF FeedInv
<1>5. UNCHANGED <<now, spot, left, price, stamp, origin, get>>
  BY <1>1 DEF provider, state
<1>6. \A c \in Screens : shown'[c] \in [Symbols -> Prices \cup {NoPrice}]
  BY <1>3 DEF ScreenInv
<1>7. TypeOK'
  BY <1>3, <1>4, <1>5, <1>6, Zenon DEF MarketInv, TypeOK, Books
<1>8. ClockInv' /\ PriceInv' /\ GetInv'
  BY <1>5 DEF MarketInv, ClockInv, PriceInv, GetInv, Recent
<1> QED
  BY <1>3, <1>4, <1>7, <1>8 DEF MarketInv

-----------------------------------------------------------------------------
(* GET /market/{symbol} *)

LEMMA AskPriceStep ==
  ASSUME MarketInv, NEW r \in Requests, NEW s \in Symbols, AskPrice(r, s)
  PROVE  MarketInv'
<1> DEFINE g == [at |-> "fetch", sym |-> s, price |-> price[s], stamp |-> stamp[s],
                 asked |-> now, quote |-> NoPrice]
<1>0. /\ get \in [Requests -> Questions] /\ now \in Nat /\ now \in Times
      /\ price[s] \in Prices \cup {NoPrice} /\ stamp[s] \in Times
  BY Typed DEF MarketInv
<1>1. get' = [get EXCEPT ![r] = g] /\ UNCHANGED <<now, provider, state, feed, screens>>
  BY DEF AskPrice
<1>2. g \in Questions
  BY <1>0, Zenon DEF Questions
<1>3. g.sym = s /\ g.asked = now /\ g.quote = NoPrice
  OBVIOUS
<1> HIDE DEF g
<1>4. /\ get' \in [Requests -> Questions] /\ get'[r] = g
      /\ \A q \in Requests \ {r} : get'[q] = get[q]
  BY <1>0, <1>1, <1>2
<1>5. GetInv'
  <2> SUFFICES ASSUME NEW q \in Requests, get'[q].at # "idle"
               PROVE  /\ get'[q].sym \in Symbols
                      /\ get'[q].asked \in 0..now'
                      /\ get'[q].quote # NoPrice => Recent(get[q].sym, get[q].asked, get[q].quote)'
    BY DEF GetInv
  <2>1. CASE q = r
    BY <1>0, <1>1, <1>3, <1>4, <2>1
  <2>2. CASE q # r
    <3>1. get'[q] = get[q]
      BY <1>4, <2>2
    <3> QED
      BY <1>1, <3>1 DEF MarketInv, GetInv, Recent, provider
  <2> QED
    BY <2>1, <2>2
<1> QED
  BY <1>1, <1>4, <1>5, GetOnly

LEMMA FetchQuoteStep ==
  ASSUME MarketInv, NEW r \in Requests, FetchQuote(r)
  PROVE  MarketInv'
<1>0. get \in [Requests -> Questions] /\ now \in Nat /\ spot \in [Symbols -> Prices]
  BY Typed DEF MarketInv
<1>1. PICK p \in {spot[get[r].sym], NoPrice} :
        get' = [get EXCEPT ![r].at = "reply", ![r].quote = p]
  BY DEF FetchQuote
<1>2. get[r].at = "fetch" /\ UNCHANGED <<now, provider, state, feed, screens>>
  BY DEF FetchQuote
<1>3. get[r].sym \in Symbols /\ get[r].asked \in 0..now
  BY <1>2 DEF MarketInv, GetInv
<1>4. p \in Prices \cup {NoPrice}
  BY <1>0, <1>1, <1>3
<1> DEFINE g == [get[r] EXCEPT !.at = "reply", !.quote = p]
<1>5. g \in Questions
  BY <1>0, <1>4, Zenon DEF Questions
<1>6. g.sym = get[r].sym /\ g.asked = get[r].asked /\ g.quote = p
  BY <1>0, Zenon DEF Questions
<1>7. get' = [get EXCEPT ![r] = g]
  BY <1>0, <1>1
<1> HIDE DEF g
<1>8. /\ get' \in [Requests -> Questions] /\ get'[r] = g
      /\ \A q \in Requests \ {r} : get'[q] = get[q]
  BY <1>0, <1>5, <1>7
<1>9. GetInv'
  <2> SUFFICES ASSUME NEW q \in Requests, get'[q].at # "idle"
               PROVE  /\ get'[q].sym \in Symbols
                      /\ get'[q].asked \in 0..now'
                      /\ get'[q].quote # NoPrice => Recent(get[q].sym, get[q].asked, get[q].quote)'
    BY DEF GetInv
  <2>1. CASE q = r
    BY <1>1, <1>2, <1>3, <1>6, <1>8, <2>1 DEF Recent, provider
  <2>2. CASE q # r
    <3>1. get'[q] = get[q]
      BY <1>8, <2>2
    <3> QED
      BY <1>2, <3>1 DEF MarketInv, GetInv, Recent, provider
  <2> QED
    BY <2>1, <2>2
<1> QED
  BY <1>2, <1>8, <1>9, GetOnly

(* What is served is the quote, or a price that does not diverge from it. *)
LEMMA ServedIsClose ==
  ASSUME TypeOK, NEW r \in Requests, get[r].quote # NoPrice
  PROVE  Served(r) \in Prices /\ Apart(Served(r), get[r].quote) * 100 <= 15 * get[r].quote
<1>1. get[r].quote \in Prices /\ get[r].price \in Prices \cup {NoPrice}
  BY Typed, Zenon DEF Questions
<1>2. CASE get[r].price = NoPrice \/ IsStale(r) \/ Divergent(r)
  BY <1>1, <1>2, CloseToItself DEF Served
<1>3. CASE ~(get[r].price = NoPrice \/ IsStale(r) \/ Divergent(r))
  <2>1. Served(r) = get[r].price /\ get[r].price \in Prices
    BY <1>1, <1>3 DEF Served
  <2>2. get[r].price \in Nat /\ get[r].quote \in Nat
    BY <1>1, <2>1, FeedAssumption
  <2>3. Apart(get[r].price, get[r].quote) \in Nat
    BY <2>2 DEF Apart
  <2> QED
    BY <1>3, <2>1, <2>2, <2>3 DEF Divergent
<1> QED
  BY <1>2, <1>3

LEMMA AnswerPriceStep ==
  ASSUME MarketInv, NEW r \in Requests, AnswerPrice(r)
  PROVE  MarketInv'
<1>0. get \in [Requests -> Questions]
  BY Typed DEF MarketInv
<1>1. /\ get[r].at = "reply" /\ get' = [get EXCEPT ![r] = NotAsked]
      /\ UNCHANGED <<now, provider, feed, screens>>
      /\ \/ UNCHANGED state
         \/ /\ get[r].quote # NoPrice
            /\ UpdatePrice(get[r].sym, Served(r), get[r].asked, get[r].asked)
  BY DEF AnswerPrice
<1>2. UNCHANGED <<now, spot, left, feed, chan, shown>>
  BY <1>1 DEF provider, screens
<1>3. /\ ClockInv' /\ PriceInv'
      /\ price' \in [Symbols -> Prices \cup {NoPrice}]
      /\ stamp' \in [Symbols -> Times] /\ origin' \in [Symbols -> Times]
  <2>1. CASE UNCHANGED state
    <3>1. UNCHANGED <<price, stamp, origin>>
      BY <2>1 DEF state
    <3> QED
      BY <1>2, <3>1, Typed DEF MarketInv, ClockInv, PriceInv, Recent
  <2>2. CASE /\ get[r].quote # NoPrice
             /\ UpdatePrice(get[r].sym, Served(r), get[r].asked, get[r].asked)
    <3> DEFINE s == get[r].sym
               p == Served(r)
               b == get[r].asked
               q == get[r].quote
    <3>1. s \in Symbols /\ b \in 0..now /\ Recent(s, b, q)
      BY <1>1, <2>2 DEF MarketInv, GetInv
    <3>2. q \in Prices
      BY <1>0, <2>2, Zenon DEF Questions
    <3>3. p \in Prices /\ Apart(p, q) * 100 <= 15 * q
      BY <2>2, ServedIsClose DEF MarketInv
    <3>4. UpdatePrice(s, p, b, b) /\ UNCHANGED <<now, provider>>
      BY <1>1, <2>2
    <3> HIDE DEF s, p, b, q
    <3>5. \E o \in Prices : Recent(s, b, o) /\ Apart(p, o) * 100 <= 15 * o
      BY <3>1, <3>2, <3>3
    <3> QED
      BY <3>1, <3>3, <3>4, <3>5, Stores
  <2> QED
    BY <1>1, <2>1, <2>2
<1>4. /\ get' \in [Requests -> Questions] /\ get'[r] = NotAsked
      /\ \A q \in Requests \ {r} : get'[q] = get[q]
  BY <1>0, <1>1, Shapes
<1>5. GetInv'
  <2> SUFFICES ASSUME NEW q \in Requests, get'[q].at # "idle"
               PROVE  /\ get'[q].sym \in Symbols
                      /\ get'[q].asked \in 0..now'
                      /\ get'[q].quote # NoPrice => Recent(get[q].sym, get[q].asked, get[q].quote)'
    BY DEF GetInv
  <2>1. q # r
    BY <1>4, Shapes
  <2>2. get'[q] = get[q]
    BY <1>4, <2>1
  <2> QED
    BY <1>2, <2>2 DEF MarketInv, GetInv, Recent
<1>6. TypeOK'
  BY <1>2, <1>3, <1>4, Zenon DEF MarketInv, TypeOK, Questions
<1>7. ScreenInv' /\ FeedInv'
  BY <1>2 DEF MarketInv, ScreenInv, FeedInv, Recent
<1> QED
  BY <1>3, <1>5, <1>6, <1>7 DEF MarketInv

-----------------------------------------------------------------------------
(* The stream, the screens and the environment *)

LEMMA StreamSnapshotStep == ASSUME MarketInv, StreamSnapshot PROVE MarketInv'
<1> DEFINE known == {s \in Symbols : price[s] # NoPrice}
           m == [s \in known |-> price[s]]
<1>1. Broadcast(m) /\ UNCHANGED <<now, provider, state, feed, get>>
  BY DEF StreamSnapshot
<1>2. m \in Messages
  <2>1. known \in SUBSET Symbols
    OBVIOUS
  <2>2. m \in [known -> Prices]
    BY Typed DEF MarketInv
  <2> QED
    BY <2>1, <2>2 DEF Messages
<1> HIDE DEF m
<1>3. ScreenInv' /\ \A c \in Screens : Len(chan'[c]) <= MaxQueue
  BY <1>1, <1>2, Broadcasts DEF MarketInv
<1> QED
  BY <1>1, <1>3, ScreensOnly

LEMMA ReceiveStep == ASSUME MarketInv, NEW c \in Screens, Receive(c) PROVE MarketInv'
<1> DEFINE m == Head(chan[c])
           after == [s \in Symbols |->
                       IF s \in DOMAIN m THEN Merged(shown[c][s], m[s]) ELSE shown[c][s]]
<1>0. /\ chan \in [Screens -> Seq(Messages)]
      /\ shown \in [Screens -> [Symbols -> Prices \cup {NoPrice}]]
  BY DEF MarketInv, ScreenInv
<1>1. /\ chan[c] # <<>> /\ chan' = [chan EXCEPT ![c] = Tail(chan[c])]
      /\ shown' = [shown EXCEPT ![c] = after]
      /\ UNCHANGED <<now, provider, state, feed, get>>
  BY DEF Receive
<1>2. m \in Messages /\ Tail(chan[c]) \in Seq(Messages) /\ Len(Tail(chan[c])) < Len(chan[c])
      /\ Len(chan[c]) \in Nat /\ Len(Tail(chan[c])) \in Nat
  BY <1>0, <1>1
<1>3. after \in [Symbols -> Prices \cup {NoPrice}]
  <2>1. ASSUME NEW s \in Symbols, s \in DOMAIN m
        PROVE  m[s] \in Prices
    <3> HIDE DEF m
    <3> QED
      BY <1>2, <2>1 DEF Messages
  <2> HIDE DEF m
  <2> QED
    BY <1>0, <2>1 DEF Merged
<1> HIDE DEF m, after
<1>4. ScreenInv'
  BY <1>0, <1>1, <1>2, <1>3 DEF ScreenInv
<1>5. \A d \in Screens : Len(chan[d]) <= MaxQueue
  BY Zenon DEF MarketInv, TypeOK
<1>6. \A d \in Screens : Len(chan'[d]) <= MaxQueue
  <2> SUFFICES ASSUME NEW d \in Screens PROVE Len(chan'[d]) <= MaxQueue
    OBVIOUS
  <2>1. CASE d = c
    <3>1. chan'[d] = Tail(chan[c])
      BY <1>0, <1>1, <2>1
    <3> QED
      BY <1>2, <1>5, <3>1, BoundAssumption
  <2>2. CASE d # c
    BY <1>0, <1>1, <1>5, <2>2
  <2> QED
    BY <2>1, <2>2
<1> QED
  BY <1>1, <1>4, <1>6, ScreensOnly

LEMMA QuoteStep ==
  ASSUME MarketInv, NEW s \in Symbols, NEW p \in Prices, Quote(s, p)
  PROVE  MarketInv'
<1>0. /\ left \in [Symbols -> [Prices -> Times]] /\ spot \in [Symbols -> Prices]
      /\ now \in Nat /\ now \in Times
      /\ price \in [Symbols -> Prices \cup {NoPrice}] /\ feed \in [Followed -> Books]
      /\ get \in [Requests -> Questions]
  BY Typed DEF MarketInv
<1>1. /\ spot' = [spot EXCEPT ![s] = p] /\ left' = [left EXCEPT ![s][spot[s]] = now]
      /\ UNCHANGED <<now, state, feed, get, screens>>
  BY DEF Quote
<1>2. UNCHANGED <<now, price, stamp, origin, feed, get, chan, shown>>
  BY <1>1 DEF state, screens
<1>3. spot' \in [Symbols -> Prices] /\ left' \in [Symbols -> [Prices -> Times]]
  BY <1>0, <1>1
<1>4. TypeOK'
  BY <1>2, <1>3, Zenon DEF MarketInv, TypeOK
<1>5. ClockInv'
  <2>1. \A u \in Symbols, q \in Prices : left'[u][q] = left[u][q] \/ left'[u][q] = now
    BY <1>0, <1>1
  <2> QED
    BY <1>0, <1>2, <2>1 DEF MarketInv, ClockInv
<1>6. \A u \in Symbols : \A t \in 0..now : \A q \in Prices : Recent(u, t, q) => Recent(u, t, q)'
  BY RecentStays DEF MarketInv
<1>7. PriceInv'
  BY <1>2, <1>6 DEF MarketInv, PriceInv
<1>8. FeedInv'
  <2> SUFFICES ASSUME NEW u \in Followed
               PROVE  /\ feed'[u].at = "store" => feed'[u].quote # NoPrice
                      /\ feed'[u].quote # NoPrice =>
                           feed'[u].since \in 0..now' /\ Recent(u, feed[u].since, feed[u].quote)'
    BY DEF FeedInv
  <2>1. u \in Symbols /\ (feed[u].quote # NoPrice => feed[u].quote \in Prices)
    BY <1>0, FeedAssumption DEF Books
  <2> QED
    BY <1>2, <1>6, <2>1 DEF MarketInv, FeedInv
<1>9. GetInv'
  <2> SUFFICES ASSUME NEW r \in Requests, get'[r].at # "idle"
               PROVE  /\ get'[r].sym \in Symbols
                      /\ get'[r].asked \in 0..now'
                      /\ get'[r].quote # NoPrice => Recent(get[r].sym, get[r].asked, get[r].quote)'
    BY DEF GetInv
  <2>1. get[r].quote # NoPrice => get[r].quote \in Prices
    BY <1>0, Zenon DEF Questions
  <2> QED
    BY <1>2, <1>6, <2>1 DEF MarketInv, GetInv
<1> QED
  BY <1>2, <1>4, <1>5, <1>7, <1>8, <1>9 DEF MarketInv, ScreenInv

LEMMA ClockStep == ASSUME MarketInv, Clock PROVE MarketInv'
<1>0. now \in Nat /\ now \in 0..MaxTime
  <2>1. now \in 0..MaxTime
    BY Zenon DEF MarketInv, TypeOK
  <2> QED
    BY <2>1, Typed DEF MarketInv
<1>1. now < MaxTime /\ now' = now + 1 /\ UNCHANGED <<provider, state, feed, get, screens>>
  BY DEF Clock
<1>2. UNCHANGED <<spot, left, price, stamp, origin, feed, get, chan, shown>>
  BY <1>1 DEF provider, state, screens
<1>3. now' \in 0..MaxTime /\ 0..now \subseteq 0..now'
  BY <1>0, <1>1, BoundAssumption
<1>4. TypeOK'
  BY <1>2, <1>3, Zenon DEF MarketInv, TypeOK
<1>5. ClockInv'
  <2>1. \A u \in Symbols : stamp[u] \in Int /\ \A q \in Prices : left[u][q] \in Int
    BY Typed, BoundAssumption DEF MarketInv, Times, Never
  <2> QED
    BY <1>0, <1>1, <1>2, <2>1 DEF MarketInv, ClockInv
<1>6. PriceInv' /\ FeedInv' /\ GetInv' /\ ScreenInv'
  BY <1>2, <1>3 DEF MarketInv, PriceInv, FeedInv, GetInv, ScreenInv, Recent
<1> QED
  BY <1>4, <1>5, <1>6 DEF MarketInv

-----------------------------------------------------------------------------
(* The invariant, and what it says. *)

LEMMA InitMarket == Init => MarketInv
<1> SUFFICES ASSUME Init
             PROVE  MarketInv
  OBVIOUS
<1>1. /\ now = 0 /\ spot \in [Symbols -> Prices]
      /\ left = [s \in Symbols |-> [p \in Prices |-> Never]]
      /\ price = [s \in Symbols |-> NoPrice]
      /\ stamp = [s \in Symbols |-> Never] /\ origin = [s \in Symbols |-> Never]
      /\ feed = [s \in Followed |-> Asleep] /\ get = [r \in Requests |-> NotAsked]
      /\ chan = [c \in Screens |-> <<>>] /\ shown = [c \in Screens |-> [s \in Symbols |-> NoPrice]]
  BY DEF Init
<1>2. Never \in Times /\ 0 \in 0..MaxTime /\ Never <= 0 /\ 0 <= MaxQueue
  BY BoundAssumption DEF Times, Never
<1>3. /\ left \in [Symbols -> [Prices -> Times]]
      /\ price \in [Symbols -> Prices \cup {NoPrice}]
      /\ stamp \in [Symbols -> Times] /\ origin \in [Symbols -> Times]
      /\ feed \in [Followed -> Books] /\ get \in [Requests -> Questions]
  BY <1>1, <1>2, Shapes
<1>4. ScreenInv
  BY <1>1 DEF ScreenInv
<1>5. \A c \in Screens : Len(chan[c]) <= MaxQueue /\ shown[c] \in [Symbols -> Prices \cup {NoPrice}]
  BY <1>1, <1>2
<1>6. TypeOK
  BY <1>1, <1>2, <1>3, <1>5, Zenon DEF TypeOK, Books, Questions
<1>7. ClockInv
  BY <1>1, <1>2 DEF ClockInv
<1>8. PriceInv
  BY <1>1 DEF PriceInv
<1>9. FeedInv /\ GetInv
  BY <1>1, Shapes DEF FeedInv, GetInv
<1> QED
  BY <1>4, <1>6, <1>7, <1>8, <1>9 DEF MarketInv

LEMMA MarketInvariant == Spec => []MarketInv
<1>1. MarketInv /\ [Next]_vars => MarketInv'
  <2> SUFFICES ASSUME MarketInv, [Next]_vars
               PROVE  MarketInv'
    OBVIOUS
  <2>1. CASE UNCHANGED vars
    <3>1. UNCHANGED <<now, spot, left, price, stamp, origin, feed, get, chan, shown>>
      BY <2>1 DEF vars
    <3>2. TypeOK'
      BY <3>1, Zenon DEF MarketInv, TypeOK
    <3> QED
      BY <3>1, <3>2 DEF MarketInv, ClockInv, PriceInv, FeedInv, GetInv, ScreenInv, Recent
  <2>2. CASE Feed
    BY <2>2, FeedRoundStep, FeedFetchStep, FeedFailsStep, FeedStoreStep, FeedBroadcastStep DEF Feed
  <2> QED
    BY <2>1, <2>2, AskPriceStep, FetchQuoteStep, AnswerPriceStep, StreamSnapshotStep,
       ReceiveStep, QuoteStep, ClockStep DEF Next
<1> QED
  BY <1>1, InitMarket, PTL DEF Spec

(* Prices, requests, messages and screens are typed: what a request asks   *)
(* for is a symbol, and no queue is longer than its bound.                 *)
THEOREM FeedTypeCorrect == Spec => []TypeOK
<1>1. MarketInv => TypeOK
  BY DEF MarketInv
<1> QED
  BY <1>1, MarketInvariant, PTL

(* However many writers overtake each other (routes.py:253,                *)
(* market_data_engine.py:92), what market_state serves is within 15% of    *)
(* what the provider has quoted since the last of them began.              *)
THEOREM StoredPricesStayClose == Spec => []OldPricesStayClose
<1>1. MarketInv => OldPricesStayClose
  <2> SUFFICES ASSUME MarketInv, NEW s \in Symbols, price[s] # NoPrice
               PROVE  \E q \in QuotedSince(s, origin[s]) : Apart(price[s], q) * 100 <= 15 * q
    BY DEF OldPricesStayClose
  <2>1. PICK q \in Prices : Recent(s, origin[s], q) /\ Apart(price[s], q) * 100 <= 15 * q
    BY DEF MarketInv, PriceInv
  <2>2. origin[s] \in Nat
    BY Typed DEF MarketInv, PriceInv
  <2>3. q \in QuotedSince(s, origin[s])
    BY <2>1, <2>2, RecentIsQuotedSince
  <2> QED
    BY <2>1, <2>3
<1> QED
  BY <1>1, MarketInvariant, PTL
=============================================================================
