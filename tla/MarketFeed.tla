----------------------------- MODULE MarketFeed -----------------------------
(***************************************************************************)
(* Prices on their way from the provider to a screen: the market data      *)
(* engine (app/market/market_data_engine.py) and GET /market/{symbol}      *)
(* (app/api/routes.py) write market_state (app/market/market_state.py),    *)
(* the market stream (app/websocket/market_stream.py) reads it, and        *)
(* broadcasts arrive at the useMarket hook (frontend/src/hooks/            *)
(* useMarket.js).                                                          *)
(*                                                                         *)
(* market_state locks each method, not what a caller does with two of      *)
(* them: an action is what happens between two awaits of the event loop,   *)
(* or between two calls that leave market_state alone in a request thread. *)
(*                                                                         *)
(* Data abstracted: a message is a function from symbols to prices; the    *)
(* seconds of the code are ticks of now.                                   *)
(***************************************************************************)
EXTENDS TickGuard, Integers, Sequences, FiniteSets, FiniteSetsExt

CONSTANTS Symbols,     \* symbols anybody asks for
          Followed,    \* SYMBOLS of the two engines
          Prices,      \* bound: what the provider may quote
          Requests,    \* bound: GET /market/{symbol} in flight
          StaleAfter,  \* age at which market_symbol distrusts a price
          Screens,     \* mounted useMarket hooks
          MaxQueue,    \* bound: messages on their way to a screen
          MaxTime      \* bound on the clock

ASSUME FeedAssumption == Followed \subseteq Symbols /\ Prices \subseteq Nat \ {0}
ASSUME BoundAssumption == StaleAfter \in Nat /\ MaxTime \in Nat /\ MaxQueue \in Nat \ {0}

VARIABLES now,     \* time.time()
          spot,    \* the provider's price of each symbol
          price,   \* market_state.prices
          stamp,   \* market_state.price_timestamp
          feed,    \* process_symbol of each followed symbol
          get,     \* requests for one symbol's price
          chan,    \* messages on their way to each screen
          shown,   \* price in bufferRef of each screen
          origin,  \* history: when the writer of price began
          left     \* history: when the provider last left a quote

provider == <<spot, left>>
state == <<price, stamp, origin>>
screens == <<chan, shown>>
vars == <<now, spot, price, stamp, feed, get, chan, shown, origin, left>>

Never == -1
Asleep == [at |-> "sleep", quote |-> NoPrice, since |-> Never]
NotAsked == [at |-> "idle", sym |-> "", price |-> NoPrice, stamp |-> Never,
             asked |-> Never, quote |-> NoPrice]

-----------------------------------------------------------------------------
(* Writers of market_state *)

SetDefault(s, p, ts, began) ==  \* mutant: only an unknown price is stored
  IF price[s] # NoPrice THEN UNCHANGED state
  ELSE /\ price' = [price EXCEPT ![s] = p]
       /\ stamp' = [stamp EXCEPT ![s] = ts]
       /\ origin' = [origin EXCEPT ![s] = began]
UpdatePrice(s, p, ts, began) ==
  /\ price' = [price EXCEPT ![s] = p]
  /\ stamp' = [stamp EXCEPT ![s] = ts]
  /\ origin' = [origin EXCEPT ![s] = began]

(* manager.broadcast waits for every connection it sends to. *)
SendAnyway(m) ==  \* mutant: nobody waits for a slow connection
  /\ chan' = [c \in Screens |-> Append(chan[c], m)]
  /\ UNCHANGED shown
Broadcast(m) ==
  /\ \A c \in Screens : Len(chan[c]) < MaxQueue
  /\ chan' = [c \in Screens |-> Append(chan[c], m)]
  /\ UNCHANGED shown

(* start_market_data_engine: gather over the symbols ... *)
FeedRound ==
  /\ \A s \in Followed : feed[s].at = "sleep"
  /\ feed' = [s \in Followed |-> [Asleep EXCEPT !.at = "fetch"]]
  /\ UNCHANGED <<now, provider, state, get, screens>>

FeedFetch(s) ==
  /\ feed[s].at = "fetch"
  /\ feed' = [feed EXCEPT ![s] = [at |-> "store", quote |-> spot[s], since |-> now]]
  /\ UNCHANGED <<now, provider, state, get, screens>>

(* No frame, no close column, a price that is not finite and positive, an exception. *)
FeedFails(s) ==
  /\ feed[s].at = "fetch"
  /\ feed' = [feed EXCEPT ![s].at = "done"]
  /\ UNCHANGED <<now, provider, state, get, screens>>

FeedStore(s) ==
  /\ feed[s].at = "store"
  /\ UpdatePrice(s, feed[s].quote, now, feed[s].since)
  /\ feed' = [feed EXCEPT ![s].at = "done"]
  /\ UNCHANGED <<now, provider, get, screens>>

(* ... then one batch of what was stored in this round. *)
FeedBroadcast ==
  LET stored == {s \in Followed : feed[s].quote # NoPrice}
  IN /\ \A s \in Followed : feed[s].at = "done"
     /\ feed' = [s \in Followed |-> Asleep]
     /\ IF stored = {} THEN UNCHANGED screens
        ELSE Broadcast([s \in stored |-> feed[s].quote])
     /\ UNCHANGED <<now, provider, state, get>>

(* market_symbol: price and timestamp are read, then the clock. *)
AskPrice(r, s) ==
  /\ get[r].at = "idle"
  /\ get' = [get EXCEPT ![r] =
       [at |-> "fetch", sym |-> s, price |-> price[s], stamp |-> stamp[s],
        asked |-> now, quote |-> NoPrice]]
  /\ UNCHANGED <<now, provider, state, feed, screens>>

FetchQuote(r) ==
  /\ get[r].at = "fetch"
  /\ \E q \in {spot[get[r].sym], NoPrice} :
       get' = [get EXCEPT ![r].at = "reply", ![r].quote = q]
  /\ UNCHANGED <<now, provider, state, feed, screens>>

NeverDivergent(r) == FALSE  \* mutant: the divergence is not looked at
Divergent(r) == Apart(get[r].price, get[r].quote) * 100 > 15 * get[r].quote
IsStale(r) == get[r].stamp = Never \/ get[r].asked - get[r].stamp > StaleAfter

(* What is served is also stored, stamped with the time of the question. *)
Served(r) ==
  IF get[r].price = NoPrice \/ IsStale(r) \/ Divergent(r) THEN get[r].quote ELSE get[r].price

AnswerPrice(r) ==
  /\ get[r].at = "reply"
  /\ IF get[r].quote = NoPrice THEN UNCHANGED state
     ELSE UpdatePrice(get[r].sym, Served(r), get[r].asked, get[r].asked)
  /\ get' = [get EXCEPT ![r] = NotAsked]
  /\ UNCHANGED <<now, provider, feed, screens>>

-----------------------------------------------------------------------------
(* The stream and the screens *)

(* Building the payload and sending it are one step here: a price may move *)
(* between the two in the code.  The properties hold with the two apart as *)
(* well, in a state space four times as large.                             *)
StreamSnapshot ==
  LET known == {s \in Symbols : price[s] # NoPrice}
  IN /\ known # {}
     /\ Broadcast([s \in known |-> price[s]])
     /\ UNCHANGED <<now, provider, state, feed, get>>

(* mergeUpdates *)
Receive(c) ==
  LET m == Head(chan[c])
  IN /\ chan[c] # <<>>
     /\ chan' = [chan EXCEPT ![c] = Tail(@)]
     /\ shown' = [shown EXCEPT ![c] = [s \in Symbols |->
          IF s \in DOMAIN m THEN Merged(@[s], m[s]) ELSE @[s]]]
     /\ UNCHANGED <<now, provider, state, feed, get>>

-----------------------------------------------------------------------------
(* The environment *)

Quote(s, p) ==
  /\ p # spot[s]
  /\ spot' = [spot EXCEPT ![s] = p]
  /\ left' = [left EXCEPT ![s][spot[s]] = now]
  /\ UNCHANGED <<now, state, feed, get, screens>>

Clock ==
  /\ now < MaxTime
  /\ now' = now + 1
  /\ UNCHANGED <<provider, state, feed, get, screens>>

-----------------------------------------------------------------------------
Init ==
  /\ now = 0
  /\ spot \in [Symbols -> Prices]
  /\ left = [s \in Symbols |-> [p \in Prices |-> Never]]
  /\ price = [s \in Symbols |-> NoPrice]
  /\ stamp = [s \in Symbols |-> Never]
  /\ origin = [s \in Symbols |-> Never]
  /\ feed = [s \in Followed |-> Asleep]
  /\ get = [r \in Requests |-> NotAsked]
  /\ chan = [c \in Screens |-> <<>>]
  /\ shown = [c \in Screens |-> [s \in Symbols |-> NoPrice]]

Feed == FeedRound \/ FeedBroadcast \/ \E s \in Followed : FeedFetch(s) \/ FeedFails(s) \/ FeedStore(s)

Next ==
  \/ Feed
  \/ \E r \in Requests : FetchQuote(r) \/ AnswerPrice(r) \/ \E s \in Symbols : AskPrice(r, s)
  \/ StreamSnapshot
  \/ \E c \in Screens : Receive(c)
  \/ \E s \in Symbols, p \in Prices : Quote(s, p)
  \/ Clock

Spec == Init /\ [][Next]_vars

(* The engine's loop never ends and its awaits return; a provider that is  *)
(* asked again and again answers some time; senders that wait for room in  *)
(* a connection get it in turn; a screen reads its messages.               *)
Fairness ==
  /\ WF_vars(Feed)
  /\ \A s \in Followed : WF_vars(FeedStore(s)) /\ SF_vars(FeedFetch(s))
  /\ SF_vars(FeedBroadcast)
  /\ \A c \in Screens : WF_vars(Receive(c))
FairSpec == Spec /\ Fairness

-----------------------------------------------------------------------------
(* Properties *)

Times == Never..MaxTime

TypeOK ==
  /\ now \in 0..MaxTime
  /\ spot \in [Symbols -> Prices]
  /\ price \in [Symbols -> Prices \cup {NoPrice}]
  /\ stamp \in [Symbols -> Times]
  /\ origin \in [Symbols -> Times]
  /\ left \in [Symbols -> [Prices -> Times]]
  /\ feed \in [Followed -> [at : {"sleep", "fetch", "store", "done"},
                            quote : Prices \cup {NoPrice}, since : Times]]
  /\ get \in [Requests -> [at : {"idle", "fetch", "reply"}, sym : Symbols \cup {""},
                           price : Prices \cup {NoPrice}, stamp : Times, asked : Times,
                           quote : Prices \cup {NoPrice}]]
  /\ \A c \in Screens :
       Len(chan[c]) <= MaxQueue /\ shown[c] \in [Symbols -> Prices \cup {NoPrice}]

(* What the provider has quoted at or after time t. *)
QuotedSince(s, t) == {p \in Prices : p = spot[s] \/ left[s][p] >= Max({t, 0})}

(* Two writers that read, fetch and write without a lock (routes.py:253-275 *)
(* and market_data_engine.py:92-99) may put an old price back, yet never    *)
(* one further than 15% from what the provider has quoted since the writer  *)
(* began: orders are settled at this price.                                 *)
OldPricesStayClose ==
  \A s \in Symbols : price[s] # NoPrice =>
    \E q \in QuotedSince(s, origin[s]) : Apart(price[s], q) * 100 <= 15 * q

(* A request that puts an old price back (routes.py:275) does not make it   *)
(* stick: while the engine follows the symbol, either the provider's quote  *)
(* keeps moving or it is stored again and again.                            *)
Moving(s) == []<><<TRUE>>_(spot[s])
PriceFollowsProvider == \A s \in Followed : Moving(s) \/ []<>(price[s] = spot[s])

Shows(c, s) == shown[c][s] = spot[s]
Refuses(c, s) == shown[c][s] # NoPrice /\ Jump(shown[c][s], spot[s])

(* The same on every screen, behind the batches and the snapshots, except    *)
(* that a screen which missed the way to a price more than 35% from what it *)
(* shows refuses it (useMarket.js:43).                                      *)
ScreenFollowsProvider ==
  \A c \in Screens, s \in Followed : Moving(s) \/ []<>(Shows(c, s) \/ Refuses(c, s))
=============================================================================
