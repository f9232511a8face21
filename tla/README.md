# Formal model of the trading simulator

TLA+ modules that model the concurrent core of this repository, TLC
configurations that check them on small instances, and theorems checked by
TLAPS.  Paths below are relative to the repository's root.

## 1. The system

A FastAPI server (`main.py`, `app/`), a PostgreSQL database, a Redis token store
and a React client (`frontend/`).

| Component | State it keeps | Operations | Hard behaviour |
|---|---|---|---|
| Trading path: `app/api/routes.py`, `app/risk`, `app/execution` | `users.balance`, `positions`, `trades`; row locks; the ORM session of each request | POST `/trades`, POST `/account/reset` | requests of one user interleave between SQL statements; reads that are stale when written back; lock cycles |
| Auth sessions: `app/services/auth_service.py`, `app/api/v1/auth.py`, `frontend/src/services/apiClient.js`, `authService.js` | refresh keys in Redis, the refresh cookie, the token of each tab, `refreshInFlight` | login, refresh, logout, hydration, API call with retry | refreshes that race over one cookie; lost replies; many calls waiting on one promise |
| Market state and feed: `app/market`, GET `/market/{symbol}`, `app/websocket/market_stream.py`, `frontend/src/hooks/useMarket.js` | last price, its timestamp, candles and signals in memory; the buffer of each screen | feed round, price request, snapshot, merge | threads behind one lock per call; stale write-backs; two broadcasts of one price |
| Candle engine | the open candle of each symbol and timeframe | fold a tick, roll over | bucket boundaries; a round that lags behind the clock |
| Signal engine: `app/quant/signal_engine.py` | result cache, `_running`, thread pool | generate, refresh, start, stop, cleanup | compute outside the lock, restart while the old loop sleeps |
| Websocket server: `app/websocket` | set of connections | connect, disconnect, broadcast | sends to a snapshot of the set |
| Realtime client: `frontend/src/services/websocket.js` | socket, timers, queue, attempts | connect, close, send, reconnect | callbacks of a socket that was replaced |
| Portfolio, PnL, performance: `app/portfolio` | equity snapshots; otherwise derived | PnL, equity, snapshot | two accounting methods in one total; check-then-insert |
| Rate limiter: `app/core/rate_limit.py` | a deque of hits per client and path | admit | window boundary |
| Supervisor and startup: `main.py`, `app/core/database.py`, `app/core/db_bootstrap.py`, `app/infra/redis_client.py` | engine tasks, back-off, client singletons | start, crash, restart, shut down | restart and time-out races |
| Demo seed: `app/seed/demo.py` | one curated account | re-seed | races with the demo user's own requests |
| Backtester, models, sentiment, options, regimes: `app/quant`, `app/ml` | none that is shared | numeric functions | floating point |
| Quant lab pages: `frontend/src/pages/MarketRegime.jsx` and eight more, `components/ui` | form, last answer, busy flag, timers, animation frames, overlay | edit, run, leave, answer | late and overtaken answers; loops that are cancelled and started by several effects |
| Order desk pages: `Trade`, `Portfolio`, `Dashboard`, `Performance`, `PaperAccount`, `Account` | what was fetched, busy flags, listeners of `tradeService` | order, reset, refresh, change the password | answers out of order; lost answers; pages left while a request is out |
| Remaining user interface | rendering | | |

Interaction.  The feed writes prices that the trading path reads twice, once for
the risk check and once for the execution.  All requests of a user meet in three
tables.  The tabs of a browser meet in one cookie and one set of Redis keys; the
access token they obtain is what every other request presents.  The engines
broadcast through the websocket server to the realtime clients.  The router mounts
one page at a time; a page that is gone leaves its requests behind, and the order
desk tells whatever page is mounted when an order has been placed.

What makes each part correct: no order may lose or invent cash or shares, pass a
limit, or stay unanswered; a session may not die by the client's own concurrency
and no call may wait for ever; a broadcast reaches every client that stays
connected; the open candle is the fold of its ticks; two ways to compute a profit
agree; a window never admits more than its limit; a crashed engine is restarted.
A page shows the answer to what it asked last, catches up with the server's books,
and never leaves a control disabled; a client whose network and token work again is
connected again.

## 2. Modules

| Module | Models |
|---|---|
| `PaperTrading` | the trading path, one action per SQL statement |
| `TradingLedger` | what the trading path promises: atomic orders and resets |
| `PaperTradingProofs` | theorems about `PaperTrading` |
| `TradingLedgerProofs` | `PaperTrading` with one request per user implements `TradingLedger`, and what follows |
| `MCPaperTrading` | symmetry sets for TLC |
| `AuthSessions` | browser tabs, auth handlers and Redis, one action per await |
| `AuthSessionsProofs` | theorems about `AuthSessions` |
| `MCAuthSessions` | instances for TLC |
| `MarketFeed` | prices from the provider to `market_state` and on to a screen |
| `MarketFeedProofs` | theorems about `MarketFeed` |
| `CandleEngine` | the candle engine's rounds and the candle history |
| `MCCandleEngine` | bucket widths for TLC |
| `CandleEngineProofs` | theorems about `CandleEngine` |
| `TickGuard` | the merge of a price into what a screen has (`useMarket.js`) |
| `RealtimeClient` | the tab's socket engine, the endpoint and the connection manager, one action per callback or stretch between awaits |
| `RealtimeClientProofs` | theorems about `RealtimeClient` |
| `Router` | the routes, and what a click can mount |
| `Canvases` | the two animated canvases: frames, effects, drags |
| `LabPages` | the nine pages of the quant lab over `Router` and `Canvases` |
| `LatestAnswer` | what a page that asks for a computation promises |
| `LabPagesProofs` | theorems about `LabPages` and `Canvases`, and the refinement of `LatestAnswer` |
| `OrderDesk` | the six pages that trade and show the account |
| `OrderDeskProofs` | theorems about `OrderDesk` |

`MarketFeed` and `RealtimeClient` extend `TickGuard`; `LabPages` and `OrderDesk`
extend `Router`; `LabPages` extends `Canvases`.

### PaperTrading

`pc[r]` is the next statement of the handler in slot `r`:

| `pc` | Action | Code |
|---|---|---|
| `idle` | `Authenticate` | `get_current_user`: loads the users row into the session |
| `quote` | `Quote` | `routes.trade`, quantity and price checks |
| `daily` | `CheckDailyLoss` | `check_daily_loss_limit` |
| `risk` | `LockPosition` | `positions ... FOR UPDATE`, position limit |
| `exposure` | `CheckExposure` | `SUM(quantity * avg_price)` |
| `execute` | `LockUser` | `users ... FOR UPDATE` |
| `body` | `Execute` | second price read, balance or shares check, position read |
| `commit` | `CommitTrade` | flush and commit |
| `rsPositions`, `rsLocks` | `DeletePositions`, `DeleteRow` | `reset_account`: DELETE of the positions seen when it begins, row by row |
| `rsLocks`, `rsTrades` | `SeeTrades`, `DeleteTrades` | DELETE of the trades seen when it begins, after other resets that hold some of them |
| `rsUser` | `CommitReset` | UPDATE of the user, commit |

`cash[r]` is the balance in the session's identity map.  It is read at
authentication and not read again by the `FOR UPDATE` query, since SQLAlchemy does
not overwrite loaded attributes unless asked to (`populate_existing`).  Positions
are read afresh by each query: nothing keeps the objects of the risk check alive.
`userLock` and `rowLock` are PostgreSQL's row locks, released by `SessionCloses`.
`DeadlockAbort` is PostgreSQL's detector.  `PriceTick` and `Midnight` are the
environment: the feed, and the day over which the daily loss is summed.

`basis` stands for `quantity * avg_price`, rounded down on a sale; `booked` stands
for the rows of `trades`, summed (the code only ever sums them).  Symbols and
prices are small sets.  The equity snapshot after a trade, read-only routes and
account creation are left out.  A symbol is taken as spelt in upper case.

### TradingLedger

`Buy`, `Sell`, `Reset` and `NewDay` on whole accounts.  With one request of a user
at a time `PaperTrading` refines it (`ImplementsLedger`): the commit maps to the
order or reset, every other step to a stutter.  The price of an order is the
price it was executed at, not the price its exposure was checked at.

### AuthSessions

An exchange is a request to an auth endpoint.  `get`, `delete`, `issue`, `revoke`
are the Redis commands its handler still has to send; `reply` and `refused` wait
for delivery.  `LoadPage` covers what a page load does to a tab (memory gone,
replies dropped, one hydration sent), whether the user reloads or the interceptor
goes to `/login`.  `GiveUp` is a client time-out, a network error or a 5xx; the
handler may go on (its reply goes to nobody) or die between two commands.
Logout does not clear the cookie: the cleared cookie is set on the injected
response, and the route returns another one.  Tokens are numbers; a token nobody
holds can never be presented again and its number is reused (`Forget`), which
keeps the model finite without a counter.  `Register` is the sign-up form:
`LookUpName` and `InsertUser` are the query and the insert, with the constraint
that refuses the second of two equal names, and `known` says that the form's name is
taken.  Neither the forms nor the logout button have a guard that outlasts a render,
so a second submission may overlap the first.  `UserDoes` chooses what the user of a
run does besides signing in.  A refresh that fails loads the login page, unless the tab was signed out meanwhile
and may be there already (`StaysOnLogin`).  The API calls are those outside `/auth/`;
calls to the profile and password routes, which are not retried, are left out.  The
store's `hasHydrated`, the profile data and the access token's block list (written, never read) are left out.  `rotators`, `ended`
and `lost` are history variables.

### MarketFeed

`feed[s]` is `process_symbol` of a followed symbol: `fetch` is the thread that asks
the provider, `store` the task that resumes with the quote; `done` waits for the
others of the round, and `FeedBroadcast` sends the batch.  `get[r]` is a request in
its worker thread, with what it read before it asked the provider.  Each call of
`market_state` is atomic (its lock); nothing is atomic across two of them.
`Broadcast` waits for every connection, as `manager.broadcast` does.  `Receive`
is `mergeUpdates` with its guard against jumps.  `origin` and `left` are history
variables: when the writer of the current price began, and when the provider left
each quote.  The provider has no cache of its own here, as in the default, synthetic
mode; connections stay open; signals and candles in the messages are left out.
`StreamSnapshot` builds and sends a snapshot in one step; in the code a price may move
in between, on which no checked property depends.

### CandleEngine

`tick` is the clock as the round read it and `todo` the symbols it has still to
fold.  Between two symbols (the broadcast is awaited there) the clock and any price
may move.  `FoldTick` runs `_update_candle` for all timeframes of a symbol, which
has no await in it.  `closed` is `market_state.candles`, a deque of `MAX_CANDLES`.

### RealtimeClient

`eng` is the `WebSocketEngine`, with the number of its time-outs and whether its
heartbeat runs; `sock` what the browser says of each socket object, `linked` whether
the connection below it works, `conn` where `websocket_endpoint` is, `registry` the
manager's set.  `OnOpen`, `OnClose`, `Reconnect` and `Heartbeat` are the callbacks,
each with everything it calls (`Closed`, `Retried`, `Opened`: clean-up, schedule,
flush, subscribe).  Each of `Engines` broadcasts on its own, beside the others: `Broadcast`
takes a snapshot of the registry and waits for every `SafeSend`.  The environment signs in and out, lets tokens expire, breaks links and
restarts the server.  A bad token is refused before the socket is accepted, which a
browser reports as a close like any other.

### LabPages, Canvases, LatestAnswer

An event handler with the renders and effects it causes is one step, and so is the
landing of an answer.  A form is abstracted to an input, an answer to the input it
is for, its status, and for the regime page the regimes of its bars.  `calls` are
the requests in flight; `mounted` is the flag that the clean-up of an effect lowers.
Three pages look at that flag (`Guarded`); the debounced ones start a timer at each
edit; the sentiment page asks at a new symbol.  `modal.saved` has an entry for
each open overlay: what its effect found as the body's scroll style.  An overlay runs
its effect again at every render of its owner while it is open, which is what happens
since its callers pass a new function each time.  Every info button owns an overlay,
nothing keeps the focus inside an open one, so a second can be opened from the
keyboard; the cross closes one, Escape all; one whose block an answer removes is gone.  `Scan` is the loop of `buildSegments`: what it holds after each bar.  In
`Canvases` a frame is named after the props its closure draws; `orb.loops` is the
sequence of the frames a surface has asked for and not been given, and `orb.held` says
that the last of them is the one its `raf` ref can cancel.

`GuardedPagesShowTheAnswer` is a refinement: `asked` maps to the newest request and
`shown` to the figures on the screen of a guarded page that is not busy.

### OrderDesk

The server's books are a version number, made newer by every order and reset that
is carried out (`ServerRuns`); a read answers with a version that was current at
some time since it was sent.  `jobs` are requests that change something and the
reads their handlers await, each under a number nothing depends on; `home` says that the page that started one is still
mounted.  A ghost is a request whose client has given up.  `lapse` is a history
variable: what may be behind the books after a failed read, an older read landing over
a newer one, a lost answer, or a reset whose page was left.  `untold` is another: an
order was carried out while the settings page was open, which reads the balance when it
mounts and does not listen.  A current read takes the excuse away.

## 3. Runs

| Run | Bounds | Shows |
|---|---|---|
| `trading_serial` | 2 users, 2 symbols, 2 slots, 3 requests, one in flight per user | no cash is lost, limits hold, a reset leaves a clean slate, `TradingLedger` is implemented |
| `trading_answers` | 1 user, 2 slots, 4 requests with resets, no quote, empty order, `buy` | never overdrawn or oversold, unlocked reads are current, the locked limit lasts, every request is answered |
| `trading_lost_update` | 2 slots, 3 requests | **violated**: the second of two orders overwrites the first one's balance |
| `trading_reset_race` | 2 slots, 3 requests with resets | **violated**: a reset beside another request leaves an account its trades do not explain |
| `auth_tabs` | 2 tabs, 1 call, 2 exchanges at once; reloads and logouts | a tab is refused only for a reason; the cookie never dies by rotation alone |
| `auth_calls` | 1 tab, 2 calls, 2 exchanges at once; reloads and registrations | waiting calls have a refresh; every call settles |
| `auth_single_use` | as `auth_tabs` | **violated**: two refreshes rotate one token |
| `feed_prices` | 1 symbol, 3 prices, 1 request, 1 screen, 2 instants | a price that is put back is close; neither the store nor the screen stays behind |
| `feed_candles` | 1 symbol, 3 prices, buckets of 2 and 4 seconds, history of 2, 8 seconds | one candle per bucket; wide and narrow candles agree |
| `realtime` | 2 sockets, 1 reconnection attempt, 1 hook, 1 engine that broadcasts, prices 100 and 140 | the engine's flags follow the socket; open sockets hear; the stream comes back |
| `lab_pages` | 3 inputs (one with too few symbols), 3 edits per visit, 3 bars, 2 frames, 2 paths, 2 info buttons, one of them among the figures | guarded pages implement `LatestAnswer`; the others go stale only by overtaking; no edit is lost; canvases neither double nor freeze; the body scrolls again unless two overlays were open at once; nothing stays busy |
| `order_desk` | 1 order or reset carried out, 2 jobs at once, 1 read beside a new job | screens catch up with the books, but for what `lapse` and `untold` record; a form has one request out; no control stays disabled |

Why the bounds are enough.  Trading: two users show independence and one user's
requests meet only in that user's rows, so the races need one user and two slots;
prices 10 and 20 with a balance of 30 or 50, a position limit of 2 or 3, an exposure
limit of 45 and a loss limit of 5 make every check pass and fail; three requests are
buy, losing sale, refused order.  Sessions: a cookie race needs two exchanges, a
shared refresh two calls, a race of registrations two exchanges.  `MaxStarts`,
`Exchanges` and `MaxToken` are bounds of the model only.

Feed: prices 100, 110 and 140 lie on both sides of the 15% divergence and the 35%
jump; one request against the engine gives every order of two writers; a queue of
one message makes the senders wait for each other.  Candles: symbols do not share
state, and two buckets of the wide timeframe hold four of the narrow one, more than
the history keeps.  Realtime: two sockets are a replaced one and its successor; one
attempt makes the limit reachable and leaves an attempt to make; the jump from 100
to 140 is refused and the one back is not.  With a second broadcasting engine the run
is too large; the two safety properties are proved for any number of them.

Lab: three edits put three requests in flight at once and overtake one another on a
page that asks again with each; three bars of three regimes give every pattern of
runs that begins, ends or alternates; two frames and two paths have a middle and an
end; two info buttons make a stack of overlays, one of which an answer may remove.
Desk: an order and a stray of the page before are two jobs; one change of the
books distinguishes a read before it from one after.

Deadlock is checked in every run.

The single-request assumption of `trading_serial` is `InFlightPerUser = 1`.
`CashIsConserved`, `PositionsStayWithinLimit` and `NoTradingAfterDailyLoss` need
it: with two orders in flight the first is the finding below, and the other two
checks precede the lock they would need.

Fairness.  Handlers run on worker threads or the event loop and never wait for
anything but row locks and awaits, so each handler's next step is weakly fair
(`Handle`, `Serve`, `Reply`), and so is the deadlock detector.  No client is
obliged to send, reload, log in or give up, and no price has to move.  `Answer` in
`AuthSessions` is strongly fair because a 401 that starts a refresh may have to
wait for an exchange slot, which is a bound of the model and not of the code.
In `MarketFeed` the engine's loop and the screens' event loops go on (weak
fairness).  A provider that is asked in every round answers in some of them
(`FeedFetch`, strong): without an answer no code can follow it.  Senders that wait
for a slow connection get room in turn (`FeedBroadcast`, strong).  No quote has to
move and no request has to be sent.  `PriceFollowsProvider` and
`ScreenFollowsProvider` speak of behaviours in which the quote comes to rest: then
it is stored and shown infinitely often, or the screen refuses it as a jump.
In `RealtimeClient` time-outs fire, the browser reports what becomes of a socket,
the endpoint goes on and a send ends, if only with its failure; nothing obliges the
network to work or a token to be issued, and `StreamComesBack` assumes that both do
from some time on.  In the pages timers fire, the browser draws frames, the server
deals with every kind of request, and every request is answered or given up on after
the client's time-out; no user has to do anything, and `BusyEnds` speaks of a user
who stays on a page.

## 4. Findings

1. `app/execution/execution_engine.py:147`: the locked query keeps the balance
   loaded at authentication, so the second of two simultaneous orders overwrites
   the first one's cash movement (`trading_lost_update`).
2. `app/api/routes.py:109`: a reset that overlaps an order of the same user leaves
   a balance, positions and trades that do not fit (`trading_reset_race`).
3. `app/services/auth_service.py:129`: rotation is not single-use under
   concurrency (`auth_single_use`).

Seen while modelling, with no run of their own: the spinner of the performance page
stays for ever when its one read fails (`usePerformance.js:9`; `OrderDesk` has it, and
`DeskSettles` is stated for the other pages); the portfolio page's Retry button is
never disabled, so `OneJobPerPage` leaves that page out; a reset whose page is left
before the answer tells nobody.  Two overlays opened over each other (Tab and Enter on an
info button behind the first, `InfoButton.jsx:13`, `:31`) are closed by one Escape
(`Modal.jsx:15`), and the second puts back the `hidden` it found: the body stays locked
until the next page load.  `LabPages` reaches that state, `ScrollFollowsModal` excuses
it.  The balance on the settings page stays as it was read when an order is carried out
while that page is open (`Account.jsx:46-54`), which `BooksShownAreCurrent` excuses.

## 5. Proofs

Every type invariant and every safety invariant that a run checks is a theorem, and so
are the reset's action property and the two refinements: the run shows it on a
small instance, the theorem for every value of the constants that satisfies the
assumptions of its module.  TLC evaluates those assumptions in the runs.  What is
left to TLC alone is liveness: `EveryRequestIsAnswered`, `EveryCallSettles`,
`PriceFollowsProvider`, `ScreenFollowsProvider`, `StreamComesBack`, `BusyEnds` and
`DeskSettles` speak of fairness, which is out of the prover's reach.

Each module proves an inductive invariant, one lemma per action, and derives its
theorems from it.  The bounds of the models (`MaxEdits`, `MaxJobs`, `MaxTime` and so
on) are arbitrary in the theorems.

### PaperTradingProofs

For every set of users, symbols, requests, prices, order sizes and every limit,
with resets or without, and any number of requests of a user in flight:

| Theorem | States |
|---|---|
| `TypeCorrect` | `TypeOK` |
| `AccountsNeverOverdrawn` | `NeverOverdrawn` |
| `PositionReadsCorrect` | `PositionReadsAreCurrent` |
| `LockedBuysRespectLimit` | `LockedBuysStayWithinLimit` |
| `TradesAlwaysExplainPositions` | `TradesExplainPositions`, which no run checks: the theorem covers every instance |

Assumptions: prices are naturals, order sizes integers, limits and the starting
balance naturals, `NoRequest` is not a request.

None of these is inductive alone.  `NeverOverdrawn` holds although balances are
lost, because the value a commit writes was itself checked: `OrdersAreCovered`
says so at the commit and `CashIsSolvent` says what is remembered is not negative.
`PositionReadsAreCurrent` holds because from the FOR UPDATE to the commit an order
owns its users row (`UserLocksHeld`), so no other order of the user can be at its
own commit.  `LockedBuysStayWithinLimit` needs that a locked positions row exists
and that its holder is past the statement that locked it (`RowLocksHeld`), and that
the limit checked then still holds (`CheckedLimitsLast`).  `IInv` is the conjunction.

### TradingLedgerProofs

For a client that sends one request at a time and spells its action in upper case
(`Serial`: `InFlightPerUser = 1` and `Actions` holds nothing but BUY and SELL), with
all else as above, and any number of users side by side:

| Theorem | States |
|---|---|
| `PositionsWithinLimit` | `PositionsStayWithinLimit` |
| `ResetsLeaveCleanSlate` | `ResetLeavesCleanSlate`, an action property |
| `PaperTradingImplementsLedger` | `ImplementsLedger`: `Spec` implies the specification of `TradingLedger` |
| `CashConserved` | `CashIsConserved`, for a finite set of symbols |
| `NoTradesAfterDailyLoss` | `NoTradingAfterDailyLoss`, for a finite set of symbols |

`Serial` is an assumption and nothing in the repository enforces it: the order ticket
disables its button while an order is out, but a page that is left and mounted again, a
second tab or another client of the API can have two requests out.  Without it
`trading_lost_update` and `trading_reset_race` show the ledger broken, as section 4
says.  `SerialInv` adds to `IInv` that what a request remembers (the balance of its
session, the position it read, the limit it checked, the rows it is going to wipe)
is what the database holds now, because whoever else could write it would have to be
another request of the same user.  The commit then is the order or the reset of the
ledger and every other step stutters.  The two theorems about sums first show that
the community modules' fold over a finite set is the sum it claims to be: that its
recursive function exists and that one summand can be taken out, both by a least
counterexample, as the induction theorems are not available to these provers.
`NoTradesAfterDailyLoss` also needs that no other order changes the day's sum between
the check and the commit (`DaysAreAllowed`).

### AuthSessionsProofs

For every set of tabs and calls and any finite set of exchanges:

| Theorem | States |
|---|---|
| `SessionsTypeCorrect` | `TypeOK` |
| `NobodyWaitsForNothing` | `WaitersHaveARefresh` |
| `NoTabSpoilsItsToken` | `RefusedForAReason` |
| `CookieOutlivesRotation` | `CookieNamesASession` |

Assumptions: each call has a tab, and there are more tokens than exchanges
(`TokenAssumption`).  The latter is what the code's random tokens become: at most the
cookie and one token per exchange are held by anybody when another is issued, so by
a count one is free, which is the first part of `TypeOK`.  `AuthInv` says how far an
exchange of each kind gets (`ShapeInv`), that `refreshInFlight` names the one refresh
of its tab (`FlightInv`), that a minted token is nobody else's (`MintInv`) and that a
tab presents a token once at a time (`OnceInv`).  A page load that presents the cookie
finds its page with nothing to send (`QuietInv`), so a hydration and a refresh of one
tab do not present the same token.  `CookieInv` follows a rotation between deleting the
old key and delivering the new one: its tab can start no second one meanwhile.
`RefusedInv` is `RefusedForAReason`, said already when the exchange asks for the key.

### MarketFeedProofs

For every set of symbols, prices, requests and screens and any bound on time and
queues: `FeedTypeCorrect` (`TypeOK`) and `StoredPricesStayClose` (`OldPricesStayClose`).
Assumptions: prices are positive, the followed symbols are symbols, bounds are naturals.
`MarketInv` gives each writer an obligation of its own: what the engine or a request
has fetched was quoted since it began to ask (`FeedInv`, `GetInv`), and what is stored
lies within 15% of such a quote (`PriceInv`); a price may move between those steps, but
a quote that the provider leaves is recorded as left no earlier (`ClockInv`).

### CandleEngineProofs

For every set of symbols, timeframes, widths and prices and any length of the history:

| Theorem | States |
|---|---|
| `TypeCorrect` | `TypeOK` |
| `BucketsNeverRepeat` | `OneCandlePerBucket` |
| `ChartsTellOneStory` | `NestedCandlesAgree` |

Assumptions: widths and prices are positive, the history holds at least one candle.
The candles stay in order because no candle is of a later bucket than the round's
tick, which never runs ahead of the clock (`NoCandleAhead`); `BucketsAreOrdered` turns
the order of seconds into an order of buckets.  It rests on a clock that does not step
back, as the model has it.  `NestedCandlesAgree` is inductive only with `NestInv`: all
open candles of a symbol were folded from the same second (`SameSecond`), candles lie
at least a width apart (`SpacedInv`), so that one the bounded history drops lies
before the wide bucket, and the wide candle is what the narrow ones in its bucket add
up to (`Agree`).  When a wide bucket rolls over the narrow one does too
(`WideBucketsRollTogether`), by division with a remainder.

### RealtimeClientProofs

For every set of sockets, hooks and broadcasting engines, any number of attempts and
any prices:
`EngineAlwaysTracksSocket` (`EngineTracksSocket`) and `OpenSocketsAlwaysHear`
(`OpenSocketsHear`), from `RealtimeAssumption` alone.  The client half (`ClientInv`)
says socket by socket (`Tracks`) what the engine's record means, so that a step is
argued for the one socket it touches; the set of live sockets of `EngineTracksSocket`
follows.  The server half needs that who is served over a working link is listed
(`Listed`): a send that fails removes only a socket whose link is gone, however late.

### LabPagesProofs

For every set of inputs, any number of edits, bars, frames and paths:

| Theorem | States |
|---|---|
| `LabTypeCorrect` | `LabTypeOK` |
| `GuardedPagesRefine` | `GuardedPagesShowTheAnswer`: the guarded pages implement `LatestAnswer` |
| `BusyMeansOneLiveCall` | `OneLiveCall` |
| `NoEditIsLost` | `LastEditIsAsked` |
| `StaleIsOvertaken` | `StaleOnlyFromOvertaking` |
| `BandsCoverBars` | `SegmentsCoverPoints` |
| `ReplaysRunAlone`, `CountIsTheCanvas`, `SurfaceKeepsSpinning` | `OneReplayAtATime`, `CountMatchesCanvas`, `SurfaceSpins` |
| `ScrollNeverStaysLocked` | `ScrollFollowsModal` |

Assumptions: the default input names enough symbols, `None` is not an input, a replay
has a frame and two paths at least.  `LabInv` has one part per part of the state.
`GuardedInv` says that a guarded page awaits its last request or none and otherwise
holds the answer to it; `UnguardedInv` that, until an answer is overtaken, the last
request in flight is the newest; the type invariant needs `AskInv`, which counts an
edit for every request.  `SimOK` and `OrbOK` say which frames are scheduled in which
state: the pending frames of a surface are a sequence, and `OrbOK` has it empty or with
the one frame `raf` holds, which is why a start that cancels first never leaves two.
`ModalOK` says what the overlays have saved until two are open at once: after that
`ScrollNeverStaysLocked` says nothing.  `BandsCoverBars` is about a recursive
function: that `Scan` exists and that after each bar its bands are the runs so far
(`RunsUpTo`) both go by a least counterexample.

### OrderDeskProofs

For any number of changes of the books, of jobs and of reads in flight:
`DeskTypeCorrect` (`DeskTypeOK`), `ScreensCatchUp` (`BooksShownAreCurrent`) and
`OneJobAtHome` (`OneJobPerPage`).  Assumption: the bounds are naturals and `None` is
not a version.  `BooksInv` says of everything the page watches that it is current, or
excused by `lapse` or `untold`, or that a read or a job in flight will bring it as it is now
(`Brings`): an order that has been carried out tells its listeners when its answer
comes, all but the settings page, and a reset makes its handler fetch.  `FlagsInv` ties `busy` and `saving` to the
one job whose page is still mounted; what a page that was left has out is not counted.

## 6. Not modelled

- **Signal engine**: scores are floating point; a signal computed outside the lock can
  overwrite a newer one until the cache runs out, which is listed as a hazard.
- **Profit and equity**: FIFO and average-cost profit need the trades one by one, which
  `PaperTrading` keeps summed; the snapshots read by separate statements what it
  writes.  Both are listed as hazards.
- **Rate limiter**: a sequential sliding window in one event loop.
- **Supervisor and startup**: the engines catch their own exceptions inside their
  loops, so the back-off is not reached once an engine runs; startup precedes
  everything modelled.
- **Demo seed**: one transaction that rewrites a shared account at each sign-in to it.
- **Models, backtester, options, regimes, sentiment**: floating-point numerics
  without shared state.  Their pages are modelled, their figures are not.
- **Of the pages**: charts and tables that draw what they are given, the candlestick
  chart (it polls and draws), texts, and components no page mounts.
- **Tables no code path uses**: `app/models/order.py`, `idempotency_record.py`,
  `risk_profile.py`.

## 7. Plan

The concurrent parts that carry the simulator's own logic are modelled, and every safety
invariant the passing runs check is proved.  Not modelled, though they are concurrent
too, are the signal cache and the accounting that reads the trading tables.  What is
left:

1. `ProfitAccounting`: FIFO and average-cost profit of a trade history against the
   account's equity, for the hazards at `pnl_engine.py:173` and `equity_engine.py:27`.
2. A refinement of `AuthSessions`, in which a session is one atomic record, under the
   hypothesis that no two tabs share a cookie.
3. The signal cache, as one more writer beside those of `MarketFeed`.
