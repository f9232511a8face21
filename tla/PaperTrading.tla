---------------------------- MODULE PaperTrading ----------------------------
(***************************************************************************)
(* The trading path of the API: POST /trades and POST /account/reset       *)
(* (app/api/routes.py), the pre-trade risk gate (app/risk) and the         *)
(* execution engine (app/execution), running as concurrent handlers over   *)
(* PostgreSQL at its default isolation, READ COMMITTED.                    *)
(*                                                                         *)
(* One action is one SQL statement (or one in-memory read) together with   *)
(* the Python that follows it up to the next statement.  A handler holds   *)
(* the row locks it took until it commits or its session is closed.  The   *)
(* ORM session remembers the users row it loaded when the request was      *)
(* authenticated: the later SELECT ... FOR UPDATE takes the row lock and   *)
(* leaves the attributes already loaded as they are.                       *)
(*                                                                         *)
(* Data abstracted: prices and quantities are small integers; the column   *)
(* avg_price is kept as the cost basis quantity * avg_price, rounded down; *)
(* the trades table is kept as what the queries of this code sum over it.  *)
(***************************************************************************)
EXTENDS Integers, FiniteSets, FiniteSetsExt

CONSTANTS Users,            \* accounts
          Symbols,          \* tradable symbols
          Requests,         \* handler slots: requests the API serves at once
          NoRequest,        \* "nobody": a free row lock
          NoJob,            \* the job of an idle slot
          Prices,           \* what the market cache may hold; 0 is no quote
          Quantities,       \* order sizes a client submits
          Actions,          \* spellings of the order's action
          InitialBalance,   \* settings.default_user_balance
          MaxPosition,      \* MAX_POSITION_PER_STOCK
          MaxExposure,      \* MAX_TOTAL_EXPOSURE
          MaxDailyLoss,     \* MAX_DAILY_LOSS
          InFlightPerUser,  \* requests one user has open at once
          MaxStarts,        \* bound: requests served in a behaviour
          Resets            \* whether clients call POST /account/reset

ASSUME RequestAssumption == NoRequest \notin Requests
ASSUME PriceAssumption == Prices \subseteq Nat
ASSUME QuantityAssumption == Quantities \subseteq Int
ASSUME ActionAssumption == Actions \subseteq {"BUY", "SELL", "buy", "sell"}
ASSUME BalanceAssumption == InitialBalance \in Nat
ASSUME LimitAssumption == /\ MaxPosition \in Nat
                          /\ MaxExposure \in Nat
                          /\ MaxDailyLoss \in Nat
ASSUME ResetsAssumption == Resets \in BOOLEAN

VARIABLES price,      \* market_state: price of each symbol
          balance,    \* users.balance
          quantity,   \* positions.quantity; 0 where there is no row
          basis,      \* positions.quantity * positions.avg_price
          booked,     \* trades, summed per user and symbol
          userLock,   \* holder of the lock on each users row
          rowLock,    \* holder of the lock on each positions row
          pc,         \* the statement each handler is about to run
          job,        \* what each handler was asked to do
          cash,       \* balance in the handler's ORM session
          quote,      \* price read by the route handler
          fill,       \* price read by execute_trade
          held,       \* position row read by execute_trade
          todo,       \* positions rows a reset's DELETE has yet to reach
          wiped,      \* trades a reset is deleting and has not committed
          starts      \* requests served so far

db == <<balance, quantity, basis, booked>>
locks == <<userLock, rowLock>>
scratch == <<cash, quote, fill, held, todo, wiped>>
vars == <<price, db, locks, pc, job, scratch, starts>>

-----------------------------------------------------------------------------
(* Types and empty values *)

Rows == Users \X Symbols

TradeJob == [op : {"trade"}, user : Users, symbol : Symbols,
             action : Actions, qty : Quantities]
ResetJob == [op : {"reset"}, user : Users]
Jobs == TradeJob \cup (IF Resets THEN ResetJob ELSE {})

ASSUME JobAssumption == NoJob \notin Jobs

(* What the code sums over a set of trade rows: signed quantity, signed    *)
(* cash, realized_pnl, realized_pnl of today, and how many rows there are. *)
Booking == [net : Int, flow : Int, gain : Int, today : Int, count : Int]
NoTrades == [net |-> 0, flow |-> 0, gain |-> 0, today |-> 0, count |-> 0]

Plus(a, b) ==
  [net |-> a.net + b.net, flow |-> a.flow + b.flow, gain |-> a.gain + b.gain,
   today |-> a.today + b.today, count |-> a.count + b.count]
Minus(a, b) ==
  [net |-> a.net - b.net, flow |-> a.flow - b.flow, gain |-> a.gain - b.gain,
   today |-> a.today - b.today, count |-> a.count - b.count]

NoRow == [qty |-> 0, basis |-> 0]

TradeSteps == {"quote", "daily", "risk", "exposure", "execute", "body", "commit"}
ResetSteps == {"rsPositions", "rsLocks", "rsTrades", "rsUser"}

(* execute_trade upper-cases the action; everything but BUY is sold. *)
Upper(a) == IF a \in {"BUY", "buy"} THEN "BUY" ELSE "SELL"
Buys(r) == Upper(job[r].action) = "BUY"

Row(r) == <<job[r].user, job[r].symbol>>
RowsOf(u) == {u} \X Symbols
InFlight(u) == {r \in Requests : job[r] # NoJob /\ job[r].user = u}

-----------------------------------------------------------------------------
(* Requests begin and end *)

Goto(r, label) == pc' = [pc EXCEPT ![r] = label]

(* The session is closed (get_db): its transaction ends and every row lock *)
(* it holds is released.  The slot can then serve another request.         *)
ReleaseUserLockOnly(r) ==  \* mutant: the lock of the positions row is leaked
  /\ userLock' = [u \in Users |-> IF userLock[u] = r THEN NoRequest ELSE userLock[u]]
  /\ UNCHANGED rowLock
ReleaseLocks(r) ==
  /\ userLock' = [u \in Users |-> IF userLock[u] = r THEN NoRequest ELSE userLock[u]]
  /\ rowLock' = [w \in Rows |-> IF rowLock[w] = r THEN NoRequest ELSE rowLock[w]]

SessionCloses(r) ==
  /\ Goto(r, "idle")
  /\ ReleaseLocks(r)
  /\ job' = [job EXCEPT ![r] = NoJob]
  /\ cash' = [cash EXCEPT ![r] = 0]
  /\ quote' = [quote EXCEPT ![r] = 0]
  /\ fill' = [fill EXCEPT ![r] = 0]
  /\ held' = [held EXCEPT ![r] = NoRow]
  /\ todo' = [todo EXCEPT ![r] = {}]

NoneWiped == [s \in Symbols |-> NoTrades]
Finish(r) == SessionCloses(r) /\ wiped' = [wiped EXCEPT ![r] = NoneWiped]

(* An error response: the transaction is rolled back. *)
Reject(r) == Finish(r) /\ UNCHANGED <<price, db, starts>>

(* get_current_user: the users row enters the session's identity map. *)
Authenticate(r) ==
  \E j \in Jobs :
    /\ pc[r] = "idle"
    /\ starts < MaxStarts
    /\ Cardinality(InFlight(j.user)) < InFlightPerUser
    /\ Goto(r, IF j.op = "trade" THEN "quote" ELSE "rsPositions")
    /\ job' = [job EXCEPT ![r] = j]
    /\ cash' = [cash EXCEPT ![r] = balance[j.user]]
    /\ starts' = starts + 1
    /\ UNCHANGED <<price, db, locks, quote, fill, held, todo, wiped>>

-----------------------------------------------------------------------------
(* POST /trades: the route's checks and check_risk_limits *)

Quotable(r) == job[r].qty > 0 /\ price[job[r].symbol] > 0

Quote(r) ==
  /\ pc[r] = "quote"
  /\ \/ /\ Quotable(r)
        /\ quote' = [quote EXCEPT ![r] = price[job[r].symbol]]
        /\ Goto(r, "daily")
        /\ UNCHANGED <<price, db, locks, job, cash, fill, held, todo, wiped, starts>>
     \/ ~Quotable(r) /\ Reject(r)

DailyPnl(u) == MapThenSumSet(LAMBDA s : booked[<<u, s>>].today, Symbols)
DailyLossNeverExceeded(u) == FALSE  \* mutant: the limit is not looked at
DailyLossExceeded(u) == DailyPnl(u) < -MaxDailyLoss

CheckDailyLoss(r) ==
  /\ pc[r] = "daily"
  /\ \/ /\ ~DailyLossExceeded(job[r].user)
        /\ Goto(r, "risk")
        /\ UNCHANGED <<price, db, locks, job, scratch, starts>>
     \/ DailyLossExceeded(job[r].user) /\ Reject(r)

(* A row that does not exist is never waited for and never locked. *)
RowExists(w) == quantity[w] > 0
RowFree(r, w) == rowLock[w] \in {NoRequest, r}

(* The action is compared as the client spelt it. *)
WithinPositionLimitOffByOne(r) ==  \* mutant
  CASE job[r].action = "BUY" -> quantity[Row(r)] + job[r].qty <= MaxPosition + 1
    [] job[r].action = "SELL" -> job[r].qty <= quantity[Row(r)]
    [] OTHER -> TRUE
WithinPositionLimit(r) ==
  CASE job[r].action = "BUY" -> quantity[Row(r)] + job[r].qty <= MaxPosition
    [] job[r].action = "SELL" -> job[r].qty <= quantity[Row(r)]
    [] OTHER -> TRUE

LockPosition(r) ==
  /\ pc[r] = "risk"
  /\ RowExists(Row(r)) => RowFree(r, Row(r))
  /\ \/ /\ WithinPositionLimit(r)
        /\ rowLock' = IF RowExists(Row(r)) THEN [rowLock EXCEPT ![Row(r)] = r]
                                           ELSE rowLock
        /\ Goto(r, "exposure")
        /\ UNCHANGED <<price, db, userLock, job, scratch, starts>>
     \/ ~WithinPositionLimit(r) /\ Reject(r)

Exposure(u) == SumFunctionOnSet(basis, RowsOf(u))
WithinExposureLimit(r) ==
  job[r].action = "BUY" =>
    Exposure(job[r].user) + job[r].qty * quote[r] <= MaxExposure

CheckExposure(r) ==
  /\ pc[r] = "exposure"
  /\ \/ /\ WithinExposureLimit(r)
        /\ Goto(r, "execute")
        /\ UNCHANGED <<price, db, locks, job, scratch, starts>>
     \/ ~WithinExposureLimit(r) /\ Reject(r)

-----------------------------------------------------------------------------
(* POST /trades: execute_trade *)

UserRowAlwaysFree(u) == TRUE  \* mutant: the SELECT takes no lock
UserRowFree(u) == userLock[u] = NoRequest

(* SELECT ... FOR UPDATE: cash[r] keeps the value read by Authenticate. *)
LockUser(r) ==
  /\ pc[r] = "execute"
  /\ UserRowFree(job[r].user)
  /\ userLock' = [userLock EXCEPT ![job[r].user] = r]
  /\ Goto(r, "body")
  /\ UNCHANGED <<price, db, rowLock, job, scratch, starts>>

(* The price and the position are read again, the position without a lock. *)
EnoughCashForOneShare(r, p) == cash[r] >= p  \* mutant: quantity forgotten
EnoughCash(r, p) == cash[r] >= p * job[r].qty
EnoughShares(r) == quantity[Row(r)] >= job[r].qty

Executable(r) ==
  /\ price[job[r].symbol] > 0
  /\ Buys(r) => EnoughCash(r, price[job[r].symbol])
  /\ ~Buys(r) => EnoughShares(r)

Execute(r) ==
  /\ pc[r] = "body"
  /\ \/ /\ Executable(r)
        /\ fill' = [fill EXCEPT ![r] = price[job[r].symbol]]
        /\ held' = [held EXCEPT ![r] = [qty |-> quantity[Row(r)], basis |-> basis[Row(r)]]]
        /\ Goto(r, "commit")
        /\ UNCHANGED <<price, db, locks, job, cash, quote, todo, wiped, starts>>
     \/ ~Executable(r) /\ Reject(r)

(* What the flush writes: the ORM attributes, computed from what was read. *)
Value(r) == fill[r] * job[r].qty
NewBalanceAtQuote(r) ==  \* mutant: settled at the price of the risk check
  IF Buys(r) THEN cash[r] - quote[r] * job[r].qty ELSE cash[r] + quote[r] * job[r].qty
NewBalance(r) == IF Buys(r) THEN cash[r] - Value(r) ELSE cash[r] + Value(r)
NewQuantity(r) == IF Buys(r) THEN held[r].qty + job[r].qty ELSE held[r].qty - job[r].qty
(* A sale leaves avg_price alone: the basis shrinks in proportion. *)
SoldBasisAtFill(r) == Value(r)  \* mutant: shares leave at the sale price
SoldBasis(r) == (held[r].basis * job[r].qty) \div held[r].qty
NewBasis(r) == IF Buys(r) THEN held[r].basis + Value(r) ELSE held[r].basis - SoldBasis(r)
RealizedPnl(r) == IF Buys(r) THEN 0 ELSE Value(r) - SoldBasis(r)

TradeRow(r) ==
  [net |-> IF Buys(r) THEN job[r].qty ELSE -job[r].qty,
   flow |-> IF Buys(r) THEN -Value(r) ELSE Value(r),
   gain |-> RealizedPnl(r), today |-> RealizedPnl(r), count |-> 1]

(* UPDATE or DELETE of a row that was read waits for whoever locked it; an *)
(* UPDATE that no longer finds the row raises StaleDataError (the DELETE   *)
(* only warns).  A row that was not found is inserted.                     *)
WaitsForRow(r) == held[r].qty > 0 /\ RowExists(Row(r))
RowVanished(r) == held[r].qty > 0 /\ ~RowExists(Row(r)) /\ NewQuantity(r) # 0

CommitTrade(r) ==
  /\ pc[r] = "commit"
  /\ WaitsForRow(r) => RowFree(r, Row(r))
  /\ \/ /\ ~RowVanished(r)
        /\ balance' = [balance EXCEPT ![job[r].user] = NewBalance(r)]
        /\ quantity' = [quantity EXCEPT ![Row(r)] = NewQuantity(r)]
        /\ basis' = [basis EXCEPT ![Row(r)] = NewBasis(r)]
        /\ booked' = [booked EXCEPT ![Row(r)] = Plus(@, TradeRow(r))]
        /\ Finish(r)
        /\ UNCHANGED <<price, starts>>
     \/ RowVanished(r) /\ Reject(r)

-----------------------------------------------------------------------------
(* POST /account/reset *)

(* DELETE FROM positions: the rows committed when the statement starts ... *)
DeletePositions(r) ==
  /\ pc[r] = "rsPositions"
  /\ todo' = [todo EXCEPT ![r] = {w \in RowsOf(job[r].user) : RowExists(w)}]
  /\ Goto(r, "rsLocks")
  /\ UNCHANGED <<price, db, locks, job, cash, quote, fill, held, wiped, starts>>

(* ... are locked one by one, each when its present holder ends. *)
DeleteRow(r) ==
  \E w \in todo[r] :
    /\ pc[r] = "rsLocks"
    /\ RowExists(w) => RowFree(r, w)
    /\ rowLock' = IF RowExists(w) THEN [rowLock EXCEPT ![w] = r] ELSE rowLock
    /\ todo' = [todo EXCEPT ![r] = @ \ {w}]
    /\ UNCHANGED <<price, db, userLock, pc, job, cash, quote, fill, held, wiped, starts>>

(* DELETE FROM trades sees the trades committed when it begins ... *)
SeeTrades(r) ==
  /\ pc[r] = "rsLocks"
  /\ todo[r] = {}
  /\ wiped' = [wiped EXCEPT ![r] = [s \in Symbols |-> booked[<<job[r].user, s>>]]]
  /\ Goto(r, "rsTrades")
  /\ UNCHANGED <<price, db, locks, job, cash, quote, fill, held, todo, starts>>

(* ... and waits for other resets of the user that have deleted some of    *)
(* them and not committed.                                                 *)
TradeRowHolders(r) ==
  {x \in Requests \ {r} : /\ pc[x] = "rsUser"
                          /\ job[x].user = job[r].user
                          /\ \E s \in Symbols : wiped[x][s].count > 0 /\ wiped[r][s].count > 0}

DeleteTrades(r) ==
  /\ pc[r] = "rsTrades"
  /\ TradeRowHolders(r) = {}
  /\ Goto(r, "rsUser")
  /\ UNCHANGED <<price, db, locks, job, cash, quote, fill, held, todo, wiped, starts>>

(* Of the trades seen, those that another reset has not deleted.  Both saw *)
(* all trades up to some moment, so the shorter list begins the longer.    *)
LeftBy(other, seen) == IF seen.count <= other.count THEN NoTrades ELSE Minus(seen, other)

(* The users row comes from the identity map, so the flush emits an UPDATE *)
(* only if the balance seen at authentication differs from the default.    *)
UpdatesUser(r) == cash[r] # InitialBalance
BalanceForgotten(r) == NoRequest  \* mutant: the column is left null
BalanceKept(r) == balance[job[r].user]  \* mutant: the balance is not restored
RestoredBalance(r) == IF UpdatesUser(r) THEN InitialBalance ELSE balance[job[r].user]

CommitReset(r) ==
  /\ pc[r] = "rsUser"
  /\ UpdatesUser(r) => UserRowFree(job[r].user)
  /\ balance' = [balance EXCEPT ![job[r].user] = RestoredBalance(r)]
  /\ quantity' = [w \in Rows |-> IF rowLock[w] = r THEN 0 ELSE quantity[w]]
  /\ basis' = [w \in Rows |-> IF rowLock[w] = r THEN 0 ELSE basis[w]]
  /\ booked' = [w \in Rows |-> IF w[1] = job[r].user THEN Minus(booked[w], wiped[r][w[2]])
                                                     ELSE booked[w]]
  /\ wiped' = [x \in Requests |->
       CASE x = r -> NoneWiped
         [] x # r /\ pc[x] = "rsTrades" /\ job[x].user = job[r].user ->
              [s \in Symbols |-> LeftBy(wiped[r][s], wiped[x][s])]
         [] OTHER -> wiped[x]]
  /\ SessionCloses(r)
  /\ UNCHANGED <<price, starts>>

-----------------------------------------------------------------------------
(* The environment *)

(* PostgreSQL's deadlock detector: in a cycle of waits one request's       *)
(* statement fails and its transaction is rolled back.                     *)
BlockedBy(r) ==
  CASE pc[r] = "risk" /\ RowExists(Row(r)) -> {rowLock[Row(r)]} \ {NoRequest, r}
    [] pc[r] = "execute" -> {userLock[job[r].user]} \ {NoRequest}
    [] pc[r] = "commit" /\ WaitsForRow(r) -> {rowLock[Row(r)]} \ {NoRequest, r}
    [] pc[r] = "rsLocks" -> {rowLock[w] : w \in todo[r]} \ {NoRequest, r}
    [] pc[r] = "rsTrades" -> TradeRowHolders(r)
    [] pc[r] = "rsUser" /\ UpdatesUser(r) -> {userLock[job[r].user]} \ {NoRequest}
    [] OTHER -> {}

NeverDeadlocked(r) == FALSE  \* mutant: nothing detects deadlocks
Deadlocked(r) ==
  \E S \in SUBSET Requests :
    /\ r \in S
    /\ \A x \in S : BlockedBy(x) \cap S # {} /\ \E y \in S : x \in BlockedBy(y)

DeadlockAbort(r) == Deadlocked(r) /\ Reject(r)

(* market_state.update_market_price, from the feed or a quote request. *)
PriceTick ==
  \E s \in Symbols, p \in Prices :
    /\ p # price[s]
    /\ price' = [price EXCEPT ![s] = p]
    /\ UNCHANGED <<db, locks, pc, job, scratch, starts>>

(* The UTC day turns: calculate_daily_pnl sums from the new midnight. *)
Forget(b) == [b EXCEPT !.today = 0]
Midnight ==
  /\ booked' = [w \in Rows |-> Forget(booked[w])]
  /\ wiped' = [r \in Requests |-> [s \in Symbols |-> Forget(wiped[r][s])]]
  /\ UNCHANGED <<price, balance, quantity, basis, locks, pc, job, cash, quote, fill,
                 held, todo, starts>>

-----------------------------------------------------------------------------
Init ==
  /\ price \in [Symbols -> Prices]
  /\ balance = [u \in Users |-> InitialBalance]
  /\ quantity = [w \in Rows |-> 0]
  /\ basis = [w \in Rows |-> 0]
  /\ booked = [w \in Rows |-> NoTrades]
  /\ userLock = [u \in Users |-> NoRequest]
  /\ rowLock = [w \in Rows |-> NoRequest]
  /\ pc = [r \in Requests |-> "idle"]
  /\ job = [r \in Requests |-> NoJob]
  /\ cash = [r \in Requests |-> 0]
  /\ quote = [r \in Requests |-> 0]
  /\ fill = [r \in Requests |-> 0]
  /\ held = [r \in Requests |-> NoRow]
  /\ todo = [r \in Requests |-> {}]
  /\ wiped = [r \in Requests |-> NoneWiped]
  /\ starts = 0

(* What a handler does once its request has been authenticated. *)
Handle(r) ==
  \/ Quote(r) \/ CheckDailyLoss(r) \/ LockPosition(r) \/ CheckExposure(r)
  \/ LockUser(r) \/ Execute(r) \/ CommitTrade(r)
  \/ DeletePositions(r) \/ DeleteRow(r) \/ SeeTrades(r) \/ DeleteTrades(r) \/ CommitReset(r)

Next ==
  \/ \E r \in Requests : Authenticate(r) \/ Handle(r) \/ DeadlockAbort(r)
  \/ PriceTick
  \/ Midnight

Spec == Init /\ [][Next]_vars

(* Every handler thread keeps running, and the database keeps detecting    *)
(* deadlocks; no client is obliged to send a request.                      *)
Fairness == \A r \in Requests : WF_vars(Handle(r)) /\ WF_vars(DeadlockAbort(r))
FairSpec == Spec /\ Fairness

-----------------------------------------------------------------------------
(* Properties *)

TypeOK ==
  /\ price \in [Symbols -> Prices]
  /\ balance \in [Users -> Int]
  /\ quantity \in [Rows -> Int]
  /\ basis \in [Rows -> Int]
  /\ booked \in [Rows -> Booking]
  /\ userLock \in [Users -> Requests \cup {NoRequest}]
  /\ rowLock \in [Rows -> Requests \cup {NoRequest}]
  /\ pc \in [Requests -> TradeSteps \cup ResetSteps \cup {"idle"}]
  /\ job \in [Requests -> Jobs \cup {NoJob}]
  /\ cash \in [Requests -> Int]
  /\ quote \in [Requests -> Int]
  /\ fill \in [Requests -> Int]
  /\ held \in [Requests -> [qty : Int, basis : Int]]
  /\ todo \in [Requests -> SUBSET Rows]
  /\ wiped \in [Requests -> [Symbols -> Booking]]
  /\ starts \in Nat

(* However the requests of a user interleave, no account is overdrawn and  *)
(* no position is oversold: each order is checked against the balance it   *)
(* will overwrite (execution_engine.py:169) and the shares it will sell    *)
(* (execution_engine.py:207).                                              *)
NeverOverdrawn ==
  /\ \A u \in Users : balance[u] >= 0
  /\ \A w \in Rows : quantity[w] >= 0

(* The position execute_trade reads without a lock (execution_engine.py:   *)
(* 174 and 202) is still what the database holds when its new value is     *)
(* written, unless a reset has deleted the row: the lock on the users row  *)
(* keeps every other order of this user away from it.                      *)
PositionReadsAreCurrent ==
  \A r \in Requests : pc[r] = "commit" =>
    \/ held[r] = [qty |-> quantity[Row(r)], basis |-> basis[Row(r)]]
    \/ Resets /\ ~RowExists(Row(r))

(* A BUY whose risk check found and locked the position (risk_engine.py:   *)
(* 42-47) keeps the position within MAX_POSITION_PER_STOCK, whatever       *)
(* happened between the check and the execution.                           *)
LockedBuysStayWithinLimit ==
  \A r \in Requests :
    (pc[r] = "commit" /\ job[r].action = "BUY" /\ rowLock[Row(r)] = r) =>
      quantity[Row(r)] + job[r].qty <= MaxPosition

(* Without resets the trades explain every position: the shares held are   *)
(* the shares bought less the shares sold, and the realized_pnl column     *)
(* sums to the money taken out plus the cost of what is still held.        *)
TradesExplainPositions ==
  ~Resets => \A w \in Rows :
    /\ quantity[w] = booked[w].net
    /\ booked[w].gain = booked[w].flow + basis[w]

(* The next three hold while a user has one request in flight, spelt in    *)
(* upper case; the checks they are about precede the lock they would need. *)

(* The balance is the starting cash and the cash flow of every trade of    *)
(* the account: no trade's effect on the balance is lost (the commit of    *)
(* execution_engine.py:172-252).                                           *)
CashFlow(b, u) == MapThenSumSet(LAMBDA s : b[<<u, s>>].flow, Symbols)
CashIsConserved == \A u \in Users : balance[u] = InitialBalance + CashFlow(booked, u)

(* No position exceeds MAX_POSITION_PER_STOCK (risk_engine.py:50-52).      *)
PositionsStayWithinLimit == \A w \in Rows : quantity[w] <= MaxPosition

(* No order is executed on a day whose realized loss already exceeds       *)
(* MAX_DAILY_LOSS (daily_loss_engine.py:138-140).                          *)
NoTradingAfterDailyLoss ==
  \A r \in Requests : pc[r] = "commit" => DailyPnl(job[r].user) >= -MaxDailyLoss

(* When a reset commits, the account is a clean slate: starting balance,   *)
(* no positions and no trades (routes.py:104-108).                         *)
ResetLeavesCleanSlate ==
  [][\A r \in Requests : CommitReset(r) =>
       LET u == job[r].user
       IN /\ balance'[u] = InitialBalance
          /\ \A w \in RowsOf(u) : quantity'[w] = 0 /\ booked'[w] = NoTrades]_vars

(* When a reset commits, the balance is the starting cash less what the    *)
(* trades that survived it spent, and they explain every position that is  *)
(* left: an order running beside the reset comes wholly before it or       *)
(* wholly after it (routes.py:104-108).                                    *)
ResetIsAccountedFor ==
  [][\A r \in Requests : CommitReset(r) =>
       LET u == job[r].user
       IN /\ balance'[u] = InitialBalance + CashFlow(booked', u)
          /\ \A w \in RowsOf(u) : quantity'[w] = booked'[w].net]_vars

(* With one request of a user at a time, the account behaves as if every   *)
(* order and every reset were atomic.                                      *)
Ledger == INSTANCE TradingLedger
ImplementsLedger == Ledger!Spec

(* Every request is answered: a handler waiting for a row lock gets it or  *)
(* is the victim of the deadlock detector.                                 *)
EveryRequestIsAnswered ==
  \A r \in Requests : pc[r] # "idle" ~> pc[r] = "idle"
=============================================================================
