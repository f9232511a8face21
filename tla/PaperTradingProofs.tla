------------------------ MODULE PaperTradingProofs ------------------------
(***************************************************************************)
(* Machine-checked proofs about PaperTrading, for every set of users,      *)
(* symbols, requests, prices and quantities and for every limit.           *)
(*                                                                         *)
(* The inductive invariant says which locks a handler holds at each step   *)
(* and what the values it has read still mean.  The lock on the users row  *)
(* is what makes the unlocked read of the position safe; the lock on the   *)
(* positions row is what makes the risk check of that row last.            *)
(***************************************************************************)
EXTENDS PaperTrading, TLAPS

(* A handler's job fits the step it is at. *)
JobsFit ==
  \A r \in Requests :
    /\ pc[r] \in TradeSteps => job[r] \in TradeJob
    /\ pc[r] \in ResetSteps => Resets /\ job[r] \in ResetJob

(* Orders past the route's first check have a positive size. *)
OrdersArePositive ==
  \A r \in Requests : pc[r] \in TradeSteps \ {"quote"} => job[r].qty > 0

(* No handler remembers a negative balance. *)
CashIsSolvent == \A r \in Requests : cash[r] >= 0

(* What execute_trade has checked when it reaches the commit. *)
OrdersAreCovered ==
  \A r \in Requests : pc[r] = "commit" =>
    /\ fill[r] > 0
    /\ held[r].qty >= 0
    /\ Buys(r) => cash[r] >= fill[r] * job[r].qty
    /\ ~Buys(r) => held[r].qty >= job[r].qty

(* From its FOR UPDATE to its commit an order holds its users row. *)
UserLocksHeld ==
  \A r \in Requests : pc[r] \in {"body", "commit"} => userLock[job[r].user] = r

(* A locked positions row exists, and its holder is past the statement *)
(* that locks it.                                                       *)
RowLocksHeld ==
  \A w \in Rows, r \in Requests : rowLock[w] = r =>
    /\ RowExists(w)
    /\ \/ pc[r] \in {"exposure", "execute", "body", "commit"} /\ w = Row(r)
       \/ pc[r] \in {"rsLocks", "rsTrades", "rsUser"}

(* The position limit checked under the row's lock still holds. *)
CheckedLimitsLast ==
  \A r \in Requests :
    /\ pc[r] \in {"exposure", "execute", "body", "commit"}
    /\ job[r].action = "BUY"
    /\ rowLock[Row(r)] = r
    => quantity[Row(r)] + job[r].qty <= MaxPosition

IInv ==
  /\ TypeOK
  /\ JobsFit
  /\ OrdersArePositive
  /\ CashIsSolvent
  /\ OrdersAreCovered
  /\ UserLocksHeld
  /\ RowLocksHeld
  /\ CheckedLimitsLast
  /\ NeverOverdrawn
  /\ PositionReadsAreCurrent
  /\ TradesExplainPositions

-----------------------------------------------------------------------------
(* A row of a trade job is one of the rows of its user. *)
LEMMA RowTyped ==
  ASSUME NEW r, job[r] \in TradeJob
  PROVE  /\ Row(r) \in Rows
         /\ job[r].user \in Users
         /\ job[r].symbol \in Symbols
         /\ job[r].qty \in Int
         /\ job[r].op = "trade"
  BY QuantityAssumption DEF TradeJob, Row, Rows

(* Rolling a request back leaves the invariant as it is. *)
LEMMA RejectStep ==
  ASSUME IInv, NEW r \in Requests, Reject(r)
  PROVE  IInv'
<1> USE RequestAssumption DEF Reject, Finish, SessionCloses, NoneWiped, ReleaseLocks, Goto, db
<1>1. TypeOK'
  <2>1. [s \in Symbols |-> NoTrades] \in [Symbols -> Booking]
    BY DEF NoTrades, Booking
  <2>2. NoRow \in [qty : Int, basis : Int]
    BY DEF NoRow
  <2>3. QED
    BY <2>1, <2>2 DEF IInv, TypeOK
<1>2. JobsFit'
  BY DEF IInv, TypeOK, JobsFit, TradeSteps, ResetSteps
<1>3. OrdersArePositive'
  BY DEF IInv, TypeOK, OrdersArePositive, TradeSteps
<1>4. CashIsSolvent'
  BY DEF IInv, TypeOK, CashIsSolvent
<1>5. OrdersAreCovered'
  BY DEF IInv, TypeOK, OrdersAreCovered, Buys
<1>6. UserLocksHeld'
  BY DEF IInv, TypeOK, UserLocksHeld, JobsFit, TradeSteps, TradeJob
<1>7. RowLocksHeld'
  BY DEF IInv, TypeOK, RowLocksHeld, RowExists, Row
<1>8. CheckedLimitsLast'
  BY RowTyped DEF IInv, TypeOK, CheckedLimitsLast, Row, JobsFit, TradeSteps
<1>9. NeverOverdrawn' /\ PositionReadsAreCurrent' /\ TradesExplainPositions'
  BY DEF IInv, TypeOK, NeverOverdrawn, PositionReadsAreCurrent, TradesExplainPositions,
         Row, RowExists
<1> QED
  BY <1>1, <1>2, <1>3, <1>4, <1>5, <1>6, <1>7, <1>8, <1>9 DEF IInv

(* The route's checks let only orders of a positive size through. *)
LEMMA QuoteStep ==
  ASSUME IInv, NEW r \in Requests, Quote(r)
  PROVE  IInv'
<1> USE RequestAssumption
<1>1. CASE Reject(r)
  BY <1>1, RejectStep
<1>2. CASE ~Reject(r)
  <2>1. /\ job[r] \in TradeJob
        /\ Row(r) \in Rows
        /\ job[r].user \in Users
        /\ job[r].qty \in Int
        /\ price[job[r].symbol] \in Prices
        /\ price[job[r].symbol] \in Int
    <3>1. job[r] \in TradeJob
      BY <1>2 DEF Quote, IInv, JobsFit, TradeSteps
    <3>2. job[r].symbol \in Symbols
      BY <3>1 DEF TradeJob
    <3>3. price[job[r].symbol] \in Prices
      BY <3>2 DEF IInv, TypeOK
    <3>4. price[job[r].symbol] \in Int
      BY <3>3, PriceAssumption
    <3> QED
      BY <3>1, <3>3, <3>4, RowTyped
  <2>2. /\ UNCHANGED <<price, balance, quantity, basis, booked, userLock, rowLock, job, cash, fill, held, todo, wiped>>
        /\ pc[r] = "quote"
        /\ pc' = [pc EXCEPT ![r] = "daily"]
        /\ job[r].qty > 0
        /\ quote' = [quote EXCEPT ![r] = price[job[r].symbol]]
    BY <1>2, <2>1 DEF Quote, Goto, db, locks, scratch, Quotable
  <2>3. \A x \in Requests : Row(x)' = Row(x) /\ Buys(x)' = Buys(x)
    BY <2>2 DEF Row, Buys
  <2>4. TypeOK'
    <3>1. starts' \in Nat /\ pc' \in [Requests -> TradeSteps \cup ResetSteps \cup {"idle"}]
      BY <1>2, <2>2 DEF IInv, TypeOK, Quote, TradeSteps, Goto
    <3>2. [qty |-> quantity[Row(r)], basis |-> basis[Row(r)]] \in [qty : Int, basis : Int]
      BY <2>1 DEF IInv, TypeOK
    <3> QED
      BY <2>1, <2>2, <3>1, <3>2 DEF IInv, TypeOK
  <2>5. JobsFit' /\ OrdersArePositive'
    BY <2>1, <2>2 DEF IInv, TypeOK, JobsFit, OrdersArePositive, TradeSteps, ResetSteps
  <2>6. CashIsSolvent' /\ OrdersAreCovered'
    BY <2>1, <2>2, <2>3 DEF IInv, TypeOK, CashIsSolvent, OrdersAreCovered, NeverOverdrawn
  <2>7. UserLocksHeld'
    BY <2>1, <2>2 DEF IInv, TypeOK, UserLocksHeld, JobsFit, TradeSteps, TradeJob
  <2>8. RowLocksHeld'
    BY <2>1, <2>2, <2>3 DEF IInv, TypeOK, RowLocksHeld, RowExists
  <2>9. CheckedLimitsLast'
    BY <2>1, <2>2, <2>3 DEF IInv, TypeOK, CheckedLimitsLast, RowLocksHeld
  <2>10. NeverOverdrawn' /\ PositionReadsAreCurrent' /\ TradesExplainPositions'
    BY <2>1, <2>2, <2>3 DEF IInv, TypeOK, NeverOverdrawn, PositionReadsAreCurrent,
           TradesExplainPositions, RowExists
  <2> QED
    BY <2>4, <2>5, <2>6, <2>7, <2>8, <2>9, <2>10 DEF IInv
<1> QED
  BY <1>1, <1>2

(* The daily-loss check reads and changes nothing but the step. *)
LEMMA CheckDailyLossStep ==
  ASSUME IInv, NEW r \in Requests, CheckDailyLoss(r)
  PROVE  IInv'
<1> USE RequestAssumption
<1>1. CASE Reject(r)
  BY <1>1, RejectStep
<1>2. CASE ~Reject(r)
  <2>1. /\ job[r] \in TradeJob
        /\ Row(r) \in Rows
        /\ job[r].user \in Users
        /\ job[r].qty \in Int
        /\ price[job[r].symbol] \in Prices
        /\ price[job[r].symbol] \in Int
    <3>1. job[r] \in TradeJob
      BY <1>2 DEF CheckDailyLoss, IInv, JobsFit, TradeSteps
    <3>2. job[r].symbol \in Symbols
      BY <3>1 DEF TradeJob
    <3>3. price[job[r].symbol] \in Prices
      BY <3>2 DEF IInv, TypeOK
    <3>4. price[job[r].symbol] \in Int
      BY <3>3, PriceAssumption
    <3> QED
      BY <3>1, <3>3, <3>4, RowTyped
  <2>2. /\ UNCHANGED <<price, balance, quantity, basis, booked, userLock, rowLock, job, cash, quote, fill, held, todo, wiped>>
        /\ pc[r] = "daily"
        /\ pc' = [pc EXCEPT ![r] = "risk"]
    BY <1>2, <2>1 DEF CheckDailyLoss, Goto, db, locks, scratch
  <2>3. \A x \in Requests : Row(x)' = Row(x) /\ Buys(x)' = Buys(x)
    BY <2>2 DEF Row, Buys
  <2>4. TypeOK'
    <3>1. starts' \in Nat /\ pc' \in [Requests -> TradeSteps \cup ResetSteps \cup {"idle"}]
      BY <1>2, <2>2 DEF IInv, TypeOK, CheckDailyLoss, TradeSteps, Goto
    <3>2. [qty |-> quantity[Row(r)], basis |-> basis[Row(r)]] \in [qty : Int, basis : Int]
      BY <2>1 DEF IInv, TypeOK
    <3> QED
      BY <2>1, <2>2, <3>1, <3>2 DEF IInv, TypeOK
  <2>5. JobsFit' /\ OrdersArePositive'
    BY <2>1, <2>2 DEF IInv, TypeOK, JobsFit, OrdersArePositive, TradeSteps, ResetSteps
  <2>6. CashIsSolvent' /\ OrdersAreCovered'
    BY <2>1, <2>2, <2>3 DEF IInv, TypeOK, CashIsSolvent, OrdersAreCovered, NeverOverdrawn
  <2>7. UserLocksHeld'
    BY <2>1, <2>2 DEF IInv, TypeOK, UserLocksHeld, JobsFit, TradeSteps, TradeJob
  <2>8. RowLocksHeld'
    BY <2>1, <2>2, <2>3 DEF IInv, TypeOK, RowLocksHeld, RowExists
  <2>9. CheckedLimitsLast'
    BY <2>1, <2>2, <2>3 DEF IInv, TypeOK, CheckedLimitsLast, RowLocksHeld
  <2>10. NeverOverdrawn' /\ PositionReadsAreCurrent' /\ TradesExplainPositions'
    BY <2>1, <2>2, <2>3 DEF IInv, TypeOK, NeverOverdrawn, PositionReadsAreCurrent,
           TradesExplainPositions, RowExists
  <2> QED
    BY <2>4, <2>5, <2>6, <2>7, <2>8, <2>9, <2>10 DEF IInv
<1> QED
  BY <1>1, <1>2

(* The risk check locks the row it has compared with the limit. *)
LEMMA LockPositionStep ==
  ASSUME IInv, NEW r \in Requests, LockPosition(r)
  PROVE  IInv'
<1> USE RequestAssumption
<1>1. CASE Reject(r)
  BY <1>1, RejectStep
<1>2. CASE ~Reject(r)
  <2>1. /\ job[r] \in TradeJob
        /\ Row(r) \in Rows
        /\ job[r].user \in Users
        /\ job[r].qty \in Int
        /\ price[job[r].symbol] \in Prices
        /\ price[job[r].symbol] \in Int
    <3>1. job[r] \in TradeJob
      BY <1>2 DEF LockPosition, IInv, JobsFit, TradeSteps
    <3>2. job[r].symbol \in Symbols
      BY <3>1 DEF TradeJob
    <3>3. price[job[r].symbol] \in Prices
      BY <3>2 DEF IInv, TypeOK
    <3>4. price[job[r].symbol] \in Int
      BY <3>3, PriceAssumption
    <3> QED
      BY <3>1, <3>3, <3>4, RowTyped
  <2>2. /\ UNCHANGED <<price, balance, quantity, basis, booked, userLock, job, cash, quote, fill, held, todo, wiped>>
        /\ pc[r] = "risk"
        /\ pc' = [pc EXCEPT ![r] = "exposure"]
        /\ RowExists(Row(r)) => rowLock[Row(r)] \in {NoRequest, r}
        /\ rowLock' = IF RowExists(Row(r)) THEN [rowLock EXCEPT ![Row(r)] = r] ELSE rowLock
        /\ job[r].action = "BUY" => quantity[Row(r)] + job[r].qty <= MaxPosition
    BY <1>2, <2>1 DEF LockPosition, Goto, db, locks, scratch, RowFree, WithinPositionLimit
  <2>3. \A x \in Requests : Row(x)' = Row(x) /\ Buys(x)' = Buys(x)
    BY <2>2 DEF Row, Buys
  <2>4. TypeOK'
    <3>1. starts' \in Nat /\ pc' \in [Requests -> TradeSteps \cup ResetSteps \cup {"idle"}]
      BY <1>2, <2>2 DEF IInv, TypeOK, LockPosition, TradeSteps, Goto
    <3>2. [qty |-> quantity[Row(r)], basis |-> basis[Row(r)]] \in [qty : Int, basis : Int]
      BY <2>1 DEF IInv, TypeOK
    <3> QED
      BY <2>1, <2>2, <3>1, <3>2 DEF IInv, TypeOK
  <2>5. JobsFit' /\ OrdersArePositive'
    BY <2>1, <2>2 DEF IInv, TypeOK, JobsFit, OrdersArePositive, TradeSteps, ResetSteps
  <2>6. CashIsSolvent' /\ OrdersAreCovered'
    BY <2>1, <2>2, <2>3 DEF IInv, TypeOK, CashIsSolvent, OrdersAreCovered, NeverOverdrawn
  <2>7. UserLocksHeld'
    BY <2>1, <2>2 DEF IInv, TypeOK, UserLocksHeld, JobsFit, TradeSteps, TradeJob
  <2>8. RowLocksHeld'
    BY <2>1, <2>2, <2>3 DEF IInv, TypeOK, RowLocksHeld, RowExists
  <2>9. CheckedLimitsLast'
    BY <2>1, <2>2, <2>3 DEF IInv, TypeOK, CheckedLimitsLast, RowLocksHeld
  <2>10. NeverOverdrawn' /\ PositionReadsAreCurrent' /\ TradesExplainPositions'
    BY <2>1, <2>2, <2>3 DEF IInv, TypeOK, NeverOverdrawn, PositionReadsAreCurrent,
           TradesExplainPositions, RowExists
  <2> QED
    BY <2>4, <2>5, <2>6, <2>7, <2>8, <2>9, <2>10 DEF IInv
<1> QED
  BY <1>1, <1>2

(* The exposure check reads and changes nothing but the step. *)
LEMMA CheckExposureStep ==
  ASSUME IInv, NEW r \in Requests, CheckExposure(r)
  PROVE  IInv'
<1> USE RequestAssumption
<1>1. CASE Reject(r)
  BY <1>1, RejectStep
<1>2. CASE ~Reject(r)
  <2>1. /\ job[r] \in TradeJob
        /\ Row(r) \in Rows
        /\ job[r].user \in Users
        /\ job[r].qty \in Int
        /\ price[job[r].symbol] \in Prices
        /\ price[job[r].symbol] \in Int
    <3>1. job[r] \in TradeJob
      BY <1>2 DEF CheckExposure, IInv, JobsFit, TradeSteps
    <3>2. job[r].symbol \in Symbols
      BY <3>1 DEF TradeJob
    <3>3. price[job[r].symbol] \in Prices
      BY <3>2 DEF IInv, TypeOK
    <3>4. price[job[r].symbol] \in Int
      BY <3>3, PriceAssumption
    <3> QED
      BY <3>1, <3>3, <3>4, RowTyped
  <2>2. /\ UNCHANGED <<price, balance, quantity, basis, booked, userLock, rowLock, job, cash, quote, fill, held, todo, wiped>>
        /\ pc[r] = "exposure"
        /\ pc' = [pc EXCEPT ![r] = "execute"]
    BY <1>2, <2>1 DEF CheckExposure, Goto, db, locks, scratch
  <2>3. \A x \in Requests : Row(x)' = Row(x) /\ Buys(x)' = Buys(x)
    BY <2>2 DEF Row, Buys
  <2>4. TypeOK'
    <3>1. starts' \in Nat /\ pc' \in [Requests -> TradeSteps \cup ResetSteps \cup {"idle"}]
      BY <1>2, <2>2 DEF IInv, TypeOK, CheckExposure, TradeSteps, Goto
    <3>2. [qty |-> quantity[Row(r)], basis |-> basis[Row(r)]] \in [qty : Int, basis : Int]
      BY <2>1 DEF IInv, TypeOK
    <3> QED
      BY <2>1, <2>2, <3>1, <3>2 DEF IInv, TypeOK
  <2>5. JobsFit' /\ OrdersArePositive'
    BY <2>1, <2>2 DEF IInv, TypeOK, JobsFit, OrdersArePositive, TradeSteps, ResetSteps
  <2>6. CashIsSolvent' /\ OrdersAreCovered'
    BY <2>1, <2>2, <2>3 DEF IInv, TypeOK, CashIsSolvent, OrdersAreCovered, NeverOverdrawn
  <2>7. UserLocksHeld'
    BY <2>1, <2>2 DEF IInv, TypeOK, UserLocksHeld, JobsFit, TradeSteps, TradeJob
  <2>8. RowLocksHeld'
    BY <2>1, <2>2, <2>3 DEF IInv, TypeOK, RowLocksHeld, RowExists
  <2>9. CheckedLimitsLast'
    BY <2>1, <2>2, <2>3 DEF IInv, TypeOK, CheckedLimitsLast, RowLocksHeld
  <2>10. NeverOverdrawn' /\ PositionReadsAreCurrent' /\ TradesExplainPositions'
    BY <2>1, <2>2, <2>3 DEF IInv, TypeOK, NeverOverdrawn, PositionReadsAreCurrent,
           TradesExplainPositions, RowExists
  <2> QED
    BY <2>4, <2>5, <2>6, <2>7, <2>8, <2>9, <2>10 DEF IInv
<1> QED
  BY <1>1, <1>2

(* The users row is locked only when nobody holds it. *)
LEMMA LockUserStep ==
  ASSUME IInv, NEW r \in Requests, LockUser(r)
  PROVE  IInv'
<1> USE RequestAssumption
<1>1. CASE Reject(r)
  BY <1>1, RejectStep
<1>2. CASE ~Reject(r)
  <2>1. /\ job[r] \in TradeJob
        /\ Row(r) \in Rows
        /\ job[r].user \in Users
        /\ job[r].qty \in Int
        /\ price[job[r].symbol] \in Prices
        /\ price[job[r].symbol] \in Int
    <3>1. job[r] \in TradeJob
      BY <1>2 DEF LockUser, IInv, JobsFit, TradeSteps
    <3>2. job[r].symbol \in Symbols
      BY <3>1 DEF TradeJob
    <3>3. price[job[r].symbol] \in Prices
      BY <3>2 DEF IInv, TypeOK
    <3>4. price[job[r].symbol] \in Int
      BY <3>3, PriceAssumption
    <3> QED
      BY <3>1, <3>3, <3>4, RowTyped
  <2>2. /\ UNCHANGED <<price, balance, quantity, basis, booked, rowLock, job, cash, quote, fill, held, todo, wiped>>
        /\ pc[r] = "execute"
        /\ pc' = [pc EXCEPT ![r] = "body"]
        /\ userLock[job[r].user] = NoRequest
        /\ userLock' = [userLock EXCEPT ![job[r].user] = r]
    BY <1>2, <2>1 DEF LockUser, Goto, db, locks, scratch, UserRowFree
  <2>3. \A x \in Requests : Row(x)' = Row(x) /\ Buys(x)' = Buys(x)
    BY <2>2 DEF Row, Buys
  <2>4. TypeOK'
    <3>1. starts' \in Nat /\ pc' \in [Requests -> TradeSteps \cup ResetSteps \cup {"idle"}]
      BY <1>2, <2>2 DEF IInv, TypeOK, LockUser, TradeSteps, Goto
    <3>2. [qty |-> quantity[Row(r)], basis |-> basis[Row(r)]] \in [qty : Int, basis : Int]
      BY <2>1 DEF IInv, TypeOK
    <3> QED
      BY <2>1, <2>2, <3>1, <3>2 DEF IInv, TypeOK
  <2>5. JobsFit' /\ OrdersArePositive'
    BY <2>1, <2>2 DEF IInv, TypeOK, JobsFit, OrdersArePositive, TradeSteps, ResetSteps
  <2>6. CashIsSolvent' /\ OrdersAreCovered'
    BY <2>1, <2>2, <2>3 DEF IInv, TypeOK, CashIsSolvent, OrdersAreCovered, NeverOverdrawn
  <2>7. UserLocksHeld'
    BY <2>1, <2>2 DEF IInv, TypeOK, UserLocksHeld, JobsFit, TradeSteps, TradeJob
  <2>8. RowLocksHeld'
    BY <2>1, <2>2, <2>3 DEF IInv, TypeOK, RowLocksHeld, RowExists
  <2>9. CheckedLimitsLast'
    BY <2>1, <2>2, <2>3 DEF IInv, TypeOK, CheckedLimitsLast, RowLocksHeld
  <2>10. NeverOverdrawn' /\ PositionReadsAreCurrent' /\ TradesExplainPositions'
    BY <2>1, <2>2, <2>3 DEF IInv, TypeOK, NeverOverdrawn, PositionReadsAreCurrent,
           TradesExplainPositions, RowExists
  <2> QED
    BY <2>4, <2>5, <2>6, <2>7, <2>8, <2>9, <2>10 DEF IInv
<1> QED
  BY <1>1, <1>2

(* execute_trade checks the order against what it has read. *)
LEMMA ExecuteStep ==
  ASSUME IInv, NEW r \in Requests, Execute(r)
  PROVE  IInv'
<1> USE RequestAssumption
<1>1. CASE Reject(r)
  BY <1>1, RejectStep
<1>2. CASE ~Reject(r)
  <2>1. /\ job[r] \in TradeJob
        /\ Row(r) \in Rows
        /\ job[r].user \in Users
        /\ job[r].qty \in Int
        /\ price[job[r].symbol] \in Prices
        /\ price[job[r].symbol] \in Int
    <3>1. job[r] \in TradeJob
      BY <1>2 DEF Execute, IInv, JobsFit, TradeSteps
    <3>2. job[r].symbol \in Symbols
      BY <3>1 DEF TradeJob
    <3>3. price[job[r].symbol] \in Prices
      BY <3>2 DEF IInv, TypeOK
    <3>4. price[job[r].symbol] \in Int
      BY <3>3, PriceAssumption
    <3> QED
      BY <3>1, <3>3, <3>4, RowTyped
  <2>2. /\ UNCHANGED <<price, balance, quantity, basis, booked, userLock, rowLock, job, cash, quote, todo, wiped>>
        /\ pc[r] = "body"
        /\ pc' = [pc EXCEPT ![r] = "commit"]
        /\ fill' = [fill EXCEPT ![r] = price[job[r].symbol]]
        /\ held' = [held EXCEPT ![r] = [qty |-> quantity[Row(r)], basis |-> basis[Row(r)]]]
        /\ price[job[r].symbol] > 0
        /\ Buys(r) => cash[r] >= price[job[r].symbol] * job[r].qty
        /\ ~Buys(r) => quantity[Row(r)] >= job[r].qty
    BY <1>2, <2>1 DEF Execute, Goto, db, locks, scratch, Executable, EnoughCash, EnoughShares
  <2>3. \A x \in Requests : Row(x)' = Row(x) /\ Buys(x)' = Buys(x)
    BY <2>2 DEF Row, Buys
  <2>4. TypeOK'
    <3>1. starts' \in Nat /\ pc' \in [Requests -> TradeSteps \cup ResetSteps \cup {"idle"}]
      BY <1>2, <2>2 DEF IInv, TypeOK, Execute, TradeSteps, Goto
    <3>2. [qty |-> quantity[Row(r)], basis |-> basis[Row(r)]] \in [qty : Int, basis : Int]
      BY <2>1 DEF IInv, TypeOK
    <3> QED
      BY <2>1, <2>2, <3>1, <3>2 DEF IInv, TypeOK
  <2>5. JobsFit' /\ OrdersArePositive'
    BY <2>1, <2>2 DEF IInv, TypeOK, JobsFit, OrdersArePositive, TradeSteps, ResetSteps
  <2>6. CashIsSolvent' /\ OrdersAreCovered'
    BY <2>1, <2>2, <2>3 DEF IInv, TypeOK, CashIsSolvent, OrdersAreCovered, NeverOverdrawn
  <2>7. UserLocksHeld'
    BY <2>1, <2>2 DEF IInv, TypeOK, UserLocksHeld, JobsFit, TradeSteps, TradeJob
  <2>8. RowLocksHeld'
    BY <2>1, <2>2, <2>3 DEF IInv, TypeOK, RowLocksHeld, RowExists
  <2>9. CheckedLimitsLast'
    BY <2>1, <2>2, <2>3 DEF IInv, TypeOK, CheckedLimitsLast, RowLocksHeld
  <2>10. NeverOverdrawn' /\ PositionReadsAreCurrent' /\ TradesExplainPositions'
    BY <2>1, <2>2, <2>3 DEF IInv, TypeOK, NeverOverdrawn, PositionReadsAreCurrent,
           TradesExplainPositions, RowExists
  <2> QED
    BY <2>4, <2>5, <2>6, <2>7, <2>8, <2>9, <2>10 DEF IInv
<1> QED
  BY <1>1, <1>2

-----------------------------------------------------------------------------
(* An authenticated request starts at the first step of its kind. *)
LEMMA AuthenticateStep ==
  ASSUME IInv, NEW r \in Requests, Authenticate(r)
  PROVE  IInv'
<1> USE RequestAssumption
<1>1. PICK j \in Jobs :
        /\ pc[r] = "idle"
        /\ pc' = [pc EXCEPT ![r] = IF j.op = "trade" THEN "quote" ELSE "rsPositions"]
        /\ job' = [job EXCEPT ![r] = j]
        /\ cash' = [cash EXCEPT ![r] = balance[j.user]]
        /\ starts' = starts + 1
        /\ UNCHANGED <<price, balance, quantity, basis, booked, userLock, rowLock,
                       quote, fill, held, todo, wiped>>
  BY DEF Authenticate, Goto, db, locks
<1>2. /\ j.user \in Users
      /\ j.op = "trade" => j \in TradeJob
      /\ j.op # "trade" => Resets /\ j \in ResetJob
  BY DEF Jobs, TradeJob, ResetJob
<1>3. \A x \in Requests \ {r} : Row(x)' = Row(x) /\ Buys(x)' = Buys(x) /\ job'[x] = job[x]
  BY <1>1 DEF Row, Buys, IInv, TypeOK
<1>4. TypeOK'
  BY <1>1, <1>2 DEF IInv, TypeOK, TradeSteps, ResetSteps
<1>5. JobsFit' /\ OrdersArePositive'
  BY <1>1, <1>2 DEF IInv, TypeOK, JobsFit, OrdersArePositive, TradeSteps, ResetSteps
<1>6. CashIsSolvent'
  BY <1>1, <1>2 DEF IInv, TypeOK, CashIsSolvent, NeverOverdrawn
<1>7. OrdersAreCovered'
  BY <1>1, <1>3 DEF IInv, TypeOK, OrdersAreCovered
<1>8. UserLocksHeld'
  BY <1>1 DEF IInv, TypeOK, UserLocksHeld
<1>9. RowLocksHeld'
  BY <1>1, <1>3 DEF IInv, TypeOK, RowLocksHeld, RowExists
<1>10. CheckedLimitsLast'
  BY <1>1, <1>3 DEF IInv, TypeOK, CheckedLimitsLast
<1>11. NeverOverdrawn' /\ PositionReadsAreCurrent' /\ TradesExplainPositions'
  BY <1>1, <1>3 DEF IInv, TypeOK, NeverOverdrawn, PositionReadsAreCurrent,
         TradesExplainPositions, RowExists
<1> QED
  BY <1>4, <1>5, <1>6, <1>7, <1>8, <1>9, <1>10, <1>11 DEF IInv

(* The statements of a reset up to its commit change no committed row; a *)
(* row is locked only while it exists and nobody else holds it.          *)
LEMMA ResetStatementStep ==
  ASSUME IInv, NEW r \in Requests,
         DeletePositions(r) \/ DeleteRow(r) \/ SeeTrades(r) \/ DeleteTrades(r)
  PROVE  IInv'
<1> USE RequestAssumption
<1>1. /\ pc[r] \in ResetSteps
      /\ pc' \in {[pc EXCEPT ![r] = "rsLocks"], [pc EXCEPT ![r] = "rsTrades"],
                 [pc EXCEPT ![r] = "rsUser"]}
      /\ UNCHANGED <<price, balance, quantity, basis, booked, userLock, job, cash,
                     quote, fill, held, starts>>
  <2>1. pc \in [Requests -> TradeSteps \cup ResetSteps \cup {"idle"}]
    BY DEF IInv, TypeOK
  <2> QED
    BY <2>1 DEF DeletePositions, DeleteRow, SeeTrades, DeleteTrades, Goto, db, locks, ResetSteps
<1>2. job[r] \in ResetJob
  BY <1>1 DEF IInv, JobsFit
<1>3. /\ rowLock' \in [Rows -> Requests \cup {NoRequest}]
      /\ \A w \in Rows : \/ rowLock'[w] = rowLock[w]
                         \/ rowLock'[w] = r /\ RowExists(w) /\ rowLock[w] \in {NoRequest, r}
  <2>1. CASE rowLock' = rowLock
    BY <2>1 DEF IInv, TypeOK
  <2>2. CASE DeleteRow(r)
    BY <2>2 DEF DeleteRow, RowFree, IInv, TypeOK
  <2> QED
    BY <2>1, <2>2 DEF DeletePositions, SeeTrades, DeleteTrades, locks
<1>4. \A x \in Requests : Row(x)' = Row(x) /\ Buys(x)' = Buys(x)
  BY <1>1 DEF Row, Buys
<1>5. TypeOK'
  <2>1. pc' \in [Requests -> TradeSteps \cup ResetSteps \cup {"idle"}]
    BY <1>1 DEF IInv, TypeOK, ResetSteps
  <2>2. todo' \in [Requests -> SUBSET Rows]
    <3>1. \A w \in RowsOf(job[r].user) : w \in Rows
      BY <1>2 DEF ResetJob, RowsOf, Rows
    <3> QED
      BY <3>1 DEF IInv, TypeOK, DeletePositions, DeleteRow, SeeTrades, DeleteTrades
  <2>3. wiped' \in [Requests -> [Symbols -> Booking]]
    <3>1. [s \in Symbols |-> booked[<<job[r].user, s>>]] \in [Symbols -> Booking]
      BY <1>2 DEF ResetJob, IInv, TypeOK, Rows
    <3> QED
      BY <3>1 DEF IInv, TypeOK, DeletePositions, DeleteRow, SeeTrades, DeleteTrades
  <2> QED
    BY <1>1, <1>3, <2>1, <2>2, <2>3 DEF IInv, TypeOK
<1>6. JobsFit' /\ OrdersArePositive'
  BY <1>1 DEF IInv, TypeOK, JobsFit, OrdersArePositive, TradeSteps, ResetSteps
<1>7. CashIsSolvent' /\ OrdersAreCovered'
  BY <1>1, <1>4 DEF IInv, TypeOK, CashIsSolvent, OrdersAreCovered
<1>8. UserLocksHeld'
  BY <1>1 DEF IInv, TypeOK, UserLocksHeld
<1>9. RowLocksHeld'
  BY <1>1, <1>3, <1>4 DEF IInv, TypeOK, RowLocksHeld, RowExists, ResetSteps
<1>10. CheckedLimitsLast'
  <2> SUFFICES ASSUME NEW x \in Requests,
                      pc'[x] \in {"exposure", "execute", "body", "commit"},
                      job'[x].action = "BUY",
                      rowLock'[Row(x)'] = x
               PROVE  (quantity[Row(x)] + job[x].qty <= MaxPosition)'
    BY DEF CheckedLimitsLast
  <2>1. x # r /\ pc[x] = pc'[x]
    BY <1>1 DEF IInv, TypeOK
  <2>2. Row(x) \in Rows
    BY <2>1, RowTyped DEF IInv, JobsFit, TradeSteps
  <2>3. rowLock[Row(x)] = x
    BY <2>1, <2>2, <1>3, <1>4
  <2> QED
    BY <1>1, <1>4, <2>1, <2>3 DEF IInv, CheckedLimitsLast
<1>11. NeverOverdrawn' /\ PositionReadsAreCurrent' /\ TradesExplainPositions'
  BY <1>1, <1>4 DEF IInv, TypeOK, NeverOverdrawn, PositionReadsAreCurrent,
         TradesExplainPositions, RowExists
<1> QED
  BY <1>5, <1>6, <1>7, <1>8, <1>9, <1>10, <1>11 DEF IInv

(* A price tick moves nothing the invariant speaks of. *)
LEMMA PriceTickStep == IInv /\ PriceTick => IInv'
<1> SUFFICES ASSUME IInv, PriceTick PROVE IInv'
  OBVIOUS
<1>1. /\ price' \in [Symbols -> Prices]
      /\ UNCHANGED <<balance, quantity, basis, booked, userLock, rowLock, pc, job, cash,
                     quote, fill, held, todo, wiped, starts>>
  BY DEF PriceTick, db, locks, scratch, IInv, TypeOK
<1> QED
  BY <1>1 DEF IInv, TypeOK, JobsFit, OrdersArePositive, CashIsSolvent, OrdersAreCovered,
         UserLocksHeld, RowLocksHeld, CheckedLimitsLast, NeverOverdrawn,
         PositionReadsAreCurrent, TradesExplainPositions, RowExists, Row, Buys

(* Midnight forgets what the trades realized today and nothing else. *)
LEMMA MidnightStep == IInv /\ Midnight => IInv'
<1> SUFFICES ASSUME IInv, Midnight PROVE IInv'
  OBVIOUS
<1>1. /\ UNCHANGED <<price, balance, quantity, basis, userLock, rowLock, pc, job, cash,
                     quote, fill, held, todo, starts>>
      /\ booked' = [w \in Rows |-> Forget(booked[w])]
      /\ wiped' = [x \in Requests |-> [s \in Symbols |-> Forget(wiped[x][s])]]
  BY DEF Midnight, locks
<1>2. \A b \in Booking : /\ Forget(b) \in Booking
                         /\ Forget(b).net = b.net
                         /\ Forget(b).flow = b.flow
                         /\ Forget(b).gain = b.gain
  BY DEF Booking, Forget
<1>3. TypeOK'
  BY <1>1, <1>2 DEF IInv, TypeOK
<1>4. TradesExplainPositions'
  BY <1>1, <1>2 DEF IInv, TypeOK, TradesExplainPositions
<1> QED
  BY <1>1, <1>3, <1>4 DEF IInv, JobsFit, OrdersArePositive, CashIsSolvent, OrdersAreCovered,
         UserLocksHeld, RowLocksHeld, CheckedLimitsLast, NeverOverdrawn,
         PositionReadsAreCurrent, RowExists, Row, Buys

-----------------------------------------------------------------------------
(* What every commit does besides writing: the handler's slot is cleared   *)
(* and its locks are released.                                             *)
Cleared(r) ==
  /\ pc' = [pc EXCEPT ![r] = "idle"]
  /\ job' = [job EXCEPT ![r] = NoJob]
  /\ cash' = [cash EXCEPT ![r] = 0]
  /\ quote' = [quote EXCEPT ![r] = 0]
  /\ fill' = [fill EXCEPT ![r] = 0]
  /\ held' \in [Requests -> [qty : Int, basis : Int]]
  /\ \A x \in Requests \ {r} : /\ held'[x] = held[x]
                               /\ job'[x] = job[x]
                               /\ Row(x)' = Row(x)
                               /\ Buys(x)' = Buys(x)
  /\ todo' \in [Requests -> SUBSET Rows]
  /\ wiped' \in [Requests -> [Symbols -> Booking]]
  /\ userLock' \in [Users -> Requests \cup {NoRequest}]
  /\ \A u \in Users : userLock[u] # r => userLock'[u] = userLock[u]
  /\ rowLock' \in [Rows -> Requests \cup {NoRequest}]
  /\ \A w \in Rows : rowLock'[w] # NoRequest => rowLock'[w] = rowLock[w] /\ rowLock[w] # r

LEMMA ClosingClears ==
  ASSUME IInv, NEW r \in Requests, SessionCloses(r),
         wiped' \in [Requests -> [Symbols -> Booking]]
  PROVE  Cleared(r)
<1> USE RequestAssumption DEF SessionCloses, ReleaseLocks, Goto
<1>1. NoRow \in [qty : Int, basis : Int]
  BY DEF NoRow
<1> QED
  BY <1>1 DEF IInv, TypeOK, Row, Buys, Cleared

LEMMA FinishClears ==
  ASSUME IInv, NEW r \in Requests, Finish(r)
  PROVE  Cleared(r)
<1>1. NoneWiped \in [Symbols -> Booking]
  BY DEF NoneWiped, NoTrades, Booking
<1>2. SessionCloses(r) /\ wiped' \in [Requests -> [Symbols -> Booking]]
  BY <1>1 DEF Finish, IInv, TypeOK
<1> QED
  BY <1>2, ClosingClears

(* A cleared slot is well typed. *)
LEMMA ClearedTyped ==
  ASSUME IInv, NEW r \in Requests, Cleared(r)
  PROVE  /\ userLock' \in [Users -> Requests \cup {NoRequest}]
         /\ rowLock' \in [Rows -> Requests \cup {NoRequest}]
         /\ pc' \in [Requests -> TradeSteps \cup ResetSteps \cup {"idle"}]
         /\ job' \in [Requests -> Jobs \cup {NoJob}]
         /\ cash' \in [Requests -> Int]
         /\ quote' \in [Requests -> Int]
         /\ fill' \in [Requests -> Int]
         /\ held' \in [Requests -> [qty : Int, basis : Int]]
         /\ todo' \in [Requests -> SUBSET Rows]
         /\ wiped' \in [Requests -> [Symbols -> Booking]]
<1>1. /\ pc' = [pc EXCEPT ![r] = "idle"]
      /\ job' = [job EXCEPT ![r] = NoJob]
      /\ cash' = [cash EXCEPT ![r] = 0]
      /\ quote' = [quote EXCEPT ![r] = 0]
      /\ fill' = [fill EXCEPT ![r] = 0]
  BY DEF Cleared
<1>2. /\ pc \in [Requests -> TradeSteps \cup ResetSteps \cup {"idle"}]
      /\ job \in [Requests -> Jobs \cup {NoJob}]
      /\ cash \in [Requests -> Int]
      /\ quote \in [Requests -> Int]
      /\ fill \in [Requests -> Int]
  BY DEF IInv, TypeOK
<1>3. pc' \in [Requests -> TradeSteps \cup ResetSteps \cup {"idle"}]
  BY <1>1, <1>2
<1>4. job' \in [Requests -> Jobs \cup {NoJob}]
  BY <1>1, <1>2
<1>5. /\ cash' \in [Requests -> Int]
      /\ quote' \in [Requests -> Int]
      /\ fill' \in [Requests -> Int]
  BY <1>1, <1>2
<1> QED
  BY <1>3, <1>4, <1>5 DEF Cleared

(* A trade commits while nobody else has a claim on the rows it writes. *)
LEMMA CommitTradeStep ==
  ASSUME IInv, NEW r \in Requests, CommitTrade(r)
  PROVE  IInv'
<1> USE RequestAssumption
<1>1. CASE Reject(r)
  BY <1>1, RejectStep
<1>2. CASE ~Reject(r)
  <2>1. /\ pc[r] = "commit"
        /\ WaitsForRow(r) => rowLock[Row(r)] \in {NoRequest, r}
        /\ balance' = [balance EXCEPT ![job[r].user] = NewBalance(r)]
        /\ quantity' = [quantity EXCEPT ![Row(r)] = NewQuantity(r)]
        /\ basis' = [basis EXCEPT ![Row(r)] = NewBasis(r)]
        /\ booked' = [booked EXCEPT ![Row(r)] = Plus(@, TradeRow(r))]
        /\ Finish(r)
        /\ UNCHANGED <<price, starts>>
    BY <1>2 DEF CommitTrade, RowFree
  <2>clear. Cleared(r)
    BY <2>1, FinishClears
  <2>2. job[r] \in TradeJob
    BY <2>1 DEF IInv, JobsFit, TradeSteps
  <2>3. /\ Row(r) \in Rows
        /\ job[r].user \in Users
        /\ job[r].qty \in Int
        /\ job[r].qty > 0
    BY <2>1, <2>2, RowTyped DEF IInv, OrdersArePositive, TradeSteps
  <2>4. /\ cash[r] \in Int /\ cash[r] >= 0
        /\ fill[r] \in Int /\ fill[r] > 0
        /\ held[r] \in [qty : Int, basis : Int]
        /\ Buys(r) => cash[r] >= fill[r] * job[r].qty
        /\ ~Buys(r) => held[r].qty >= job[r].qty
        /\ held[r].qty >= 0
    BY <2>1 DEF IInv, TypeOK, CashIsSolvent, OrdersAreCovered
  <2>5. Value(r) \in Int /\ Value(r) >= 0 /\ (Buys(r) => cash[r] >= Value(r))
    BY <2>3, <2>4 DEF Value
  <2>6. NewBalance(r) \in Int /\ NewBalance(r) >= 0
    BY <2>4, <2>5 DEF NewBalance
  <2>7. NewQuantity(r) \in Int /\ NewQuantity(r) >= 0
    BY <2>3, <2>4 DEF NewQuantity
  <2>8. ~Buys(r) => SoldBasis(r) \in Int
    BY <2>3, <2>4 DEF SoldBasis
  <2>9. NewBasis(r) \in Int /\ RealizedPnl(r) \in Int
    BY <2>4, <2>5, <2>8 DEF NewBasis, RealizedPnl
  <2>10. TradeRow(r) \in Booking /\ Plus(booked[Row(r)], TradeRow(r)) \in Booking
    BY <2>3, <2>5, <2>9 DEF IInv, TypeOK, TradeRow, Booking, Plus
  <2>11. ASSUME NEW x \in Requests \ {r}, pc[x] \in {"body", "commit"}
         PROVE  Row(x) # Row(r)
    <3>1. userLock[job[x].user] = x /\ userLock[job[r].user] = r
      BY <2>1, <2>11 DEF IInv, UserLocksHeld
    <3> QED
      BY <3>1 DEF Row
  <2>12. ASSUME NEW x \in Requests \ {r}
         PROVE  rowLock[Row(r)] # x
    <3> SUFFICES ASSUME rowLock[Row(r)] = x
                 PROVE  FALSE
      OBVIOUS
    <3>1. RowExists(Row(r))
      BY <2>3 DEF IInv, RowLocksHeld
    <3>2. held[r] = [qty |-> quantity[Row(r)], basis |-> basis[Row(r)]]
      BY <2>1, <3>1 DEF IInv, PositionReadsAreCurrent
    <3>3. held[r].qty > 0
      BY <3>1, <3>2 DEF RowExists
    <3> QED
      BY <2>1, <3>1, <3>3, RequestAssumption DEF WaitsForRow
  <2>13. TypeOK'
    <3>1. /\ price' \in [Symbols -> Prices] /\ starts' \in Nat
          /\ balance' \in [Users -> Int] /\ quantity' \in [Rows -> Int]
          /\ basis' \in [Rows -> Int] /\ booked' \in [Rows -> Booking]
      BY <2>1, <2>3, <2>6, <2>7, <2>9, <2>10 DEF IInv, TypeOK
    <3> QED
      BY <3>1, <2>clear, ClearedTyped DEF TypeOK
  <2>14. JobsFit' /\ OrdersArePositive'
    BY <2>1, <2>clear DEF Cleared, IInv, TypeOK, JobsFit, OrdersArePositive, TradeSteps, ResetSteps
  <2>15. CashIsSolvent' /\ OrdersAreCovered'
    BY <2>1, <2>clear DEF Cleared, IInv, TypeOK, CashIsSolvent, OrdersAreCovered
  <2>16. UserLocksHeld'
    <3> SUFFICES ASSUME NEW x \in Requests, pc'[x] \in {"body", "commit"}
                 PROVE  (userLock[job[x].user] = x)'
      BY DEF UserLocksHeld
    <3>1. x # r /\ pc[x] = pc'[x] /\ job'[x] = job[x]
      BY <2>1, <2>clear DEF Cleared, IInv, TypeOK
    <3>2. userLock[job[x].user] = x /\ job[x].user \in Users
      BY <3>1, RowTyped DEF IInv, UserLocksHeld, JobsFit, TradeSteps
    <3> QED
      BY <2>1, <3>1, <3>2, <2>clear DEF Cleared
  <2>17. RowLocksHeld'
    <3> SUFFICES ASSUME NEW w \in Rows, NEW x \in Requests, rowLock'[w] = x
                 PROVE  (/\ RowExists(w)
                         /\ \/ pc[x] \in {"exposure", "execute", "body", "commit"} /\ w = Row(x)
                            \/ pc[x] \in {"rsLocks", "rsTrades", "rsUser"})'
      BY DEF RowLocksHeld
    <3>1. rowLock[w] = x /\ x # r
      BY <2>1, <2>clear DEF Cleared
    <3>2. w # Row(r)
      BY <3>1, <2>12
    <3>3. quantity'[w] = quantity[w] /\ pc'[x] = pc[x] /\ Row(x)' = Row(x)
      BY <2>1, <3>1, <3>2, <2>clear DEF Cleared, IInv, TypeOK
    <3> QED
      BY <3>1, <3>3 DEF IInv, RowLocksHeld, RowExists
  <2>18. CheckedLimitsLast'
    <3> SUFFICES ASSUME NEW x \in Requests,
                        pc'[x] \in {"exposure", "execute", "body", "commit"},
                        job'[x].action = "BUY",
                        rowLock'[Row(x)'] = x
                 PROVE  (quantity[Row(x)] + job[x].qty <= MaxPosition)'
      BY DEF CheckedLimitsLast
    <3>1. x # r /\ pc[x] = pc'[x] /\ job'[x] = job[x] /\ Row(x)' = Row(x)
      BY <2>1, <2>clear DEF Cleared, IInv, TypeOK
    <3>2. Row(x) \in Rows
      BY <3>1, RowTyped DEF IInv, JobsFit, TradeSteps
    <3>3. rowLock[Row(x)] = x
      BY <2>1, <3>1, <3>2, <2>clear DEF Cleared
    <3>4. Row(x) # Row(r)
      BY <3>1, <3>3, <2>12
    <3> QED
      BY <2>1, <3>1, <3>2, <3>3, <3>4 DEF IInv, TypeOK, CheckedLimitsLast
  <2>19. NeverOverdrawn'
    BY <2>1, <2>6, <2>7 DEF IInv, TypeOK, NeverOverdrawn
  <2>20. PositionReadsAreCurrent'
    <3> SUFFICES ASSUME NEW x \in Requests, pc'[x] = "commit"
                 PROVE  (\/ held[x] = [qty |-> quantity[Row(x)], basis |-> basis[Row(x)]]
                         \/ Resets /\ ~RowExists(Row(x)))'
      BY DEF PositionReadsAreCurrent
    <3>1. /\ x # r /\ pc[x] = "commit" /\ Row(x)' = Row(x) /\ held'[x] = held[x]
      BY <2>1, <2>clear DEF Cleared, IInv, TypeOK
    <3>2. Row(x) \in Rows
      BY <3>1, RowTyped DEF IInv, JobsFit, TradeSteps
    <3>3. quantity'[Row(x)] = quantity[Row(x)] /\ basis'[Row(x)] = basis[Row(x)]
      BY <2>1, <2>11, <3>1, <3>2 DEF IInv, TypeOK
    <3> QED
      BY <3>1, <3>3 DEF IInv, PositionReadsAreCurrent, RowExists
  <2>21. TradesExplainPositions'
    <3> SUFFICES ASSUME ~Resets, NEW w \in Rows
                 PROVE  (/\ quantity[w] = booked[w].net
                         /\ booked[w].gain = booked[w].flow + basis[w])'
      BY DEF TradesExplainPositions
    <3>1. CASE w # Row(r)
      BY <3>1, <2>1 DEF IInv, TypeOK, TradesExplainPositions
    <3>2. CASE w = Row(r)
      <4>1. /\ held[r].qty = quantity[w] /\ held[r].basis = basis[w]
            /\ quantity[w] \in Int /\ basis[w] \in Int /\ booked[w] \in Booking
        BY <2>1, <3>2 DEF IInv, TypeOK, PositionReadsAreCurrent
      <4>2. quantity[w] = booked[w].net /\ booked[w].gain = booked[w].flow + basis[w]
        BY DEF IInv, TradesExplainPositions
      <4>3. /\ quantity'[w] = NewQuantity(r)
            /\ basis'[w] = NewBasis(r)
            /\ booked'[w] = Plus(booked[w], TradeRow(r))
        BY <2>1, <3>2 DEF IInv, TypeOK
      <4>4. quantity'[w] = booked'[w].net
        BY <4>1, <4>2, <4>3, <2>3 DEF Plus, TradeRow, NewQuantity, Booking
      <4>5. booked'[w].gain = booked'[w].flow + basis'[w]
        BY <4>1, <4>2, <4>3, <2>5, <2>8 DEF Plus, TradeRow, NewBasis, RealizedPnl, Booking
      <4> QED
        BY <4>4, <4>5
    <3> QED
      BY <3>1, <3>2
  <2> QED
    BY <2>13, <2>14, <2>15, <2>16, <2>17, <2>18, <2>19, <2>20, <2>21 DEF IInv
<1> QED
  BY <1>1, <1>2

(* A reset empties exactly the rows it has locked. *)
LEMMA CommitResetStep ==
  ASSUME IInv, NEW r \in Requests, CommitReset(r)
  PROVE  IInv'
<1> USE RequestAssumption
<1>1. /\ pc[r] = "rsUser"
      /\ balance' = [balance EXCEPT ![job[r].user] = RestoredBalance(r)]
      /\ quantity' = [w \in Rows |-> IF rowLock[w] = r THEN 0 ELSE quantity[w]]
      /\ basis' = [w \in Rows |-> IF rowLock[w] = r THEN 0 ELSE basis[w]]
      /\ booked' = [w \in Rows |-> IF w[1] = job[r].user THEN Minus(booked[w], wiped[r][w[2]])
                                                         ELSE booked[w]]
      /\ SessionCloses(r)
      /\ UNCHANGED <<price, starts>>
  BY DEF CommitReset
<1>wiped. wiped' \in [Requests -> [Symbols -> Booking]]
  <2>1. \A a \in Booking, b \in Booking : LeftBy(a, b) \in Booking
    BY DEF LeftBy, Minus, NoTrades, Booking
  <2>2. NoneWiped \in [Symbols -> Booking]
    BY DEF NoneWiped, NoTrades, Booking
  <2>3. \A x \in Requests : [s \in Symbols |-> LeftBy(wiped[r][s], wiped[x][s])] \in [Symbols -> Booking]
    BY <2>1 DEF IInv, TypeOK
  <2>4. \A x \in Requests : wiped[x] \in [Symbols -> Booking]
    BY DEF IInv, TypeOK
  <2> QED
    BY <2>2, <2>3, <2>4 DEF CommitReset
<1>clear. Cleared(r)
  BY <1>1, <1>wiped, ClosingClears
<1>2. Resets /\ job[r] \in ResetJob /\ job[r].user \in Users
  BY <1>1 DEF IInv, JobsFit, ResetSteps, ResetJob
<1>3. RestoredBalance(r) \in Int /\ RestoredBalance(r) >= 0
  BY <1>2, BalanceAssumption DEF IInv, TypeOK, RestoredBalance, NeverOverdrawn
<1>4. booked' \in [Rows -> Booking]
  <2>1. \A a \in Booking, b \in Booking : Minus(a, b) \in Booking
    BY DEF Minus, Booking
  <2>2. \A w \in Rows : wiped[r][w[2]] \in Booking /\ booked[w] \in Booking
    BY DEF IInv, TypeOK, Rows
  <2> QED
    BY <1>1, <2>1, <2>2
<1>5. TypeOK'
  <2>1. /\ price' \in [Symbols -> Prices] /\ starts' \in Nat
        /\ balance' \in [Users -> Int] /\ quantity' \in [Rows -> Int]
        /\ basis' \in [Rows -> Int]
    BY <1>1, <1>2, <1>3 DEF IInv, TypeOK
  <2> QED
    BY <2>1, <1>4, <1>clear, ClearedTyped DEF TypeOK
<1>6. JobsFit' /\ OrdersArePositive'
  BY <1>1, <1>clear DEF Cleared, IInv, TypeOK, JobsFit, OrdersArePositive, TradeSteps, ResetSteps
<1>7. CashIsSolvent' /\ OrdersAreCovered'
  BY <1>1, <1>clear DEF Cleared, IInv, TypeOK, CashIsSolvent, OrdersAreCovered
<1>8. ASSUME NEW x \in Requests, pc'[x] # "idle"
      PROVE  /\ x # r /\ pc'[x] = pc[x] /\ job'[x] = job[x]
             /\ Row(x)' = Row(x) /\ held'[x] = held[x]
  BY <1>1, <1>8, <1>clear DEF Cleared, IInv, TypeOK
<1>9. ASSUME NEW w \in Rows, NEW x \in Requests, rowLock'[w] = x
      PROVE  rowLock[w] = x /\ x # r /\ quantity'[w] = quantity[w]
  BY <1>1, <1>9, <1>clear DEF Cleared
<1>10. UserLocksHeld'
  <2> SUFFICES ASSUME NEW x \in Requests, pc'[x] \in {"body", "commit"}
               PROVE  (userLock[job[x].user] = x)'
    BY DEF UserLocksHeld
  <2>1. x # r /\ pc[x] = pc'[x] /\ job'[x] = job[x]
    BY <1>8
  <2>2. userLock[job[x].user] = x /\ job[x].user \in Users
    BY <2>1, RowTyped DEF IInv, UserLocksHeld, JobsFit, TradeSteps
  <2> QED
    BY <1>1, <2>1, <2>2, <1>clear DEF Cleared
<1>11. RowLocksHeld'
  <2> SUFFICES ASSUME NEW w \in Rows, NEW x \in Requests, rowLock'[w] = x
               PROVE  (/\ RowExists(w)
                       /\ \/ pc[x] \in {"exposure", "execute", "body", "commit"} /\ w = Row(x)
                          \/ pc[x] \in {"rsLocks", "rsTrades", "rsUser"})'
    BY DEF RowLocksHeld
  <2>1. rowLock[w] = x /\ x # r /\ quantity'[w] = quantity[w]
    BY <1>9
  <2>2. pc'[x] = pc[x] /\ Row(x)' = Row(x)
    BY <1>1, <2>1, <1>clear DEF Cleared, IInv, TypeOK
  <2> QED
    BY <2>1, <2>2 DEF IInv, RowLocksHeld, RowExists
<1>12. CheckedLimitsLast'
  <2> SUFFICES ASSUME NEW x \in Requests,
                      pc'[x] \in {"exposure", "execute", "body", "commit"},
                      job'[x].action = "BUY",
                      rowLock'[Row(x)'] = x
               PROVE  (quantity[Row(x)] + job[x].qty <= MaxPosition)'
    BY DEF CheckedLimitsLast
  <2>1. x # r /\ pc[x] = pc'[x] /\ job'[x] = job[x] /\ Row(x)' = Row(x)
    BY <1>8
  <2>2. Row(x) \in Rows
    BY <2>1, RowTyped DEF IInv, JobsFit, TradeSteps
  <2>3. rowLock[Row(x)] = x /\ quantity'[Row(x)] = quantity[Row(x)]
    BY <1>9, <2>1, <2>2
  <2> QED
    BY <2>1, <2>2, <2>3 DEF IInv, CheckedLimitsLast
<1>13. NeverOverdrawn'
  BY <1>1, <1>2, <1>3 DEF IInv, TypeOK, NeverOverdrawn
<1>14. PositionReadsAreCurrent'
  <2> SUFFICES ASSUME NEW x \in Requests, pc'[x] = "commit"
               PROVE  (\/ held[x] = [qty |-> quantity[Row(x)], basis |-> basis[Row(x)]]
                       \/ Resets /\ ~RowExists(Row(x)))'
    BY DEF PositionReadsAreCurrent
  <2>1. x # r /\ pc[x] = "commit" /\ Row(x)' = Row(x) /\ held'[x] = held[x]
    BY <1>8
  <2>2. Row(x) \in Rows
    BY <2>1, RowTyped DEF IInv, JobsFit, TradeSteps
  <2>3. CASE rowLock[Row(x)] = r
    BY <1>1, <1>2, <2>1, <2>2, <2>3 DEF RowExists
  <2>4. CASE rowLock[Row(x)] # r
    BY <1>1, <2>1, <2>2, <2>4 DEF IInv, PositionReadsAreCurrent, RowExists
  <2> QED
    BY <2>3, <2>4
<1>15. TradesExplainPositions'
  BY <1>2 DEF TradesExplainPositions
<1> QED
  BY <1>5, <1>6, <1>7, <1>10, <1>11, <1>12, <1>13, <1>14, <1>15 DEF IInv

-----------------------------------------------------------------------------
LEMMA InitInvariant == Init => IInv
<1> SUFFICES ASSUME Init PROVE IInv
  OBVIOUS
<1>1. NoTrades \in Booking /\ NoRow \in [qty : Int, basis : Int]
  BY DEF NoTrades, NoRow, Booking
<1>2. TypeOK
  BY <1>1, BalanceAssumption DEF Init, TypeOK, NoneWiped
<1>3. /\ JobsFit /\ OrdersArePositive /\ CashIsSolvent /\ OrdersAreCovered
      /\ UserLocksHeld /\ CheckedLimitsLast /\ PositionReadsAreCurrent
  BY DEF Init, JobsFit, OrdersArePositive, CashIsSolvent, OrdersAreCovered, UserLocksHeld,
         CheckedLimitsLast, PositionReadsAreCurrent, TradeSteps, ResetSteps
<1>4. RowLocksHeld
  BY RequestAssumption DEF Init, RowLocksHeld
<1>5. NeverOverdrawn /\ TradesExplainPositions
  BY BalanceAssumption DEF Init, NeverOverdrawn, TradesExplainPositions, NoTrades
<1> QED
  BY <1>2, <1>3, <1>4, <1>5 DEF IInv

LEMMA NextInvariant == IInv /\ [Next]_vars => IInv'
<1> SUFFICES ASSUME IInv, [Next]_vars PROVE IInv'
  OBVIOUS
<1>1. ASSUME NEW r \in Requests, Authenticate(r) PROVE IInv'
  BY <1>1, AuthenticateStep
<1>2. ASSUME NEW r \in Requests, Handle(r) PROVE IInv'
  BY <1>2, QuoteStep, CheckDailyLossStep, LockPositionStep, CheckExposureStep, LockUserStep,
     ExecuteStep, CommitTradeStep, ResetStatementStep, CommitResetStep DEF Handle
<1>3. ASSUME NEW r \in Requests, DeadlockAbort(r) PROVE IInv'
  BY <1>3, RejectStep DEF DeadlockAbort
<1>4. CASE PriceTick
  BY <1>4, PriceTickStep
<1>5. CASE Midnight
  BY <1>5, MidnightStep
<1>6. CASE UNCHANGED vars
  BY <1>6 DEF vars, db, locks, scratch, IInv, TypeOK, JobsFit, OrdersArePositive,
     CashIsSolvent, OrdersAreCovered, UserLocksHeld, RowLocksHeld, CheckedLimitsLast,
     NeverOverdrawn, PositionReadsAreCurrent, TradesExplainPositions, RowExists, Row, Buys
<1> QED
  BY <1>1, <1>2, <1>3, <1>4, <1>5, <1>6 DEF Next

(* The inductive invariant holds throughout: every lock protects what the  *)
(* handlers rely on it for.                                                *)
THEOREM InductiveInvariant == Spec => []IInv
BY InitInvariant, NextInvariant, PTL DEF Spec

(* Type correctness. *)
THEOREM TypeCorrect == Spec => []TypeOK
BY InductiveInvariant, PTL DEF IInv

(* No interleaving of any number of orders and resets leaves a negative    *)
(* balance or a negative position (execution_engine.py:169, 207).          *)
THEOREM AccountsNeverOverdrawn == Spec => []NeverOverdrawn
BY InductiveInvariant, PTL DEF IInv

(* The unlocked position read of execute_trade is never stale, except for  *)
(* a row that a reset has deleted (execution_engine.py:174, 202).          *)
THEOREM PositionReadsCorrect == Spec => []PositionReadsAreCurrent
BY InductiveInvariant, PTL DEF IInv

(* A BUY whose risk check locked the position cannot exceed the position   *)
(* limit, whatever runs beside it (risk_engine.py:42-52).                  *)
THEOREM LockedBuysRespectLimit == Spec => []LockedBuysStayWithinLimit
<1>1. IInv => LockedBuysStayWithinLimit
  BY DEF IInv, CheckedLimitsLast, LockedBuysStayWithinLimit
<1> QED
  BY <1>1, InductiveInvariant, PTL

(* Without resets the trades table explains every position and every       *)
(* realized profit, although the balance may lose updates                  *)
(* (execution_engine.py:167-228).                                          *)
THEOREM TradesAlwaysExplainPositions == Spec => []TradesExplainPositions
BY InductiveInvariant, PTL DEF IInv
=============================================================================
