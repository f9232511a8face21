------------------------ MODULE TradingLedgerProofs ------------------------
(***************************************************************************)
(* PaperTrading with one request of a user at a time implements            *)
(* TradingLedger, for every set of users, symbols, requests, prices and    *)
(* order sizes and for every limit, with resets or without.                *)
(*                                                                         *)
(* A request of a user who has no other in flight reads what nobody else   *)
(* writes: what it remembers of the account is the account.  The commit    *)
(* then is the order, or the reset, and every other step changes nothing.  *)
(***************************************************************************)
EXTENDS PaperTradingProofs, FiniteSetTheorems, WellFoundedInduction

(* One request of a user at a time, with its action in upper case. *)
Serial == InFlightPerUser = 1 /\ Actions \subseteq {"BUY", "SELL"}

Busy(x) == pc[x] # "idle"

OneAtATime ==
  \A x, y \in Requests : Busy(x) /\ Busy(y) /\ job[x].user = job[y].user => x = y

IdleSlotsAreEmpty == \A x \in Requests : ~Busy(x) => job[x] = NoJob

(* Shares that were sold have left with what they cost. *)
EmptyRowsCostNothing == \A w \in Rows : quantity[w] = 0 => basis[w] = 0

-----------------------------------------------------------------------------
(* What a request knows of its account is so. *)

CashIsCurrent(x) == cash[x] = balance[job[x].user]

CheckedLimitHolds(x) ==
  /\ pc[x] \in {"exposure", "execute", "body", "commit"}
  /\ job[x].action = "BUY"
  => quantity[Row(x)] + job[x].qty <= MaxPosition

ReadsAreCurrent(x) ==
  pc[x] = "commit" =>
    /\ held[x] = [qty |-> quantity[Row(x)], basis |-> basis[Row(x)]]
    /\ fill[x] \in Prices

LocksAreOwn(x) ==
  /\ \A w \in Rows : rowLock[w] = x => w[1] = job[x].user
  /\ pc[x] = "rsLocks" => todo[x] \subseteq RowsOf(job[x].user)

(* A reset has locked every position it has passed. *)
RowsAreClaimed(x) ==
  \A w \in RowsOf(job[x].user) : RowExists(w) =>
    /\ pc[x] = "rsLocks" => w \in todo[x] \/ rowLock[w] = x
    /\ pc[x] \in {"rsTrades", "rsUser"} => rowLock[w] = x

WipesAreCurrent(x) ==
  pc[x] \in {"rsTrades", "rsUser"} => wiped[x] = [s \in Symbols |-> booked[<<job[x].user, s>>]]

KnowsItsAccount(x) ==
  /\ CashIsCurrent(x) /\ CheckedLimitHolds(x) /\ ReadsAreCurrent(x)
  /\ LocksAreOwn(x) /\ RowsAreClaimed(x) /\ WipesAreCurrent(x)

SerialInv ==
  /\ OneAtATime
  /\ IdleSlotsAreEmpty
  /\ EmptyRowsCostNothing
  /\ PositionsStayWithinLimit
  /\ \A x \in Requests : Busy(x) => KnowsItsAccount(x)

-----------------------------------------------------------------------------
(* A busy slot has a job, of a user whose rows are its own. *)
LEMMA BusyTyped ==
  ASSUME IInv, NEW x \in Requests, Busy(x)
  PROVE  /\ job[x] # NoJob /\ job[x].user \in Users
         /\ RowsOf(job[x].user) \subseteq Rows
         /\ pc[x] \in TradeSteps => /\ job[x] \in TradeJob
                                    /\ Row(x) \in RowsOf(job[x].user)
<1>1. \/ pc[x] \in TradeSteps /\ job[x] \in TradeJob
      \/ pc[x] \in ResetSteps /\ Resets /\ job[x] \in ResetJob
  BY DEF IInv, TypeOK, JobsFit, Busy
<1>2. TradeSteps \cap ResetSteps = {}
  BY DEF TradeSteps, ResetSteps
<1>3. job[x] \in Jobs /\ job[x].user \in Users
  BY <1>1 DEF Jobs, TradeJob, ResetJob
<1>4. job[x] \in TradeJob => Row(x) \in RowsOf(job[x].user)
  BY DEF Row, RowsOf, TradeJob
<1>5. RowsOf(job[x].user) \subseteq Rows
  BY <1>3 DEF RowsOf, Rows
<1> QED
  BY <1>1, <1>2, <1>3, <1>4, <1>5, JobAssumption

(* Rows of different users are different. *)
LEMMA RowsApart ==
  ASSUME NEW u, NEW v, u # v, NEW w \in RowsOf(u)
  PROVE  w \notin RowsOf(v) /\ w[1] = u
  BY DEF RowsOf

(* A step that leaves a request and its user's rows alone leaves what the  *)
(* request knows true.                                                     *)
LEMMA Undisturbed ==
  ASSUME IInv, NEW x \in Requests, Busy(x), KnowsItsAccount(x),
         pc'[x] = pc[x], job'[x] = job[x], cash'[x] = cash[x], held'[x] = held[x],
         fill'[x] = fill[x], todo'[x] = todo[x], wiped'[x] = wiped[x],
         balance'[job[x].user] = balance[job[x].user],
         \A w \in RowsOf(job[x].user) :
           quantity'[w] = quantity[w] /\ basis'[w] = basis[w] /\ booked'[w] = booked[w],
         \A w \in Rows : rowLock'[w] = x <=> rowLock[w] = x
  PROVE  KnowsItsAccount(x)'
<1>1. pc[x] \in {"exposure", "execute", "body", "commit"} => Row(x) \in RowsOf(job[x].user)
  BY BusyTyped DEF TradeSteps
<1>2. Row(x)' = Row(x)
  BY DEF Row
<1>3. CashIsCurrent(x)'
  BY DEF KnowsItsAccount, CashIsCurrent
<1>4. CheckedLimitHolds(x)' /\ ReadsAreCurrent(x)'
  BY <1>1, <1>2 DEF KnowsItsAccount, CheckedLimitHolds, ReadsAreCurrent
<1>5. LocksAreOwn(x)' /\ RowsAreClaimed(x)'
  BY BusyTyped DEF KnowsItsAccount, LocksAreOwn, RowsAreClaimed, RowExists
<1>6. WipesAreCurrent(x)'
  <2>1. \A s \in Symbols : <<job[x].user, s>> \in RowsOf(job[x].user)
    BY DEF RowsOf
  <2>2. \A s \in Symbols : booked'[<<job'[x].user, s>>] = booked[<<job[x].user, s>>]
    BY <2>1
  <2>3. [s \in Symbols |-> booked'[<<job'[x].user, s>>]]
          = [s \in Symbols |-> booked[<<job[x].user, s>>]]
    BY <2>2
  <2> QED
    BY <2>3 DEF KnowsItsAccount, WipesAreCurrent
<1> QED
  BY <1>3, <1>4, <1>5, <1>6 DEF KnowsItsAccount

(* A step of one request that writes at most its own user's rows.          *)
Steps(r) ==
  /\ \A x \in Requests \ {r} :
       /\ pc'[x] = pc[x] /\ job'[x] = job[x] /\ cash'[x] = cash[x] /\ held'[x] = held[x]
       /\ fill'[x] = fill[x] /\ todo'[x] = todo[x] /\ wiped'[x] = wiped[x]
       /\ \A w \in Rows : rowLock'[w] = x <=> rowLock[w] = x
  /\ \A u \in Users : u # job[r].user => balance'[u] = balance[u]
  /\ \A u \in Users : u # job[r].user => \A w \in RowsOf(u) :
       quantity'[w] = quantity[w] /\ basis'[w] = basis[w] /\ booked'[w] = booked[w]

(* Such a step leaves the other requests undisturbed, for they are of      *)
(* other users.                                                            *)
LEMMA OthersUndisturbed ==
  ASSUME IInv, SerialInv, NEW r \in Requests, Busy(r), Steps(r)
  PROVE  \A x \in Requests \ {r} : Busy(x)' => KnowsItsAccount(x)'
<1> SUFFICES ASSUME NEW x \in Requests \ {r}, Busy(x)'
             PROVE  KnowsItsAccount(x)'
  OBVIOUS
<1>1. Busy(x) /\ KnowsItsAccount(x)
  BY DEF Steps, Busy, SerialInv
<1>2. job[x].user # job[r].user /\ job[x].user \in Users
  BY <1>1, BusyTyped DEF SerialInv, OneAtATime
<1> QED
  BY <1>1, <1>2, Undisturbed DEF Steps

(* An order's steps before its commit write nothing but locks.             *)
LEMMA OrderStep ==
  ASSUME IInv, SerialInv, Serial, NEW r \in Requests,
         \/ Quote(r) \/ CheckDailyLoss(r) \/ LockPosition(r) \/ CheckExposure(r)
         \/ LockUser(r) \/ Execute(r),
         ~Reject(r)
  PROVE  SerialInv' /\ UNCHANGED db
<1> USE RequestAssumption
<1>1. Busy(r) /\ pc[r] \in TradeSteps
  BY DEF Quote, CheckDailyLoss, LockPosition, CheckExposure, LockUser, Execute, Busy, TradeSteps
<1>2. /\ job[r] \in TradeJob /\ Row(r) \in RowsOf(job[r].user) /\ Row(r) \in Rows
      /\ job[r].user \in Users /\ job[r].symbol \in Symbols
  BY <1>1, BusyTyped DEF TradeJob
<1>3. KnowsItsAccount(r)
  BY <1>1 DEF SerialInv
<1>4. /\ UNCHANGED <<db, job, cash, todo, wiped>>
      /\ pc' \in {[pc EXCEPT ![r] = "daily"], [pc EXCEPT ![r] = "risk"],
                  [pc EXCEPT ![r] = "exposure"], [pc EXCEPT ![r] = "execute"],
                  [pc EXCEPT ![r] = "body"], [pc EXCEPT ![r] = "commit"]}
  BY DEF Quote, CheckDailyLoss, LockPosition, CheckExposure, LockUser, Execute, Goto, locks,
         scratch
<1>5. \A w \in Rows : rowLock'[w] = rowLock[w]
                      \/ (w = Row(r) /\ rowLock'[w] = r /\ rowLock[w] \in {NoRequest, r})
  BY <1>2 DEF Quote, CheckDailyLoss, LockPosition, CheckExposure, LockUser, Execute, locks,
         RowFree, IInv, TypeOK
<1>6. \A x \in Requests \ {r} : fill'[x] = fill[x] /\ held'[x] = held[x]
  BY DEF Quote, CheckDailyLoss, LockPosition, CheckExposure, LockUser, Execute, scratch,
         IInv, TypeOK
<1>7. Steps(r)
  BY <1>4, <1>5, <1>6 DEF Steps, db, IInv, TypeOK
<1>8. pc'[r] \in TradeSteps /\ Busy(r)' /\ \A x \in Requests : Busy(x)' <=> Busy(x)
  BY <1>1, <1>4 DEF Busy, TradeSteps, IInv, TypeOK
<1>9. Row(r)' = Row(r)
  BY <1>4 DEF Row
<1>10. CashIsCurrent(r)'
  BY <1>3, <1>4 DEF KnowsItsAccount, CashIsCurrent, db
<1>11. CheckedLimitHolds(r)'
  <2>1. CASE LockPosition(r)
    BY <2>1, <1>4, <1>9 DEF LockPosition, WithinPositionLimit, CheckedLimitHolds, db
  <2>2. CASE CheckExposure(r) \/ LockUser(r) \/ Execute(r)
    <3>1. pc[r] \in {"exposure", "execute", "body"}
      BY <2>2 DEF CheckExposure, LockUser, Execute
    <3> QED
      BY <3>1, <1>3, <1>4, <1>9 DEF KnowsItsAccount, CheckedLimitHolds, db
  <2>3. CASE Quote(r) \/ CheckDailyLoss(r)
    <3>1. pc'[r] \in {"daily", "risk"}
      BY <2>3 DEF Quote, CheckDailyLoss, Goto, IInv, TypeOK
    <3> QED
      BY <3>1 DEF CheckedLimitHolds
  <2> QED
    BY <2>1, <2>2, <2>3
<1>12. ReadsAreCurrent(r)'
  <2>1. CASE Execute(r)
    <3>1. /\ fill' = [fill EXCEPT ![r] = price[job[r].symbol]]
          /\ held' = [held EXCEPT ![r] = [qty |-> quantity[Row(r)], basis |-> basis[Row(r)]]]
      BY <2>1 DEF Execute
    <3>2. price[job[r].symbol] \in Prices
      BY <1>2 DEF IInv, TypeOK
    <3> QED
      BY <3>1, <3>2, <1>4, <1>9 DEF ReadsAreCurrent, db, IInv, TypeOK
  <2>2. CASE ~Execute(r)
    <3>1. pc'[r] # "commit"
      BY <2>2 DEF Quote, CheckDailyLoss, LockPosition, CheckExposure, LockUser, Goto,
             IInv, TypeOK
    <3> QED
      BY <3>1 DEF ReadsAreCurrent
  <2> QED
    BY <2>1, <2>2
<1>13. LocksAreOwn(r)'
  <2>1. Row(r)[1] = job[r].user
    BY DEF Row
  <2> QED
    BY <2>1, <1>3, <1>4, <1>5, <1>8 DEF KnowsItsAccount, LocksAreOwn, TradeSteps
<1>14. RowsAreClaimed(r)' /\ WipesAreCurrent(r)'
  BY <1>8 DEF RowsAreClaimed, WipesAreCurrent, TradeSteps
<1>15. \A x \in Requests : Busy(x)' => KnowsItsAccount(x)'
  BY <1>1, <1>7, <1>10, <1>11, <1>12, <1>13, <1>14, OthersUndisturbed DEF KnowsItsAccount
<1>16. OneAtATime' /\ IdleSlotsAreEmpty' /\ EmptyRowsCostNothing' /\ PositionsStayWithinLimit'
  BY <1>4, <1>8 DEF SerialInv, OneAtATime, IdleSlotsAreEmpty, EmptyRowsCostNothing,
         PositionsStayWithinLimit, db
<1> QED
  BY <1>4, <1>15, <1>16 DEF SerialInv

-----------------------------------------------------------------------------
(* The user of a new request has no other: an account is authenticated by  *)
(* one request at a time.                                                  *)
LEMMA NewcomerIsAlone ==
  ASSUME IInv, SerialInv, Serial, NEW u, Cardinality(InFlight(u)) < InFlightPerUser
  PROVE  \A x \in Requests : Busy(x) => job[x].user # u
<1> SUFFICES ASSUME NEW x \in Requests, Busy(x), job[x].user = u
             PROVE  FALSE
  OBVIOUS
<1>1. InFlight(u) = {x}
  BY BusyTyped DEF InFlight, SerialInv, OneAtATime, IdleSlotsAreEmpty
<1>2. Cardinality({x}) = 1
  BY FS_Singleton
<1> QED
  BY <1>1, <1>2 DEF Serial

(* A request begins by reading the balance of its user. *)
LEMMA AuthenticateSerial ==
  ASSUME IInv, SerialInv, Serial, NEW r \in Requests, Authenticate(r)
  PROVE  SerialInv' /\ UNCHANGED db
<1> USE RequestAssumption
<1>1. PICK j \in Jobs :
        /\ pc[r] = "idle"
        /\ Cardinality(InFlight(j.user)) < InFlightPerUser
        /\ pc' = [pc EXCEPT ![r] = IF j.op = "trade" THEN "quote" ELSE "rsPositions"]
        /\ job' = [job EXCEPT ![r] = j]
        /\ cash' = [cash EXCEPT ![r] = balance[j.user]]
        /\ UNCHANGED <<db, rowLock, fill, held, todo, wiped>>
  BY DEF Authenticate, Goto, locks
<1>2. \A x \in Requests : Busy(x) => job[x].user # j.user
  BY <1>1, NewcomerIsAlone
<1>3. /\ pc'[r] \in {"quote", "rsPositions"} /\ job'[r] = j /\ cash'[r] = balance[j.user]
      /\ \A x \in Requests \ {r} : pc'[x] = pc[x] /\ job'[x] = job[x] /\ cash'[x] = cash[x]
  BY <1>1 DEF IInv, TypeOK
<1>4. KnowsItsAccount(r)'
  <2>1. \A w \in Rows : rowLock[w] # r
    BY <1>1 DEF IInv, RowLocksHeld
  <2>2. CashIsCurrent(r)'
    BY <1>1, <1>3 DEF CashIsCurrent, db
  <2>3. CheckedLimitHolds(r)' /\ ReadsAreCurrent(r)' /\ WipesAreCurrent(r)'
    BY <1>3 DEF CheckedLimitHolds, ReadsAreCurrent, WipesAreCurrent
  <2>4. LocksAreOwn(r)' /\ RowsAreClaimed(r)'
    BY <1>1, <1>3, <2>1 DEF LocksAreOwn, RowsAreClaimed
  <2> QED
    BY <2>2, <2>3, <2>4 DEF KnowsItsAccount
<1>5. ASSUME NEW x \in Requests \ {r}, Busy(x)'
      PROVE  KnowsItsAccount(x)'
  <2>1. Busy(x) /\ KnowsItsAccount(x)
    BY <1>3, <1>5 DEF Busy, SerialInv
  <2> QED
    BY <1>1, <1>3, <2>1, Undisturbed DEF db
<1>6. OneAtATime'
  BY <1>2, <1>3 DEF SerialInv, OneAtATime, Busy
<1>7. IdleSlotsAreEmpty' /\ EmptyRowsCostNothing' /\ PositionsStayWithinLimit'
  BY <1>1, <1>3 DEF SerialInv, IdleSlotsAreEmpty, Busy, EmptyRowsCostNothing,
         PositionsStayWithinLimit, db
<1> QED
  BY <1>1, <1>4, <1>5, <1>6, <1>7 DEF SerialInv

(* When a request ends its slot is empty, and the others never noticed. *)
LEMMA FinishSerial ==
  ASSUME IInv, SerialInv, NEW r \in Requests, Busy(r), Finish(r),
         \A u \in Users : u # job[r].user => balance'[u] = balance[u],
         \A u \in Users : u # job[r].user => \A w \in RowsOf(u) :
           quantity'[w] = quantity[w] /\ basis'[w] = basis[w] /\ booked'[w] = booked[w]
  PROVE  /\ OneAtATime' /\ IdleSlotsAreEmpty'
         /\ \A x \in Requests : Busy(x)' => KnowsItsAccount(x)'
<1> USE RequestAssumption
<1>1. /\ pc'[r] = "idle" /\ job'[r] = NoJob
      /\ \A x \in Requests \ {r} :
           /\ pc'[x] = pc[x] /\ job'[x] = job[x] /\ cash'[x] = cash[x] /\ held'[x] = held[x]
           /\ fill'[x] = fill[x] /\ todo'[x] = todo[x] /\ wiped'[x] = wiped[x]
      /\ \A x \in Requests \ {r}, w \in Rows : rowLock'[w] = x <=> rowLock[w] = x
  BY DEF Finish, SessionCloses, Goto, ReleaseLocks, IInv, TypeOK
<1>2. Steps(r)
  BY <1>1 DEF Steps
<1>3. \A x \in Requests : Busy(x)' => KnowsItsAccount(x)'
  BY <1>1, <1>2, OthersUndisturbed DEF Busy
<1>4. OneAtATime' /\ IdleSlotsAreEmpty'
  BY <1>1 DEF SerialInv, OneAtATime, IdleSlotsAreEmpty, Busy
<1> QED
  BY <1>3, <1>4

(* A refused order, a failed one and the victim of a deadlock change nothing. *)
LEMMA RejectSerial ==
  ASSUME IInv, SerialInv, NEW r \in Requests, Busy(r), Reject(r)
  PROVE  SerialInv' /\ UNCHANGED db
<1>1. Finish(r) /\ UNCHANGED db
  BY DEF Reject
<1>2. /\ OneAtATime' /\ IdleSlotsAreEmpty'
      /\ \A x \in Requests : Busy(x)' => KnowsItsAccount(x)'
  BY <1>1, FinishSerial DEF db
<1>3. EmptyRowsCostNothing' /\ PositionsStayWithinLimit'
  BY <1>1 DEF SerialInv, EmptyRowsCostNothing, PositionsStayWithinLimit, db
<1> QED
  BY <1>1, <1>2, <1>3 DEF SerialInv

(* Whoever waits in a deadlock is busy. *)
LEMMA AbortSerial ==
  ASSUME IInv, SerialInv, NEW r \in Requests, DeadlockAbort(r)
  PROVE  SerialInv' /\ UNCHANGED db
<1>1. BlockedBy(r) # {} /\ Reject(r)
  BY DEF DeadlockAbort, Deadlocked
<1>2. Busy(r)
  BY <1>1 DEF BlockedBy, Busy
<1> QED
  BY <1>1, <1>2, RejectSerial

-----------------------------------------------------------------------------
(* Each statement of a reset claims the rows it has passed. *)
LEMMA ResetStatementSerial ==
  ASSUME IInv, SerialInv, NEW r \in Requests,
         DeletePositions(r) \/ DeleteRow(r) \/ SeeTrades(r) \/ DeleteTrades(r)
  PROVE  SerialInv' /\ UNCHANGED db
<1> USE RequestAssumption
<1>1. /\ pc[r] \in {"rsPositions", "rsLocks", "rsTrades"}
      /\ pc'[r] \in {"rsLocks", "rsTrades", "rsUser"}
      /\ UNCHANGED <<db, job, cash, fill, held>>
      /\ \A x \in Requests \ {r} : pc'[x] = pc[x] /\ todo'[x] = todo[x] /\ wiped'[x] = wiped[x]
  BY DEF DeletePositions, DeleteRow, SeeTrades, DeleteTrades, Goto, locks, IInv, TypeOK
<1>2. /\ Busy(r) /\ KnowsItsAccount(r) /\ RowsOf(job[r].user) \subseteq Rows
      /\ \A x \in Requests : Busy(x)' <=> Busy(x)
  BY <1>1, BusyTyped DEF Busy, SerialInv
<1>3. \A w \in Rows : \/ rowLock'[w] = rowLock[w]
                      \/ /\ DeleteRow(r) /\ w \in todo[r]
                         /\ rowLock'[w] = r /\ rowLock[w] \in {NoRequest, r}
  BY DEF DeletePositions, DeleteRow, SeeTrades, DeleteTrades, locks, RowFree, IInv, TypeOK
<1>4. Steps(r)
  BY <1>1, <1>3 DEF Steps, db
<1>5. CashIsCurrent(r)' /\ CheckedLimitHolds(r)' /\ ReadsAreCurrent(r)'
  BY <1>1, <1>2 DEF KnowsItsAccount, CashIsCurrent, CheckedLimitHolds, ReadsAreCurrent, db
<1>6. ASSUME DeletePositions(r)
      PROVE  LocksAreOwn(r)' /\ RowsAreClaimed(r)' /\ WipesAreCurrent(r)'
  <2>1. /\ todo'[r] = {w \in RowsOf(job[r].user) : RowExists(w)}
        /\ pc'[r] = "rsLocks" /\ UNCHANGED <<quantity, rowLock, job>>
    BY <1>6 DEF DeletePositions, Goto, db, locks, IInv, TypeOK
  <2> QED
    BY <1>2, <2>1 DEF KnowsItsAccount, LocksAreOwn, RowsAreClaimed, WipesAreCurrent, RowExists
<1>7. ASSUME DeleteRow(r)
      PROVE  LocksAreOwn(r)' /\ RowsAreClaimed(r)' /\ WipesAreCurrent(r)'
  <2>1. PICK w \in todo[r] :
          /\ pc[r] = "rsLocks" /\ pc'[r] = "rsLocks"
          /\ rowLock' = IF RowExists(w) THEN [rowLock EXCEPT ![w] = r] ELSE rowLock
          /\ todo'[r] = todo[r] \ {w}
          /\ UNCHANGED <<quantity, job>>
    BY <1>7 DEF DeleteRow, db, IInv, TypeOK
  <2>2. todo[r] \subseteq RowsOf(job[r].user)
    BY <1>2, <2>1 DEF KnowsItsAccount, LocksAreOwn
  <2>3. RowExists(w) => rowLock'[w] = r
    BY <1>2, <2>1, <2>2 DEF IInv, TypeOK
  <2>4. LocksAreOwn(r)'
    BY <1>2, <1>3, <2>1, <2>2 DEF KnowsItsAccount, LocksAreOwn, RowsOf
  <2>5. RowsAreClaimed(r)'
    BY <1>2, <1>3, <2>1, <2>3 DEF KnowsItsAccount, RowsAreClaimed, RowExists
  <2>6. WipesAreCurrent(r)'
    BY <2>1 DEF WipesAreCurrent
  <2> QED
    BY <2>4, <2>5, <2>6
<1>8. ASSUME SeeTrades(r) \/ DeleteTrades(r)
      PROVE  LocksAreOwn(r)' /\ RowsAreClaimed(r)' /\ WipesAreCurrent(r)'
  <2>1. CASE SeeTrades(r)
    <3>1. /\ pc[r] = "rsLocks" /\ pc'[r] = "rsTrades" /\ todo[r] = {}
          /\ wiped'[r] = [s \in Symbols |-> booked[<<job[r].user, s>>]]
          /\ UNCHANGED <<quantity, booked, rowLock, job>>
      BY <2>1 DEF SeeTrades, Goto, db, locks, IInv, TypeOK
    <3> QED
      BY <1>2, <3>1 DEF KnowsItsAccount, LocksAreOwn, RowsAreClaimed, WipesAreCurrent, RowExists
  <2>2. CASE DeleteTrades(r)
    <3>1. /\ pc[r] = "rsTrades" /\ pc'[r] = "rsUser"
          /\ UNCHANGED <<quantity, booked, rowLock, job, wiped>>
      BY <2>2 DEF DeleteTrades, Goto, db, locks, IInv, TypeOK
    <3> QED
      BY <1>2, <3>1 DEF KnowsItsAccount, LocksAreOwn, RowsAreClaimed, WipesAreCurrent, RowExists
  <2> QED
    BY <1>8, <2>1, <2>2
<1>9. LocksAreOwn(r)' /\ RowsAreClaimed(r)' /\ WipesAreCurrent(r)'
  BY <1>6, <1>7, <1>8
<1>10. \A x \in Requests : Busy(x)' => KnowsItsAccount(x)'
  BY <1>2, <1>4, <1>5, <1>9, OthersUndisturbed DEF KnowsItsAccount
<1>11. OneAtATime' /\ IdleSlotsAreEmpty' /\ EmptyRowsCostNothing' /\ PositionsStayWithinLimit'
  BY <1>1, <1>2 DEF SerialInv, OneAtATime, IdleSlotsAreEmpty, EmptyRowsCostNothing,
         PositionsStayWithinLimit, db
<1> QED
  BY <1>1, <1>10, <1>11 DEF SerialInv

-----------------------------------------------------------------------------
(* Selling all the shares takes out all they cost. *)
LEMMA WholeShare ==
  ASSUME NEW b \in Int, NEW q \in Int, q > 0
  PROVE  (b * q) \div q = b
  OBVIOUS

(* The commit of an order is the order. *)
LEMMA CommitTradeSerial ==
  ASSUME IInv, SerialInv, Serial, NEW r \in Requests, CommitTrade(r), ~Reject(r)
  PROVE  /\ SerialInv'
         /\ \E u \in Users, s \in Symbols, q \in Quantities \ {0}, p \in Prices \ {0} :
              Ledger!Buy(u, s, q, p) \/ Ledger!Sell(u, s, q, p)
<1> DEFINE u == job[r].user
           s == job[r].symbol
           q == job[r].qty
           p == fill[r]
<1>1. /\ pc[r] = "commit" /\ Finish(r)
      /\ balance' = [balance EXCEPT ![u] = NewBalance(r)]
      /\ quantity' = [quantity EXCEPT ![Row(r)] = NewQuantity(r)]
      /\ basis' = [basis EXCEPT ![Row(r)] = NewBasis(r)]
      /\ booked' = [booked EXCEPT ![Row(r)] = Plus(@, TradeRow(r))]
  BY DEF CommitTrade
<1>2. Busy(r) /\ pc[r] \in TradeSteps \ {"quote"}
  BY <1>1 DEF Busy, TradeSteps
<1>3. /\ KnowsItsAccount(r) /\ job[r] \in TradeJob
      /\ Row(r) \in RowsOf(u) /\ Row(r) \in Rows /\ Row(r) = <<u, s>>
      /\ u \in Users /\ s \in Symbols
  BY <1>2, BusyTyped DEF SerialInv, TradeJob, Row
<1>4. /\ q \in Quantities \ {0} /\ q \in Int /\ q > 0
      /\ p \in Prices \ {0} /\ p \in Int /\ p > 0
  BY <1>1, <1>2, <1>3, RowTyped DEF IInv, OrdersArePositive, OrdersAreCovered, TypeOK,
     KnowsItsAccount, ReadsAreCurrent, TradeJob
<1>5. /\ held[r].qty = quantity[Row(r)] /\ held[r].basis = basis[Row(r)]
      /\ cash[r] = balance[u]
  BY <1>1, <1>3 DEF KnowsItsAccount, ReadsAreCurrent, CashIsCurrent
<1>6. Buys(r) <=> job[r].action = "BUY"
  BY <1>3 DEF Serial, Buys, Upper, TradeJob
<1>7. /\ quantity[Row(r)] \in Int /\ basis[Row(r)] \in Int /\ balance[u] \in Int
      /\ booked[Row(r)] \in Booking
      /\ quantity[Row(r)] <= MaxPosition
  BY <1>3 DEF IInv, TypeOK, SerialInv, PositionsStayWithinLimit
<1>8. Value(r) = q * p /\ Value(r) \in Int
  BY <1>4 DEF Value
<1>9. ASSUME Buys(r)
      PROVE  /\ NewQuantity(r) <= MaxPosition
             /\ NewQuantity(r) = 0 => NewBasis(r) = 0
             /\ \E v \in Users, t \in Symbols, n \in Quantities \ {0}, c \in Prices \ {0} :
                  Ledger!Buy(v, t, n, c) \/ Ledger!Sell(v, t, n, c)
  <2>1. balance[u] >= q * p /\ quantity[Row(r)] + q <= MaxPosition
    BY <1>1, <1>3, <1>4, <1>5, <1>6, <1>9 DEF IInv, OrdersAreCovered, KnowsItsAccount,
       CheckedLimitHolds
  <2>2. /\ balance' = [balance EXCEPT ![u] = @ - q * p]
        /\ quantity' = [quantity EXCEPT ![Row(r)] = @ + q]
        /\ basis' = [basis EXCEPT ![Row(r)] = @ + q * p]
    BY <1>1, <1>5, <1>8, <1>9 DEF NewBalance, NewQuantity, NewBasis
  <2>3. Ledger!Book(u, s, q, -(q * p), 0)
    <3>1. TradeRow(r) = [net |-> q, flow |-> -(q * p), gain |-> 0, today |-> 0, count |-> 1]
      BY <1>8, <1>9 DEF TradeRow, RealizedPnl
    <3> QED
      BY <1>1, <1>3, <3>1 DEF Ledger!Book, Plus
  <2>4. Ledger!Buy(u, s, q, p)
    BY <1>3, <2>1, <2>2, <2>3 DEF Ledger!Buy
  <2>5. quantity[Row(r)] >= 0
    BY <1>3 DEF IInv, NeverOverdrawn
  <2>6. NewQuantity(r) <= MaxPosition /\ NewQuantity(r) > 0
    BY <1>4, <1>5, <1>7, <1>9, <2>1, <2>5, LimitAssumption DEF NewQuantity
  <2> QED
    BY <1>3, <1>4, <2>4, <2>5, <2>6
<1>10. ASSUME ~Buys(r)
      PROVE  /\ NewQuantity(r) <= MaxPosition
             /\ NewQuantity(r) = 0 => NewBasis(r) = 0
             /\ \E v \in Users, t \in Symbols, n \in Quantities \ {0}, c \in Prices \ {0} :
                  Ledger!Buy(v, t, n, c) \/ Ledger!Sell(v, t, n, c)
  <2>1. quantity[Row(r)] >= q
    BY <1>1, <1>5, <1>10 DEF IInv, OrdersAreCovered
  <2> DEFINE cost == (basis[Row(r)] * q) \div quantity[Row(r)]
  <2>2. cost \in Int /\ SoldBasis(r) = cost
    BY <1>4, <1>5, <1>7, <2>1 DEF SoldBasis
  <2>3. /\ balance' = [balance EXCEPT ![u] = @ + q * p]
        /\ quantity' = [quantity EXCEPT ![Row(r)] = @ - q]
        /\ basis' = [basis EXCEPT ![Row(r)] = @ - cost]
    BY <1>1, <1>5, <1>8, <1>10, <2>2 DEF NewBalance, NewQuantity, NewBasis
  <2>4. Ledger!Book(u, s, -q, q * p, q * p - cost)
    <3>1. TradeRow(r) = [net |-> -q, flow |-> q * p, gain |-> q * p - cost,
                         today |-> q * p - cost, count |-> 1]
      BY <1>8, <1>10, <2>2 DEF TradeRow, RealizedPnl
    <3> QED
      BY <1>1, <1>3, <3>1 DEF Ledger!Book, Plus
  <2>5. Ledger!Sell(u, s, q, p)
    BY <1>3, <2>1, <2>3, <2>4 DEF Ledger!Sell
  <2>6. NewQuantity(r) <= MaxPosition
    BY <1>4, <1>5, <1>7, <1>10, LimitAssumption DEF NewQuantity
  <2>7. NewQuantity(r) = 0 => NewBasis(r) = 0
    <3> SUFFICES ASSUME NewQuantity(r) = 0 PROVE NewBasis(r) = 0
      OBVIOUS
    <3>1. quantity[Row(r)] = q
      BY <1>4, <1>5, <1>7, <1>10 DEF NewQuantity
    <3>2. cost = basis[Row(r)]
      BY <3>1, <1>4, <1>7, WholeShare
    <3> QED
      BY <3>2, <1>5, <1>7, <1>10, <2>2 DEF NewBasis
  <2> QED
    BY <1>3, <1>4, <2>5, <2>6, <2>7
<1>11. /\ NewQuantity(r) <= MaxPosition
       /\ NewQuantity(r) = 0 => NewBasis(r) = 0
       /\ \E v \in Users, t \in Symbols, n \in Quantities \ {0}, c \in Prices \ {0} :
            Ledger!Buy(v, t, n, c) \/ Ledger!Sell(v, t, n, c)
  BY <1>9, <1>10
<1>12. EmptyRowsCostNothing' /\ PositionsStayWithinLimit'
  BY <1>1, <1>3, <1>11 DEF SerialInv, EmptyRowsCostNothing, PositionsStayWithinLimit, IInv,
     TypeOK
<1>13. /\ \A v \in Users : v # u => balance'[v] = balance[v]
       /\ \A v \in Users : v # u => \A w \in RowsOf(v) :
            quantity'[w] = quantity[w] /\ basis'[w] = basis[w] /\ booked'[w] = booked[w]
  <2>1. \A v \in Users : v # u => \A w \in RowsOf(v) : w # Row(r) /\ w \in Rows
    BY <1>3, RowsApart DEF RowsOf, Rows
  <2> QED
    BY <1>1, <1>3, <2>1 DEF IInv, TypeOK
<1>14. /\ OneAtATime' /\ IdleSlotsAreEmpty'
       /\ \A x \in Requests : Busy(x)' => KnowsItsAccount(x)'
  BY <1>1, <1>2, <1>13, FinishSerial
<1> QED
  BY <1>11, <1>12, <1>14 DEF SerialInv

(* The commit of a reset wipes the account, which is all it has read. *)
LEMMA CommitResetSerial ==
  ASSUME IInv, SerialInv, NEW r \in Requests, CommitReset(r)
  PROVE  /\ SerialInv'
         /\ job[r].user \in Users
         /\ balance'[job[r].user] = InitialBalance
         /\ \A w \in RowsOf(job[r].user) : quantity'[w] = 0 /\ booked'[w] = NoTrades
         /\ Ledger!Reset(job[r].user)
<1> USE RequestAssumption
<1> DEFINE u == job[r].user
<1>1. /\ pc[r] = "rsUser" /\ SessionCloses(r)
      /\ balance' = [balance EXCEPT ![u] = RestoredBalance(r)]
      /\ quantity' = [w \in Rows |-> IF rowLock[w] = r THEN 0 ELSE quantity[w]]
      /\ basis' = [w \in Rows |-> IF rowLock[w] = r THEN 0 ELSE basis[w]]
      /\ booked' = [w \in Rows |-> IF w[1] = u THEN Minus(booked[w], wiped[r][w[2]])
                                               ELSE booked[w]]
  BY DEF CommitReset
<1>2. /\ Busy(r) /\ KnowsItsAccount(r)
      /\ u \in Users /\ RowsOf(u) \subseteq Rows
  BY <1>1, BusyTyped DEF Busy, SerialInv
<1>alone. Finish(r)  \* no other reset of this user is waiting
  <2>1. \A x \in Requests \ {r} : ~(pc[x] = "rsTrades" /\ job[x].user = u)
    BY <1>2 DEF SerialInv, OneAtATime, Busy
  <2>2. wiped' = [x \in Requests |-> IF x = r THEN NoneWiped ELSE wiped[x]]
    BY <2>1 DEF CommitReset
  <2> QED
    BY <1>1, <2>2 DEF Finish, IInv, TypeOK
<1>3. RestoredBalance(r) = InitialBalance
  BY <1>2 DEF KnowsItsAccount, CashIsCurrent, RestoredBalance, UpdatesUser
<1>4. \A w \in Rows : w[1] = u <=> w \in RowsOf(u)
  BY <1>2 DEF Rows, RowsOf
<1>5. ASSUME NEW w \in Rows
      PROVE  /\ quantity'[w] = IF w[1] = u THEN 0 ELSE quantity[w]
             /\ basis'[w] = IF w[1] = u THEN 0 ELSE basis[w]
  <2>1. CASE rowLock[w] = r
    BY <1>1, <1>2, <2>1 DEF KnowsItsAccount, LocksAreOwn
  <2>2. CASE rowLock[w] # r
    <3>1. w[1] = u => ~RowExists(w)
      BY <1>1, <1>2, <1>4, <2>2 DEF KnowsItsAccount, RowsAreClaimed
    <3>2. w[1] = u => quantity[w] = 0 /\ basis[w] = 0
      BY <3>1 DEF RowExists, IInv, TypeOK, NeverOverdrawn, SerialInv, EmptyRowsCostNothing
    <3> QED
      BY <1>1, <2>2, <3>2
  <2> QED
    BY <2>1, <2>2
<1>6. ASSUME NEW w \in Rows
      PROVE  booked'[w] = IF w[1] = u THEN NoTrades ELSE booked[w]
  <2>1. w[2] \in Symbols /\ w = <<w[1], w[2]>> /\ booked[w] \in Booking
    BY DEF Rows, IInv, TypeOK
  <2>2. w[1] = u => wiped[r][w[2]] = booked[w]
    BY <1>1, <1>2, <2>1 DEF KnowsItsAccount, WipesAreCurrent
  <2>3. Minus(booked[w], booked[w]) = NoTrades
    BY <2>1 DEF Minus, NoTrades, Booking
  <2> QED
    BY <1>1, <2>2, <2>3
<1>7. Ledger!Reset(u)
  <2>1. balance' = [balance EXCEPT ![u] = InitialBalance]
    BY <1>1, <1>3
  <2>2. quantity' = [w \in Rows |-> IF w[1] = u THEN 0 ELSE quantity[w]]
    BY <1>1, <1>5
  <2>3. basis' = [w \in Rows |-> IF w[1] = u THEN 0 ELSE basis[w]]
    BY <1>1, <1>5
  <2>4. booked' = [w \in Rows |-> IF w[1] = u THEN NoTrades ELSE booked[w]]
    BY <1>1, <1>6
  <2> QED
    BY <2>1, <2>2, <2>3, <2>4 DEF Ledger!Reset, Ledger!Nothing, Rows, NoTrades
<1>8. /\ balance'[u] = InitialBalance
      /\ \A w \in RowsOf(u) : quantity'[w] = 0 /\ booked'[w] = NoTrades
  BY <1>1, <1>2, <1>3, <1>4, <1>5, <1>6 DEF IInv, TypeOK
<1>9. EmptyRowsCostNothing' /\ PositionsStayWithinLimit'
  BY <1>5, LimitAssumption DEF SerialInv, EmptyRowsCostNothing, PositionsStayWithinLimit
<1>10. /\ OneAtATime' /\ IdleSlotsAreEmpty'
       /\ \A x \in Requests : Busy(x)' => KnowsItsAccount(x)'
  <2>1. \A v \in Users : v # u => balance'[v] = balance[v]
    BY <1>1 DEF IInv, TypeOK
  <2>2. \A v \in Users : v # u => \A w \in RowsOf(v) :
          quantity'[w] = quantity[w] /\ basis'[w] = basis[w] /\ booked'[w] = booked[w]
    BY <1>5, <1>6 DEF Rows, RowsOf
  <2> QED
    BY <1>alone, <1>2, <2>1, <2>2, FinishSerial
<1> QED
  BY <1>2, <1>7, <1>8, <1>9, <1>10 DEF SerialInv

-----------------------------------------------------------------------------
(* A price moves no account. *)
LEMMA PriceTickSerial ==
  ASSUME IInv, SerialInv, PriceTick
  PROVE  SerialInv' /\ UNCHANGED db
BY DEF PriceTick, db, locks, scratch, SerialInv, OneAtATime, IdleSlotsAreEmpty,
   EmptyRowsCostNothing, PositionsStayWithinLimit, KnowsItsAccount, CashIsCurrent,
   CheckedLimitHolds, ReadsAreCurrent, LocksAreOwn, RowsAreClaimed, WipesAreCurrent,
   Busy, Row, RowExists

(* At midnight the account and what a reset has read of it forget the same. *)
LEMMA MidnightSerial ==
  ASSUME IInv, SerialInv, Midnight
  PROVE  SerialInv' /\ Ledger!NewDay
<1>1. /\ booked' = [w \in Rows |-> Forget(booked[w])]
      /\ wiped' = [x \in Requests |-> [s \in Symbols |-> Forget(wiped[x][s])]]
      /\ UNCHANGED <<balance, quantity, basis, rowLock, pc, job, cash, fill, held, todo>>
  BY DEF Midnight, locks
<1>2. Ledger!NewDay
  BY <1>1 DEF Ledger!NewDay, Rows, Forget
<1>3. ASSUME NEW x \in Requests, Busy(x)
      PROVE  WipesAreCurrent(x)'
  <2> SUFFICES ASSUME pc[x] \in {"rsTrades", "rsUser"}
               PROVE  wiped'[x] = [s \in Symbols |-> booked'[<<job[x].user, s>>]]
    BY <1>1 DEF WipesAreCurrent
  <2>1. job[x].user \in Users
    BY <1>3, BusyTyped
  <2>2. wiped[x] = [s \in Symbols |-> booked[<<job[x].user, s>>]]
    BY <1>3 DEF SerialInv, KnowsItsAccount, WipesAreCurrent
  <2>3. \A s \in Symbols : Forget(wiped[x][s]) = booked'[<<job[x].user, s>>]
    BY <1>1, <2>1, <2>2 DEF Rows
  <2> QED
    BY <1>1, <2>3
<1>4. ASSUME NEW x \in Requests, Busy(x)
      PROVE  /\ CashIsCurrent(x)' /\ CheckedLimitHolds(x)' /\ ReadsAreCurrent(x)'
             /\ LocksAreOwn(x)' /\ RowsAreClaimed(x)'
  BY <1>1, <1>4 DEF SerialInv, KnowsItsAccount, CashIsCurrent, CheckedLimitHolds,
     ReadsAreCurrent, LocksAreOwn, RowsAreClaimed, Row, RowExists
<1>5. OneAtATime' /\ IdleSlotsAreEmpty' /\ EmptyRowsCostNothing' /\ PositionsStayWithinLimit'
  BY <1>1 DEF SerialInv, OneAtATime, IdleSlotsAreEmpty, Busy, EmptyRowsCostNothing,
     PositionsStayWithinLimit
<1>6. \A x \in Requests : Busy(x)' => Busy(x)
  BY <1>1 DEF Busy
<1> QED
  BY <1>2, <1>3, <1>4, <1>5, <1>6 DEF SerialInv, KnowsItsAccount

-----------------------------------------------------------------------------
LEMMA InitSerial == Init => SerialInv /\ Ledger!Init
<1> SUFFICES ASSUME Init PROVE SerialInv /\ Ledger!Init
  OBVIOUS
<1>1. Ledger!Init
  BY DEF Init, Ledger!Init, Ledger!Nothing, NoTrades, Rows
<1>2. \A x \in Requests : ~Busy(x)
  BY DEF Init, Busy
<1>3. SerialInv
  BY <1>2, LimitAssumption DEF Init, SerialInv, OneAtATime, IdleSlotsAreEmpty,
     EmptyRowsCostNothing, PositionsStayWithinLimit
<1> QED
  BY <1>1, <1>3

(* Every step of the program is a step of the ledger or changes no account, *)
(* and leaves what the requests know true.                                  *)
LEMMA NextSerial ==
  ASSUME IInv, SerialInv, Serial, [Next]_vars
  PROVE  SerialInv' /\ [Ledger!Next]_(Ledger!ledger)
<1>1. SUFFICES (SerialInv' /\ UNCHANGED db) \/ (SerialInv' /\ Ledger!Next)
  BY DEF db, Ledger!ledger
<1>2. ASSUME NEW r \in Requests, Handle(r)
      PROVE  (SerialInv' /\ UNCHANGED db) \/ (SerialInv' /\ Ledger!Next)
  <2>1. Busy(r)
    BY <1>2 DEF Handle, Quote, CheckDailyLoss, LockPosition, CheckExposure, LockUser, Execute,
       CommitTrade, DeletePositions, DeleteRow, SeeTrades, DeleteTrades, CommitReset, Busy
  <2>2. CASE Reject(r)
    BY <2>1, <2>2, RejectSerial
  <2>3. CASE CommitTrade(r) /\ ~Reject(r)
    BY <2>3, CommitTradeSerial DEF Ledger!Next
  <2>4. CASE CommitReset(r)
    BY <2>4, CommitResetSerial DEF Ledger!Next
  <2> QED
    BY <1>2, <2>2, <2>3, <2>4, OrderStep, ResetStatementSerial DEF Handle
<1>3. ASSUME NEW r \in Requests, Authenticate(r) \/ DeadlockAbort(r)
      PROVE  SerialInv' /\ UNCHANGED db
  BY <1>3, AuthenticateSerial, AbortSerial
<1>4. CASE PriceTick
  BY <1>4, PriceTickSerial
<1>5. CASE Midnight
  BY <1>5, MidnightSerial DEF Ledger!Next
<1>6. CASE UNCHANGED vars
  <2>1. SerialInv'
    BY <1>6 DEF vars, db, locks, scratch, SerialInv, OneAtATime, IdleSlotsAreEmpty,
       EmptyRowsCostNothing, PositionsStayWithinLimit, KnowsItsAccount, CashIsCurrent,
       CheckedLimitHolds, ReadsAreCurrent, LocksAreOwn, RowsAreClaimed, WipesAreCurrent,
       Busy, Row, RowExists
  <2> QED
    BY <1>6, <2>1 DEF vars
<1> QED
  BY <1>2, <1>3, <1>4, <1>5, <1>6 DEF Next

(* What a request of a serial client remembers of the account is the       *)
(* account, at every step of the order and of the reset.                   *)
THEOREM SerialInvariant == Serial => (Spec => []SerialInv)
<1> SUFFICES ASSUME Serial PROVE Spec => []SerialInv
  OBVIOUS
<1>1. Init => SerialInv
  BY InitSerial
<1>2. IInv /\ SerialInv /\ [Next]_vars => SerialInv'
  BY NextSerial
<1> QED
  BY <1>1, <1>2, InductiveInvariant, PTL DEF Spec

(* A client that sends one request at a time never owns more of a symbol   *)
(* than MAX_POSITION_PER_STOCK (risk_engine.py:50-52), though the first    *)
(* BUY of a symbol is checked with nothing locked.                         *)
THEOREM PositionsWithinLimit == Serial => (Spec => []PositionsStayWithinLimit)
<1>1. SerialInv => PositionsStayWithinLimit
  BY DEF SerialInv
<1> QED
  BY <1>1, SerialInvariant, PTL

(* For such a client a reset leaves the starting balance, no positions and *)
(* no trades (routes.py:104-108).                                          *)
THEOREM ResetsLeaveCleanSlate == Serial => (Spec => ResetLeavesCleanSlate)
<1> SUFFICES ASSUME Serial PROVE Spec => ResetLeavesCleanSlate
  OBVIOUS
<1>1. IInv /\ SerialInv /\ [Next]_vars =>
        [\A r \in Requests : CommitReset(r) =>
           LET u == job[r].user
           IN /\ balance'[u] = InitialBalance
              /\ \A w \in RowsOf(u) : quantity'[w] = 0 /\ booked'[w] = NoTrades]_vars
  BY CommitResetSerial
<1> QED
  BY <1>1, SerialInvariant, InductiveInvariant, PTL DEF Spec, ResetLeavesCleanSlate

(* For such a client the handlers, locks, sessions and rejected requests   *)
(* of the trading path amount to orders and resets that happen each at one *)
(* instant.                                                                *)
THEOREM PaperTradingImplementsLedger == Serial => (Spec => ImplementsLedger)
<1> SUFFICES ASSUME Serial PROVE Spec => ImplementsLedger
  OBVIOUS
<1>1. Init => Ledger!Init
  BY InitSerial
<1>2. IInv /\ SerialInv /\ [Next]_vars => [Ledger!Next]_(Ledger!ledger)
  BY NextSerial
<1> QED
  BY <1>1, <1>2, SerialInvariant, InductiveInvariant, PTL DEF Spec, ImplementsLedger, Ledger!Spec

-----------------------------------------------------------------------------
(* Sums over the symbols.  MapThenSumSet is recursive on the subsets of    *)
(* its set: it is shown to have a solution and to move with its terms, by  *)
(* the least cardinality at which that could fail.                         *)

(* A tally of v over the subsets of S: what MapThenSumSet computes.        *)
Pick(s) == CHOOSE x \in s : TRUE
IsTally(F, v, S) ==
  F = [s \in SUBSET S |-> IF s = {} THEN 0 ELSE v[Pick(s)] + F[s \ {Pick(s)}]]

(* Every set of naturals has a least one.                                  *)
LEMMA LeastNumber ==
  ASSUME NEW T \in SUBSET Nat, T # {}
  PROVE  \E n \in T : \A m \in T : n <= m
<1> DEFINE Less == {ss \in Nat \X Nat : ss[1] < ss[2]}
<1>1. IsWellFoundedOn(Less, Nat)
  BY NatLessThanWellFounded, Zenon DEF OpToRel
<1>2. PICK n \in T : \A m \in T : <<m, n>> \notin Less
  <2> HIDE DEF Less
  <2> QED
    BY <1>1, WFMin
<1>3. ASSUME NEW m \in T
      PROVE  n <= m
  <2>1. <<m, n>> \in Nat \X Nat /\ ~(<<m, n>>[1] < <<m, n>>[2])
    BY <1>2
  <2> QED
    BY <2>1
<1> QED
  BY <1>3

(* What is picked from a set is in it.                                     *)
LEMMA PickIn ==
  ASSUME NEW s, s # {}
  PROVE  Pick(s) \in s
  BY DEF Pick

(* A set has one element more than without the one that is picked.         *)
LEMMA PickCounts ==
  ASSUME NEW S, IsFiniteSet(S), NEW s \in SUBSET S
  PROVE  /\ Cardinality(s) \in Nat
         /\ s = {} <=> Cardinality(s) = 0
         /\ s # {} => /\ Pick(s) \in s
                      /\ Cardinality(s \ {Pick(s)}) = Cardinality(s) - 1
<1>1. IsFiniteSet(s)
  BY FS_Subset
<1> QED
  BY <1>1, PickIn, FS_CardinalityType, FS_EmptySet, FS_RemoveElement

(* A tally of the subsets of S of at most n elements.                      *)
Small(S, n) == {s \in SUBSET S : Cardinality(s) <= n}
IsSmallTally(F, v, S, n) ==
  F = [s \in Small(S, n) |-> IF s = {} THEN 0 ELSE v[Pick(s)] + F[s \ {Pick(s)}]]

(* It is built up one cardinality after the other.                         *)
LEMMA SmallTallyGrows ==
  ASSUME NEW S, IsFiniteSet(S), NEW v, NEW n \in Nat, NEW G, IsSmallTally(G, v, S, n)
  PROVE  \E F : IsSmallTally(F, v, S, n + 1)
<1>1. ASSUME NEW s \in Small(S, n + 1), s # {}
      PROVE  s \ {Pick(s)} \in Small(S, n)
  BY <1>1, PickCounts DEF Small
<1>2. \A s \in Small(S, n) : s \in Small(S, n + 1)
  <2> SUFFICES ASSUME NEW s \in Small(S, n) PROVE s \in Small(S, n + 1)
    OBVIOUS
  <2>1. s \in SUBSET S /\ Cardinality(s) <= n /\ Cardinality(s) \in Nat
    BY PickCounts DEF Small
  <2> QED
    BY <2>1 DEF Small
<1>3. \A s \in Small(S, n) : G[s] = IF s = {} THEN 0 ELSE v[Pick(s)] + G[s \ {Pick(s)}]
  BY DEF IsSmallTally
<1> DEFINE F == [s \in Small(S, n + 1) |->
                   IF s = {} THEN 0 ELSE v[Pick(s)] + G[s \ {Pick(s)}]]
<1>4. \A s \in Small(S, n) : F[s] = G[s]
  BY <1>2, <1>3
<1>5. \A s \in Small(S, n + 1) : s # {} => F[s \ {Pick(s)}] = G[s \ {Pick(s)}]
  BY <1>1, <1>4
<1>6. F = [s \in Small(S, n + 1) |-> IF s = {} THEN 0 ELSE v[Pick(s)] + F[s \ {Pick(s)}]]
  BY <1>5
<1> QED
  BY <1>6 DEF IsSmallTally

(* Every function has a tally over a finite set.                           *)
LEMMA TallyExists ==
  ASSUME NEW S, IsFiniteSet(S), NEW v
  PROVE  \E F : IsTally(F, v, S)
<1> DEFINE Missing == {n \in Nat : ~ \E F : IsSmallTally(F, v, S, n)}
<1>1. Missing = {}
  <2> SUFFICES ASSUME Missing # {} PROVE FALSE
    OBVIOUS
  <2>1. PICK n \in Missing : \A m \in Missing : n <= m
    <3>1. Missing \in SUBSET Nat
      OBVIOUS
    <3> HIDE DEF Missing
    <3> QED
      BY <3>1, LeastNumber
  <2>2. n # 0
    <3>1. \A s \in Small(S, 0) : s = {}
      <4> SUFFICES ASSUME NEW s \in Small(S, 0) PROVE s = {}
        OBVIOUS
      <4>1. s \in SUBSET S /\ Cardinality(s) <= 0 /\ Cardinality(s) \in Nat
        BY PickCounts DEF Small
      <4> QED
        BY <4>1, Cardinality(s) = 0, PickCounts
    <3>2. IsSmallTally([s \in Small(S, 0) |-> 0], v, S, 0)
      BY <3>1 DEF IsSmallTally
    <3>3. 0 \notin Missing
      BY <3>2
    <3> QED
      BY <2>1, <3>3
  <2>3. n - 1 \in Nat /\ n - 1 \notin Missing
    <3>1. n \in Nat
      OBVIOUS
    <3> HIDE DEF Missing
    <3> QED
      BY <2>1, <2>2, <3>1
  <2>4. PICK G : IsSmallTally(G, v, S, n - 1)
    BY <2>3
  <2>5. \E F : IsSmallTally(F, v, S, (n - 1) + 1)
    BY <2>3, <2>4, SmallTallyGrows
  <2>6. (n - 1) + 1 = n
    BY <2>3
  <2> QED
    BY <2>5, <2>6
<1>2. PICK F : IsSmallTally(F, v, S, Cardinality(S))
  BY <1>1, FS_CardinalityType
<1>3. Small(S, Cardinality(S)) = SUBSET S
  BY FS_Subset DEF Small
<1> QED
  BY <1>2, <1>3 DEF IsTally, IsSmallTally

(* Values that differ at one element by d have totals that differ by d.    *)
LEMMA TallyMoves ==
  ASSUME NEW S, IsFiniteSet(S), NEW v, NEW w, NEW F, NEW G,
         \A x \in S : v[x] \in Int, IsTally(F, v, S), IsTally(G, w, S),
         NEW t, NEW d \in Int,
         \A x \in S : w[x] = v[x] + (IF x = t THEN d ELSE 0)
  PROVE  F[S] \in Int /\ G[S] = F[S] + (IF t \in S THEN d ELSE 0)
<1> DEFINE Apart(s) == F[s] \in Int /\ G[s] = F[s] + (IF t \in s THEN d ELSE 0)
           Wrong == {n \in Nat : \E s \in SUBSET S : Cardinality(s) = n /\ ~Apart(s)}
<1>1. Wrong = {}
  <2> SUFFICES ASSUME Wrong # {} PROVE FALSE
    OBVIOUS
  <2>1. PICK n \in Wrong : \A m \in Wrong : n <= m
    <3> HIDE DEF Wrong
    <3> Wrong \in SUBSET Nat
      BY DEF Wrong
    <3> QED
      BY LeastNumber
  <2>2. PICK s \in SUBSET S : Cardinality(s) = n /\ ~Apart(s)
    BY <2>1
  <2>3. s # {}
    BY <2>2 DEF IsTally
  <2> DEFINE x == Pick(s)
             r == s \ {Pick(s)}
  <2>4. x \in s /\ r \in SUBSET S /\ Cardinality(r) = n - 1 /\ n - 1 \in Nat
    BY <2>2, <2>3, PickCounts
  <2>5. Apart(r)
    BY <2>1, <2>4
  <2>6. F[s] = v[x] + F[r] /\ G[s] = w[x] + G[r]
    BY <2>3 DEF IsTally
  <2>7. Apart(s)
    BY <2>4, <2>5, <2>6
  <2> QED
    BY <2>2, <2>7
<1>2. Apart(S)
  BY <1>1, FS_CardinalityType
<1> QED
  BY <1>2

(* Zeros add up to zero.                                                   *)
LEMMA TallyOfZeros ==
  ASSUME NEW S, IsFiniteSet(S), NEW v, NEW F, \A x \in S : v[x] = 0, IsTally(F, v, S)
  PROVE  F[S] = 0
<1> DEFINE Wrong == {n \in Nat : \E s \in SUBSET S : Cardinality(s) = n /\ F[s] # 0}
<1>1. Wrong = {}
  <2> SUFFICES ASSUME Wrong # {} PROVE FALSE
    OBVIOUS
  <2>1. PICK n \in Wrong : \A m \in Wrong : n <= m
    <3> HIDE DEF Wrong
    <3> Wrong \in SUBSET Nat
      BY DEF Wrong
    <3> QED
      BY LeastNumber
  <2>2. PICK s \in SUBSET S : Cardinality(s) = n /\ F[s] # 0
    BY <2>1
  <2>3. s # {}
    BY <2>2 DEF IsTally
  <2>4. Pick(s) \in s /\ s \ {Pick(s)} \in SUBSET S
        /\ Cardinality(s \ {Pick(s)}) = n - 1 /\ n - 1 \in Nat
    BY <2>2, <2>3, PickCounts
  <2>5. F[s \ {Pick(s)}] = 0
    BY <2>1, <2>4
  <2>6. F[s] = v[Pick(s)] + F[s \ {Pick(s)}]
    BY <2>3 DEF IsTally
  <2> QED
    BY <2>2, <2>4, <2>5, <2>6
<1> QED
  BY <1>1, FS_CardinalityType

(* The cash flow of an account is a tally. *)
LEMMA CashFlowTally ==
  ASSUME IsFiniteSet(Symbols), NEW b, NEW u
  PROVE  \E F : /\ IsTally(F, [s \in Symbols |-> b[<<u, s>>].flow], Symbols)
                /\ CashFlow(b, u) = F[Symbols]
<1> DEFINE Tallies(F) ==
      F = [s \in SUBSET Symbols |->
             IF s = {} THEN 0
             ELSE b[<<u, CHOOSE x \in s : TRUE>>].flow + F[s \ {CHOOSE x \in s : TRUE}]]
<1>1. CashFlow(b, u) = (CHOOSE F : Tallies(F))[Symbols]
  BY Zenon DEF CashFlow, MapThenSumSet, MapThenFoldSet
<1>2. PICK F : IsTally(F, [s \in Symbols |-> b[<<u, s>>].flow], Symbols)
  BY TallyExists
<1>3. ASSUME NEW G
      PROVE  Tallies(G) <=> IsTally(G, [s \in Symbols |-> b[<<u, s>>].flow], Symbols)
  BY PickIn DEF IsTally, Pick
<1>4. Tallies(CHOOSE G : Tallies(G))
  <2>1. Tallies(F)
    BY <1>2, <1>3
  <2> HIDE DEF Tallies
  <2> QED
    BY <2>1, Zenon
<1> QED
  BY <1>1, <1>3, <1>4

(* The bookings of u in c are those in b, but for d more of symbol t.      *)
FlowMoves(b, c, u, t, d) ==
  \A s \in Symbols : /\ b[<<u, s>>].flow \in Int
                     /\ c[<<u, s>>].flow = b[<<u, s>>].flow + (IF s = t THEN d ELSE 0)

(* When the bookings of one symbol move by d, so does its cash flow. *)
LEMMA CashFlowMoves ==
  ASSUME IsFiniteSet(Symbols), NEW b, NEW c, NEW u, NEW t \in Symbols, NEW d \in Int,
         FlowMoves(b, c, u, t, d)
  PROVE  /\ CashFlow(b, u) \in Int
         /\ CashFlow(c, u) = CashFlow(b, u) + d
<1> DEFINE v == [s \in Symbols |-> b[<<u, s>>].flow]
           w == [s \in Symbols |-> c[<<u, s>>].flow]
<1>1. PICK F : IsTally(F, v, Symbols) /\ CashFlow(b, u) = F[Symbols]
  BY CashFlowTally
<1>2. PICK G : IsTally(G, w, Symbols) /\ CashFlow(c, u) = G[Symbols]
  BY CashFlowTally
<1>3. \A s \in Symbols : v[s] \in Int /\ w[s] = v[s] + (IF s = t THEN d ELSE 0)
  BY DEF FlowMoves
<1> HIDE DEF v, w
<1> QED
  BY <1>1, <1>2, <1>3, TallyMoves

(* An account without trades has its cash flow zero. *)
LEMMA CashFlowOfNone ==
  ASSUME IsFiniteSet(Symbols), NEW b, NEW u, \A s \in Symbols : b[<<u, s>>].flow = 0
  PROVE  CashFlow(b, u) = 0
<1> DEFINE v == [s \in Symbols |-> b[<<u, s>>].flow]
<1>1. PICK F : IsTally(F, v, Symbols) /\ CashFlow(b, u) = F[Symbols]
  BY CashFlowTally
<1>2. \A s \in Symbols : v[s] = 0
  OBVIOUS
<1> HIDE DEF v
<1> QED
  BY <1>1, <1>2, TallyOfZeros

(* The same bookings have the same sum. *)
LEMMA CashFlowStays ==
  ASSUME IsFiniteSet(Symbols), NEW b, NEW c, NEW u,
         \A s \in Symbols : b[<<u, s>>].flow \in Int /\ c[<<u, s>>].flow = b[<<u, s>>].flow
  PROVE  CashFlow(b, u) \in Int /\ CashFlow(c, u) = CashFlow(b, u)
<1>1. CASE Symbols = {}
  BY <1>1, CashFlowOfNone
<1>2. ASSUME NEW t \in Symbols, NEW d \in Int, d = 0
      PROVE  CashFlow(b, u) \in Int /\ CashFlow(c, u) = CashFlow(b, u)
  <2>1. FlowMoves(b, c, u, t, d)
    BY <1>2 DEF FlowMoves
  <2>2. CashFlow(b, u) \in Int /\ CashFlow(c, u) = CashFlow(b, u) + d
    BY <2>1, CashFlowMoves
  <2> QED
    BY <1>2, <2>2
<1> QED
  BY <1>1, <1>2

(* The profit of the day, of a given table of trades. *)
TodaysPnl(b, u) == MapThenSumSet(LAMBDA s : b[<<u, s>>].today, Symbols)

(* The profit of the day is a tally. *)
LEMMA TodaysPnlTally ==
  ASSUME IsFiniteSet(Symbols), NEW b, NEW u
  PROVE  \E F : /\ IsTally(F, [s \in Symbols |-> b[<<u, s>>].today], Symbols)
                /\ TodaysPnl(b, u) = F[Symbols]
<1> DEFINE Tallies(F) ==
      F = [s \in SUBSET Symbols |->
             IF s = {} THEN 0
             ELSE b[<<u, CHOOSE x \in s : TRUE>>].today + F[s \ {CHOOSE x \in s : TRUE}]]
<1>1. TodaysPnl(b, u) = (CHOOSE F : Tallies(F))[Symbols]
  BY Zenon DEF TodaysPnl, MapThenSumSet, MapThenFoldSet
<1>2. PICK F : IsTally(F, [s \in Symbols |-> b[<<u, s>>].today], Symbols)
  BY TallyExists
<1>3. ASSUME NEW G
      PROVE  Tallies(G) <=> IsTally(G, [s \in Symbols |-> b[<<u, s>>].today], Symbols)
  BY PickIn DEF IsTally, Pick
<1>4. Tallies(CHOOSE G : Tallies(G))
  <2>1. Tallies(F)
    BY <1>2, <1>3
  <2> HIDE DEF Tallies
  <2> QED
    BY <2>1, Zenon
<1> QED
  BY <1>1, <1>3, <1>4

(* The bookings of u in c are those in b, but for d more of symbol t.      *)
TodayMoves(b, c, u, t, d) ==
  \A s \in Symbols : /\ b[<<u, s>>].today \in Int
                     /\ c[<<u, s>>].today = b[<<u, s>>].today + (IF s = t THEN d ELSE 0)

(* When the bookings of one symbol move by d, so does the day's profit. *)
LEMMA TodaysPnlMoves ==
  ASSUME IsFiniteSet(Symbols), NEW b, NEW c, NEW u, NEW t \in Symbols, NEW d \in Int,
         TodayMoves(b, c, u, t, d)
  PROVE  /\ TodaysPnl(b, u) \in Int
         /\ TodaysPnl(c, u) = TodaysPnl(b, u) + d
<1> DEFINE v == [s \in Symbols |-> b[<<u, s>>].today]
           w == [s \in Symbols |-> c[<<u, s>>].today]
<1>1. PICK F : IsTally(F, v, Symbols) /\ TodaysPnl(b, u) = F[Symbols]
  BY TodaysPnlTally
<1>2. PICK G : IsTally(G, w, Symbols) /\ TodaysPnl(c, u) = G[Symbols]
  BY TodaysPnlTally
<1>3. \A s \in Symbols : v[s] \in Int /\ w[s] = v[s] + (IF s = t THEN d ELSE 0)
  BY DEF TodayMoves
<1> HIDE DEF v, w
<1> QED
  BY <1>1, <1>2, <1>3, TallyMoves

(* An account without trades has the day's profit zero. *)
LEMMA TodaysPnlOfNone ==
  ASSUME IsFiniteSet(Symbols), NEW b, NEW u, \A s \in Symbols : b[<<u, s>>].today = 0
  PROVE  TodaysPnl(b, u) = 0
<1> DEFINE v == [s \in Symbols |-> b[<<u, s>>].today]
<1>1. PICK F : IsTally(F, v, Symbols) /\ TodaysPnl(b, u) = F[Symbols]
  BY TodaysPnlTally
<1>2. \A s \in Symbols : v[s] = 0
  OBVIOUS
<1> HIDE DEF v
<1> QED
  BY <1>1, <1>2, TallyOfZeros

(* The same bookings have the same sum. *)
LEMMA TodaysPnlStays ==
  ASSUME IsFiniteSet(Symbols), NEW b, NEW c, NEW u,
         \A s \in Symbols : b[<<u, s>>].today \in Int /\ c[<<u, s>>].today = b[<<u, s>>].today
  PROVE  TodaysPnl(b, u) \in Int /\ TodaysPnl(c, u) = TodaysPnl(b, u)
<1>1. CASE Symbols = {}
  BY <1>1, TodaysPnlOfNone
<1>2. ASSUME NEW t \in Symbols, NEW d \in Int, d = 0
      PROVE  TodaysPnl(b, u) \in Int /\ TodaysPnl(c, u) = TodaysPnl(b, u)
  <2>1. TodayMoves(b, c, u, t, d)
    BY <1>2 DEF TodayMoves
  <2>2. TodaysPnl(b, u) \in Int /\ TodaysPnl(c, u) = TodaysPnl(b, u) + d
    BY <2>1, TodaysPnlMoves
  <2> QED
    BY <1>2, <2>2
<1> QED
  BY <1>1, <1>2

-----------------------------------------------------------------------------
(* An order moves the balance by what it books; a reset wipes both.        *)
LEMMA LedgerConservesCash ==
  ASSUME IsFiniteSet(Symbols), TypeOK, TypeOK', CashIsConserved, [Ledger!Next]_(Ledger!ledger)
  PROVE  CashIsConserved'
<1> SUFFICES ASSUME NEW v \in Users
             PROVE  balance'[v] = InitialBalance + CashFlow(booked', v)
  BY DEF CashIsConserved
<1>1. /\ \A s \in Symbols : <<v, s>> \in Rows /\ booked[<<v, s>>].flow \in Int
      /\ balance[v] = InitialBalance + CashFlow(booked, v)
      /\ balance[v] \in Int /\ InitialBalance \in Int
  BY BalanceAssumption DEF CashIsConserved, TypeOK, Booking, Rows
<1>2. ASSUME NEW u \in Users, NEW s \in Symbols, NEW d \in Int,
             balance' = [balance EXCEPT ![u] = @ + d],
             NEW m, NEW n, NEW o,
             Ledger!Book(u, s, m, d, n)
      PROVE  balance'[v] = InitialBalance + CashFlow(booked', v)
  <2> DEFINE e == IF u = v THEN d ELSE 0
  <2>1. e \in Int /\ balance'[v] = balance[v] + e
    BY <1>1, <1>2 DEF TypeOK
  <2>2. ASSUME NEW t \in Symbols
        PROVE  booked'[<<v, t>>].flow = booked[<<v, t>>].flow + (IF t = s THEN e ELSE 0)
    <3>1. CASE u = v /\ t = s
      BY <1>1, <1>2, <3>1 DEF Ledger!Book, TypeOK
    <3>2. CASE ~(u = v /\ t = s)
      BY <1>1, <1>2, <3>2 DEF Ledger!Book, TypeOK
    <3> QED
      BY <3>1, <3>2
  <2> HIDE DEF e
  <2>3. /\ CashFlow(booked, v) \in Int
        /\ CashFlow(booked', v) = CashFlow(booked, v) + e
    <3>1. FlowMoves(booked, booked', v, s, e)
      BY <1>1, <2>2 DEF FlowMoves
    <3> QED
      BY <2>1, <3>1, CashFlowMoves
  <2> QED
    BY <1>1, <2>1, <2>3
<1>3. ASSUME \A t \in Symbols : booked'[<<v, t>>].flow = booked[<<v, t>>].flow,
             balance'[v] = balance[v]
      PROVE  balance'[v] = InitialBalance + CashFlow(booked', v)
  BY <1>1, <1>3, CashFlowStays
<1>4. ASSUME NEW u \in Users, NEW s \in Symbols, NEW q \in Quantities \ {0}, NEW p \in Prices \ {0},
             Ledger!Buy(u, s, q, p)
      PROVE  balance'[v] = InitialBalance + CashFlow(booked', v)
  <2>1. -(q * p) \in Int
    BY QuantityAssumption, PriceAssumption
  <2>2. balance' = [balance EXCEPT ![u] = @ + -(q * p)]
    BY <1>4, QuantityAssumption, PriceAssumption DEF Ledger!Buy, TypeOK
  <2> QED
    BY <1>2, <1>4, <2>1, <2>2 DEF Ledger!Buy
<1>5. ASSUME NEW u \in Users, NEW s \in Symbols, NEW q \in Quantities \ {0}, NEW p \in Prices \ {0},
             Ledger!Sell(u, s, q, p)
      PROVE  balance'[v] = InitialBalance + CashFlow(booked', v)
  <2>1. q * p \in Int
    BY QuantityAssumption, PriceAssumption
  <2> QED
    BY <1>2, <1>5, <2>1 DEF Ledger!Sell
<1>6. ASSUME NEW u \in Users, Ledger!Reset(u)
      PROVE  balance'[v] = InitialBalance + CashFlow(booked', v)
  <2>1. CASE u = v
    <3>1. \A s \in Symbols : booked'[<<v, s>>].flow = 0
      BY <1>1, <1>6, <2>1 DEF Ledger!Reset, Ledger!Nothing, Rows
    <3>2. CashFlow(booked', v) = 0
      BY <3>1, CashFlowOfNone
    <3>3. balance'[v] = InitialBalance
      BY <1>6, <2>1 DEF Ledger!Reset, TypeOK
    <3> QED
      BY <1>1, <3>2, <3>3
  <2>2. CASE u # v
    <3>1. /\ \A t \in Symbols : booked'[<<v, t>>].flow = booked[<<v, t>>].flow
          /\ balance'[v] = balance[v]
      BY <1>1, <1>6, <2>2 DEF Ledger!Reset, Rows, TypeOK
    <3> QED
      BY <1>3, <3>1
  <2> QED
    BY <2>1, <2>2
<1>7. CASE Ledger!NewDay
  <2>1. /\ \A t \in Symbols : booked'[<<v, t>>].flow = booked[<<v, t>>].flow
        /\ balance'[v] = balance[v]
    BY <1>1, <1>7 DEF Ledger!NewDay, Rows, TypeOK, Booking
  <2> QED
    BY <1>3, <2>1
<1>8. CASE UNCHANGED Ledger!ledger
  BY <1>1, <1>8 DEF Ledger!ledger
<1> QED
  BY <1>4, <1>5, <1>6, <1>7, <1>8 DEF Ledger!Next

(* The balance of a serial client is the starting cash and the cash flow   *)
(* of its trades: no trade's effect on the balance is lost, whatever       *)
(* other users do meanwhile (execution_engine.py:167-228).                 *)
THEOREM CashConserved == Serial /\ IsFiniteSet(Symbols) => (Spec => []CashIsConserved)
<1> SUFFICES ASSUME Serial, IsFiniteSet(Symbols) PROVE Spec => []CashIsConserved
  OBVIOUS
<1>1. Init => CashIsConserved
  <2> SUFFICES ASSUME Init, NEW v \in Users
               PROVE  balance[v] = InitialBalance + CashFlow(booked, v)
    BY DEF CashIsConserved
  <2>1. \A s \in Symbols : booked[<<v, s>>].flow = 0
    BY DEF Init, NoTrades, Rows
  <2>2. CashFlow(booked, v) = 0
    BY <2>1, CashFlowOfNone
  <2> QED
    BY <2>2, BalanceAssumption DEF Init
<1>2. IInv /\ IInv' /\ SerialInv /\ CashIsConserved /\ [Next]_vars => CashIsConserved'
  BY NextSerial, LedgerConservesCash DEF IInv
<1> QED
  BY <1>1, <1>2, SerialInvariant, InductiveInvariant, PTL DEF Spec

-----------------------------------------------------------------------------
(* An order past the daily-loss check is of a user who has not lost more   *)
(* than that today.                                                        *)
DayIsAllowed(x) ==
  pc[x] \in {"risk", "exposure", "execute", "body", "commit"} =>
    TodaysPnl(booked, job[x].user) >= -MaxDailyLoss
DaysAreAllowed == \A x \in Requests : DayIsAllowed(x)

(* A handler books trades of its own user only, and ends as it does.       *)
LEMMA HandlersBookTheirOwn ==
  ASSUME IInv, NEW r \in Requests, Handle(r)
  PROVE  /\ Busy(r)
         /\ \A x \in Requests \ {r} : pc'[x] = pc[x] /\ job'[x] = job[x]
         /\ \A w \in Rows : w[1] # job[r].user => booked'[w] = booked[w]
         /\ pc'[r] # "idle" => UNCHANGED <<booked, job>>
<1>1. Busy(r)
  BY DEF Handle, Quote, CheckDailyLoss, LockPosition, CheckExposure, LockUser, Execute,
     CommitTrade, DeletePositions, DeleteRow, SeeTrades, DeleteTrades, CommitReset, Busy
<1>2. CASE SessionCloses(r)
  <2>1. /\ pc'[r] = "idle"
        /\ \A x \in Requests \ {r} : pc'[x] = pc[x] /\ job'[x] = job[x]
    BY <1>2 DEF SessionCloses, Goto, IInv, TypeOK
  <2>2. ASSUME NEW w \in Rows, w[1] # job[r].user
        PROVE  booked'[w] = booked[w]
    <3>1. w # Row(r)
      BY <2>2 DEF Row
    <3> QED
      BY <2>2, <3>1 DEF Handle, Quote, CheckDailyLoss, LockPosition, CheckExposure, LockUser,
         Execute, CommitTrade, DeletePositions, DeleteRow, SeeTrades, DeleteTrades, CommitReset, Reject,
         db, IInv, TypeOK
  <2> QED
    BY <1>1, <2>1, <2>2
<1>3. CASE ~SessionCloses(r)
  <2>1. UNCHANGED <<booked, job>>
    BY <1>3 DEF Handle, Quote, CheckDailyLoss, LockPosition, CheckExposure, LockUser, Execute,
       CommitTrade, DeletePositions, DeleteRow, SeeTrades, DeleteTrades, CommitReset, Reject, Finish,
       db, scratch
  <2>2. \A x \in Requests \ {r} : pc'[x] = pc[x]
    BY <1>3 DEF Handle, Quote, CheckDailyLoss, LockPosition, CheckExposure, LockUser, Execute,
       CommitTrade, DeletePositions, DeleteRow, SeeTrades, DeleteTrades, CommitReset, Reject, Finish,
       Goto, IInv, TypeOK
  <2> QED
    BY <1>1, <2>1, <2>2
<1> QED
  BY <1>2, <1>3

(* What one handler does leaves the day of every other request allowed,    *)
(* and its own when it goes on.                                            *)
LEMMA HandleKeepsDays ==
  ASSUME IsFiniteSet(Symbols), IInv, SerialInv, DaysAreAllowed, NEW r \in Requests, Handle(r)
  PROVE  DaysAreAllowed'
<1> SUFFICES ASSUME NEW x \in Requests,
                    pc'[x] \in {"risk", "exposure", "execute", "body", "commit"}
             PROVE  TodaysPnl(booked', job'[x].user) >= -MaxDailyLoss
  BY DEF DaysAreAllowed, DayIsAllowed
<1>1. /\ Busy(r)
      /\ x # r => pc'[x] = pc[x] /\ job'[x] = job[x]
      /\ \A w \in Rows : w[1] # job[r].user => booked'[w] = booked[w]
      /\ x = r => UNCHANGED <<booked, job>>
  BY HandlersBookTheirOwn
<1>2. Busy(x) /\ job[x].user \in Users /\ job'[x] = job[x]
  BY <1>1, BusyTyped DEF Busy
<1>3. \A s \in Symbols : <<job[x].user, s>> \in Rows /\ booked[<<job[x].user, s>>].today \in Int
  BY <1>2 DEF Rows, IInv, TypeOK, Booking
<1>4. TodaysPnl(booked', job[x].user) = TodaysPnl(booked, job[x].user)
  <2>1. CASE x = r
    BY <2>1, <1>1
  <2>2. CASE x # r
    <3>1. job[x].user # job[r].user
      BY <2>2, <1>1, <1>2 DEF SerialInv, OneAtATime
    <3>2. \A s \in Symbols : booked'[<<job[x].user, s>>].today = booked[<<job[x].user, s>>].today
      BY <1>1, <1>3, <3>1
    <3> QED
      BY <1>3, <3>2, TodaysPnlStays
  <2> QED
    BY <2>1, <2>2
<1>5. CASE pc[x] \in {"risk", "exposure", "execute", "body", "commit"}
  BY <1>2, <1>4, <1>5 DEF DaysAreAllowed, DayIsAllowed
<1>6. CASE pc[x] \notin {"risk", "exposure", "execute", "body", "commit"}
  <2>1. x = r
    BY <1>1, <1>6
  <2>2. pc[r] = "daily" /\ CheckDailyLoss(r) /\ ~Reject(r)
    BY <1>6, <2>1 DEF Handle, Quote, CheckDailyLoss, LockPosition, CheckExposure, LockUser,
       Execute, CommitTrade, DeletePositions, DeleteRow, SeeTrades, DeleteTrades, CommitReset, Reject,
       Finish, SessionCloses, Goto, IInv, TypeOK
  <2>3. ~(TodaysPnl(booked, job[r].user) < -MaxDailyLoss)
    BY <2>2, Zenon DEF CheckDailyLoss, DailyLossExceeded, DailyPnl, TodaysPnl
  <2>4. TodaysPnl(booked, job[r].user) \in Int
    BY <1>3, <2>1, TodaysPnlStays
  <2> QED
    BY <1>2, <1>4, <2>1, <2>3, <2>4, LimitAssumption
<1> QED
  BY <1>5, <1>6

(* No order of a serial client is executed on a day whose realized loss    *)
(* already exceeds MAX_DAILY_LOSS: the sum checked first is still the sum  *)
(* at the commit (daily_loss_engine.py:138-140).                           *)
THEOREM NoTradesAfterDailyLoss ==
  Serial /\ IsFiniteSet(Symbols) => (Spec => []NoTradingAfterDailyLoss)
<1> SUFFICES ASSUME Serial, IsFiniteSet(Symbols) PROVE Spec => []NoTradingAfterDailyLoss
  OBVIOUS
<1>1. Init => DaysAreAllowed
  BY DEF Init, DaysAreAllowed, DayIsAllowed
<1>2. IInv /\ SerialInv /\ DaysAreAllowed /\ [Next]_vars => DaysAreAllowed'
  <2> SUFFICES ASSUME IInv, SerialInv, DaysAreAllowed, [Next]_vars
               PROVE  DaysAreAllowed'
    OBVIOUS
  <2>1. ASSUME NEW r \in Requests, Handle(r) PROVE DaysAreAllowed'
    BY <2>1, HandleKeepsDays
  <2>2. ASSUME NEW r \in Requests, Authenticate(r) \/ DeadlockAbort(r) PROVE DaysAreAllowed'
    <3>1. /\ UNCHANGED booked
          /\ \A x \in Requests \ {r} : pc'[x] = pc[x] /\ job'[x] = job[x]
          /\ pc'[r] \in {"quote", "rsPositions", "idle"}
      BY <2>2 DEF Authenticate, DeadlockAbort, Reject, Finish, SessionCloses, Goto, db,
         IInv, TypeOK
    <3> QED
      BY <3>1 DEF DaysAreAllowed, DayIsAllowed
  <2>3. CASE Midnight
    <3> SUFFICES ASSUME NEW x \in Requests,
                        pc'[x] \in {"risk", "exposure", "execute", "body", "commit"}
                 PROVE  TodaysPnl(booked', job'[x].user) >= -MaxDailyLoss
      BY DEF DaysAreAllowed, DayIsAllowed
    <3>1. /\ UNCHANGED <<pc, job>>
          /\ booked' = [w \in Rows |-> Forget(booked[w])]
      BY <2>3 DEF Midnight
    <3>2. job[x].user \in Users
      BY <3>1, BusyTyped DEF Busy
    <3>3. \A s \in Symbols : booked'[<<job[x].user, s>>].today = 0
      BY <3>1, <3>2 DEF Rows, Forget, IInv, TypeOK, Booking
    <3>4. TodaysPnl(booked', job[x].user) = 0
      BY <3>3, TodaysPnlOfNone
    <3> QED
      BY <3>1, <3>4, LimitAssumption
  <2>4. CASE PriceTick \/ UNCHANGED vars
    BY <2>4 DEF PriceTick, vars, db, DaysAreAllowed, DayIsAllowed
  <2> QED
    BY <2>1, <2>2, <2>3, <2>4 DEF Next
<1>3. DaysAreAllowed => NoTradingAfterDailyLoss
  BY Zenon DEF DaysAreAllowed, DayIsAllowed, NoTradingAfterDailyLoss, DailyPnl, TodaysPnl
<1> QED
  BY <1>1, <1>2, <1>3, SerialInvariant, InductiveInvariant, PTL DEF Spec
=============================================================================
