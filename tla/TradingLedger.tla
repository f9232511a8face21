---------------------------- MODULE TradingLedger ---------------------------
(***************************************************************************)
(* What the trading path promises to a user who sends one request at a     *)
(* time: every order and every reset of the account happens at one         *)
(* instant, on the whole account.  There are no handlers, locks, sessions  *)
(* or rejected requests here; a request that is refused does nothing.      *)
(***************************************************************************)
EXTENDS Integers

CONSTANTS Users, Symbols, Prices, Quantities, InitialBalance, MaxPosition

VARIABLES balance,   \* cash of each account
          quantity,  \* shares of each symbol in each account
          basis,     \* what those shares cost
          booked     \* the account's trades, summed

ledger == <<balance, quantity, basis, booked>>

Nothing == [net |-> 0, flow |-> 0, gain |-> 0, today |-> 0, count |-> 0]

Book(u, s, shares, money, profit) ==
  booked' = [booked EXCEPT ![<<u, s>>] =
    [net |-> @.net + shares, flow |-> @.flow + money, gain |-> @.gain + profit,
     today |-> @.today + profit, count |-> @.count + 1]]

Buy(u, s, q, p) ==
  /\ balance[u] >= q * p
  /\ quantity[<<u, s>>] + q <= MaxPosition
  /\ balance' = [balance EXCEPT ![u] = @ - q * p]
  /\ quantity' = [quantity EXCEPT ![<<u, s>>] = @ + q]
  /\ basis' = [basis EXCEPT ![<<u, s>>] = @ + q * p]
  /\ Book(u, s, q, -(q * p), 0)

Sell(u, s, q, p) ==
  /\ quantity[<<u, s>>] >= q
  /\ LET cost == (basis[<<u, s>>] * q) \div quantity[<<u, s>>]
     IN /\ balance' = [balance EXCEPT ![u] = @ + q * p]
        /\ quantity' = [quantity EXCEPT ![<<u, s>>] = @ - q]
        /\ basis' = [basis EXCEPT ![<<u, s>>] = @ - cost]
        /\ Book(u, s, -q, q * p, q * p - cost)

Reset(u) ==
  /\ balance' = [balance EXCEPT ![u] = InitialBalance]
  /\ quantity' = [w \in Users \X Symbols |-> IF w[1] = u THEN 0 ELSE quantity[w]]
  /\ basis' = [w \in Users \X Symbols |-> IF w[1] = u THEN 0 ELSE basis[w]]
  /\ booked' = [w \in Users \X Symbols |-> IF w[1] = u THEN Nothing ELSE booked[w]]

NewDay ==
  /\ booked' = [w \in Users \X Symbols |-> [booked[w] EXCEPT !.today = 0]]
  /\ UNCHANGED <<balance, quantity, basis>>

Init ==
  /\ balance = [u \in Users |-> InitialBalance]
  /\ quantity = [w \in Users \X Symbols |-> 0]
  /\ basis = [w \in Users \X Symbols |-> 0]
  /\ booked = [w \in Users \X Symbols |-> Nothing]

Next ==
  \/ \E u \in Users, s \in Symbols, q \in Quantities \ {0}, p \in Prices \ {0} :
       Buy(u, s, q, p) \/ Sell(u, s, q, p)
  \/ \E u \in Users : Reset(u)
  \/ NewDay

Spec == Init /\ [][Next]_ledger
=============================================================================
