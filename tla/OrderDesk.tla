----------------------------- MODULE OrderDesk -----------------------------
(***************************************************************************)
(* The pages that trade and show the account (frontend/src/pages: Trade,   *)
(* Portfolio, Dashboard, Performance, PaperAccount, Account) with the      *)
(* order ticket, the portfolio hook and the trade notifications they share.*)
(*                                                                         *)
(* The server's books are abstracted to a version, which every order and   *)
(* every reset that is carried out makes newer, and to whether a version   *)
(* holds a position.  A read answers with a version that was current at    *)
(* some time since it was sent.  A handler runs to its next await, and a   *)
(* reply runs its continuation, in one step each.                          *)
(***************************************************************************)
EXTENDS Router, Naturals, Functions, Bags

CONSTANTS None,      \* nothing fetched yet
          MaxBooks,  \* bound: orders and resets carried out
          MaxJobs,   \* bound: orders, resets and refreshes in flight
          MaxReads   \* bound: reads in flight when another job starts

ASSUME DeskAssumption ==
  /\ MaxBooks \in Nat /\ MaxJobs \in Nat /\ MaxReads \in Nat
  /\ None \notin 0..MaxBooks

VARIABLES books,    \* server: the version of the account's books
          flat,     \* server: the versions without a position
          fetches,  \* bag of reads in flight for the mounted page
          shown,    \* the version on the screen
          loading,  \* of usePortfolio
          error,    \* of usePortfolio
          jobs,     \* orders, resets, refreshes and password changes in flight,
                    \* each under a number
          busy,     \* submitting, busy or resetting of the mounted page
          saving,   \* of the password form
          confirm,  \* the paper account asks whether to reset
          lapse,    \* history: what a failed, overtaken, lost or orphaned answer
                    \* has left behind the books
          untold    \* history: the settings page was not told of an order

serverVars == <<books, flat>>
deskVars == <<books, flat, fetches, shown, loading, error, jobs, busy, saving, confirm, lapse,
              untold>>
vars == <<page, deskVars>>

Whats == {"portfolio", "trades", "me", "performance"}
Needs(p) ==
  CASE p = "dashboard" -> {"portfolio", "performance"}
    [] p = "portfolio" -> {"portfolio"}
    [] p = "performance" -> {"performance"}
    [] p = "trade" -> {"portfolio", "trades"}
    [] p = "paper-account" -> {"portfolio", "me"}
    [] p = "account" -> {"me"}
    [] OTHER -> {}

(* The listeners of tradeService that are subscribed. *)
Listeners == Needs(page) \cap {"portfolio", "trades"}

-----------------------------------------------------------------------------
(* Screens *)

NoPositions == shown["portfolio"] \in flat \cup {None}

DashboardScreen ==
  IF loading /\ NoPositions THEN "spinner" ELSE IF error THEN "error"
  ELSE IF NoPositions THEN "empty" ELSE "positions"
PortfolioScreen ==
  IF loading /\ NoPositions THEN "spinner" ELSE IF error THEN "error"
  ELSE IF NoPositions THEN "no positions yet" ELSE "positions"
PerformanceScreen == IF shown["performance"] = None THEN "spinner" ELSE "figures"

(* What the ticket lets through: a purchase that the buying power covers   *)
(* or that has no price to multiply with, and a sale of what is owned.     *)
ValidationError(side, priced) ==
  IF side = "BUY" THEN priced /\ shown["portfolio"] = None ELSE NoPositions
TicketEnabled(side, priced) == ~busy /\ ~ValidationError(side, priced)

RefreshOffered ==
  page = "portfolio" /\ (PortfolioScreen = "error" \/ (PortfolioScreen = "positions" /\ ~busy))
PortfolioResetOffered == page = "portfolio" /\ PortfolioScreen = "positions" /\ ~busy
PaperResetOffered == page = "paper-account" /\ confirm /\ ~busy
PasswordOffered == page = "account" /\ ~saving
AccountResetOffered == page = "account" /\ ~busy

-----------------------------------------------------------------------------
(* Reads *)

Sends(ws) == SetToBag({<<w, books>> : w \in ws})

(* The continuation of one read: ok says it succeeded, v is its version.   *)
PortfolioLands(ok, v) ==
  /\ loading' = FALSE
  /\ error' = ~ok
  /\ shown' = IF ok THEN [shown EXCEPT !["portfolio"] = v] ELSE shown
OthersLand(w, ok, v) ==
  /\ shown' = IF ok THEN [shown EXCEPT ![w] = v] ELSE shown
  /\ UNCHANGED <<loading, error>>
Lands(w, ok, v) == IF w = "portfolio" THEN PortfolioLands(ok, v) ELSE OthersLand(w, ok, v)

(* A failed read and one that is older than what it replaces may leave the *)
(* screen behind; one that is current does not.                            *)
Remembers(w, ok, v) ==
  /\ lapse' = IF ~ok \/ (shown[w] # None /\ v < shown[w]) THEN lapse \cup {w}
              ELSE IF v = books THEN lapse \ {w} ELSE lapse
  /\ untold' = (untold /\ ~(w = "me" /\ ok /\ v = books))

ReadLands ==
  /\ \E f \in BagToSet(fetches), ok \in BOOLEAN : \E v \in f[2]..books :
       /\ Lands(f[1], ok, v)
       /\ Remembers(f[1], ok, v)
       /\ fetches' = fetches (-) SetToBag({f})
  /\ UNCHANGED <<page, books, flat, jobs, busy, saving, confirm>>

-----------------------------------------------------------------------------
(* Jobs: a request that changes something, or a refresh somebody awaits.   *)
(* home says that the page that started it is still mounted.               *)

Kinds == {"BUY", "SELL", "reset", "password"}

Starts(k, st) ==
  /\ BagCardinality(fetches) <= MaxReads
  /\ \E i \in 1..MaxJobs \ DOMAIN jobs :
       jobs' = [n \in DOMAIN jobs \cup {i} |->
                  IF n = i THEN [kind |-> k, state |-> st, since |-> books, home |-> TRUE]
                  ELSE jobs[n]]

Without(i) == Restrict(jobs, DOMAIN jobs \ {i})

NoGuard(b) == FALSE  \* mutant: submitting is not set
Submitting(b) == TRUE
Submit ==
  /\ page = "trade"
  /\ \E side \in {"BUY", "SELL"}, priced \in BOOLEAN :
       TicketEnabled(side, priced) /\ Starts(side, "sent")
  /\ busy' = Submitting(busy)
  /\ UNCHANGED <<page, serverVars, fetches, shown, loading, error, saving, confirm, lapse, untold>>

HandleReset == PortfolioResetOffered /\ Starts("reset", "sent")
DoPaperReset == PaperResetOffered /\ Starts("reset", "sent")
DoAccountReset == AccountResetOffered /\ Starts("reset", "sent")
Reset ==
  /\ HandleReset \/ DoPaperReset \/ DoAccountReset
  /\ busy' = TRUE
  /\ UNCHANGED <<page, serverVars, fetches, shown, loading, error, saving, confirm, lapse, untold>>

HandleRefresh ==
  /\ RefreshOffered /\ Starts("refresh", "refetching")
  /\ busy' = TRUE /\ loading' = TRUE
  /\ UNCHANGED <<page, serverVars, fetches, shown, error, saving, confirm, lapse, untold>>

SubmitPassword ==
  /\ PasswordOffered /\ Starts("password", "sent")
  /\ saving' = TRUE
  /\ UNCHANGED <<page, serverVars, fetches, shown, loading, error, busy, confirm, lapse, untold>>

AskToConfirm ==
  /\ page = "paper-account" /\ ~busy
  /\ confirm' = ~confirm
  /\ UNCHANGED <<page, serverVars, fetches, shown, loading, error, jobs, busy, saving, lapse, untold>>

(* The server carries a request out, or refuses it. *)
CarriesOut(j) ==
  /\ books < MaxBooks
  /\ books' = books + 1
  /\ \/ j.kind = "BUY" /\ flat' = flat
     \/ j.kind = "SELL" /\ books \notin flat /\ flat' \in {flat, flat \cup {books + 1}}
     \/ j.kind = "reset" /\ flat' = flat \cup {books + 1}

(* The settings page reads the user when it mounts and is not told of an   *)
(* order that is carried out while it is open.                             *)
Missed(k) == page = "account" /\ k \in {"BUY", "SELL"}

(* A ghost is a request whose client has given up on it. *)
ServerRuns(k) ==
  \E i \in DOMAIN jobs :
    LET j == jobs[i]
    IN /\ j.kind = k /\ j.state \in {"sent", "ghost"}
       /\ \/ /\ CarriesOut(j)
             /\ lapse' = (IF j.state = "ghost" THEN Whats ELSE lapse)
             /\ untold' = (untold \/ Missed(k))
          \/ UNCHANGED <<books, flat, lapse, untold>>
       /\ jobs' = IF j.state = "ghost" THEN Without(i)
                  ELSE [jobs EXCEPT ![i].state = IF books' # books \/ j.kind = "password"
                                                 THEN "done" ELSE "refused"]
       /\ UNCHANGED <<page, fetches, shown, loading, error, busy, saving, confirm>>

(* executeTrade notifies the listeners of whatever page is mounted; the    *)
(* ticket, if it is still there, then has its page refresh once more.      *)
NobodyNotified(j) == IF j.home THEN Listeners ELSE {}  \* mutant: only onPlaced
Notified(j) == Listeners
OnPlaced(j) == IF j.home THEN Listeners ELSE {}
OrderPlaced(j) ==
  /\ fetches' = fetches (+) Sends(Notified(j)) (+) Sends(OnPlaced(j))
  /\ loading' = (loading \/ "portfolio" \in Listeners)
  /\ busy' = (busy /\ ~j.home)
  /\ UNCHANGED <<confirm, saving, lapse, untold>>

(* A reset whose page is gone tells nobody. *)
Refetch(j) == [j EXCEPT !.state = "refetching", !.since = books]
ResetReplied(i) ==
  LET j == jobs[i]
  IN /\ jobs' = IF j.home THEN [jobs EXCEPT ![i] = Refetch(j)] ELSE Without(i)
     /\ lapse' = IF j.home THEN lapse ELSE Whats
     /\ loading' = (loading \/ (j.home /\ page # "account"))
     /\ UNCHANGED <<fetches, busy, saving, confirm, untold>>

(* The handlers' catch and finally. *)
GivesUp(j) == [j EXCEPT !.state = "ghost", !.home = FALSE]
StaysBusy(j) ==  \* mutant: the flags are reset after a success only
  UNCHANGED <<busy, saving, fetches, loading, confirm>>
HandlerFails(j) ==
  /\ busy' = (busy /\ (~j.home \/ j.kind = "password"))
  /\ saving' = (saving /\ (~j.home \/ j.kind # "password"))
  /\ UNCHANGED <<fetches, loading, confirm>>

Replied(k) ==
  /\ \E i \in {n \in DOMAIN jobs : jobs[n].kind = k} :
       LET j == jobs[i]
       IN \/ /\ j.state = "done" /\ j.kind \in {"BUY", "SELL"}
             /\ OrderPlaced(j) /\ jobs' = Without(i)
          \/ /\ j.state = "done" /\ j.kind = "reset"
             /\ ResetReplied(i)
          \/ /\ j.state = "refused" \/ (j.state = "done" /\ j.kind = "password")
             /\ HandlerFails(j) /\ jobs' = Without(i)
             /\ UNCHANGED <<lapse, untold>>
  /\ UNCHANGED <<page, serverVars, shown, error>>

(* The client's timeout, or a reply the network drops. *)
ReplyLost ==
  /\ \E i \in DOMAIN jobs :
       LET j == jobs[i]
       IN /\ j.state \in {"sent", "done"}
          /\ HandlerFails(j)
          /\ jobs' = IF j.state = "sent" THEN [jobs EXCEPT ![i] = GivesUp(j)] ELSE Without(i)
          /\ lapse' = IF j.state = "done" THEN Whats ELSE lapse
  /\ UNCHANGED <<page, serverVars, shown, error, untold>>

(* The read a handler awaits: of the user on the settings page, of the     *)
(* portfolio elsewhere, where a failure does not reach the handler.        *)
Awaited == IF page = "account" THEN "me" ELSE "portfolio"
RefetchLands ==
  /\ \E i \in DOMAIN jobs, ok \in BOOLEAN :
       LET j == jobs[i]
       IN /\ j.state = "refetching"
          /\ \E v \in j.since..books :
               Lands(Awaited, ok, v) /\ Remembers(Awaited, ok, v)
          /\ jobs' = Without(i)
  /\ busy' = FALSE
  /\ confirm' = FALSE
  /\ UNCHANGED <<page, serverVars, fetches, saving>>

-----------------------------------------------------------------------------
(* A page mounts.  Of the one that is gone only requests remain.           *)

Outlives(j) == j.kind \in {"BUY", "SELL", "reset"} /\ j.state # "refetching"
StillAtHome ==  \* mutant: a request of the old page counts as one of the new page
  Restrict(jobs, {i \in DOMAIN jobs : Outlives(jobs[i])})
Strays ==
  [i \in {n \in DOMAIN jobs : Outlives(jobs[n])} |-> [jobs[i] EXCEPT !.home = FALSE]]

DeskMounts(q) ==
  /\ fetches' = Sends(Needs(q))
  /\ shown' = [w \in Whats |-> None]
  /\ loading' = TRUE /\ error' = FALSE
  /\ jobs' = Strays
  /\ busy' = FALSE /\ saving' = FALSE /\ confirm' = FALSE
  /\ lapse' = {} /\ untold' = FALSE
  /\ UNCHANGED serverVars

Init ==
  /\ page = "dashboard"
  /\ books = 0 /\ flat \in {{}, {0}}
  /\ fetches = Sends(Needs(page))
  /\ shown = [w \in Whats |-> None]
  /\ loading = TRUE /\ error = FALSE
  /\ jobs = [i \in {} |-> None] /\ busy = FALSE /\ saving = FALSE /\ confirm = FALSE
  /\ lapse = {} /\ untold = FALSE

(* The desk, and a page that shows none of it. *)
Navigate ==
  \E q \in Links(page) \cap (DeskRoutes \cup {"quant"}) : page' = q /\ DeskMounts(q)

Next ==
  \/ ReadLands \/ Submit \/ Reset \/ HandleRefresh \/ SubmitPassword \/ AskToConfirm
  \/ \E k \in Kinds : ServerRuns(k) \/ Replied(k)
  \/ ReplyLost \/ RefetchLands \/ Navigate

Spec == Init /\ [][Next]_vars

(* The server deals with every kind of request and its replies arrive, or  *)
(* are given up on; what is read arrives or fails.                         *)
Fairness ==
  /\ \A k \in Kinds : WF_vars(ServerRuns(k) \/ Replied(k))
  /\ WF_vars(ReadLands) /\ WF_vars(RefetchLands)
FairSpec == Spec /\ Fairness

-----------------------------------------------------------------------------
(* Properties *)

DeskTypeOK ==
  /\ books \in 0..MaxBooks /\ flat \subseteq 0..MaxBooks
  /\ \A f \in BagToSet(fetches) : f[1] \in Needs(page) /\ f[2] <= books
  /\ shown \in [Whats -> 0..MaxBooks \cup {None}]
  /\ {loading, error, busy, saving, confirm, untold} \subseteq BOOLEAN
  /\ lapse \subseteq Whats
  /\ \A i \in DOMAIN jobs : jobs[i].home =>
       page \in (CASE jobs[i].kind \in {"BUY", "SELL"} -> {"trade"}
                  [] jobs[i].kind = "reset" -> {"portfolio", "paper-account", "account"}
                  [] jobs[i].kind = "refresh" -> {"portfolio"}
                  [] jobs[i].kind = "password" -> {"account"})

(* When nothing is in flight, the positions, the recent trades and the     *)
(* settings' balance are those of the server, unless a read failed, an old *)
(* read overtook a newer one, an answer was lost, or a reset's page was    *)
(* left: an order is seen by whatever page is mounted when it is answered  *)
(* (tradeService.js:9-24).  The balance has a fifth excuse: the settings   *)
(* page reads it once (Account.jsx:46-54) and is not told of an order that *)
(* is carried out while it is open.                                        *)
BooksShownAreCurrent ==
  \A w \in Needs(page) \ {"performance"} :
    /\ DOMAIN jobs = {}
    /\ \A f \in BagToSet(fetches) : f[1] # w
    /\ w = "me" => page = "account"
    => shown[w] = books \/ w \in lapse \/ (w = "me" /\ untold)

(* A ticket has one order out at a time and a reset form one reset         *)
(* (OrderTicket.jsx:45, disabled in PaperAccount.jsx:167 and               *)
(* Account.jsx:221), and the flag is up exactly while one is.  The         *)
(* portfolio page is left out: its Retry is never disabled.                *)
OneJobPerPage ==
  page # "portfolio" =>
    LET own == {i \in DOMAIN jobs : jobs[i].home}
    IN /\ Cardinality({i \in own : jobs[i].kind # "password"}) = (IF busy THEN 1 ELSE 0)
       /\ Cardinality({i \in own : jobs[i].kind = "password"}) = (IF saving THEN 1 ELSE 0)

(* No handler leaves its controls disabled: what disables them goes away,  *)
(* whether the order, the reset or the new password is carried out,        *)
(* refused, or never answered; and so does the spinner over the positions. *)
Spinning(p) == page = p /\ PortfolioScreen = "spinner"
DeskSettles ==
  /\ busy ~> ~busy
  /\ saving ~> ~saving
  /\ \A p \in {"dashboard", "portfolio"} : Spinning(p) ~> ~Spinning(p)
=============================================================================
