--------------------------- MODULE OrderDeskProofs ---------------------------
(***************************************************************************)
(* Proofs about the pages of the order desk: what the screens show has     *)
(* either caught up with the server's books or something still in flight   *)
(* will make it, and what disables a form is the form's own request.       *)
(***************************************************************************)
EXTENDS OrderDesk, FiniteSetTheorems, TLAPS

-----------------------------------------------------------------------------
(* The inductive invariant. *)

Orders == {"BUY", "SELL"}
Jobs == [kind : Kinds \cup {"refresh"},
         state : {"sent", "ghost", "done", "refused", "refetching"},
         since : 0..MaxBooks, home : BOOLEAN]
HomesOf(kind) ==
  CASE kind \in Orders -> {"trade"}
    [] kind = "reset" -> {"portfolio", "paper-account", "account"}
    [] kind = "refresh" -> {"portfolio"}
    [] kind = "password" -> {"account"}

(* A job at home belongs to a form of the mounted page; only a handler that*)
(* is still there awaits a refetch, and a client that has given up has left*)
(* its page or its handler.                                                *)
JobOK(j) ==
  /\ j.home => page \in HomesOf(j.kind)
  /\ j.state = "refetching" => j.home /\ j.kind \in {"reset", "refresh"}
  /\ j.kind = "refresh" => j.state = "refetching"
  /\ j.state = "ghost" => ~j.home

JobsInv ==
  /\ DOMAIN jobs \subseteq 1..MaxJobs
  /\ jobs \in [DOMAIN jobs -> Jobs]
  /\ \A i \in DOMAIN jobs : jobs[i].since <= books /\ JobOK(jobs[i])

TypeInv ==
  /\ page \in Routes
  /\ books \in 0..MaxBooks /\ flat \subseteq 0..MaxBooks
  /\ IsABag(fetches) /\ DOMAIN fetches \subseteq Needs(page) \X (0..books)
  /\ shown \in [Whats -> 0..MaxBooks \cup {None}]
  /\ loading \in BOOLEAN /\ error \in BOOLEAN /\ busy \in BOOLEAN
  /\ saving \in BOOLEAN /\ confirm \in BOOLEAN
  /\ lapse \subseteq Whats /\ untold \in BOOLEAN
  /\ JobsInv

(* The reads of the books that something which was carried out brings about*)
(* once its answer is here, by a notification or by the handler.           *)
Brings(j, w) ==
  \/ j.kind \in Orders /\ j.state = "done" /\ w # "me"
  \/ j.kind = "reset" /\ j.state = "done" /\ (j.home => w = Awaited)
  \/ j.state = "refetching" /\ j.since = books /\ w = Awaited

Watched == {w \in Needs(page) \ {"performance"} : w = "me" => page = "account"}

(* Whatever a page watches is current, or excused, or about to be read as  *)
(* it is now.                                                              *)
Excused(w, left, missed) == w \in left \/ (w = "me" /\ missed)
CatchesUp(w) ==
  \/ shown[w] = books \/ Excused(w, lapse, untold)
  \/ <<w, books>> \in DOMAIN fetches
  \/ \E i \in DOMAIN jobs : Brings(jobs[i], w)
BooksInv == \A w \in Watched : CatchesUp(w)

Own(i) == jobs[i].home /\ jobs[i].kind # "password"
OwnPassword(i) == jobs[i].home /\ jobs[i].kind = "password"
FlagsInv ==
  page # "portfolio" =>
    /\ \A i, k \in DOMAIN jobs : Own(i) /\ Own(k) => i = k
    /\ \A i, k \in DOMAIN jobs : OwnPassword(i) /\ OwnPassword(k) => i = k
    /\ busy <=> \E i \in DOMAIN jobs : Own(i)
    /\ saving <=> \E i \in DOMAIN jobs : OwnPassword(i)

DeskInv == TypeInv /\ BooksInv /\ FlagsInv

-----------------------------------------------------------------------------
(* What the operators of the desk do. *)

LEMMA WhatsNeeded ==
  /\ \A p \in Routes : Needs(p) \subseteq Whats
  /\ Awaited \in Whats
  /\ Watched \subseteq {"portfolio", "trades", "me"}
  /\ Watched \subseteq Listeners \cup {"me"}
BY DEF Needs, Whats, Awaited, Watched, Listeners, Routes, LabRoutes, DeskRoutes

(* Where a reset can be at home, its handler reads all that is watched.    *)
LEMMA ResetReadsTheRest ==
  ASSUME page \in HomesOf("reset"), NEW w \in Watched
  PROVE  w = Awaited
BY DEF HomesOf, Orders, Watched, Needs, Awaited

LEMMA BagsOfReads ==
  ASSUME NEW B, NEW ws
  PROVE  /\ DOMAIN Sends(ws) = {<<w, books>> : w \in ws}
         /\ DOMAIN (B (+) Sends(ws)) = DOMAIN B \cup {<<w, books>> : w \in ws}
         /\ IsABag(Sends(ws))
         /\ IsABag(B) => IsABag(B (+) Sends(ws))
<1>1. DOMAIN Sends(ws) = {<<w, books>> : w \in ws} /\ IsABag(Sends(ws))
  BY DEF Sends, SetToBag, IsABag
<1>2. DOMAIN (B (+) Sends(ws)) = DOMAIN B \cup {<<w, books>> : w \in ws}
  BY <1>1 DEF (+)
<1>3. IsABag(B) => IsABag(B (+) Sends(ws))
  BY <1>1 DEF (+), IsABag
<1> QED
  BY <1>1, <1>2, <1>3

LEMMA ReadTaken ==
  ASSUME NEW B, IsABag(B), NEW f
  PROVE  /\ DOMAIN (B (-) SetToBag({f})) \subseteq DOMAIN B
         /\ DOMAIN B \ {f} \subseteq DOMAIN (B (-) SetToBag({f}))
         /\ IsABag(B (-) SetToBag({f}))
<1> DEFINE C == [e \in DOMAIN B |-> IF e \in {f} THEN B[e] - 1 ELSE B[e]]
<1>1. \A e \in DOMAIN B : C[e] \in Int /\ (e # f => C[e] > 0)
  BY DEF IsABag
<1>2. SetToBag({f}) = [e \in {f} |-> 1]
  BY DEF SetToBag
<1>3. B (-) SetToBag({f}) = [e \in {d \in DOMAIN C : C[d] > 0} |-> C[e]]
  BY <1>2 DEF (-)
<1> HIDE DEF C
<1>4. DOMAIN C = DOMAIN B
  BY DEF C
<1> QED
  BY <1>1, <1>3, <1>4 DEF IsABag

(* The jobs after one of them has ended, or become another. *)
LEMMA JobEnds ==
  ASSUME NEW i \in DOMAIN jobs
  PROVE  /\ DOMAIN Without(i) = DOMAIN jobs \ {i}
         /\ \A n \in DOMAIN jobs \ {i} : Without(i)[n] = jobs[n]
BY DEF Without, Restrict

LEMMA JobsInvAgain ==
  ASSUME page' = page, DOMAIN jobs' \subseteq 1..MaxJobs, jobs' = [n \in DOMAIN jobs' |-> jobs'[n]],
         \A n \in DOMAIN jobs' : jobs'[n] \in Jobs /\ jobs'[n].since <= books' /\ JobOK(jobs'[n])
  PROVE  JobsInv'
BY DEF JobsInv, JobOK

(* A new job takes a free number. *)
LEMMA JobsAdded ==
  ASSUME TypeInv, UNCHANGED <<page, books>>, NEW k, NEW st, Starts(k, st),
         k \in Kinds \cup {"refresh"}, st \in {"sent", "refetching"},
         page \in HomesOf(k), st = "refetching" <=> k = "refresh"
  PROVE  /\ JobsInv'
         /\ \E i \in 1..MaxJobs \ DOMAIN jobs :
              /\ DOMAIN jobs' = DOMAIN jobs \cup {i}
              /\ \A n \in DOMAIN jobs : jobs'[n] = jobs[n]
              /\ jobs'[i].kind = k /\ jobs'[i].state = st /\ jobs'[i].home
<1> DEFINE j == [kind |-> k, state |-> st, since |-> books, home |-> TRUE]
<1>1. PICK i \in 1..MaxJobs \ DOMAIN jobs :
        jobs' = [n \in DOMAIN jobs \cup {i} |-> IF n = i THEN j ELSE jobs[n]]
  BY DEF Starts
<1>2. j \in Jobs /\ j.since <= books /\ j.kind = k /\ j.state = st /\ j.home
  BY DEF TypeInv, Jobs
<1>3. JobOK(j)
  BY DEF JobOK, Kinds
<1> HIDE DEF j
<1>4. /\ DOMAIN jobs' = DOMAIN jobs \cup {i} /\ jobs' = [n \in DOMAIN jobs' |-> jobs'[n]]
      /\ \A n \in DOMAIN jobs : jobs'[n] = jobs[n]
      /\ jobs'[i] = j
  BY <1>1
<1>5. ASSUME NEW n \in DOMAIN jobs'
      PROVE  jobs'[n] \in Jobs /\ jobs'[n].since <= books' /\ JobOK(jobs'[n])
  <2>1. CASE n = i
    BY <1>2, <1>3, <1>4, <2>1
  <2>2. CASE n # i
    <3>1. n \in DOMAIN jobs /\ jobs'[n] = jobs[n]
      BY <1>4, <1>5, <2>2
    <3> QED
      BY <3>1 DEF TypeInv, JobsInv
  <2> QED
    BY <2>1, <2>2
<1>6. JobsInv'
  BY <1>4, <1>5, JobsInvAgain DEF TypeInv, JobsInv
<1> QED
  BY <1>2, <1>4, <1>6

LEMMA JobsInvEnds ==
  ASSUME TypeInv, page' = page, books' = books \/ books' = books + 1,
         NEW i \in DOMAIN jobs, jobs' = Without(i)
  PROVE  JobsInv'
<1>1. DOMAIN jobs' \subseteq DOMAIN jobs /\ \A n \in DOMAIN jobs' : jobs'[n] = jobs[n]
  BY JobEnds
<1>2. jobs' = [n \in DOMAIN jobs' |-> jobs'[n]]
  BY DEF Without, Restrict
<1>3. ASSUME NEW n \in DOMAIN jobs'
      PROVE  jobs'[n] \in Jobs /\ jobs'[n].since <= books' /\ JobOK(jobs'[n])
  <2>1. jobs[n] \in Jobs /\ jobs[n].since <= books /\ JobOK(jobs[n])
    BY <1>1 DEF TypeInv, JobsInv
  <2>2. jobs[n].since \in Nat /\ books \in Nat
    BY <2>1, DeskAssumption DEF Jobs, TypeInv
  <2> QED
    BY <1>1, <2>1, <2>2
<1> QED
  BY <1>1, <1>2, <1>3, JobsInvAgain DEF TypeInv, JobsInv

LEMMA JobsInvBecomes ==
  ASSUME TypeInv, page' = page, books' = books \/ books' = books + 1,
         NEW i \in DOMAIN jobs, NEW j \in Jobs, jobs' = [jobs EXCEPT ![i] = j],
         j.since <= books', JobOK(j)
  PROVE  JobsInv'
<1>1. /\ DOMAIN jobs' = DOMAIN jobs /\ jobs'[i] = j
      /\ \A n \in DOMAIN jobs \ {i} : jobs'[n] = jobs[n]
  OBVIOUS
<1>2. jobs' = [n \in DOMAIN jobs' |-> jobs'[n]]
  OBVIOUS
<1>3. ASSUME NEW n \in DOMAIN jobs'
      PROVE  jobs'[n] \in Jobs /\ jobs'[n].since <= books' /\ JobOK(jobs'[n])
  <2>1. jobs[n] \in Jobs /\ jobs[n].since <= books /\ JobOK(jobs[n])
    BY <1>1 DEF TypeInv, JobsInv
  <2>2. jobs[n].since \in Nat /\ books \in Nat
    BY <2>1, DeskAssumption DEF Jobs, TypeInv
  <2>3. CASE n = i
    BY <1>1, <2>3
  <2>4. CASE n # i
    BY <1>1, <2>1, <2>2, <2>4
  <2> QED
    BY <2>3, <2>4
<1> QED
  BY <1>1, <1>2, <1>3, JobsInvAgain DEF TypeInv, JobsInv

-----------------------------------------------------------------------------
(* The flags of the forms. *)

(* A job that ends or leaves its form takes down the flag it held up.      *)
LEMMA FlagsFollow ==
  ASSUME FlagsInv, page' = page, NEW i \in DOMAIN jobs, DOMAIN jobs' \subseteq DOMAIN jobs,
         \A n \in DOMAIN jobs \ {i} : n \in DOMAIN jobs' /\ jobs'[n] = jobs[n],
         i \in DOMAIN jobs' => ~jobs'[i].home,
         page # "portfolio" => (busy' <=> busy /\ ~Own(i)),
         saving' <=> saving /\ ~OwnPassword(i)
  PROVE  FlagsInv'
<1> SUFFICES ASSUME page # "portfolio"
             PROVE  /\ \A n, k \in DOMAIN jobs' : Own(n)' /\ Own(k)' => n = k
                    /\ \A n, k \in DOMAIN jobs' : OwnPassword(n)' /\ OwnPassword(k)' => n = k
                    /\ busy' <=> \E n \in DOMAIN jobs' : Own(n)'
                    /\ saving' <=> \E n \in DOMAIN jobs' : OwnPassword(n)'
  BY DEF FlagsInv
<1>1. /\ \A n, k \in DOMAIN jobs : Own(n) /\ Own(k) => n = k
      /\ \A n, k \in DOMAIN jobs : OwnPassword(n) /\ OwnPassword(k) => n = k
      /\ busy <=> \E n \in DOMAIN jobs : Own(n)
      /\ saving <=> \E n \in DOMAIN jobs : OwnPassword(n)
  BY DEF FlagsInv
<1>2. \A n \in DOMAIN jobs' : Own(n)' <=> n # i /\ Own(n)
  BY DEF Own
<1>3. \A n \in DOMAIN jobs' : OwnPassword(n)' <=> n # i /\ OwnPassword(n)
  BY DEF OwnPassword
<1>4. busy' <=> busy /\ ~Own(i)
  OBVIOUS
<1> QED
  BY <1>1, <1>2, <1>3, <1>4

LEMMA FlagsKept ==
  ASSUME FlagsInv, UNCHANGED <<page, busy, saving>>, DOMAIN jobs' = DOMAIN jobs,
         \A n \in DOMAIN jobs : jobs'[n].home = jobs[n].home /\ jobs'[n].kind = jobs[n].kind
  PROVE  FlagsInv'
BY DEF FlagsInv, Own, OwnPassword

(* A form that starts a job was free, and its flag goes up. *)
LEMMA FlagsRaised ==
  ASSUME FlagsInv, page' = page, NEW i, i \notin DOMAIN jobs,
         DOMAIN jobs' = DOMAIN jobs \cup {i}, \A n \in DOMAIN jobs : jobs'[n] = jobs[n],
         jobs'[i].home,
         \/ jobs'[i].kind # "password" /\ (page # "portfolio" => ~busy) /\ busy' = TRUE
            /\ saving' = saving
         \/ jobs'[i].kind = "password" /\ ~saving /\ saving' = TRUE /\ busy' = busy
  PROVE  FlagsInv'
<1> SUFFICES ASSUME page # "portfolio"
             PROVE  /\ \A n, k \in DOMAIN jobs' : Own(n)' /\ Own(k)' => n = k
                    /\ \A n, k \in DOMAIN jobs' : OwnPassword(n)' /\ OwnPassword(k)' => n = k
                    /\ busy' <=> \E n \in DOMAIN jobs' : Own(n)'
                    /\ saving' <=> \E n \in DOMAIN jobs' : OwnPassword(n)'
  BY DEF FlagsInv
<1>1. /\ \A n, k \in DOMAIN jobs : Own(n) /\ Own(k) => n = k
      /\ \A n, k \in DOMAIN jobs : OwnPassword(n) /\ OwnPassword(k) => n = k
      /\ busy <=> \E n \in DOMAIN jobs : Own(n)
      /\ saving <=> \E n \in DOMAIN jobs : OwnPassword(n)
  BY DEF FlagsInv
<1>2. \A n \in DOMAIN jobs : (Own(n)' <=> Own(n)) /\ (OwnPassword(n)' <=> OwnPassword(n))
  BY DEF Own, OwnPassword
<1>3. CASE jobs'[i].kind # "password" /\ ~busy /\ busy' = TRUE /\ saving' = saving
  <2>1. Own(i)' /\ ~OwnPassword(i)'
    BY <1>3 DEF Own, OwnPassword
  <2> QED
    BY <1>1, <1>2, <1>3, <2>1
<1>4. CASE jobs'[i].kind = "password" /\ ~saving /\ saving' = TRUE /\ busy' = busy
  <2>1. ~Own(i)' /\ OwnPassword(i)'
    BY <1>4 DEF Own, OwnPassword
  <2> QED
    BY <1>1, <1>2, <1>4, <2>1
<1> QED
  BY <1>3, <1>4

-----------------------------------------------------------------------------
(* The books on the screen. *)

(* Nothing that was to bring the books to the screen is lost. *)
LEMMA BooksKept ==
  ASSUME BooksInv, UNCHANGED <<page, books, shown>>, lapse \subseteq lapse', untold => untold',
         DOMAIN fetches \subseteq DOMAIN fetches',
         \A w \in Watched, i \in DOMAIN jobs : Brings(jobs[i], w) =>
            \/ Excused(w, lapse', untold') \/ <<w, books>> \in DOMAIN fetches'
            \/ i \in DOMAIN jobs' /\ Brings(jobs'[i], w)
  PROVE  BooksInv'
<1> SUFFICES ASSUME NEW w \in Watched
             PROVE  CatchesUp(w)'
  BY DEF BooksInv, Watched
<1>1. CatchesUp(w)
  BY DEF BooksInv
<1>2. \A j : Brings(j, w)' <=> Brings(j, w)
  BY DEF Brings, Awaited
<1>3. CASE \E i \in DOMAIN jobs : Brings(jobs[i], w)
  <2>1. PICK i \in DOMAIN jobs : Brings(jobs[i], w)
    BY <1>3
  <2>2. i \in DOMAIN jobs' /\ Brings(jobs'[i], w) => CatchesUp(w)'
    BY DEF CatchesUp, Brings, Awaited
  <2> QED
    BY <2>1, <2>2 DEF CatchesUp
<1> QED
  BY <1>1, <1>3 DEF CatchesUp, Excused

LEMMA BooksExcused ==
  ASSUME page' = page, lapse' = Whats
  PROVE  BooksInv'
BY WhatsNeeded DEF BooksInv, CatchesUp, Excused, Watched, Whats

(* A read that lands changes what it is of and nothing else; then what it  *)
(* is of is excused or is as current as it was, and current if the read is.*)
LEMMA LandingFacts ==
  ASSUME TypeInv, NEW w \in Whats, NEW ok \in BOOLEAN, NEW v \in 0..books,
         Lands(w, ok, v), Remembers(w, ok, v)
  PROVE  /\ shown' \in [Whats -> 0..MaxBooks \cup {None}]
         /\ loading' \in BOOLEAN /\ error' \in BOOLEAN /\ lapse' \subseteq Whats /\ untold' \in BOOLEAN
         /\ \A u \in Whats \ {w} : shown'[u] = shown[u] /\ (Excused(u, lapse, untold) => Excused(u, lapse', untold'))
         /\ v = books \/ shown[w] = books \/ Excused(w, lapse, untold) => shown'[w] = books \/ Excused(w, lapse', untold')
<1>0. /\ books \in 0..MaxBooks /\ shown \in [Whats -> 0..MaxBooks \cup {None}]
      /\ loading \in BOOLEAN /\ error \in BOOLEAN /\ lapse \subseteq Whats
      /\ None \notin 0..MaxBooks /\ MaxBooks \in Nat /\ v \in 0..MaxBooks
  BY DeskAssumption DEF TypeInv
<1>1. shown' = IF ok THEN [shown EXCEPT ![w] = v] ELSE shown
  BY DEF Lands, PortfolioLands, OthersLand
<1>2. loading' \in BOOLEAN /\ error' \in BOOLEAN
  <2>1. CASE w = "portfolio"
    <3>1. loading' = FALSE /\ error' = ~ok
      BY <2>1 DEF Lands, PortfolioLands
    <3>2. loading' \in BOOLEAN
      BY <3>1
    <3>3. error' \in BOOLEAN
      BY <3>1
    <3> QED
      BY <3>2, <3>3
  <2>2. CASE w # "portfolio"
    BY <1>0, <2>2 DEF Lands, OthersLand
  <2> QED
    BY <2>1, <2>2
<1>3. lapse' \subseteq Whats /\ untold' \in BOOLEAN
      /\ \A u \in Whats \ {w} : Excused(u, lapse, untold) => Excused(u, lapse', untold')
  <2>1. lapse' \subseteq Whats /\ \A u \in Whats \ {w} : u \in lapse => u \in lapse'
    BY <1>0 DEF Remembers
  <2>2. untold' \in BOOLEAN
    BY <1>0 DEF Remembers
  <2>3. w # "me" /\ untold => untold'
    BY DEF Remembers
  <2> QED
    BY <2>1, <2>2, <2>3 DEF Excused
<1>4. shown' \in [Whats -> 0..MaxBooks \cup {None}] /\ \A u \in Whats \ {w} : shown'[u] = shown[u]
  BY <1>0, <1>1
<1>5. ASSUME v = books \/ shown[w] = books \/ Excused(w, lapse, untold)
      PROVE  shown'[w] = books \/ Excused(w, lapse', untold')
  <2>1. CASE ~ok \/ (shown[w] # None /\ v < shown[w])
    BY <2>1 DEF Remembers, Excused
  <2>2. CASE ~(~ok \/ (shown[w] # None /\ v < shown[w])) /\ v = books
    <3>1. shown' = [shown EXCEPT ![w] = v]
      BY <1>1, <2>2
    <3> QED
      BY <1>0, <2>2, <3>1
  <2>3. CASE ~(~ok \/ (shown[w] # None /\ v < shown[w])) /\ v # books
    <3>1. lapse' = lapse /\ (untold => untold')
      BY <2>3 DEF Remembers
    <3>2. shown[w] # books
      BY <1>0, <2>3
    <3> QED
      BY <1>5, <2>3, <3>1, <3>2 DEF Excused
  <2> QED
    BY <2>1, <2>2, <2>3
<1> QED
  BY <1>2, <1>3, <1>4, <1>5

-----------------------------------------------------------------------------
(* One action after the other. *)

LEMMA StartStep ==
  ASSUME DeskInv, NEW k \in Kinds \cup {"refresh"}, NEW st \in {"sent", "refetching"},
         Starts(k, st), page \in HomesOf(k), st = "refetching" <=> k = "refresh",
         UNCHANGED <<page, serverVars, fetches, shown, error, confirm, lapse, untold>>,
         loading' \in BOOLEAN,
         \/ k # "password" /\ (page # "portfolio" => ~busy) /\ busy' = TRUE /\ saving' = saving
         \/ k = "password" /\ ~saving /\ saving' = TRUE /\ busy' = busy
  PROVE  DeskInv'
<1>0. UNCHANGED <<page, books, flat, fetches, shown, error, confirm, lapse, untold>>
  BY DEF serverVars
<1>1. PICK i \in 1..MaxJobs \ DOMAIN jobs :
        /\ DOMAIN jobs' = DOMAIN jobs \cup {i}
        /\ \A n \in DOMAIN jobs : jobs'[n] = jobs[n]
        /\ jobs'[i].kind = k /\ jobs'[i].state = st /\ jobs'[i].home
  BY <1>0, JobsAdded DEF DeskInv
<1>2. JobsInv'
  BY <1>0, JobsAdded DEF DeskInv
<1>3. busy' \in BOOLEAN /\ saving' \in BOOLEAN
  BY DEF DeskInv, TypeInv
<1>4. TypeInv'
  BY <1>0, <1>2, <1>3 DEF DeskInv, TypeInv
<1>5. BooksInv'
  BY <1>0, <1>1, BooksKept DEF DeskInv
<1>6. FlagsInv'
  BY <1>0, <1>1, FlagsRaised DEF DeskInv
<1> QED
  BY <1>4, <1>5, <1>6 DEF DeskInv

LEMMA SubmitStep == DeskInv /\ Submit => DeskInv'
<1> SUFFICES ASSUME DeskInv, Submit
             PROVE  DeskInv'
  OBVIOUS
<1>1. PICK side \in {"BUY", "SELL"} : ~busy /\ Starts(side, "sent")
  BY DEF Submit, TicketEnabled
<1>2. page \in HomesOf(side) /\ busy' = TRUE /\ side \in Kinds /\ side # "password"
  BY DEF Submit, Submitting, HomesOf, Orders, Kinds
<1>3. UNCHANGED <<page, serverVars, fetches, shown, loading, error, saving, confirm, lapse, untold>>
  BY DEF Submit
<1>4. loading' \in BOOLEAN
  BY <1>3 DEF DeskInv, TypeInv
<1> QED
  BY <1>1, <1>2, <1>3, <1>4, StartStep DEF Kinds

LEMMA ResetStep == DeskInv /\ Reset => DeskInv'
<1> SUFFICES ASSUME DeskInv, Reset
             PROVE  DeskInv'
  OBVIOUS
<1>1. Starts("reset", "sent") /\ ~busy /\ page \in {"portfolio", "paper-account", "account"}
  BY DEF Reset, HandleReset, DoPaperReset, DoAccountReset, PortfolioResetOffered,
         PaperResetOffered, AccountResetOffered
<1>2. page \in HomesOf("reset") /\ busy' = TRUE /\ "reset" \in Kinds
  BY <1>1 DEF Reset, HomesOf, Orders, Kinds
<1>3. UNCHANGED <<page, serverVars, fetches, shown, loading, error, saving, confirm, lapse, untold>>
  BY DEF Reset
<1>4. loading' \in BOOLEAN
  BY <1>3 DEF DeskInv, TypeInv
<1> QED
  BY <1>1, <1>2, <1>3, <1>4, StartStep

LEMMA HandleRefreshStep == DeskInv /\ HandleRefresh => DeskInv'
<1> SUFFICES ASSUME DeskInv, HandleRefresh
             PROVE  DeskInv'
  OBVIOUS
<1>1. Starts("refresh", "refetching") /\ page = "portfolio" /\ busy' = TRUE /\ loading' = TRUE
  BY DEF HandleRefresh, RefreshOffered
<1>2. page \in HomesOf("refresh")
  BY <1>1 DEF HomesOf, Orders
<1>3. UNCHANGED <<page, serverVars, fetches, shown, error, saving, confirm, lapse, untold>>
  BY DEF HandleRefresh
<1> QED
  BY <1>1, <1>2, <1>3, StartStep

LEMMA SubmitPasswordStep == DeskInv /\ SubmitPassword => DeskInv'
<1> SUFFICES ASSUME DeskInv, SubmitPassword
             PROVE  DeskInv'
  OBVIOUS
<1>1. Starts("password", "sent") /\ page = "account" /\ ~saving /\ saving' = TRUE
  BY DEF SubmitPassword, PasswordOffered
<1>2. page \in HomesOf("password") /\ "password" \in Kinds
  BY <1>1 DEF HomesOf, Orders, Kinds
<1>3. UNCHANGED <<page, serverVars, fetches, shown, loading, error, busy, confirm, lapse, untold>>
  BY DEF SubmitPassword
<1>4. loading' \in BOOLEAN
  BY <1>3 DEF DeskInv, TypeInv
<1> QED
  BY <1>1, <1>2, <1>3, <1>4, StartStep

LEMMA AskToConfirmStep == DeskInv /\ AskToConfirm => DeskInv'
<1> SUFFICES ASSUME DeskInv, AskToConfirm
             PROVE  DeskInv'
  OBVIOUS
<1>1. UNCHANGED <<page, books, flat, fetches, shown, loading, error, jobs, busy, saving, lapse,
                 untold>>
  BY DEF AskToConfirm, serverVars
<1>2. confirm' \in BOOLEAN
  BY DEF AskToConfirm, DeskInv, TypeInv
<1>3. JobsInv'
  BY <1>1 DEF DeskInv, TypeInv, JobsInv, JobOK
<1>4. TypeInv'
  BY <1>1, <1>2, <1>3 DEF DeskInv, TypeInv
<1>5. BooksInv'
  BY <1>1, BooksKept DEF DeskInv
<1>6. FlagsInv'
  BY <1>1, FlagsKept DEF DeskInv
<1> QED
  BY <1>4, <1>5, <1>6 DEF DeskInv

(* What a landing read is of is as current as it was, and what else the    *)
(* page watches keeps its reads.                                           *)
LEMMA ReadLandsStep == DeskInv /\ ReadLands => DeskInv'
<1> SUFFICES ASSUME DeskInv, ReadLands
             PROVE  DeskInv'
  OBVIOUS
<1>0. UNCHANGED <<page, books, flat, jobs, busy, saving, confirm>>
  BY DEF ReadLands
<1>1. PICK f \in BagToSet(fetches), ok \in BOOLEAN : \E v \in f[2]..books :
        /\ Lands(f[1], ok, v)
        /\ Remembers(f[1], ok, v)
        /\ fetches' = fetches (-) SetToBag({f})
  BY DEF ReadLands
<1>2. f \in Needs(page) \X (0..books) /\ f[1] \in Whats /\ f[2] \in Nat /\ books \in Nat
  BY <1>1, WhatsNeeded, DeskAssumption DEF DeskInv, TypeInv, BagToSet
<1>3. PICK v \in f[2]..books :
        Lands(f[1], ok, v) /\ Remembers(f[1], ok, v) /\ fetches' = fetches (-) SetToBag({f})
  BY <1>1
<1>4. v \in 0..books /\ (f[2] = books => v = books)
  BY <1>2, <1>3
<1>5. TypeInv
  BY DEF DeskInv
<1>6. /\ shown' \in [Whats -> 0..MaxBooks \cup {None}]
      /\ loading' \in BOOLEAN /\ error' \in BOOLEAN /\ lapse' \subseteq Whats /\ untold' \in BOOLEAN
      /\ \A u \in Whats \ {f[1]} : shown'[u] = shown[u] /\ (Excused(u, lapse, untold) => Excused(u, lapse', untold'))
      /\ v = books \/ shown[f[1]] = books \/ Excused(f[1], lapse, untold)
           => shown'[f[1]] = books \/ Excused(f[1], lapse', untold')
  BY <1>2, <1>3, <1>4, <1>5, LandingFacts
<1>7. /\ DOMAIN fetches' \subseteq DOMAIN fetches /\ DOMAIN fetches \ {f} \subseteq DOMAIN fetches'
      /\ IsABag(fetches')
  <2>1. IsABag(fetches)
    BY <1>5 DEF TypeInv
  <2> QED
    BY <1>3, <2>1, ReadTaken
<1>8. JobsInv'
  BY <1>0, <1>5 DEF TypeInv, JobsInv, JobOK
<1>9. TypeInv'
  BY <1>0, <1>5, <1>6, <1>7, <1>8 DEF TypeInv
<1>10. BooksInv'
  <2> SUFFICES ASSUME NEW w \in Watched
               PROVE  CatchesUp(w)'
    BY <1>0 DEF BooksInv, Watched
  <2>1. CatchesUp(w) /\ w \in Whats
    BY WhatsNeeded DEF DeskInv, BooksInv, Whats
  <2>2. ASSUME NEW i \in DOMAIN jobs, Brings(jobs[i], w)
        PROVE  CatchesUp(w)'
    BY <1>0, <2>2 DEF CatchesUp, Brings, Awaited
  <2>3. CASE w = f[1]
    <3>1. <<w, books>> \in DOMAIN fetches => f = <<w, books>> \/ <<w, books>> \in DOMAIN fetches'
      BY <1>7
    <3>2. f = <<w, books>> => v = books
      BY <1>4
    <3> QED
      BY <1>0, <1>6, <2>1, <2>2, <2>3, <3>1, <3>2 DEF CatchesUp
  <2>4. CASE w # f[1]
    <3>1. <<w, books>> # f
      BY <2>4
    <3>2. shown'[w] = shown[w] /\ (Excused(w, lapse, untold) => Excused(w, lapse', untold'))
      BY <1>6, <2>1, <2>4
    <3>3. <<w, books>> \in DOMAIN fetches => <<w, books>> \in DOMAIN fetches'
      BY <1>7, <3>1
    <3> QED
      BY <1>0, <2>1, <2>2, <3>2, <3>3 DEF CatchesUp
  <2> QED
    BY <2>3, <2>4
<1>11. FlagsInv'
  BY <1>0, FlagsKept DEF DeskInv
<1> QED
  BY <1>9, <1>10, <1>11 DEF DeskInv

(* The read a handler awaited ends its job; a job that awaits one brings   *)
(* the page nothing else.                                                  *)
LEMMA RefetchLandsStep == DeskInv /\ RefetchLands => DeskInv'
<1> SUFFICES ASSUME DeskInv, RefetchLands
             PROVE  DeskInv'
  OBVIOUS
<1>0. UNCHANGED <<page, books, flat, fetches, saving>> /\ busy' = FALSE /\ confirm' = FALSE
  BY DEF RefetchLands, serverVars
<1>1. PICK i \in DOMAIN jobs, ok \in BOOLEAN :
        /\ jobs[i].state = "refetching"
        /\ \E v \in jobs[i].since..books :
             Lands(Awaited, ok, v) /\ Remembers(Awaited, ok, v)
        /\ jobs' = Without(i)
  BY DEF RefetchLands
<1>2. PICK v \in jobs[i].since..books :
        Lands(Awaited, ok, v) /\ Remembers(Awaited, ok, v)
  BY <1>1
<1>3. TypeInv
  BY DEF DeskInv
<1>4. jobs[i] \in Jobs /\ jobs[i].since <= books /\ JobOK(jobs[i]) /\ books \in Nat
  BY <1>3, DeskAssumption DEF TypeInv, JobsInv
<1>5. v \in 0..books /\ (jobs[i].since = books => v = books)
  BY <1>4, <1>2 DEF Jobs
<1>6. /\ shown' \in [Whats -> 0..MaxBooks \cup {None}]
      /\ loading' \in BOOLEAN /\ error' \in BOOLEAN /\ lapse' \subseteq Whats /\ untold' \in BOOLEAN
      /\ \A u \in Whats \ {Awaited} : shown'[u] = shown[u] /\ (Excused(u, lapse, untold) => Excused(u, lapse', untold'))
      /\ v = books \/ shown[Awaited] = books \/ Excused(Awaited, lapse, untold)
           => shown'[Awaited] = books \/ Excused(Awaited, lapse', untold')
  BY <1>1, <1>2, <1>3, <1>5, LandingFacts, WhatsNeeded
<1>7. DOMAIN jobs' = DOMAIN jobs \ {i} /\ \A n \in DOMAIN jobs \ {i} : jobs'[n] = jobs[n]
  BY <1>1, JobEnds
<1>8. JobsInv'
  BY <1>0, <1>1, <1>3, JobsInvEnds
<1>9. TypeInv'
  BY <1>0, <1>3, <1>6, <1>8 DEF TypeInv
<1>10. BooksInv'
  <2> SUFFICES ASSUME NEW w \in Watched
               PROVE  CatchesUp(w)'
    BY <1>0 DEF BooksInv, Watched
  <2>1. CatchesUp(w) /\ w \in Whats
    BY WhatsNeeded DEF DeskInv, BooksInv, Whats
  <2>2. ASSUME NEW n \in DOMAIN jobs \ {i}, Brings(jobs[n], w)
        PROVE  CatchesUp(w)'
    BY <1>0, <1>7, <2>2 DEF CatchesUp, Brings, Awaited
  <2>3. Brings(jobs[i], w) => w = Awaited /\ v = books
    BY <1>1, <1>5 DEF Brings
  <2>4. CASE w = Awaited
    BY <1>0, <1>6, <2>1, <2>2, <2>3, <2>4 DEF CatchesUp
  <2>5. CASE w # Awaited
    <3>1. shown'[w] = shown[w] /\ (Excused(w, lapse, untold) => Excused(w, lapse', untold'))
      BY <1>6, <2>1, <2>5
    <3> QED
      BY <1>0, <2>1, <2>2, <2>3, <2>5, <3>1 DEF CatchesUp
  <2> QED
    BY <2>4, <2>5
<1>11. FlagsInv'
  <2>1. Own(i) /\ ~OwnPassword(i)
    BY <1>1, <1>4 DEF JobOK, Own, OwnPassword
  <2> QED
    BY <1>0, <1>7, <2>1, FlagsFollow DEF DeskInv
<1> QED
  BY <1>9, <1>10, <1>11 DEF DeskInv

(* What the server carries out makes the books newer, and leaves either a  *)
(* client that has given up, or a request whose answer brings every page   *)
(* what it watches.                                                        *)
LEMMA ServerRunsStep == ASSUME NEW k \in Kinds PROVE DeskInv /\ ServerRuns(k) => DeskInv'
<1> SUFFICES ASSUME DeskInv, ServerRuns(k)
             PROVE  DeskInv'
  OBVIOUS
<1> DEFINE New(j) == [j EXCEPT !.state = IF books' # books \/ j.kind = "password"
                                         THEN "done" ELSE "refused"]
<1>0. UNCHANGED <<page, fetches, shown, loading, error, busy, saving, confirm>>
  BY DEF ServerRuns
<1>1. PICK i \in DOMAIN jobs :
        /\ jobs[i].kind = k /\ jobs[i].state \in {"sent", "ghost"}
        /\ \/ /\ CarriesOut(jobs[i])
              /\ lapse' = (IF jobs[i].state = "ghost" THEN Whats ELSE lapse)
              /\ untold' = (untold \/ Missed(k))
           \/ UNCHANGED <<books, flat, lapse, untold>>
        /\ jobs' = IF jobs[i].state = "ghost" THEN Without(i) ELSE [jobs EXCEPT ![i] = New(jobs[i])]
  BY DEF ServerRuns
<1>2. TypeInv
  BY DEF DeskInv
<1>3. jobs[i] \in Jobs /\ jobs[i].since <= books /\ JobOK(jobs[i])
  BY <1>2 DEF TypeInv, JobsInv
<1>4. books \in Nat /\ MaxBooks \in Nat /\ jobs[i].since \in Nat
  BY <1>2, <1>3, DeskAssumption DEF TypeInv, Jobs
<1>5. /\ books' = books \/ books' = books + 1
      /\ books' \in 0..MaxBooks /\ flat' \subseteq 0..MaxBooks /\ lapse' \subseteq Whats
  BY <1>1, <1>2, <1>4 DEF CarriesOut, TypeInv
<1>6. books' # books => /\ books' = books + 1 /\ jobs[i].kind \in Orders \cup {"reset"}
                        /\ lapse' = (IF jobs[i].state = "ghost" THEN Whats ELSE lapse)
                        /\ untold' = (untold \/ Missed(jobs[i].kind))
  BY <1>1 DEF CarriesOut, Orders
<1>11. untold' \in BOOLEAN /\ (untold => untold')
  <2>1. untold \in BOOLEAN /\ Missed(k) \in BOOLEAN
    BY <1>2 DEF TypeInv, Missed
  <2> QED
    BY <1>1, <2>1
<1>7. DOMAIN fetches' \subseteq Needs(page') \X (0..books')
  BY <1>0, <1>2, <1>4, <1>5 DEF TypeInv
<1>8. \A w : ~Brings(jobs[i], w)
  BY <1>1 DEF Brings
<1>9. CASE jobs[i].state = "ghost"
  <2>1. jobs' = Without(i) /\ ~jobs[i].home
    BY <1>1, <1>3, <1>9 DEF JobOK
  <2>2. DOMAIN jobs' = DOMAIN jobs \ {i} /\ \A n \in DOMAIN jobs \ {i} : jobs'[n] = jobs[n]
    BY <2>1, JobEnds
  <2>3. JobsInv'
    BY <1>0, <1>2, <1>5, <2>1, JobsInvEnds
  <2>4. TypeInv'
    BY <1>0, <1>2, <1>5, <1>7, <1>11, <2>3 DEF TypeInv
  <2>5. FlagsInv'
    BY <1>0, <2>1, <2>2, FlagsFollow DEF DeskInv, Own, OwnPassword
  <2>6. CASE books' # books
    BY <1>0, <1>6, <1>9, <2>4, <2>5, <2>6, BooksExcused DEF DeskInv
  <2>7. CASE books' = books
    <3>1. lapse \subseteq lapse'
      BY <1>1, <1>4, <2>7 DEF CarriesOut
    <3>2. BooksInv'
      BY <1>0, <1>8, <1>11, <2>2, <2>7, <3>1, BooksKept DEF DeskInv
    <3> QED
      BY <2>4, <2>5, <3>2 DEF DeskInv
  <2> QED
    BY <2>6, <2>7
<1>10. CASE jobs[i].state = "sent"
  <2> DEFINE j == New(jobs[i])
  <2>1. jobs' = [jobs EXCEPT ![i] = j]
    BY <1>1, <1>10
  <2>2. /\ j \in Jobs /\ j.since = jobs[i].since /\ j.kind = jobs[i].kind
        /\ j.home = jobs[i].home /\ j.state \in {"done", "refused"}
        /\ books' # books => j.state = "done"
    BY <1>3 DEF Jobs
  <2> HIDE DEF New
  <2>3. JobOK(j)
    BY <1>3, <1>10, <2>2 DEF JobOK
  <2>4. JobsInv'
    <3>1. j \in Jobs /\ j.since <= books'
      BY <1>3, <1>4, <1>5, <2>2
    <3>2. page' = page
      BY <1>0
    <3> QED
      BY <1>2, <1>5, <2>1, <2>3, <3>1, <3>2, JobsInvBecomes
  <2>5. TypeInv'
    BY <1>0, <1>2, <1>5, <1>7, <1>11, <2>4 DEF TypeInv
  <2>6. /\ DOMAIN jobs' = DOMAIN jobs /\ jobs'[i] = j
        /\ \A n \in DOMAIN jobs \ {i} : jobs'[n] = jobs[n]
    BY <2>1
  <2>7. FlagsInv'
    BY <1>0, <2>2, <2>6, FlagsKept DEF DeskInv
  <2>8. BooksInv'
    <3>1. CASE books' = books
      <4>1. lapse \subseteq lapse'
        BY <1>1, <1>4, <3>1 DEF CarriesOut
      <4> QED
        BY <1>0, <1>8, <1>11, <2>6, <3>1, <4>1, BooksKept DEF DeskInv
    <3>2. CASE books' # books
      <4>1. ASSUME NEW w \in Watched
            PROVE  Brings(j, w) \/ Excused(w, lapse', untold')
        <5>1. CASE j.kind \in Orders
          <6>1. w = "me" => Missed(jobs[i].kind)
            BY <2>2, <5>1 DEF Watched, Missed, Orders
          <6> QED
            BY <1>6, <2>2, <3>2, <5>1, <6>1 DEF Brings, Excused
        <5>2. CASE j.kind = "reset"
          <6>1. j.home => w = Awaited
            BY <2>3, <5>2, ResetReadsTheRest DEF JobOK
          <6> QED
            BY <2>2, <3>2, <5>2, <6>1 DEF Brings
        <5> QED
          BY <1>6, <2>2, <3>2, <5>1, <5>2
      <4>2. ASSUME NEW w \in Watched
            PROVE  CatchesUp(w)'
        <5>1. j.state = "done"
          BY <2>2, <3>2
        <5> QED
          BY <1>0, <2>6, <4>1, <5>1 DEF CatchesUp, Excused, Brings, Awaited
      <4> QED
        BY <1>0, <4>2 DEF BooksInv, Watched
    <3> QED
      BY <3>1, <3>2
  <2> QED
    BY <2>5, <2>7, <2>8 DEF DeskInv
<1> QED
  BY <1>1, <1>9, <1>10

(* The answer to an order: whatever the page watches is read again, but    *)
(* for the settings' balance.                                              *)
LEMMA OrderPlacedStep ==
  ASSUME DeskInv, UNCHANGED <<page, serverVars, shown, error>>, NEW i \in DOMAIN jobs,
         jobs[i].state = "done", jobs[i].kind \in Orders,
         OrderPlaced(jobs[i]), jobs' = Without(i)
  PROVE  DeskInv'
<1>0. UNCHANGED <<page, books, flat, shown, error, confirm, saving>>
  BY DEF OrderPlaced, serverVars
<1>1. /\ fetches' = fetches (+) Sends(Notified(jobs[i])) (+) Sends(OnPlaced(jobs[i]))
      /\ Notified(jobs[i]) = Listeners /\ OnPlaced(jobs[i]) \subseteq Listeners
  BY DEF OrderPlaced, Notified, OnPlaced
<1>2. /\ lapse' = lapse /\ untold' = untold /\ busy' = (busy /\ ~jobs[i].home)
      /\ loading' = (loading \/ "portfolio" \in Listeners)
  BY DEF OrderPlaced
<1>3. TypeInv
  BY DEF DeskInv
<1>4. /\ DOMAIN fetches' = DOMAIN fetches \cup {<<w, books>> : w \in Listeners}
                                      \cup {<<w, books>> : w \in OnPlaced(jobs[i])}
      /\ IsABag(fetches')
  <2> DEFINE vs == OnPlaced(jobs[i])
             B == fetches (+) Sends(Listeners)
  <2>0. IsABag(fetches)
    BY <1>3 DEF TypeInv
  <2>1. DOMAIN B = DOMAIN fetches \cup {<<w, books>> : w \in Listeners} /\ IsABag(B)
    BY <2>0, BagsOfReads
  <2>2. fetches' = B (+) Sends(vs)
    BY <1>1
  <2> HIDE DEF vs, B
  <2>3. /\ DOMAIN (B (+) Sends(vs)) = DOMAIN B \cup {<<w, books>> : w \in vs}
        /\ IsABag(B (+) Sends(vs))
    BY <2>1, BagsOfReads
  <2> QED
    BY <2>1, <2>2, <2>3 DEF vs
<1>5. DOMAIN fetches' \subseteq Needs(page) \X (0..books)
  <2>1. Listeners \subseteq Needs(page) /\ books \in 0..books
    BY <1>3, DeskAssumption DEF TypeInv, Listeners
  <2>2. DOMAIN fetches \subseteq Needs(page) \X (0..books)
    BY <1>3 DEF TypeInv
  <2>3. \A w \in Listeners : <<w, books>> \in Needs(page) \X (0..books)
    BY <2>1
  <2> QED
    BY <1>1, <1>4, <2>2, <2>3
<1>6. DOMAIN jobs' = DOMAIN jobs \ {i} /\ \A n \in DOMAIN jobs \ {i} : jobs'[n] = jobs[n]
  BY JobEnds
<1>7. JobsInv'
  BY <1>0, <1>3, JobsInvEnds
<1>8. /\ busy' \in BOOLEAN /\ loading' \in BOOLEAN /\ lapse' \subseteq Whats
      /\ untold' \in BOOLEAN
  <2>1. /\ busy \in BOOLEAN /\ loading \in BOOLEAN /\ lapse \subseteq Whats
        /\ untold \in BOOLEAN
    BY <1>3 DEF TypeInv
  <2>2. jobs[i].home \in BOOLEAN
    BY <1>3 DEF TypeInv, JobsInv, Jobs
  <2>3. busy' \in BOOLEAN
    BY <1>2, <2>1, <2>2
  <2>4. loading' \in BOOLEAN
    BY <1>2, <2>1
  <2> QED
    BY <1>2, <2>1, <2>3, <2>4
<1>9. TypeInv'
  BY <1>0, <1>3, <1>4, <1>5, <1>7, <1>8 DEF TypeInv
<1>10. BooksInv'
  <2>1. ASSUME NEW w \in Watched, Brings(jobs[i], w)
        PROVE  <<w, books>> \in DOMAIN fetches'
    <3>1. w # "me"
      BY <2>1 DEF Brings, Orders
    <3>2. w \in Listeners
      BY <3>1, WhatsNeeded DEF Watched, Listeners
    <3> QED
      BY <1>4, <3>2
  <2>2. /\ lapse \subseteq lapse' /\ (untold => untold')
        /\ DOMAIN fetches \subseteq DOMAIN fetches'
    BY <1>2, <1>4
  <2> QED
    BY <1>0, <1>6, <2>1, <2>2, BooksKept DEF DeskInv
<1>11. FlagsInv'
  <2>1. ~OwnPassword(i) /\ (Own(i) <=> jobs[i].home)
    BY DEF Own, OwnPassword, Orders
  <2> QED
    BY <1>0, <1>2, <1>6, <2>1, FlagsFollow DEF DeskInv
<1> QED
  BY <1>9, <1>10, <1>11 DEF DeskInv

(* The answer to a reset: the handler reads on, if its page is there. *)
LEMMA ResetRepliedStep ==
  ASSUME DeskInv, UNCHANGED <<page, serverVars, shown, error>>, NEW i \in DOMAIN jobs,
         jobs[i].state = "done", jobs[i].kind = "reset", ResetReplied(i)
  PROVE  DeskInv'
<1>0. UNCHANGED <<page, books, flat, shown, error, fetches, busy, saving, confirm, untold>>
  BY DEF ResetReplied, serverVars
<1>1. /\ jobs' = IF jobs[i].home THEN [jobs EXCEPT ![i] = Refetch(jobs[i])] ELSE Without(i)
      /\ lapse' = IF jobs[i].home THEN lapse ELSE Whats
      /\ loading' = (loading \/ (jobs[i].home /\ page # "account"))
  BY DEF ResetReplied
<1>2. TypeInv
  BY DEF DeskInv
<1>3. jobs[i] \in Jobs /\ jobs[i].since <= books /\ JobOK(jobs[i]) /\ books \in 0..MaxBooks
  BY <1>2 DEF TypeInv, JobsInv
<1>4. loading' \in BOOLEAN /\ lapse' \subseteq Whats
  BY <1>1, <1>2 DEF TypeInv, Jobs
<1>5. CASE jobs[i].home
  <2> DEFINE j == Refetch(jobs[i])
  <2>1. jobs' = [jobs EXCEPT ![i] = j]
    BY <1>1, <1>5
  <2>2. /\ j \in Jobs /\ j.since = books /\ j.kind = jobs[i].kind
        /\ j.home = jobs[i].home /\ j.state = "refetching"
    BY <1>3 DEF Jobs, Refetch
  <2> HIDE DEF j
  <2>3. JobOK(j)
    BY <1>3, <1>5, <2>2 DEF JobOK
  <2>4. /\ DOMAIN jobs' = DOMAIN jobs /\ jobs'[i] = j
        /\ \A n \in DOMAIN jobs \ {i} : jobs'[n] = jobs[n]
    BY <2>1
  <2>5. j.since <= books'
    BY <1>0, <1>3, <2>2, DeskAssumption
  <2>6. JobsInv'
    BY <1>0, <1>2, <2>1, <2>2, <2>3, <2>5, JobsInvBecomes
  <2>7. TypeInv'
    BY <1>0, <1>2, <1>4, <2>6 DEF TypeInv
  <2>8. BooksInv'
    <3>1. ASSUME NEW w, Brings(jobs[i], w)
          PROVE  Brings(jobs'[i], w)
      BY <1>5, <2>2, <2>4, <3>1 DEF Brings, Orders
    <3>2. lapse \subseteq lapse'
      BY <1>1, <1>5
    <3> QED
      BY <1>0, <2>4, <3>1, <3>2, BooksKept DEF DeskInv
  <2>9. FlagsInv'
    BY <1>0, <2>2, <2>4, FlagsKept DEF DeskInv
  <2> QED
    BY <2>7, <2>8, <2>9 DEF DeskInv
<1>6. CASE ~jobs[i].home
  <2>1. jobs' = Without(i) /\ lapse' = Whats
    BY <1>1, <1>6
  <2>2. DOMAIN jobs' = DOMAIN jobs \ {i} /\ \A n \in DOMAIN jobs \ {i} : jobs'[n] = jobs[n]
    BY <2>1, JobEnds
  <2>3. JobsInv'
    BY <1>0, <1>2, <2>1, JobsInvEnds
  <2>4. TypeInv'
    BY <1>0, <1>2, <1>4, <2>3 DEF TypeInv
  <2>5. FlagsInv'
    BY <1>0, <1>6, <2>2, FlagsFollow DEF DeskInv, Own, OwnPassword
  <2> QED
    BY <1>0, <2>1, <2>4, <2>5, BooksExcused DEF DeskInv
<1> QED
  BY <1>5, <1>6

(* A handler that fails, or whose request was refused, takes its flag down.*)
LEMMA HandlerFailsStep ==
  ASSUME DeskInv, UNCHANGED <<page, serverVars, shown, error, untold>>, NEW i \in DOMAIN jobs,
         HandlerFails(jobs[i]),
         \/ jobs' = Without(i)
         \/ jobs[i].state = "sent" /\ jobs' = [jobs EXCEPT ![i] = GivesUp(jobs[i])],
         \/ lapse' = Whats
         \/ lapse' = lapse /\ \A w : ~Brings(jobs[i], w)
  PROVE  DeskInv'
<1>0. UNCHANGED <<page, books, flat, shown, error, fetches, loading, confirm, untold>>
  BY DEF HandlerFails, serverVars
<1>1. /\ busy' = (busy /\ (~jobs[i].home \/ jobs[i].kind = "password"))
      /\ saving' = (saving /\ (~jobs[i].home \/ jobs[i].kind # "password"))
  BY DEF HandlerFails
<1>2. TypeInv
  BY DEF DeskInv
<1>3. jobs[i] \in Jobs /\ jobs[i].since <= books /\ JobOK(jobs[i]) /\ books \in 0..MaxBooks
  BY <1>2 DEF TypeInv, JobsInv
<1>4. lapse' \subseteq Whats /\ busy' \in BOOLEAN /\ saving' \in BOOLEAN
  BY <1>1, <1>2 DEF TypeInv
<1>5. /\ JobsInv' /\ DOMAIN jobs' \subseteq DOMAIN jobs
      /\ \A n \in DOMAIN jobs \ {i} : n \in DOMAIN jobs' /\ jobs'[n] = jobs[n]
      /\ i \in DOMAIN jobs' => ~jobs'[i].home
  <2>1. CASE jobs' = Without(i)
    <3>1. JobsInv'
      BY <1>0, <1>2, <2>1, JobsInvEnds
    <3> QED
      BY <2>1, <3>1, JobEnds
  <2>2. CASE jobs[i].state = "sent" /\ jobs' = [jobs EXCEPT ![i] = GivesUp(jobs[i])]
    <3> DEFINE j == GivesUp(jobs[i])
    <3>1. /\ j \in Jobs /\ j.since = jobs[i].since /\ j.kind = jobs[i].kind
          /\ ~j.home /\ j.state = "ghost"
      BY <1>3 DEF Jobs, GivesUp
    <3>2. jobs' = [jobs EXCEPT ![i] = j]
      BY <2>2
    <3> HIDE DEF j
    <3>3. JobOK(j)
      BY <1>3, <2>2, <3>1 DEF JobOK
    <3>4. JobsInv'
      BY <1>0, <1>2, <1>3, <3>1, <3>2, <3>3, JobsInvBecomes
    <3> QED
      BY <3>1, <3>2, <3>4
  <2> QED
    BY <2>1, <2>2
<1>6. TypeInv'
  BY <1>0, <1>2, <1>4, <1>5 DEF TypeInv
<1>7. BooksInv'
  <2>1. CASE lapse' = Whats
    BY <1>0, <2>1, BooksExcused
  <2>2. CASE lapse' = lapse /\ \A w : ~Brings(jobs[i], w)
    BY <1>0, <1>5, <2>2, BooksKept DEF DeskInv
  <2> QED
    BY <2>1, <2>2
<1>8. FlagsInv'
  <2>1. (busy' <=> busy /\ ~Own(i)) /\ (saving' <=> saving /\ ~OwnPassword(i))
    BY <1>1 DEF Own, OwnPassword
  <2> QED
    BY <1>0, <1>5, <2>1, FlagsFollow DEF DeskInv
<1> QED
  BY <1>6, <1>7, <1>8 DEF DeskInv

LEMMA RepliedStep == ASSUME NEW k \in Kinds PROVE DeskInv /\ Replied(k) => DeskInv'
<1> SUFFICES ASSUME DeskInv, Replied(k)
             PROVE  DeskInv'
  OBVIOUS
<1>1. UNCHANGED <<page, serverVars, shown, error>>
  BY DEF Replied
<1>2. PICK i \in DOMAIN jobs :
        \/ /\ jobs[i].state = "done" /\ jobs[i].kind \in {"BUY", "SELL"}
           /\ OrderPlaced(jobs[i]) /\ jobs' = Without(i)
        \/ jobs[i].state = "done" /\ jobs[i].kind = "reset" /\ ResetReplied(i)
        \/ /\ jobs[i].state = "refused" \/ (jobs[i].state = "done" /\ jobs[i].kind = "password")
           /\ HandlerFails(jobs[i]) /\ jobs' = Without(i)
           /\ UNCHANGED <<lapse, untold>>
  BY DEF Replied
<1>3. CASE /\ jobs[i].state = "done" /\ jobs[i].kind \in {"BUY", "SELL"}
           /\ OrderPlaced(jobs[i]) /\ jobs' = Without(i)
  BY <1>1, <1>3, OrderPlacedStep DEF Orders
<1>4. CASE jobs[i].state = "done" /\ jobs[i].kind = "reset" /\ ResetReplied(i)
  BY <1>1, <1>4, ResetRepliedStep
<1>5. CASE /\ jobs[i].state = "refused" \/ (jobs[i].state = "done" /\ jobs[i].kind = "password")
           /\ HandlerFails(jobs[i]) /\ jobs' = Without(i)
           /\ UNCHANGED <<lapse, untold>>
  <2>1. \A w : ~Brings(jobs[i], w)
    BY <1>5 DEF Brings, Orders
  <2> QED
    BY <1>1, <1>5, <2>1, HandlerFailsStep
<1> QED
  BY <1>2, <1>3, <1>4, <1>5

LEMMA ReplyLostStep == DeskInv /\ ReplyLost => DeskInv'
<1> SUFFICES ASSUME DeskInv, ReplyLost
             PROVE  DeskInv'
  OBVIOUS
<1>1. UNCHANGED <<page, serverVars, shown, error, untold>>
  BY DEF ReplyLost
<1>2. PICK i \in DOMAIN jobs :
        /\ jobs[i].state \in {"sent", "done"} /\ HandlerFails(jobs[i])
        /\ jobs' = IF jobs[i].state = "sent" THEN [jobs EXCEPT ![i] = GivesUp(jobs[i])]
                   ELSE Without(i)
        /\ lapse' = IF jobs[i].state = "done" THEN Whats ELSE lapse
  BY DEF ReplyLost
<1>3. CASE jobs[i].state = "sent"
  <2>1. \A w : ~Brings(jobs[i], w)
    BY <1>3 DEF Brings
  <2>2. lapse' = lapse /\ jobs' = [jobs EXCEPT ![i] = GivesUp(jobs[i])]
    BY <1>2, <1>3
  <2> QED
    BY <1>1, <1>2, <1>3, <2>1, <2>2, HandlerFailsStep
<1>4. CASE jobs[i].state = "done"
  <2>1. lapse' = Whats /\ jobs' = Without(i)
    BY <1>2, <1>4
  <2> QED
    BY <1>1, <1>2, <2>1, HandlerFailsStep
<1> QED
  BY <1>2, <1>3, <1>4

(* A page that mounts reads all it needs; none of the requests that the    *)
(* last one left behind is its own.                                        *)
LEMMA NavigateStep == DeskInv /\ Navigate => DeskInv'
<1> SUFFICES ASSUME DeskInv, Navigate
             PROVE  DeskInv'
  OBVIOUS
<1>1. PICK q \in Links(page) : page' = q /\ DeskMounts(q)
  BY DEF Navigate
<1>2. page' \in Routes
  BY <1>1 DEF Links, Sidebar, Cards, Modules, Routes, LabRoutes, DeskRoutes
<1>3. /\ fetches' = Sends(Needs(page')) /\ shown' = [w \in Whats |-> None]
      /\ loading' = TRUE /\ error' = FALSE /\ busy' = FALSE /\ saving' = FALSE
      /\ confirm' = FALSE /\ lapse' = {} /\ untold' = FALSE /\ books' = books /\ flat' = flat
      /\ jobs' = Strays
  BY <1>1 DEF DeskMounts, serverVars
<1>4. TypeInv
  BY DEF DeskInv
<1>5. DOMAIN fetches' = {<<w, books>> : w \in Needs(page')} /\ IsABag(fetches')
  BY <1>3, BagsOfReads
<1>6. /\ DOMAIN jobs' = {n \in DOMAIN jobs : Outlives(jobs[n])}
      /\ jobs' = [n \in DOMAIN jobs' |-> jobs'[n]]
      /\ \A n \in DOMAIN jobs' : jobs'[n] = [jobs[n] EXCEPT !.home = FALSE]
  BY <1>3 DEF Strays
<1>7. ASSUME NEW n \in DOMAIN jobs'
      PROVE  /\ jobs'[n] \in Jobs /\ jobs'[n].since <= books /\ ~jobs'[n].home
             /\ jobs'[n].kind # "refresh" /\ jobs'[n].state # "refetching"
  <2>1. n \in DOMAIN jobs /\ Outlives(jobs[n]) /\ jobs[n] \in Jobs /\ jobs[n].since <= books
    BY <1>4, <1>6 DEF TypeInv, JobsInv
  <2>2. jobs'[n] = [jobs[n] EXCEPT !.home = FALSE]
    BY <1>6
  <2>3. jobs'[n] \in Jobs
    BY <2>1, <2>2 DEF Jobs
  <2>4. /\ jobs'[n].since = jobs[n].since /\ jobs'[n].kind = jobs[n].kind
        /\ jobs'[n].state = jobs[n].state /\ jobs'[n].home = FALSE
    BY <2>1, <2>2 DEF Jobs
  <2>5. jobs[n].kind # "refresh" /\ jobs[n].state # "refetching"
    BY <2>1 DEF Outlives
  <2> QED
    BY <2>1, <2>3, <2>4, <2>5
<1>8. JobsInv'
  <2>1. DOMAIN jobs' \subseteq 1..MaxJobs
    BY <1>4, <1>6 DEF TypeInv, JobsInv
  <2>2. jobs' \in [DOMAIN jobs' -> Jobs]
    BY <1>6, <1>7
  <2> QED
    BY <1>3, <1>7, <2>1, <2>2 DEF JobsInv, JobOK
<1>9. TypeInv'
  <2>1. DOMAIN fetches' \subseteq Needs(page') \X (0..books) /\ IsABag(fetches')
    BY <1>4, <1>5, DeskAssumption DEF TypeInv
  <2>2. shown' \in [Whats -> 0..MaxBooks \cup {None}]
    BY <1>3
  <2> QED
    BY <1>2, <1>3, <1>4, <1>8, <2>1, <2>2 DEF TypeInv
<1>10. BooksInv'
  <2> SUFFICES ASSUME NEW w \in Watched'
               PROVE  CatchesUp(w)'
    BY DEF BooksInv
  <2>1. <<w, books>> \in DOMAIN fetches'
    BY <1>5 DEF Watched
  <2> QED
    BY <1>3, <2>1 DEF CatchesUp
<1>11. FlagsInv'
  BY <1>3, <1>7 DEF FlagsInv, Own, OwnPassword
<1> QED
  BY <1>9, <1>10, <1>11 DEF DeskInv

-----------------------------------------------------------------------------
(* The invariant, and what it says. *)

LEMMA InitDesk == Init => DeskInv
<1> SUFFICES ASSUME Init
             PROVE  DeskInv
  OBVIOUS
<1>1. /\ page = "dashboard" /\ books = 0 /\ flat \in {{}, {0}} /\ DOMAIN jobs = {}
      /\ jobs = [i \in {} |-> None] /\ busy = FALSE /\ saving = FALSE /\ lapse = {}
      /\ loading = TRUE /\ error = FALSE /\ confirm = FALSE /\ untold = FALSE
      /\ shown = [w \in Whats |-> None] /\ fetches = Sends(Needs(page))
  BY DEF Init
<1>2. DOMAIN fetches = {<<w, books>> : w \in Needs(page)} /\ IsABag(fetches)
  BY <1>1, BagsOfReads
<1>3. JobsInv
  BY <1>1 DEF JobsInv
<1>4. TypeInv
  <2>1. page \in Routes /\ books \in 0..MaxBooks /\ flat \subseteq 0..MaxBooks
    BY <1>1, DeskAssumption DEF Routes, DeskRoutes
  <2>2. DOMAIN fetches \subseteq Needs(page) \X (0..books)
    BY <1>1, <1>2
  <2>3. shown \in [Whats -> 0..MaxBooks \cup {None}]
    BY <1>1
  <2> QED
    BY <1>1, <1>2, <1>3, <2>1, <2>2, <2>3 DEF TypeInv
<1>5. BooksInv
  BY <1>2 DEF BooksInv, CatchesUp, Watched
<1>6. FlagsInv
  BY <1>1 DEF FlagsInv
<1> QED
  BY <1>4, <1>5, <1>6 DEF DeskInv

LEMMA DeskInvariant == Spec => []DeskInv
<1>1. DeskInv /\ [Next]_vars => DeskInv'
  <2> SUFFICES ASSUME DeskInv, [Next]_vars
               PROVE  DeskInv'
    OBVIOUS
  <2>1. CASE UNCHANGED vars
    BY <2>1 DEF vars, deskVars, DeskInv, TypeInv, JobsInv, JobOK, BooksInv, Watched, CatchesUp,
                Excused, Brings, Awaited, FlagsInv, Own, OwnPassword
  <2>2. ASSUME NEW k \in Kinds, ServerRuns(k) \/ Replied(k)
        PROVE  DeskInv'
    BY <2>2, ServerRunsStep, RepliedStep
  <2> QED
    BY <2>1, <2>2, ReadLandsStep, SubmitStep, ResetStep, HandleRefreshStep, SubmitPasswordStep,
       AskToConfirmStep, ReplyLostStep, RefetchLandsStep, NavigateStep DEF Next
<1> QED
  BY <1>1, InitDesk, PTL DEF Spec

(* The state of the desk is typed, what is in flight is what the mounted   *)
(* page reads, and a job at home is one its page can have started.         *)
THEOREM DeskTypeCorrect == Spec => []DeskTypeOK
<1>1. DeskInv => DeskTypeOK
  <2> SUFFICES ASSUME DeskInv
               PROVE  DeskTypeOK
    OBVIOUS
  <2>1. TypeInv
    BY DEF DeskInv
  <2>2. ASSUME NEW f \in BagToSet(fetches)
        PROVE  f[1] \in Needs(page) /\ f[2] <= books
    <3>1. f \in Needs(page) \X (0..books)
      BY <2>1 DEF TypeInv, BagToSet
    <3>2. f[1] \in Needs(page) /\ f[2] \in 0..books
      BY <3>1
    <3> QED
      BY <3>2
  <2>3. \A i \in DOMAIN jobs : jobs[i].home => page \in HomesOf(jobs[i].kind)
    BY <2>1 DEF TypeInv, JobsInv, JobOK
  <2>4. {loading, error, busy, saving, confirm, untold} \subseteq BOOLEAN
    BY <2>1 DEF TypeInv
  <2>5. /\ books \in 0..MaxBooks /\ flat \subseteq 0..MaxBooks
        /\ shown \in [Whats -> 0..MaxBooks \cup {None}] /\ lapse \subseteq Whats
    BY <2>1 DEF TypeInv
  <2> QED
    BY <2>2, <2>3, <2>4, <2>5 DEF DeskTypeOK, HomesOf, Orders
<1> QED
  BY <1>1, DeskInvariant, PTL

(* Once nothing is in flight, the positions and the recent trades on the   *)
(* screen are the server's, unless a read failed or was overtaken, an      *)
(* answer was lost, or a reset's page was left (tradeService.js:9-24); and *)
(* so is the settings' balance, unless an order was answered after the page*)
(* had read it (Account.jsx:46-54).                                        *)
THEOREM ScreensCatchUp == Spec => []BooksShownAreCurrent
<1>1. DeskInv => BooksShownAreCurrent
  BY DEF DeskInv, BooksInv, CatchesUp, Excused, Watched, BooksShownAreCurrent, BagToSet
<1> QED
  BY <1>1, DeskInvariant, PTL

(* A set is told from its members: with at most one of them, and one       *)
(* exactly if the flag is up, it has as many as the flag says.             *)
LEMMA FlagCounts ==
  ASSUME NEW S, NEW flag \in BOOLEAN, \A i, k \in S : i = k, flag <=> \E i \in S : TRUE
  PROVE  Cardinality(S) = (IF flag THEN 1 ELSE 0)
<1>1. CASE flag
  <2>1. PICK i \in S : S = {i}
    BY <1>1
  <2>2. Cardinality({i}) = 1
    BY FS_Singleton
  <2> QED
    BY <1>1, <2>1, <2>2
<1>2. CASE ~flag
  <2>1. S = {}
    BY <1>2
  <2>2. Cardinality({}) = 0
    BY FS_EmptySet
  <2> QED
    BY <1>2, <2>1, <2>2
<1> QED
  BY <1>1, <1>2

(* A form has one request out at a time, and its controls are disabled     *)
(* exactly while it has one (OrderTicket.jsx:45, PaperAccount.jsx:167,     *)
(* Account.jsx:221).                                                       *)
THEOREM OneJobAtHome == Spec => []OneJobPerPage
<1>1. DeskInv => OneJobPerPage
  <2> SUFFICES ASSUME DeskInv, page # "portfolio"
               PROVE  LET own == {i \in DOMAIN jobs : jobs[i].home}
                      IN /\ Cardinality({i \in own : jobs[i].kind # "password"})
                              = (IF busy THEN 1 ELSE 0)
                         /\ Cardinality({i \in own : jobs[i].kind = "password"})
                              = (IF saving THEN 1 ELSE 0)
    BY DEF OneJobPerPage
  <2> DEFINE own == {i \in DOMAIN jobs : jobs[i].home}
             O == {i \in own : jobs[i].kind # "password"}
             P == {i \in own : jobs[i].kind = "password"}
  <2>1. /\ \A i, k \in O : i = k
        /\ \A i, k \in P : i = k
        /\ busy <=> \E i \in O : TRUE
        /\ saving <=> \E i \in P : TRUE
    BY DEF DeskInv, FlagsInv, Own, OwnPassword
  <2>2. busy \in BOOLEAN /\ saving \in BOOLEAN
    BY DEF DeskInv, TypeInv
  <2> HIDE DEF O, P
  <2>3. Cardinality(O) = (IF busy THEN 1 ELSE 0) /\ Cardinality(P) = (IF saving THEN 1 ELSE 0)
    BY <2>1, <2>2, FlagCounts
  <2> QED
    BY <2>3 DEF O, P
<1> QED
  BY <1>1, DeskInvariant, PTL
=============================================================================
