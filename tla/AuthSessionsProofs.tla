------------------------- MODULE AuthSessionsProofs -------------------------
(***************************************************************************)
(* Proofs about the tabs of a browser and the server that keeps their      *)
(* refresh tokens: calls wait only for a refresh that is out, a tab never  *)
(* spoils its own token, and rotation leaves no dead cookie behind.        *)
(***************************************************************************)
EXTENDS AuthSessions, FiniteSetTheorems, WellFoundedInduction, TLAPS

-----------------------------------------------------------------------------
(* The inductive invariant. *)

Minting == {"refresh", "hydrate", "login", "register"}
Rotating == {"refresh", "hydrate"}

(* How far an exchange of each kind gets, and when it holds a token. *)
StepsOf(kind) ==
  CASE kind = "none" -> {"free"}
    [] kind \in Rotating -> {"get", "delete", "issue", "reply", "refused"}
    [] kind = "register" -> {"lookup", "insert", "issue", "reply", "refused"}
    [] kind = "login" -> {"issue", "reply"}
    [] kind = "logout" -> {"revoke", "reply"}
ShapeOK(e) ==
  /\ e.step \in StepsOf(e.kind)
  /\ e.kind = "none" => e.tab = NoTab /\ e.token = NoToken
  /\ e.step = "issue" => e.token = NoToken
  /\ e.step = "delete" => e.token # NoToken
  /\ e.kind \in {"login", "register"} /\ e.step # "reply" => e.token = NoToken
ShapeInv == \A x \in Exchanges : ShapeOK(xchg[x])

(* refreshInFlight names the refresh of its tab, and there is no other. *)
FlightInv ==
  /\ \A t \in Tabs : flight[t] # NoExchange =>
       xchg[flight[t]].kind = "refresh" /\ xchg[flight[t]].tab = t
  /\ \A x \in Exchanges : xchg[x].kind = "refresh" /\ xchg[x].tab # NoTab =>
       flight[xchg[x].tab] = x
  /\ \A c \in Calls : call[c].at = "waiting" => flight[TabOf[c]] # NoExchange

(* A reply nobody waits for is a lost one. *)
LostInv ==
  \A x \in Exchanges : xchg[x].kind \in Minting /\ xchg[x].step # "refused" /\ xchg[x].tab = NoTab
    => lost

(* A token on its way to the browser is stored, and nobody else has it. *)
MintInv ==
  \A x \in Exchanges : xchg[x].kind \in Minting /\ xchg[x].step = "reply" =>
    /\ xchg[x].token \in live /\ xchg[x].token # cookie
    /\ \A y \in Exchanges \ {x} : xchg[y].token # xchg[x].token

(* A tab presents a token once at a time. *)
OnceInv ==
  \A x, y \in Exchanges :
    /\ xchg[x].kind \in Rotating /\ xchg[y].kind \in Rotating
    /\ xchg[x].tab = xchg[y].tab /\ xchg[x].tab # NoTab
    /\ xchg[x].token = xchg[y].token /\ xchg[x].token # NoToken
    => x = y

(* While a page load presents the cookie, its page has nothing to send.    *)
Quiet(t) == access[t] = "none" /\ \A c \in Calls : TabOf[c] = t => call[c].at = "idle"
QuietInv ==
  \A x \in Exchanges :
    xchg[x].kind = "hydrate" /\ xchg[x].tab # NoTab /\ xchg[x].token = cookie /\ cookie # NoToken
    => Quiet(xchg[x].tab)

(* A cookie without a key was ended, or a rotation of it is on its way     *)
(* back, of which the tab cannot start a second one.                       *)
Replaces(x) ==
  /\ xchg[x].kind \in Rotating /\ xchg[x].step \in {"issue", "reply"} /\ xchg[x].tab # NoTab
  /\ xchg[x].tab \in rotators[cookie]
  /\ xchg[x].kind = "hydrate" => Quiet(xchg[x].tab)
CookieInv ==
  lost \/ cookie \in live \cup ended \cup {NoToken} \/ \E x \in Exchanges : Replaces(x)

(* A token presented in vain was ended, or another tab has rotated it. *)
Excused(x) ==
  \/ lost \/ xchg[x].token \in ended \/ rotators[xchg[x].token] \ {xchg[x].tab} # {}
  \/ xchg[x].step = "get" /\ xchg[x].token \in live
RefusedInv ==
  \A x \in Exchanges :
    xchg[x].step \in {"get", "refused"} /\ xchg[x].tab # NoTab /\ xchg[x].token # NoToken
    => Excused(x)

AuthInv ==
  /\ TypeOK /\ ShapeInv /\ FlightInv /\ LostInv /\ MintInv
  /\ OnceInv /\ QuietInv /\ CookieInv /\ RefusedInv

-----------------------------------------------------------------------------
(* What the operators of the sessions do. *)

Entries ==
  [kind : {"none", "refresh", "hydrate", "register", "login", "logout"}, tab : Tabs \cup {NoTab},
   step : {"free", "lookup", "insert", "get", "delete", "issue", "revoke", "reply", "refused"},
   token : Tokens \cup {NoToken}]
CallStates ==
  [at : {"idle", "sent", "waiting"}, token : {"none", "fresh", "stale"}, retried : BOOLEAN]

LEMMA TokensTyped ==
  /\ Cardinality(Exchanges) \in Nat /\ MaxToken \in Nat
  /\ Tokens \subseteq Nat /\ NoToken \notin Tokens
BY TokenAssumption, FS_CardinalityType DEF Tokens, NoToken

LEMMA Typed ==
  ASSUME TypeOK
  PROVE  /\ \A x \in Exchanges : xchg[x] \in Entries
         /\ xchg \in [Exchanges -> Entries] /\ call \in [Calls -> CallStates]
         /\ \A c \in Calls : call[c] \in CallStates /\ TabOf[c] \in Tabs
         /\ \A t \in Tabs : access[t] \in {"none", "fresh", "stale"}
BY TabOfAssumption DEF TypeOK, Entries, CallStates

(* What somebody holds is not forgotten. *)
Remembers(ks, ds, h) ==
  /\ known' = known /\ live' \in SUBSET Tokens /\ live' \subseteq ks
  /\ ended' \in SUBSET (Tokens \cup {NoToken})
  /\ rotators' \in [Tokens -> SUBSET (Tabs \cup {NoTab})]
  /\ cookie' \in ks => cookie' \in live'
  /\ cookie' \in ds => cookie' \in ended'
  /\ cookie' \in Tokens => rotators'[cookie'] = h[cookie']
  /\ \A x \in Exchanges :
       /\ xchg'[x].token \in ks => xchg'[x].token \in live'
       /\ xchg'[x].token \in ds => xchg'[x].token \in ended'
       /\ xchg'[x].token \in Tokens => rotators'[xchg'[x].token] = h[xchg'[x].token]

LEMMA ForgetFacts ==
  ASSUME NEW ks \in SUBSET Tokens, NEW ds \in SUBSET (Tokens \cup {NoToken}),
         NEW h \in [Tokens -> SUBSET (Tabs \cup {NoTab})], Forget(ks, ds, h)
  PROVE  Remembers(ks, ds, h)
<1>1. cookie' \in Held' /\ \A x \in Exchanges : xchg'[x].token \in Held'
  BY DEF Held
<1>2. /\ known' = known /\ live' = ks \cap Held' /\ ended' = ds \cap Held'
      /\ rotators' = [k \in Tokens |-> IF k \in Held' THEN h[k] ELSE {}]
  BY DEF Forget
<1>3. rotators' \in [Tokens -> SUBSET (Tabs \cup {NoTab})]
  BY <1>2
<1>4. \A k \in Tokens : k \in Held' => rotators'[k] = h[k]
  BY <1>2
<1> QED
  BY <1>1, <1>2, <1>3, <1>4 DEF Remembers

(* Every set of naturals has a least one. *)
LEMMA LeastOne ==
  ASSUME NEW T \in SUBSET Nat, T # {}
  PROVE  \E n \in T : \A m \in T : n <= m
<1> DEFINE Less == {ss \in Nat \X Nat : ss[1] < ss[2]}
<1>1. IsWellFoundedOn(Less, Nat)
  BY NatLessThanWellFounded, Zenon DEF OpToRel
<1>2. PICK n \in T : \A m \in T : <<m, n>> \notin Less
  <2> HIDE DEF Less
  <2> QED
    BY <1>1, WFMin
<1>3. ASSUME NEW m \in T
      PROVE  n <= m
  <2>1. <<m, n>> \in Nat \X Nat /\ ~(<<m, n>>[1] < <<m, n>>[2])
    BY <1>2
  <2> QED
    BY <2>1
<1> QED
  BY <1>3

(* There is a token left for an exchange that holds none: otherwise two    *)
(* tokens would have the same holder.                                      *)
LEMMA NewTokenIsNew ==
  ASSUME TypeOK, NEW x \in Exchanges, xchg[x].token = NoToken
  PROVE  NewToken \in Tokens \ Held
<1>1. Tokens \ Held # {}
  <2> SUFFICES ASSUME Tokens \subseteq Held
               PROVE  FALSE
    OBVIOUS
  <2> DEFINE Holder == [k \in Tokens |-> IF k = cookie THEN x
                                         ELSE CHOOSE y \in Exchanges : xchg[y].token = k]
  <2>1. \A k \in Tokens : k = cookie \/ \E y \in Exchanges : xchg[y].token = k
    BY DEF Held
  <2>2. Holder \in [Tokens -> Exchanges]
    BY <2>1
  <2>3. \A k \in Tokens : /\ k = cookie => Holder[k] = x
                          /\ k # cookie => xchg[Holder[k]].token = k
    BY <2>1
  <2>4. IsFiniteSet(Tokens) /\ Cardinality(Exchanges) < Cardinality(Tokens)
    BY TokensTyped, TokenAssumption, FS_Interval DEF Tokens
  <2> HIDE DEF Holder
  <2>5. PICK k, l \in Tokens : k # l /\ Holder[k] = Holder[l]
    BY <2>2, <2>4, TokenAssumption, FS_PigeonHole
  <2> QED
    BY <2>3, <2>5, TokensTyped
<1>2. PICK n \in Tokens \ Held : \A m \in Tokens \ Held : n <= m
  BY <1>1, LeastOne, TokensTyped
<1> QED
  BY <1>2 DEF NewToken, Min

-----------------------------------------------------------------------------
(* Steps that touch no exchange: calls sent, answered and expiring. *)

LEMMA CallsOnly ==
  ASSUME AuthInv, UNCHANGED <<tokens, cookie, xchg, flight, lost>>,
         access' \in [Tabs -> {"none", "fresh", "stale"}], call' \in [Calls -> CallStates],
         \A t \in Tabs : access'[t] = "none" <=> access[t] = "none",
         \A c \in Calls :
           /\ call'[c].at # "idle" => call[c].at # "idle" \/ access[TabOf[c]] # "none"
           /\ call'[c].at = "waiting" => flight[TabOf[c]] # NoExchange
  PROVE  AuthInv'
<1>1. UNCHANGED <<known, live, ended, rotators, cookie, xchg, flight, lost>>
  BY DEF tokens
<1>2. TypeOK'
  BY <1>1 DEF AuthInv, TypeOK, CallStates
<1>3. \A t \in Tabs : Quiet(t) => Quiet(t)'
  BY DEF Quiet
<1>4. ShapeInv' /\ LostInv' /\ MintInv' /\ OnceInv'
  BY <1>1 DEF AuthInv, ShapeInv, ShapeOK, LostInv, MintInv, OnceInv
<1>5. FlightInv'
  BY <1>1 DEF AuthInv, FlightInv
<1>6. \A x \in Exchanges : xchg[x].tab # NoTab => xchg[x].tab \in Tabs
  BY Typed DEF AuthInv, Entries
<1>7. QuietInv'
  BY <1>1, <1>3, <1>6 DEF AuthInv, QuietInv
<1>8. CookieInv'
  BY <1>1, <1>3, <1>6 DEF AuthInv, CookieInv, Replaces
<1>9. RefusedInv'
  BY <1>1 DEF AuthInv, RefusedInv, Excused
<1> QED
  BY <1>2, <1>4, <1>5, <1>7, <1>8, <1>9 DEF AuthInv

(* The pieces of the invariant that say nothing of calls, for steps that   *)
(* leave Quiet pages quiet.                                                *)
LEMMA TabsTyped ==
  ASSUME TypeOK
  PROVE  \A x \in Exchanges : /\ xchg[x].tab # NoTab => xchg[x].tab \in Tabs
                              /\ xchg[x].token # NoToken => xchg[x].token \in Tokens
BY Typed DEF Entries

(* A free slot's exchange waits for nothing. *)
LEMMA FreeIsNone ==
  ASSUME TypeOK, ShapeInv, NEW x \in FreeSlots
  PROVE  x \in Exchanges /\ xchg[x].step = "free" /\ xchg[x].kind = "none" /\ xchg[x].tab = NoTab
BY Typed DEF FreeSlots, ShapeInv, ShapeOK, StepsOf, Rotating, Entries

LEMMA OpenedFacts ==
  ASSUME TypeOK, NEW t \in Tabs, NEW kind \in {"refresh", "hydrate", "register", "login", "logout"}
  PROVE  LET e == Opened(kind, t)
         IN /\ e \in Entries /\ e.kind = kind /\ e.tab = t /\ ShapeOK(e)
            /\ e.token \in {cookie, NoToken}
            /\ e.step \notin {"free", "delete", "reply", "refused"}
            /\ kind \in Rotating => e.step = "get" /\ e.token = cookie
            /\ kind \notin Rotating => e.step # "get"
<1> DEFINE e == Opened(kind, t)
<1>1. /\ e.kind = kind /\ e.tab = t
      /\ e.token = IF kind \in {"login", "register"} THEN NoToken ELSE cookie
      /\ e.step = CASE kind = "login" -> "issue" [] kind = "register" -> "lookup"
                    [] kind = "logout" -> "revoke" [] OTHER -> "get"
  BY DEF Opened
<1>2. e \in Entries
  BY <1>1 DEF Opened, Entries, TypeOK
<1>3. ShapeOK(e)
  BY <1>1 DEF ShapeOK, StepsOf, Rotating
<1> QED
  BY <1>1, <1>2, <1>3 DEF Rotating

(* A request of a tab takes a free slot; a refresh is that of a call that  *)
(* waits for it, in a tab where none is out.                               *)
LEMMA Opens ==
  ASSUME AuthInv, NEW x \in FreeSlots, NEW t \in Tabs,
         NEW kind \in {"refresh", "register", "login", "logout"},
         xchg' = [xchg EXCEPT ![x] = Opened(kind, t)],
         UNCHANGED <<tokens, cookie, access, lost>>, call' \in [Calls -> CallStates],
         \A c \in Calls : call'[c].at = "idle" <=> call[c].at = "idle",
         \A c \in Calls : call'[c].at = "waiting" => call[c].at = "waiting" \/ flight'[TabOf[c]] = x,
         \/ kind # "refresh" /\ flight' = flight
         \/ /\ kind = "refresh" /\ flight[t] = NoExchange /\ flight' = [flight EXCEPT ![t] = x]
            /\ ~Quiet(t)
  PROVE  AuthInv'
<1> DEFINE e == Opened(kind, t)
<1>1. UNCHANGED <<known, live, ended, rotators, cookie, access, lost>>
  BY DEF tokens
<1>2. TypeOK /\ ShapeInv /\ FlightInv
  BY DEF AuthInv
<1>3. /\ e \in Entries /\ e.kind = kind /\ e.tab = t /\ ShapeOK(e)
      /\ e.token \in {cookie, NoToken}
      /\ e.step \notin {"free", "delete", "reply", "refused"}
      /\ kind \in Rotating => e.step = "get" /\ e.token = cookie
      /\ kind \notin Rotating => e.step # "get"
  BY <1>2, OpenedFacts
<1> HIDE DEF e
<1>4. x \in Exchanges /\ xchg[x].step = "free" /\ xchg[x].kind = "none" /\ xchg[x].tab = NoTab
  BY <1>2, FreeIsNone
<1>5. /\ xchg' \in [Exchanges -> Entries] /\ xchg'[x] = e
      /\ \A y \in Exchanges \ {x} : xchg'[y] = xchg[y]
  BY <1>2, <1>3, <1>4, Typed DEF e
<1>6. flight' \in [Tabs -> Exchanges \cup {NoExchange}]
  BY <1>2, <1>4 DEF TypeOK
<1>7. t # NoTab /\ x # NoExchange
  BY <1>4, NamesAssumption
<1>8. \A u \in Tabs : Quiet(u) => Quiet(u)'
  BY <1>1 DEF Quiet
<1>9. \A y \in Exchanges : /\ xchg[y].tab # NoTab => xchg[y].tab \in Tabs
                           /\ xchg[y].token # NoToken => xchg[y].token \in Tokens
  BY <1>2, TabsTyped
<1>10. TypeOK'
  BY <1>1, <1>2, <1>5, <1>6 DEF TypeOK, Entries, CallStates
<1>11. ShapeInv'
  BY <1>2, <1>3, <1>5 DEF ShapeInv, ShapeOK
<1>12. FlightInv'
  <2>1. CASE kind # "refresh" /\ flight' = flight
    <3>1. \A u \in Tabs : flight[u] # x
      BY <1>2, <1>4, <1>7 DEF FlightInv
    <3>2. \A u \in Tabs : flight[u] # NoExchange => flight[u] \in Exchanges
      BY <1>2 DEF TypeOK
    <3>3. \A u \in Tabs : flight'[u] # NoExchange =>
             xchg'[flight'[u]].kind = "refresh" /\ xchg'[flight'[u]].tab = u
      BY <1>2, <1>5, <2>1, <3>1, <3>2 DEF FlightInv
    <3>4. \A y \in Exchanges : xchg'[y].kind = "refresh" /\ xchg'[y].tab # NoTab =>
             flight'[xchg'[y].tab] = y
      BY <1>2, <1>3, <1>5, <2>1 DEF FlightInv
    <3>5. \A c \in Calls : call'[c].at = "waiting" => flight'[TabOf[c]] # NoExchange
      BY <1>2, <1>7, <2>1 DEF FlightInv
    <3> QED
      BY <3>3, <3>4, <3>5 DEF FlightInv
  <2>2. CASE kind = "refresh" /\ flight[t] = NoExchange /\ flight' = [flight EXCEPT ![t] = x]
    <3>0. flight \in [Tabs -> Exchanges \cup {NoExchange}] /\ \A c \in Calls : TabOf[c] \in Tabs
      BY <1>2, Typed DEF TypeOK
    <3>1. flight'[t] = x /\ \A u \in Tabs \ {t} : flight'[u] = flight[u]
      BY <2>2, <3>0
    <3>2. \A u \in Tabs : flight[u] # x
      BY <1>2, <1>4, <1>7 DEF FlightInv
    <3>3. \A u \in Tabs : flight'[u] # NoExchange =>
             xchg'[flight'[u]].kind = "refresh" /\ xchg'[flight'[u]].tab = u
      BY <1>2, <1>3, <1>5, <2>2, <3>0, <3>1, <3>2 DEF FlightInv
    <3>4. ASSUME NEW y \in Exchanges, xchg'[y].kind = "refresh", xchg'[y].tab # NoTab
          PROVE  flight'[xchg'[y].tab] = y
      <4>1. CASE y = x
        BY <1>3, <1>5, <3>1, <4>1
      <4>2. CASE y # x
        <5>1. flight[xchg[y].tab] = y /\ xchg'[y] = xchg[y] /\ xchg[y].tab \in Tabs
          BY <1>2, <1>5, <1>9, <3>4, <4>2 DEF FlightInv
        <5>2. xchg[y].tab # t
          BY <2>2, <5>1, NamesAssumption
        <5> QED
          BY <3>1, <5>1, <5>2
      <4> QED
        BY <4>1, <4>2
    <3>5. \A c \in Calls : call'[c].at = "waiting" => flight'[TabOf[c]] # NoExchange
      BY <1>2, <1>7, <3>0, <3>1 DEF FlightInv
    <3> QED
      BY <3>3, <3>4, <3>5 DEF FlightInv
  <2> QED
    BY <2>1, <2>2
<1>13. LostInv'
  BY <1>1, <1>3, <1>5, <1>7 DEF AuthInv, LostInv
<1>14. MintInv'
  <2> SUFFICES ASSUME NEW y \in Exchanges, xchg'[y].kind \in Minting, xchg'[y].step = "reply"
               PROVE  /\ xchg'[y].token \in live' /\ xchg'[y].token # cookie'
                      /\ \A z \in Exchanges \ {y} : xchg'[z].token # xchg'[y].token
    BY DEF MintInv
  <2>1. y # x /\ xchg'[y] = xchg[y]
    BY <1>3, <1>5
  <2>2. /\ xchg[y].token \in live /\ xchg[y].token # cookie
        /\ \A z \in Exchanges \ {y} : xchg[z].token # xchg[y].token
    BY <2>1 DEF AuthInv, MintInv
  <2>3. xchg[y].token # NoToken
    BY <1>2, <2>2, TokensTyped DEF TypeOK
  <2> QED
    BY <1>1, <1>3, <1>5, <2>1, <2>2, <2>3
<1>15. OnceInv'
  <2> SUFFICES ASSUME NEW y \in Exchanges, NEW z \in Exchanges, y # z,
                      xchg'[y].kind \in Rotating, xchg'[z].kind \in Rotating,
                      xchg'[y].tab = xchg'[z].tab, xchg'[y].tab # NoTab,
                      xchg'[y].token = xchg'[z].token, xchg'[y].token # NoToken
               PROVE  FALSE
    BY DEF OnceInv
  <2>1. ASSUME NEW w \in Exchanges \ {x}, xchg[w].kind \in Rotating, xchg[w].tab = t,
               xchg[w].token = cookie, cookie # NoToken, kind \in Rotating
        PROVE  FALSE
    <3>1. kind = "refresh" /\ flight[t] = NoExchange /\ ~Quiet(t)
      BY <2>1 DEF Rotating
    <3>2. xchg[w].kind # "refresh"
      BY <1>2, <1>7, <2>1, <3>1, NamesAssumption DEF FlightInv
    <3>3. Quiet(t)
      BY <1>7, <2>1, <3>2 DEF AuthInv, QuietInv, Rotating
    <3> QED
      BY <3>1, <3>3
  <2>2. CASE y # x /\ z # x
    BY <1>5, <2>2 DEF AuthInv, OnceInv
  <2>3. CASE y = x
    BY <1>3, <1>5, <2>1, <2>3
  <2>4. CASE z = x
    BY <1>3, <1>5, <2>1, <2>4
  <2> QED
    BY <2>2, <2>3, <2>4
<1>16. QuietInv'
  BY <1>1, <1>3, <1>5, <1>8, <1>9 DEF AuthInv, QuietInv
<1>17. \A y \in Exchanges : Replaces(y) => y # x /\ Replaces(y)'
  BY <1>1, <1>4, <1>5, <1>8, <1>9 DEF Replaces
<1>18. CookieInv'
  BY <1>1, <1>17 DEF AuthInv, CookieInv
<1>19. RefusedInv'
  <2> SUFFICES ASSUME NEW y \in Exchanges, xchg'[y].step \in {"get", "refused"},
                      xchg'[y].tab # NoTab, xchg'[y].token # NoToken
               PROVE  Excused(y)'
    BY DEF RefusedInv
  <2>1. CASE y # x
    BY <1>1, <1>5, <2>1 DEF AuthInv, RefusedInv, Excused
  <2>2. CASE y = x
    <3>1. kind = "refresh" /\ e.step = "get" /\ e.token = cookie /\ cookie # NoToken
      BY <1>3, <1>5, <2>2 DEF Rotating
    <3>2. CASE lost \/ cookie \in live \cup ended
      BY <1>1, <1>5, <2>2, <3>1, <3>2 DEF Excused
    <3>3. CASE \E w \in Exchanges : Replaces(w)
      <4>1. PICK w \in Exchanges : Replaces(w)
        BY <3>3
      <4>2. xchg[w].tab \in rotators[cookie]
        BY <4>1 DEF Replaces
      <4>3. xchg[w].tab # t
        <5>1. flight[t] = NoExchange /\ ~Quiet(t)
          BY <3>1
        <5>2. CASE xchg[w].kind = "refresh"
          BY <1>2, <1>7, <4>1, <5>1, <5>2, NamesAssumption DEF FlightInv, Replaces
        <5>3. CASE xchg[w].kind = "hydrate"
          BY <4>1, <5>1, <5>3 DEF Replaces
        <5> QED
          BY <4>1, <5>2, <5>3 DEF Replaces, Rotating
      <4>4. rotators'[e.token] \ {e.tab} # {}
        BY <1>1, <1>3, <3>1, <4>2, <4>3
      <4> QED
        BY <1>5, <2>2, <4>4 DEF Excused
    <3> QED
      BY <3>1, <3>2, <3>3 DEF AuthInv, CookieInv
  <2> QED
    BY <2>1, <2>2
<1> QED
  BY <1>10, <1>11, <1>12, <1>13, <1>14, <1>15, <1>16, <1>18, <1>19 DEF AuthInv

-----------------------------------------------------------------------------
(* Steps that let go of an exchange: the model forgets what nobody holds.  *)

LEMMA Kept ==
  ASSUME TypeOK, Forget(live, ended, rotators)
  PROVE  Remembers(live, ended, rotators)
BY ForgetFacts DEF TypeOK

LEMMA ExcusedKept ==
  ASSUME TypeOK, Forget(live, ended, rotators), lost => lost', NEW y \in Exchanges,
         xchg'[y] = xchg[y], xchg[y].token # NoToken, Excused(y)
  PROVE  Excused(y)'
<1>1. xchg[y].token \in Tokens
  BY TabsTyped
<1> QED
  BY <1>1, Kept DEF Remembers, Excused

LEMMA ReplacesKept ==
  ASSUME TypeOK, Forget(live, ended, rotators), cookie' = cookie, cookie \in Tokens,
         NEW y \in Exchanges, xchg'[y] = xchg[y], Replaces(y),
         Quiet(xchg[y].tab) => Quiet(xchg[y].tab)'
  PROVE  Replaces(y)'
<1>1. rotators'[cookie'] = rotators[cookie]
  BY Kept DEF Remembers
<1> QED
  BY <1>1 DEF Replaces, Quiet

(* A cookie that was excused stays so, or its replacement is still coming. *)
LEMMA CookieKept ==
  ASSUME TypeOK, CookieInv, Forget(live, ended, rotators), cookie' = cookie, lost => lost',
         \A y \in Exchanges : Replaces(y) => lost' \/ (xchg'[y] = xchg[y] /\
                                (Quiet(xchg[y].tab) => Quiet(xchg[y].tab)'))
  PROVE  CookieInv'
<1>1. CASE lost \/ cookie \in live \cup ended \cup {NoToken}
  BY <1>1, Kept DEF Remembers, CookieInv
<1>2. CASE ~(lost \/ cookie \in live \cup ended \cup {NoToken})
  <2>1. PICK y \in Exchanges : Replaces(y)
    BY <1>2 DEF CookieInv
  <2>2. cookie \in Tokens
    BY <1>2 DEF TypeOK
  <2>3. lost' \/ Replaces(y)'
    BY <2>1, <2>2, ReplacesKept
  <2> QED
    BY <2>3 DEF CookieInv
<1> QED
  BY <1>1, <1>2

(* Tokens on their way stay stored and unshared, as long as what others    *)
(* come to hold is the cookie, nothing, or what they held.                 *)
LEMMA MintKept ==
  ASSUME TypeOK, MintInv, Forget(live, ended, rotators), cookie' \in {cookie, NoToken},
         \A y \in Exchanges : xchg'[y].token \in {xchg[y].token, cookie, NoToken},
         \A y \in Exchanges : xchg'[y].kind \in Minting /\ xchg'[y].step = "reply" =>
           xchg'[y].kind = xchg[y].kind /\ xchg[y].step = "reply" /\ xchg'[y].token = xchg[y].token
  PROVE  MintInv'
<1> SUFFICES ASSUME NEW y \in Exchanges, xchg'[y].kind \in Minting, xchg'[y].step = "reply"
             PROVE  /\ xchg'[y].token \in live' /\ xchg'[y].token # cookie'
                    /\ \A z \in Exchanges \ {y} : xchg'[z].token # xchg'[y].token
  BY DEF MintInv
<1>1. /\ xchg'[y].token = xchg[y].token /\ xchg[y].token \in live /\ xchg[y].token # cookie
      /\ \A z \in Exchanges \ {y} : xchg[z].token # xchg[y].token
  BY DEF MintInv
<1>2. xchg[y].token # NoToken
  BY <1>1, TokensTyped DEF TypeOK
<1> QED
  BY <1>1, <1>2, Kept DEF Remembers

LEMMA LoadPageStep ==
  ASSUME AuthInv, NEW t \in Tabs, NEW x \in Exchanges, LoadPage(t, x),
         xchg[x].step = "free" \/ xchg[x].tab = t
  PROVE  AuthInv'
<1> DEFINE e == Opened("hydrate", t)
<1>1. TypeOK /\ ShapeInv /\ FlightInv
  BY DEF AuthInv
<1>2. /\ e \in Entries /\ e.kind = "hydrate" /\ e.tab = t /\ ShapeOK(e)
      /\ e.token = cookie /\ e.step = "get"
  BY <1>1, OpenedFacts DEF Rotating
<1>3. /\ xchg' = [y \in Exchanges |-> IF y = x THEN e
                                      ELSE IF xchg[y].tab = t THEN [xchg[y] EXCEPT !.tab = NoTab]
                                      ELSE xchg[y]]
      /\ access' = [access EXCEPT ![t] = "none"]
      /\ call' = [c \in Calls |-> IF TabOf[c] = t THEN Idle ELSE call[c]]
      /\ flight' = [flight EXCEPT ![t] = NoExchange]
      /\ lost' = (lost \/ \E y \in Exchanges : xchg[y].tab = t /\ Mints(y))
      /\ cookie' = cookie
      /\ Forget(live, ended, rotators)
  BY DEF LoadPage
<1> HIDE DEF e
<1>4. /\ known' = known /\ live' \in SUBSET Tokens
      /\ ended' \in SUBSET (Tokens \cup {NoToken})
      /\ rotators' \in [Tokens -> SUBSET (Tabs \cup {NoTab})]
  BY <1>1, <1>3, Kept DEF Remembers
<1>5. /\ xchg'[x] = e
      /\ \A y \in Exchanges \ {x} :
           /\ xchg[y].tab # t => xchg'[y] = xchg[y]
           /\ xchg[y].tab = t => xchg'[y] = [xchg[y] EXCEPT !.tab = NoTab]
  BY <1>3
<1>6. ASSUME NEW y \in Exchanges \ {x}
      PROVE  /\ xchg'[y] \in Entries /\ xchg'[y].tab # t
             /\ xchg'[y].kind = xchg[y].kind /\ xchg'[y].step = xchg[y].step
             /\ xchg'[y].token = xchg[y].token
             /\ xchg'[y].tab # NoTab => xchg'[y] = xchg[y]
  <2>1. xchg[y] \in Entries /\ t # NoTab
    BY <1>1, Typed, NamesAssumption
  <2> QED
    BY <1>5, <2>1 DEF Entries
<1>7. xchg' \in [Exchanges -> Entries]
  <2>1. \A y \in Exchanges : xchg'[y] \in Entries
    BY <1>2, <1>5, <1>6
  <2> QED
    BY <1>3, <2>1
<1>8. t # NoTab /\ (lost => lost') /\ lost' \in BOOLEAN
  BY <1>1, <1>3, NamesAssumption DEF TypeOK
<1>9. Quiet(t)' /\ \A u \in Tabs : Quiet(u) => Quiet(u)'
  <2>1. access'[t] = "none" /\ \A u \in Tabs : access[u] = "none" => access'[u] = "none"
    BY <1>1, <1>3 DEF TypeOK
  <2>2. \A c \in Calls : (TabOf[c] = t => call'[c].at = "idle")
                         /\ (call[c].at = "idle" => call'[c].at = "idle")
    BY <1>3 DEF Idle
  <2> QED
    BY <2>1, <2>2 DEF Quiet
<1>10. TypeOK'
  <2>1. call' \in [Calls -> CallStates]
    BY <1>1, <1>3, Typed DEF Idle, CallStates
  <2>2. access' \in [Tabs -> {"none", "fresh", "stale"}]
    BY <1>1, <1>3 DEF TypeOK
  <2>3. flight' \in [Tabs -> Exchanges \cup {NoExchange}]
    BY <1>1, <1>3 DEF TypeOK
  <2> QED
    BY <1>1, <1>3, <1>4, <1>7, <1>8, <2>1, <2>2, <2>3 DEF TypeOK, Entries, CallStates
<1>11. ShapeInv'
  <2> SUFFICES ASSUME NEW y \in Exchanges PROVE ShapeOK(xchg'[y])
    BY DEF ShapeInv, ShapeOK
  <2>1. CASE y = x
    BY <1>2, <1>5, <2>1
  <2>2. CASE y # x
    <3>1. ShapeOK(xchg[y])
      BY <1>1 DEF ShapeInv
    <3>2. xchg'[y].tab # NoTab => xchg'[y].tab = xchg[y].tab
      BY <1>6, <2>2
    <3> QED
      BY <1>6, <2>2, <3>1, <3>2 DEF ShapeOK
  <2> QED
    BY <2>1, <2>2
<1>12. FlightInv'
  <2>1. flight'[t] = NoExchange /\ \A u \in Tabs \ {t} : flight'[u] = flight[u]
    BY <1>1, <1>3 DEF TypeOK
  <2>2. ASSUME NEW u \in Tabs, flight'[u] # NoExchange
        PROVE  xchg'[flight'[u]].kind = "refresh" /\ xchg'[flight'[u]].tab = u
    <3>1. u # t /\ flight'[u] = flight[u] /\ flight[u] \in Exchanges
      BY <1>1, <2>1, <2>2 DEF TypeOK
    <3>2. xchg[flight[u]].kind = "refresh" /\ xchg[flight[u]].tab = u
      BY <1>1, <2>2, <3>1 DEF FlightInv
    <3>3. flight[u] # x
      BY <1>1, <3>1, <3>2 DEF ShapeInv, ShapeOK, StepsOf, Rotating
    <3> QED
      BY <1>5, <3>1, <3>2, <3>3
  <2>3. ASSUME NEW y \in Exchanges, xchg'[y].kind = "refresh", xchg'[y].tab # NoTab
        PROVE  flight'[xchg'[y].tab] = y
    <3>1. y # x /\ xchg'[y] = xchg[y] /\ xchg[y].tab # t
      BY <1>2, <1>5, <1>6, <2>3
    <3>2. xchg[y].tab \in Tabs
      BY <1>1, <2>3, <3>1, TabsTyped
    <3> QED
      BY <1>1, <2>1, <2>3, <3>1, <3>2 DEF FlightInv
  <2>4. ASSUME NEW c \in Calls, call'[c].at = "waiting"
        PROVE  flight'[TabOf[c]] # NoExchange
    <3>1. TabOf[c] # t /\ call[c].at = "waiting" /\ TabOf[c] \in Tabs
      BY <1>1, <1>3, <2>4, Typed DEF Idle
    <3> QED
      BY <1>1, <2>1, <3>1 DEF FlightInv
  <2> QED
    BY <2>2, <2>3, <2>4 DEF FlightInv
<1>13. LostInv'
  <2> SUFFICES ASSUME NEW y \in Exchanges, xchg'[y].kind \in Minting,
                      xchg'[y].step # "refused", xchg'[y].tab = NoTab
               PROVE  lost'
    BY DEF LostInv
  <2>1. y # x /\ xchg[y].kind \in Minting /\ xchg[y].step # "refused"
    BY <1>2, <1>5, <1>6, <1>8
  <2>2. CASE xchg[y].tab = t
    BY <1>3, <2>1, <2>2 DEF Mints, Minting
  <2>3. CASE xchg[y].tab # t
    BY <1>5, <1>8, <2>1, <2>3 DEF AuthInv, LostInv
  <2> QED
    BY <2>2, <2>3
<1>14. MintInv'
  <2>1. \A y \in Exchanges : xchg'[y].token \in {xchg[y].token, cookie, NoToken}
    BY <1>2, <1>5, <1>6
  <2>2. \A y \in Exchanges : xchg'[y].kind \in Minting /\ xchg'[y].step = "reply" =>
          xchg'[y].kind = xchg[y].kind /\ xchg[y].step = "reply" /\ xchg'[y].token = xchg[y].token
    BY <1>2, <1>5, <1>6
  <2> QED
    BY <1>1, <1>3, <2>1, <2>2, MintKept DEF AuthInv
<1>15. OnceInv'
  <2> SUFFICES ASSUME NEW y \in Exchanges, NEW z \in Exchanges, y # z,
                      xchg'[y].kind \in Rotating, xchg'[z].kind \in Rotating,
                      xchg'[y].tab = xchg'[z].tab, xchg'[y].tab # NoTab,
                      xchg'[y].token = xchg'[z].token, xchg'[y].token # NoToken
               PROVE  FALSE
    BY DEF OnceInv
  <2>1. y # x /\ z # x
    BY <1>2, <1>5, <1>6
  <2> QED
    BY <1>6, <2>1 DEF AuthInv, OnceInv
<1>16. QuietInv'
  <2> SUFFICES ASSUME NEW y \in Exchanges, xchg'[y].kind = "hydrate", xchg'[y].tab # NoTab,
                      xchg'[y].token = cookie', cookie' # NoToken
               PROVE  Quiet(xchg[y].tab)'
    BY DEF QuietInv
  <2>1. CASE y = x
    <3>1. xchg'[y].tab = t
      BY <1>2, <1>5, <2>1
    <3> QED
      BY <1>9, <3>1 DEF Quiet
  <2>2. CASE y # x
    <3>1. xchg'[y] = xchg[y] /\ xchg[y].tab \in Tabs
      BY <1>1, <1>6, <2>2, TabsTyped
    <3>2. Quiet(xchg[y].tab)
      BY <1>3, <3>1 DEF AuthInv, QuietInv
    <3> QED
      BY <1>9, <3>1, <3>2 DEF Quiet
  <2> QED
    BY <2>1, <2>2
<1>17. CookieInv'
  <2>1. ASSUME NEW y \in Exchanges, Replaces(y)
        PROVE  lost' \/ (xchg'[y] = xchg[y] /\ (Quiet(xchg[y].tab) => Quiet(xchg[y].tab)'))
    <3>1. CASE xchg[y].tab = t
      BY <1>3, <2>1, <3>1 DEF Replaces, Mints, Rotating
    <3>2. CASE xchg[y].tab # t
      <4>1. y # x /\ xchg[y].tab \in Tabs
        BY <1>1, <2>1, <3>2, TabsTyped DEF Replaces
      <4> QED
        BY <1>5, <1>9, <3>2, <4>1
    <3> QED
      BY <3>1, <3>2
  <2> QED
    BY <1>1, <1>3, <1>8, <2>1, CookieKept DEF AuthInv
<1>18. RefusedInv'
  <2> SUFFICES ASSUME NEW y \in Exchanges, xchg'[y].step \in {"get", "refused"},
                      xchg'[y].tab # NoTab, xchg'[y].token # NoToken
               PROVE  Excused(y)'
    BY DEF RefusedInv
  <2>1. CASE y # x
    <3>1. xchg'[y] = xchg[y]
      BY <1>6, <2>1
    <3>2. Excused(y)
      BY <3>1 DEF AuthInv, RefusedInv
    <3> QED
      BY <1>1, <1>3, <1>8, <3>1, <3>2, ExcusedKept
  <2>2. CASE y = x
    <3>1. CASE lost' \/ cookie' \in live' \cup ended'
      BY <1>2, <1>3, <1>5, <2>2, <3>1 DEF Excused
    <3>2. CASE \E w \in Exchanges : Replaces(w)'
      <4>1. PICK w \in Exchanges : Replaces(w)'
        BY <3>2
      <4>2. w # x /\ xchg'[w].tab \in rotators'[cookie']
        BY <1>2, <1>5, <4>1 DEF Replaces
      <4>3. xchg'[w].tab # t
        BY <1>6, <4>2
      <4> QED
        BY <1>2, <1>3, <1>5, <2>2, <4>2, <4>3 DEF Excused
    <3>3. cookie' # NoToken
      BY <1>2, <1>3, <1>5, <2>2
    <3> QED
      BY <1>17, <3>1, <3>2, <3>3 DEF CookieInv
  <2> QED
    BY <2>1, <2>2
<1> QED
  BY <1>10, <1>11, <1>12, <1>13, <1>14, <1>15, <1>16, <1>17, <1>18 DEF AuthInv

-----------------------------------------------------------------------------
(* The server's steps: one exchange moves on, and its tab does not change. *)

(* What the server does reaches no tab. *)
LEMMA TabsUntouched ==
  ASSUME AuthInv, NEW x \in Exchanges, NEW e \in Entries,
         xchg' = [xchg EXCEPT ![x] = e], e.kind = xchg[x].kind, e.tab = xchg[x].tab, ShapeOK(e),
         xchg[x].step # "refused", xchg[x].kind # "none",
         UNCHANGED <<cookie, access, call, flight, lost>>
  PROVE  /\ xchg' \in [Exchanges -> Entries] /\ xchg'[x] = e
         /\ \A y \in Exchanges \ {x} : xchg'[y] = xchg[y]
         /\ ShapeInv' /\ FlightInv' /\ LostInv'
         /\ \A y \in Exchanges : xchg[y].tab # NoTab =>
              (Quiet(xchg[y].tab) => Quiet(xchg[y].tab)')
<1>1. TypeOK /\ ShapeInv /\ FlightInv
  BY DEF AuthInv
<1>2. /\ xchg' \in [Exchanges -> Entries] /\ xchg'[x] = e
      /\ \A y \in Exchanges \ {x} : xchg'[y] = xchg[y]
  BY <1>1, Typed
<1>3. \A y \in Exchanges : xchg'[y].kind = xchg[y].kind /\ xchg'[y].tab = xchg[y].tab
  BY <1>2
<1>4. ShapeInv'
  BY <1>1, <1>2 DEF ShapeInv, ShapeOK
<1>5. FlightInv'
  <2>1. \A t \in Tabs : flight[t] # NoExchange => flight[t] \in Exchanges
    BY <1>1 DEF TypeOK
  <2> QED
    BY <1>1, <1>3, <2>1 DEF FlightInv
<1>6. LostInv'
  BY <1>2 DEF AuthInv, LostInv
<1>7. \A y \in Exchanges : xchg[y].tab # NoTab => (Quiet(xchg[y].tab) => Quiet(xchg[y].tab)')
  BY <1>3 DEF Quiet
<1> QED
  BY <1>2, <1>4, <1>5, <1>6, <1>7

(* A lookup, an insertion, and a GET that finds nothing or something. *)
LEMMA StepOnly ==
  ASSUME AuthInv, NEW x \in Exchanges, NEW s \in {"insert", "issue", "delete", "refused"},
         xchg[x].step \in {"lookup", "insert", "get"},
         s \in StepsOf(xchg[x].kind), xchg' = [xchg EXCEPT ![x].step = s],
         s = "issue" => xchg[x].step = "insert",
         s = "delete" => xchg[x].step = "get" /\ xchg[x].token \in live,
         s = "refused" /\ xchg[x].step = "get" => xchg[x].token \notin live,
         known' \in BOOLEAN, UNCHANGED <<live, ended, rotators, cookie, access, call, flight, lost>>
  PROVE  AuthInv'
<1> DEFINE e == [xchg[x] EXCEPT !.step = s]
<1>1. TypeOK /\ ShapeInv /\ xchg[x] \in Entries /\ ShapeOK(xchg[x])
  BY Typed DEF AuthInv, ShapeInv
<1>2. /\ e \in Entries /\ e.kind = xchg[x].kind /\ e.tab = xchg[x].tab
      /\ e.token = xchg[x].token /\ e.step = s
  BY <1>1 DEF Entries
<1>3. xchg' = [xchg EXCEPT ![x] = e]
  OBVIOUS
<1> HIDE DEF e
<1>4. xchg[x].kind \in {"register", "refresh", "hydrate"}
      /\ (xchg[x].kind = "register" => xchg[x].token = NoToken /\ xchg[x].step # "get")
  BY <1>1 DEF ShapeOK, StepsOf, Rotating, Entries
<1>5. ShapeOK(e)
  <2>1. s = "issue" => e.token = NoToken
    BY <1>1, <1>2, <1>4 DEF ShapeOK, StepsOf, Rotating
  <2>2. s = "delete" => e.token # NoToken
    BY <1>1, <1>2, TokensTyped DEF TypeOK
  <2> QED
    BY <1>1, <1>2, <1>4, <2>1, <2>2 DEF ShapeOK
<1>6. /\ xchg' \in [Exchanges -> Entries] /\ xchg'[x] = e
      /\ \A y \in Exchanges \ {x} : xchg'[y] = xchg[y]
      /\ ShapeInv' /\ FlightInv' /\ LostInv'
      /\ \A y \in Exchanges : xchg[y].tab # NoTab => (Quiet(xchg[y].tab) => Quiet(xchg[y].tab)')
  BY <1>2, <1>3, <1>4, <1>5, TabsUntouched
<1>7. TypeOK'
  BY <1>1, <1>6 DEF TypeOK, Entries
<1>8. MintInv'
  BY <1>2, <1>6 DEF AuthInv, MintInv
<1>9. OnceInv'
  BY <1>2, <1>6 DEF AuthInv, OnceInv
<1>10. QuietInv'
  <2>1. \A y \in Exchanges : xchg'[y].kind = xchg[y].kind /\ xchg'[y].tab = xchg[y].tab
                             /\ xchg'[y].token = xchg[y].token
    BY <1>2, <1>6
  <2> QED
    BY <2>1 DEF AuthInv, QuietInv, Quiet
<1>11. CookieInv'
  <2>1. \A y \in Exchanges : Replaces(y) => Replaces(y)'
    <3> SUFFICES ASSUME NEW y \in Exchanges, Replaces(y) PROVE Replaces(y)'
      OBVIOUS
    <3>1. y # x /\ xchg'[y] = xchg[y]
      BY <1>6 DEF Replaces
    <3> QED
      BY <3>1 DEF Replaces, Quiet
  <2> QED
    BY <2>1 DEF AuthInv, CookieInv
<1>12. RefusedInv'
  <2> SUFFICES ASSUME NEW y \in Exchanges, xchg'[y].step \in {"get", "refused"},
                      xchg'[y].tab # NoTab, xchg'[y].token # NoToken
               PROVE  Excused(y)'
    BY DEF RefusedInv
  <2>1. CASE y # x
    BY <1>6, <2>1 DEF AuthInv, RefusedInv, Excused
  <2>2. CASE y = x
    <3>1. s = "refused" /\ xchg[x].step = "get" /\ xchg[x].token \notin live
      BY <1>1, <1>2, <1>4, <1>6, <2>2 DEF ShapeOK, StepsOf, Rotating
    <3>2. Excused(x)
      BY <1>2, <1>6, <2>2, <3>1 DEF AuthInv, RefusedInv
    <3> QED
      BY <1>2, <1>6, <2>2, <3>1, <3>2 DEF Excused
  <2> QED
    BY <2>1, <2>2
<1> QED
  BY <1>6, <1>7, <1>8, <1>9, <1>10, <1>11, <1>12 DEF AuthInv

LEMMA LookUpNameStep == ASSUME NEW x \in Exchanges PROVE AuthInv /\ LookUpName(x) => AuthInv'
<1> SUFFICES ASSUME AuthInv, LookUpName(x)
             PROVE  AuthInv'
  OBVIOUS
<1> DEFINE s == IF known THEN "refused" ELSE "insert"
<1>1. xchg[x].step = "lookup" /\ xchg' = [xchg EXCEPT ![x].step = s]
  BY DEF LookUpName, At
<1>2. xchg[x].kind = "register" /\ s \in StepsOf(xchg[x].kind) /\ s \in {"insert", "refused"}
  BY <1>1, Typed DEF AuthInv, ShapeInv, ShapeOK, StepsOf, Rotating, Entries
<1>3. UNCHANGED <<known, live, ended, rotators, cookie, access, call, flight, lost>>
  BY DEF LookUpName, tokens
<1>4. known' \in BOOLEAN
  BY <1>3 DEF AuthInv, TypeOK
<1> HIDE DEF s
<1> QED
  BY <1>1, <1>2, <1>3, <1>4, StepOnly

LEMMA InsertUserStep == ASSUME NEW x \in Exchanges PROVE AuthInv /\ InsertUser(x) => AuthInv'
<1> SUFFICES ASSUME AuthInv, InsertUser(x)
             PROVE  AuthInv'
  OBVIOUS
<1> DEFINE s == IF known THEN "refused" ELSE "issue"
<1>1. xchg[x].step = "insert" /\ xchg' = [xchg EXCEPT ![x].step = s]
  BY DEF InsertUser, At
<1>2. xchg[x].kind = "register" /\ s \in StepsOf(xchg[x].kind) /\ s \in {"issue", "refused"}
  BY <1>1, Typed DEF AuthInv, ShapeInv, ShapeOK, StepsOf, Rotating, Entries
<1>3. UNCHANGED <<live, ended, rotators, cookie, access, call, flight, lost>>
  BY DEF InsertUser
<1>4. known' \in BOOLEAN
  BY DEF InsertUser
<1> HIDE DEF s
<1> QED
  BY <1>1, <1>2, <1>3, <1>4, StepOnly

LEMMA GetTokenStep == ASSUME NEW x \in Exchanges PROVE AuthInv /\ GetToken(x) => AuthInv'
<1> SUFFICES ASSUME AuthInv, GetToken(x)
             PROVE  AuthInv'
  OBVIOUS
<1> DEFINE s == IF xchg[x].token \in live THEN "delete" ELSE "refused"
<1>1. xchg[x].step = "get" /\ xchg' = [xchg EXCEPT ![x].step = s]
  BY DEF GetToken, At
<1>2. xchg[x].kind \in Rotating /\ s \in StepsOf(xchg[x].kind) /\ s \in {"delete", "refused"}
      /\ (s = "delete" <=> xchg[x].token \in live)
  BY <1>1, Typed DEF AuthInv, ShapeInv, ShapeOK, StepsOf, Rotating, Entries
<1>3. UNCHANGED <<known, live, ended, rotators, cookie, access, call, flight, lost>>
  BY DEF GetToken, tokens
<1>4. known' \in BOOLEAN
  BY <1>3 DEF AuthInv, TypeOK
<1> HIDE DEF s
<1> QED
  BY <1>1, <1>2, <1>3, <1>4, StepOnly

(* The DELETE of a rotation: the token is no key any more, and the tab of  *)
(* the rotation has a new one on its way or has lost it.  Whoever still    *)
(* presents the old token is another tab.                                  *)
LEMMA DeleteTokenStep == ASSUME NEW x \in Exchanges PROVE AuthInv /\ DeleteToken(x) => AuthInv'
<1> SUFFICES ASSUME AuthInv, DeleteToken(x)
             PROVE  AuthInv'
  OBVIOUS
<1> DEFINE k == xchg[x].token
           e == [xchg[x] EXCEPT !.step = "issue", !.token = NoToken]
           h == [rotators EXCEPT ![k] = @ \cup {xchg[x].tab}]
<1>1. TypeOK /\ ShapeInv /\ xchg[x] \in Entries /\ ShapeOK(xchg[x])
  BY Typed DEF AuthInv, ShapeInv
<1>2. /\ xchg[x].step = "delete" /\ xchg' = [xchg EXCEPT ![x] = e]
      /\ UNCHANGED <<cookie, access, call, flight, lost>>
      /\ Forget(live \ {k}, ended, h)
  BY <1>1 DEF DeleteToken
<1>3. /\ e \in Entries /\ e.kind = xchg[x].kind /\ e.tab = xchg[x].tab
      /\ e.token = NoToken /\ e.step = "issue"
  BY <1>1 DEF Entries
<1>4. k \in Tokens /\ k # NoToken /\ xchg[x].kind \in Rotating
  BY <1>1, <1>2, TabsTyped DEF ShapeOK, StepsOf, Rotating, Entries
<1>5. /\ h \in [Tokens -> SUBSET (Tabs \cup {NoTab})] /\ xchg[x].tab \in h[k]
      /\ \A j \in Tokens : rotators[j] \subseteq h[j]
  BY <1>1, <1>4 DEF TypeOK, Entries
<1> HIDE DEF e, h
<1>6. ShapeOK(e)
  BY <1>1, <1>2, <1>3, <1>4 DEF ShapeOK, StepsOf, Rotating
<1>7. /\ xchg' \in [Exchanges -> Entries] /\ xchg'[x] = e
      /\ \A y \in Exchanges \ {x} : xchg'[y] = xchg[y]
      /\ ShapeInv' /\ FlightInv' /\ LostInv'
      /\ \A y \in Exchanges : xchg[y].tab # NoTab => (Quiet(xchg[y].tab) => Quiet(xchg[y].tab)')
  BY <1>2, <1>3, <1>4, <1>6, TabsUntouched DEF Rotating
<1>8. /\ known' = known /\ live' \in SUBSET Tokens
      /\ ended' \in SUBSET (Tokens \cup {NoToken})
      /\ rotators' \in [Tokens -> SUBSET (Tabs \cup {NoTab})]
      /\ cookie \in live \ {k} => cookie \in live'
      /\ cookie \in ended => cookie \in ended'
      /\ cookie \in Tokens => rotators'[cookie] = h[cookie]
      /\ \A y \in Exchanges :
           /\ xchg'[y].token \in live \ {k} => xchg'[y].token \in live'
           /\ xchg'[y].token \in ended => xchg'[y].token \in ended'
           /\ xchg'[y].token \in Tokens => rotators'[xchg'[y].token] = h[xchg'[y].token]
  <2>1. live \ {k} \in SUBSET Tokens /\ ended \in SUBSET (Tokens \cup {NoToken})
    BY <1>1 DEF TypeOK
  <2> DEFINE ks == live \ {k}
  <2>2. ks \in SUBSET Tokens /\ Forget(ks, ended, h)
    BY <1>2, <2>1
  <2>3. cookie' = cookie
    BY <1>2
  <2> HIDE DEF ks
  <2>4. Remembers(ks, ended, h)
    BY <1>5, <2>1, <2>2, ForgetFacts
  <2> QED
    BY <2>3, <2>4 DEF ks, Remembers
<1>9. TypeOK'
  BY <1>1, <1>2, <1>7, <1>8 DEF TypeOK, Entries
<1>10. MintInv'
  <2> SUFFICES ASSUME NEW y \in Exchanges, xchg'[y].kind \in Minting, xchg'[y].step = "reply"
               PROVE  /\ xchg'[y].token \in live' /\ xchg'[y].token # cookie'
                      /\ \A z \in Exchanges \ {y} : xchg'[z].token # xchg'[y].token
    BY DEF MintInv
  <2>1. y # x /\ xchg'[y] = xchg[y]
    BY <1>3, <1>7
  <2>2. /\ xchg[y].token \in live /\ xchg[y].token # cookie
        /\ \A z \in Exchanges \ {y} : xchg[z].token # xchg[y].token
    BY <2>1 DEF AuthInv, MintInv
  <2>3. xchg[y].token # NoToken /\ xchg[y].token # k
    BY <1>1, <2>1, <2>2, TokensTyped DEF TypeOK
  <2> QED
    BY <1>2, <1>3, <1>7, <1>8, <2>1, <2>2, <2>3
<1>11. OnceInv'
  BY <1>3, <1>7 DEF AuthInv, OnceInv
<1>12. QuietInv'
  <2> SUFFICES ASSUME NEW y \in Exchanges, xchg'[y].kind = "hydrate", xchg'[y].tab # NoTab,
                      xchg'[y].token = cookie', cookie' # NoToken
               PROVE  Quiet(xchg[y].tab)'
    BY DEF QuietInv
  <2>1. y # x /\ xchg'[y] = xchg[y]
    BY <1>3, <1>7
  <2>2. Quiet(xchg[y].tab)
    BY <1>2, <2>1 DEF AuthInv, QuietInv
  <2> QED
    BY <1>7, <2>1, <2>2
<1>13. CookieInv'
  <2>1. CASE lost \/ cookie \in (live \ {k}) \cup ended \cup {NoToken}
    BY <1>2, <1>8, <2>1 DEF CookieInv
  <2>2. CASE ~lost /\ cookie = k
    <3>1. xchg[x].tab # NoTab
      BY <1>2, <1>4, <2>2 DEF AuthInv, LostInv, Minting, Rotating
    <3>2. xchg[x].kind = "hydrate" => Quiet(xchg[x].tab)
      BY <1>4, <2>2, <3>1 DEF AuthInv, QuietInv
    <3>3. xchg'[x].kind = xchg[x].kind /\ xchg'[x].tab = xchg[x].tab /\ xchg'[x].step = "issue"
      BY <1>3, <1>7
    <3>4. xchg[x].tab \in rotators'[cookie']
      BY <1>2, <1>4, <1>5, <1>8, <2>2
    <3>5. xchg[x].kind = "hydrate" => Quiet(xchg[x].tab)'
      BY <1>7, <3>1, <3>2
    <3>6. Replaces(x)'
      BY <1>4, <3>1, <3>3, <3>4, <3>5 DEF Replaces
    <3> QED
      BY <3>6 DEF CookieInv
  <2>3. CASE \E y \in Exchanges : Replaces(y) /\ cookie \in Tokens
    <3>1. PICK y \in Exchanges : Replaces(y) /\ cookie \in Tokens
      BY <2>3
    <3>2. y # x /\ xchg'[y] = xchg[y]
      BY <1>2, <1>7, <3>1 DEF Replaces
    <3>3. xchg[y].tab \in rotators'[cookie']
      BY <1>2, <1>5, <1>8, <3>1 DEF Replaces
    <3>4. xchg[y].kind = "hydrate" => Quiet(xchg[y].tab)'
      BY <1>7, <3>1 DEF Replaces
    <3>5. Replaces(y)'
      BY <3>1, <3>2, <3>3, <3>4 DEF Replaces
    <3> QED
      BY <3>5 DEF CookieInv
  <2> QED
    BY <1>1, <2>1, <2>2, <2>3 DEF AuthInv, CookieInv, TypeOK
<1>14. RefusedInv'
  <2> SUFFICES ASSUME NEW y \in Exchanges, xchg'[y].step \in {"get", "refused"},
                      xchg'[y].tab # NoTab, xchg'[y].token # NoToken
               PROVE  Excused(y)'
    BY DEF RefusedInv
  <2>1. y # x /\ xchg'[y] = xchg[y]
    BY <1>3, <1>7
  <2>2. Excused(y) /\ xchg[y].token \in Tokens
    BY <1>1, <2>1, TabsTyped DEF AuthInv, RefusedInv
  <2>3. rotators[xchg[y].token] \subseteq rotators'[xchg[y].token]
    BY <1>5, <1>8, <2>1, <2>2
  <2>4. CASE xchg[y].step = "get" /\ xchg[y].token \in live
    <3>1. CASE xchg[y].token # k
      BY <1>8, <2>1, <2>4, <3>1 DEF Excused
    <3>2. CASE xchg[y].token = k
      <4>1. xchg[y].kind \in Rotating
        BY <1>1, <2>4, Typed DEF ShapeInv, ShapeOK, StepsOf, Rotating, Entries
      <4>2. xchg[x].tab # xchg[y].tab
        BY <1>4, <2>1, <3>2, <4>1 DEF AuthInv, OnceInv
      <4>3. xchg[x].tab \in rotators'[xchg[y].token]
        BY <1>5, <1>8, <2>1, <2>2, <3>2
      <4> QED
        BY <2>1, <4>2, <4>3 DEF Excused
    <3> QED
      BY <3>1, <3>2
  <2>5. CASE lost \/ xchg[y].token \in ended \/ rotators[xchg[y].token] \ {xchg[y].tab} # {}
    BY <1>2, <1>8, <2>1, <2>3, <2>5 DEF Excused
  <2> QED
    BY <2>2, <2>4, <2>5 DEF Excused
<1> QED
  BY <1>7, <1>9, <1>10, <1>11, <1>12, <1>13, <1>14 DEF AuthInv

(* The SETEX of a new token: nobody has it yet. *)
LEMMA IssueTokensStep == ASSUME NEW x \in Exchanges PROVE AuthInv /\ IssueTokens(x) => AuthInv'
<1> SUFFICES ASSUME AuthInv, IssueTokens(x)
             PROVE  AuthInv'
  OBVIOUS
<1> DEFINE n == NewToken
           e == [xchg[x] EXCEPT !.step = "reply", !.token = n]
<1>1. TypeOK /\ ShapeInv /\ xchg[x] \in Entries /\ ShapeOK(xchg[x])
  BY Typed DEF AuthInv, ShapeInv
<1>2. /\ xchg[x].step = "issue" /\ xchg' = [xchg EXCEPT ![x] = e]
      /\ live' = live \cup {n}
      /\ UNCHANGED <<known, ended, rotators, cookie, access, call, flight, lost>>
  BY <1>1 DEF IssueTokens, Stored
<1>3. xchg[x].token = NoToken /\ xchg[x].kind \in Minting
  BY <1>1, <1>2 DEF ShapeOK, StepsOf, Rotating, Minting, Entries
<1>4. n \in Tokens /\ n # cookie /\ \A y \in Exchanges : xchg[y].token # n
  BY <1>1, <1>3, NewTokenIsNew DEF Held
<1> HIDE DEF n
<1>5. /\ e \in Entries /\ e.kind = xchg[x].kind /\ e.tab = xchg[x].tab
      /\ e.token = n /\ e.step = "reply"
  BY <1>1, <1>4 DEF Entries
<1> HIDE DEF e
<1>6. ShapeOK(e)
  BY <1>1, <1>2, <1>3, <1>5 DEF ShapeOK, StepsOf, Rotating, Minting
<1>7. /\ xchg' \in [Exchanges -> Entries] /\ xchg'[x] = e
      /\ \A y \in Exchanges \ {x} : xchg'[y] = xchg[y]
      /\ ShapeInv' /\ FlightInv' /\ LostInv'
      /\ \A y \in Exchanges : xchg[y].tab # NoTab => (Quiet(xchg[y].tab) => Quiet(xchg[y].tab)')
  BY <1>2, <1>3, <1>5, <1>6, TabsUntouched DEF Minting
<1>8. TypeOK'
  BY <1>1, <1>2, <1>4, <1>7 DEF TypeOK, Entries
<1>9. MintInv'
  <2> SUFFICES ASSUME NEW y \in Exchanges, xchg'[y].kind \in Minting, xchg'[y].step = "reply"
               PROVE  /\ xchg'[y].token \in live' /\ xchg'[y].token # cookie'
                      /\ \A z \in Exchanges \ {y} : xchg'[z].token # xchg'[y].token
    BY DEF MintInv
  <2>1. CASE y = x
    BY <1>2, <1>4, <1>5, <1>7, <2>1
  <2>2. CASE y # x
    <3>1. /\ xchg[y].token \in live /\ xchg[y].token # cookie
          /\ \A z \in Exchanges \ {y} : xchg[z].token # xchg[y].token
      BY <1>7, <2>2 DEF AuthInv, MintInv
    <3> QED
      BY <1>2, <1>4, <1>5, <1>7, <2>2, <3>1
  <2> QED
    BY <2>1, <2>2
<1>10. OnceInv'
  BY <1>4, <1>5, <1>7 DEF AuthInv, OnceInv
<1>11. QuietInv'
  <2> SUFFICES ASSUME NEW y \in Exchanges, xchg'[y].kind = "hydrate", xchg'[y].tab # NoTab,
                      xchg'[y].token = cookie', cookie' # NoToken
               PROVE  Quiet(xchg[y].tab)'
    BY DEF QuietInv
  <2>1. y # x /\ xchg'[y] = xchg[y]
    BY <1>2, <1>4, <1>5, <1>7
  <2>2. Quiet(xchg[y].tab)
    BY <1>2, <2>1 DEF AuthInv, QuietInv
  <2> QED
    BY <1>7, <2>1, <2>2
<1>12. CookieInv'
  <2>1. ASSUME NEW y \in Exchanges, Replaces(y)
        PROVE  Replaces(y)'
    <3>1. xchg'[y].kind = xchg[y].kind /\ xchg'[y].tab = xchg[y].tab
          /\ xchg'[y].step \in {"issue", "reply"}
      BY <1>5, <1>7, <2>1 DEF Replaces
    <3>2. xchg[y].kind = "hydrate" => Quiet(xchg[y].tab)'
      BY <1>7, <2>1 DEF Replaces
    <3> QED
      BY <1>2, <2>1, <3>1, <3>2 DEF Replaces
  <2> QED
    BY <1>2, <2>1 DEF AuthInv, CookieInv
<1>13. RefusedInv'
  <2> SUFFICES ASSUME NEW y \in Exchanges, xchg'[y].step \in {"get", "refused"},
                      xchg'[y].tab # NoTab, xchg'[y].token # NoToken
               PROVE  Excused(y)'
    BY DEF RefusedInv
  <2>1. y # x /\ xchg'[y] = xchg[y]
    BY <1>5, <1>7
  <2> QED
    BY <1>2, <2>1 DEF AuthInv, RefusedInv, Excused
<1> QED
  BY <1>7, <1>8, <1>9, <1>10, <1>11, <1>12, <1>13 DEF AuthInv

(* A logout ends the session whose token it presents. *)
LEMMA RevokeTokenStep == ASSUME NEW x \in Exchanges PROVE AuthInv /\ RevokeToken(x) => AuthInv'
<1> SUFFICES ASSUME AuthInv, RevokeToken(x)
             PROVE  AuthInv'
  OBVIOUS
<1> DEFINE k == xchg[x].token
           e == [xchg[x] EXCEPT !.step = "reply"]
<1>1. TypeOK /\ ShapeInv /\ xchg[x] \in Entries /\ ShapeOK(xchg[x])
  BY Typed DEF AuthInv, ShapeInv
<1>2. /\ xchg[x].step = "revoke" /\ xchg' = [xchg EXCEPT ![x] = e]
      /\ live' = live \ {k} /\ ended' = ended \cup {k}
      /\ UNCHANGED <<known, rotators, cookie, access, call, flight, lost>>
  BY DEF RevokeToken, At
<1>3. xchg[x].kind = "logout" /\ k \in Tokens \cup {NoToken}
  BY <1>1, <1>2 DEF ShapeOK, StepsOf, Rotating, Entries
<1>4. /\ e \in Entries /\ e.kind = xchg[x].kind /\ e.tab = xchg[x].tab
      /\ e.token = k /\ e.step = "reply"
  BY <1>1 DEF Entries
<1> HIDE DEF e
<1>5. ShapeOK(e)
  BY <1>1, <1>2, <1>3, <1>4 DEF ShapeOK, StepsOf, Rotating
<1>6. /\ xchg' \in [Exchanges -> Entries] /\ xchg'[x] = e
      /\ \A y \in Exchanges \ {x} : xchg'[y] = xchg[y]
      /\ ShapeInv' /\ FlightInv' /\ LostInv'
      /\ \A y \in Exchanges : xchg[y].tab # NoTab => (Quiet(xchg[y].tab) => Quiet(xchg[y].tab)')
  BY <1>2, <1>3, <1>4, <1>5, TabsUntouched
<1>7. TypeOK'
  BY <1>1, <1>2, <1>3, <1>6 DEF TypeOK, Entries
<1>8. MintInv'
  <2> SUFFICES ASSUME NEW y \in Exchanges, xchg'[y].kind \in Minting, xchg'[y].step = "reply"
               PROVE  /\ xchg'[y].token \in live' /\ xchg'[y].token # cookie'
                      /\ \A z \in Exchanges \ {y} : xchg'[z].token # xchg'[y].token
    BY DEF MintInv
  <2>1. y # x /\ xchg'[y] = xchg[y]
    BY <1>3, <1>4, <1>6 DEF Minting
  <2>2. /\ xchg[y].token \in live /\ xchg[y].token # cookie
        /\ \A z \in Exchanges \ {y} : xchg[z].token # xchg[y].token
    BY <2>1 DEF AuthInv, MintInv
  <2> QED
    BY <1>2, <1>4, <1>6, <2>1, <2>2
<1>9. OnceInv'
  BY <1>3, <1>4, <1>6 DEF AuthInv, OnceInv, Rotating
<1>10. QuietInv'
  <2> SUFFICES ASSUME NEW y \in Exchanges, xchg'[y].kind = "hydrate", xchg'[y].tab # NoTab,
                      xchg'[y].token = cookie', cookie' # NoToken
               PROVE  Quiet(xchg[y].tab)'
    BY DEF QuietInv
  <2>1. y # x /\ xchg'[y] = xchg[y]
    BY <1>3, <1>4, <1>6
  <2>2. Quiet(xchg[y].tab)
    BY <1>2, <2>1 DEF AuthInv, QuietInv
  <2> QED
    BY <1>6, <2>1, <2>2
<1>11. CookieInv'
  <2>1. ASSUME NEW y \in Exchanges, Replaces(y)
        PROVE  Replaces(y)'
    <3>1. xchg'[y] = xchg[y]
      BY <1>3, <1>6, <2>1 DEF Replaces, Rotating
    <3>2. xchg[y].kind = "hydrate" => Quiet(xchg[y].tab)'
      BY <1>6, <2>1 DEF Replaces
    <3> QED
      BY <1>2, <2>1, <3>1, <3>2 DEF Replaces
  <2> QED
    BY <1>2, <2>1 DEF AuthInv, CookieInv
<1>12. RefusedInv'
  <2> SUFFICES ASSUME NEW y \in Exchanges, xchg'[y].step \in {"get", "refused"},
                      xchg'[y].tab # NoTab, xchg'[y].token # NoToken
               PROVE  Excused(y)'
    BY DEF RefusedInv
  <2>1. y # x /\ xchg'[y] = xchg[y]
    BY <1>4, <1>6
  <2> QED
    BY <1>2, <2>1 DEF AuthInv, RefusedInv, Excused
<1> QED
  BY <1>6, <1>7, <1>8, <1>9, <1>10, <1>11, <1>12 DEF AuthInv

-----------------------------------------------------------------------------
(* Replies. *)

LEMMA FreeShape == Free \in Entries /\ ShapeOK(Free)
BY DEF Free, Entries, ShapeOK, StepsOf, Rotating, Minting, NoToken

(* The tab no longer waits for x, and nobody in it does. *)
LetsGo(x) ==
  /\ flight' \in [Tabs -> Exchanges \cup {NoExchange}] /\ call' \in [Calls -> CallStates]
  /\ \A t \in Tabs : flight'[t] = IF flight[t] = x THEN NoExchange ELSE flight[t]
  /\ \A c \in Calls : call'[c] = call[c] \/ call'[c] = Idle
  /\ \A c \in Calls : call'[c].at = "waiting" => flight[TabOf[c]] # x

(* What nobody waits for is let go as it is. *)
LEMMA NotAwaited ==
  ASSUME AuthInv, NEW x \in Exchanges, xchg[x].kind # "refresh" \/ xchg[x].tab = NoTab,
         UNCHANGED <<call, flight>>
  PROVE  LetsGo(x)
<1>1. TypeOK /\ FlightInv /\ call \in [Calls -> CallStates]
  BY Typed DEF AuthInv
<1>2. \A t \in Tabs : flight[t] # x
  BY <1>1, NamesAssumption DEF FlightInv
<1>3. \A c \in Calls : TabOf[c] \in Tabs
  BY TabOfAssumption
<1> QED
  BY <1>1, <1>2, <1>3 DEF LetsGo, TypeOK

(* A refresh that fails for a tab on /login leaves nobody waiting. *)
LEMMA SignedOutAlready ==
  ASSUME AuthInv, NEW x \in Exchanges, xchg[x].kind = "refresh", xchg[x].tab \in Tabs,
         StaysOnLogin(xchg[x].tab)
  PROVE  /\ LetsGo(x) /\ access' \in [Tabs -> {"none", "fresh", "stale"}]
         /\ UNCHANGED <<cookie, access>> /\ Forget(live, ended, rotators)
<1> DEFINE t == xchg[x].tab
<1>1. TypeOK /\ FlightInv /\ call \in [Calls -> CallStates]
  BY Typed DEF AuthInv
<1>2. flight[t] = x /\ \A u \in Tabs \ {t} : flight[u] # x
  BY <1>1, NamesAssumption DEF FlightInv
<1>3. /\ call' = [c \in Calls |-> IF TabOf[c] = t /\ call[c].at = "waiting" THEN Idle ELSE call[c]]
      /\ flight' = [flight EXCEPT ![t] = NoExchange]
      /\ UNCHANGED <<cookie, access>> /\ Forget(live, ended, rotators)
  BY DEF StaysOnLogin
<1>4. flight' \in [Tabs -> Exchanges \cup {NoExchange}]
      /\ \A u \in Tabs : flight'[u] = IF flight[u] = x THEN NoExchange ELSE flight[u]
  BY <1>1, <1>2, <1>3 DEF TypeOK
<1>5. call' \in [Calls -> CallStates] /\ \A c \in Calls : call'[c] = call[c] \/ call'[c] = Idle
  BY <1>1, <1>3 DEF Idle, CallStates
<1>6. \A c \in Calls : call'[c].at = "waiting" => TabOf[c] # t
  BY <1>3 DEF Idle
<1>7. \A c \in Calls : call'[c].at = "waiting" => flight[TabOf[c]] # x
  BY <1>2, <1>6, TabOfAssumption
<1> QED
  BY <1>1, <1>3, <1>4, <1>5, <1>7 DEF LetsGo, TypeOK

(* An exchange that ends, or that its tab forgets, without a new cookie.   *)
LEMMA Ends ==
  ASSUME AuthInv, NEW x \in Exchanges, NEW e, e = Free \/ e = [xchg[x] EXCEPT !.tab = NoTab],
         xchg' = [xchg EXCEPT ![x] = e], xchg[x].step # "free", LetsGo(x),
         lost' \in BOOLEAN, lost => lost', Mints(x) => lost',
         UNCHANGED cookie, Forget(live, ended, rotators),
         access' \in [Tabs -> {"none", "fresh", "stale"}],
         \A t \in Tabs : access[t] = "none" => access'[t] = "none"
  PROVE  AuthInv'
<1>1. TypeOK /\ ShapeInv /\ FlightInv /\ xchg[x] \in Entries /\ ShapeOK(xchg[x])
  BY Typed DEF AuthInv, ShapeInv
<1>2. Remembers(live, ended, rotators)
  BY <1>1, Kept
<1>3. e \in Entries /\ ShapeOK(e) /\ e.tab = NoTab
  <2>1. CASE e = Free
    BY <2>1, FreeShape DEF Free
  <2>2. CASE e = [xchg[x] EXCEPT !.tab = NoTab]
    <3>1. /\ e \in Entries /\ e.tab = NoTab /\ e.kind = xchg[x].kind /\ e.step = xchg[x].step
          /\ e.token = xchg[x].token
      BY <1>1, <2>2 DEF Entries
    <3> QED
      BY <1>1, <3>1 DEF ShapeOK
  <2> QED
    BY <2>1, <2>2
<1>4. /\ e.token \in {xchg[x].token, NoToken}
      /\ e.kind \in Minting => /\ e.kind = xchg[x].kind /\ e.step = xchg[x].step
                               /\ e.token = xchg[x].token
  <2>1. CASE e = Free
    BY <2>1 DEF Free, Minting
  <2>2. CASE e = [xchg[x] EXCEPT !.tab = NoTab]
    BY <1>1, <2>2 DEF Entries
  <2> QED
    BY <2>1, <2>2
<1>5. /\ xchg' \in [Exchanges -> Entries] /\ xchg'[x] = e
      /\ \A y \in Exchanges \ {x} : xchg'[y] = xchg[y]
  BY <1>1, <1>3, Typed
<1>6. \A u \in Tabs : Quiet(u) => Quiet(u)'
  BY DEF Quiet, LetsGo, Idle
<1>7. TypeOK'
  BY <1>1, <1>2, <1>5 DEF TypeOK, Entries, Remembers, LetsGo, CallStates
<1>8. ShapeInv'
  BY <1>1, <1>3, <1>5 DEF ShapeInv, ShapeOK
<1>9. FlightInv'
  <2>1. ASSUME NEW u \in Tabs, flight'[u] # NoExchange
        PROVE  xchg'[flight'[u]].kind = "refresh" /\ xchg'[flight'[u]].tab = u
    <3>1. flight'[u] = flight[u] /\ flight[u] # x
      BY <2>1 DEF LetsGo
    <3>2. flight[u] \in Exchanges /\ xchg[flight[u]].kind = "refresh" /\ xchg[flight[u]].tab = u
      BY <1>1, <2>1, <3>1 DEF FlightInv, TypeOK
    <3> QED
      BY <1>5, <3>1, <3>2
  <2>2. ASSUME NEW y \in Exchanges, xchg'[y].kind = "refresh", xchg'[y].tab # NoTab
        PROVE  flight'[xchg'[y].tab] = y
    <3>1. y # x /\ xchg'[y] = xchg[y]
      BY <1>3, <1>5, <2>2
    <3>2. flight[xchg[y].tab] = y /\ xchg[y].tab \in Tabs
      BY <1>1, <2>2, <3>1, TabsTyped DEF FlightInv
    <3> QED
      BY <3>1, <3>2 DEF LetsGo
  <2>3. ASSUME NEW c \in Calls, call'[c].at = "waiting"
        PROVE  flight'[TabOf[c]] # NoExchange
    <3>1. call'[c] = call[c] /\ flight[TabOf[c]] # x /\ TabOf[c] \in Tabs
      BY <2>3, TabOfAssumption DEF LetsGo, Idle
    <3>2. flight[TabOf[c]] # NoExchange
      BY <1>1, <2>3, <3>1 DEF FlightInv
    <3> QED
      BY <3>1, <3>2 DEF LetsGo
  <2> QED
    BY <2>1, <2>2, <2>3 DEF FlightInv
<1>10. LostInv'
  <2> SUFFICES ASSUME NEW y \in Exchanges, xchg'[y].kind \in Minting,
                      xchg'[y].step # "refused", xchg'[y].tab = NoTab
               PROVE  lost'
    BY DEF LostInv
  <2>1. CASE y = x
    BY <1>4, <1>5, <2>1 DEF Mints, Minting
  <2>2. CASE y # x
    BY <1>5, <2>2 DEF AuthInv, LostInv
  <2> QED
    BY <2>1, <2>2
<1>11. MintInv'
  <2>1. \A y \in Exchanges : xchg'[y].token \in {xchg[y].token, cookie, NoToken}
    BY <1>4, <1>5
  <2>2. \A y \in Exchanges : xchg'[y].kind \in Minting /\ xchg'[y].step = "reply" =>
          xchg'[y].kind = xchg[y].kind /\ xchg[y].step = "reply" /\ xchg'[y].token = xchg[y].token
    BY <1>4, <1>5
  <2> QED
    BY <1>1, <2>1, <2>2, MintKept DEF AuthInv
<1>12. OnceInv'
  BY <1>3, <1>5 DEF AuthInv, OnceInv
<1>13. QuietInv'
  <2> SUFFICES ASSUME NEW y \in Exchanges, xchg'[y].kind = "hydrate", xchg'[y].tab # NoTab,
                      xchg'[y].token = cookie', cookie' # NoToken
               PROVE  Quiet(xchg[y].tab)'
    BY DEF QuietInv
  <2>1. xchg'[y] = xchg[y] /\ xchg[y].tab \in Tabs
    BY <1>1, <1>3, <1>5, TabsTyped
  <2>2. Quiet(xchg[y].tab)
    BY <2>1 DEF AuthInv, QuietInv
  <2> QED
    BY <1>6, <2>1, <2>2 DEF Quiet
<1>14. CookieInv'
  <2>1. ASSUME NEW y \in Exchanges, Replaces(y)
        PROVE  lost' \/ (xchg'[y] = xchg[y] /\ (Quiet(xchg[y].tab) => Quiet(xchg[y].tab)'))
    <3>1. CASE y = x
      BY <2>1, <3>1 DEF Replaces, Mints, Rotating
    <3>2. CASE y # x
      <4>1. xchg'[y] = xchg[y] /\ xchg[y].tab \in Tabs
        BY <1>1, <1>5, <2>1, <3>2, TabsTyped DEF Replaces
      <4> QED
        BY <1>6, <4>1
    <3> QED
      BY <3>1, <3>2
  <2> QED
    BY <1>1, <2>1, CookieKept DEF AuthInv
<1>15. RefusedInv'
  <2> SUFFICES ASSUME NEW y \in Exchanges, xchg'[y].step \in {"get", "refused"},
                      xchg'[y].tab # NoTab, xchg'[y].token # NoToken
               PROVE  Excused(y)'
    BY DEF RefusedInv
  <2>1. xchg'[y] = xchg[y]
    BY <1>3, <1>5
  <2>2. Excused(y)
    BY <2>1 DEF AuthInv, RefusedInv
  <2> QED
    BY <1>1, <2>1, <2>2, ExcusedKept
<1> QED
  BY <1>7, <1>8, <1>9, <1>10, <1>11, <1>12, <1>13, <1>14, <1>15 DEF AuthInv

(* A new cookie is that of a stored key. *)
LEMMA TokenReplyStep == ASSUME NEW x \in Exchanges PROVE AuthInv /\ TokenReply(x) => AuthInv'
<1> SUFFICES ASSUME AuthInv, TokenReply(x)
             PROVE  AuthInv'
  OBVIOUS
<1> DEFINE t == xchg[x].tab
<1>1. TypeOK /\ ShapeInv /\ FlightInv /\ xchg[x] \in Entries /\ ShapeOK(xchg[x])
  BY Typed DEF AuthInv, ShapeInv
<1>2. /\ xchg[x].step = "reply" /\ xchg[x].kind # "logout" /\ t # NoTab
      /\ xchg' = [xchg EXCEPT ![x] = Free] /\ cookie' = xchg[x].token
      /\ access' = [access EXCEPT ![t] = "fresh"]
      /\ IF xchg[x].kind = "refresh"
         THEN call' = Resent(t) /\ flight' = [flight EXCEPT ![t] = NoExchange]
         ELSE UNCHANGED <<call, flight>>
      /\ Forget(live, ended, rotators) /\ lost' = lost
  BY DEF TokenReply, Answered, SetCookie
<1>3. t \in Tabs /\ xchg[x].kind \in Minting
  BY <1>1, <1>2 DEF Entries, ShapeOK, StepsOf, Rotating, Minting
<1>4. /\ xchg[x].token \in live /\ xchg[x].token # cookie
      /\ \A y \in Exchanges \ {x} : xchg[y].token # xchg[x].token
  BY <1>2, <1>3 DEF AuthInv, MintInv
<1>5. Remembers(live, ended, rotators)
  BY <1>1, <1>2, Kept
<1>6. /\ xchg' \in [Exchanges -> Entries] /\ xchg'[x] = Free
      /\ \A y \in Exchanges \ {x} : xchg'[y] = xchg[y]
  BY <1>1, <1>2, FreeShape, Typed
<1>7. Free.kind = "none" /\ Free.tab = NoTab /\ Free.step = "free" /\ Free.token = NoToken
  BY DEF Free
<1>8. cookie' \in live' /\ cookie' \in Tokens
  BY <1>1, <1>2, <1>4, <1>5 DEF Remembers, TypeOK
<1>9. TypeOK'
  <2>1. call' \in [Calls -> CallStates]
    <3>1. CASE xchg[x].kind = "refresh"
      <4>1. call' = Resent(t)
        BY <1>2, <3>1
      <4>2. \A c \in Calls : [call[c] EXCEPT !.at = "sent", !.token = "fresh"] \in CallStates
        BY <1>1, Typed DEF CallStates
      <4> QED
        BY <1>1, <4>1, <4>2, Typed DEF Resent
    <3>2. CASE xchg[x].kind # "refresh"
      BY <1>1, <1>2, <3>2, Typed
    <3> QED
      BY <3>1, <3>2
  <2>2. flight' \in [Tabs -> Exchanges \cup {NoExchange}]
    BY <1>1, <1>2, <1>3 DEF TypeOK
  <2>3. access' \in [Tabs -> {"none", "fresh", "stale"}]
    BY <1>1, <1>2, <1>3 DEF TypeOK
  <2> QED
    BY <1>1, <1>2, <1>5, <1>6, <1>8, <2>1, <2>2, <2>3 DEF TypeOK, Entries, CallStates, Remembers
<1>10. ShapeInv'
  BY <1>1, <1>6, FreeShape DEF ShapeInv, ShapeOK
<1>11. FlightInv'
  <2>1. \A u \in Tabs \ {t} : flight'[u] = flight[u]
    BY <1>1, <1>2, <1>3 DEF TypeOK
  <2>2. ASSUME NEW u \in Tabs, flight'[u] # NoExchange
        PROVE  xchg'[flight'[u]].kind = "refresh" /\ xchg'[flight'[u]].tab = u
    <3>1. flight'[u] = flight[u]
      <4>1. CASE xchg[x].kind = "refresh"
        BY <1>1, <1>2, <1>3, <2>1, <2>2, <4>1 DEF TypeOK
      <4>2. CASE xchg[x].kind # "refresh"
        BY <1>2, <4>2
      <4> QED
        BY <4>1, <4>2
    <3>2. flight[u] \in Exchanges /\ xchg[flight[u]].kind = "refresh" /\ xchg[flight[u]].tab = u
      BY <1>1, <2>2, <3>1 DEF FlightInv, TypeOK
    <3>3. flight[u] # x
      <4>1. CASE xchg[x].kind = "refresh"
        <5>1. flight'[t] = NoExchange
          BY <1>1, <1>2, <1>3, <4>1 DEF TypeOK
        <5> QED
          BY <2>2, <3>2, <5>1
      <4>2. CASE xchg[x].kind # "refresh"
        BY <3>2, <4>2
      <4> QED
        BY <4>1, <4>2
    <3> QED
      BY <1>6, <3>1, <3>2, <3>3
  <2>3. ASSUME NEW y \in Exchanges, xchg'[y].kind = "refresh", xchg'[y].tab # NoTab
        PROVE  flight'[xchg'[y].tab] = y
    <3>1. y # x /\ xchg'[y] = xchg[y]
      BY <1>6, <1>7, <2>3
    <3>2. flight[xchg[y].tab] = y /\ xchg[y].tab \in Tabs
      BY <1>1, <2>3, <3>1, TabsTyped DEF FlightInv
    <3>3. CASE xchg[x].kind = "refresh"
      <4>1. flight[t] = x
        BY <1>1, <1>2, <3>3 DEF FlightInv
      <4> QED
        BY <2>1, <3>1, <3>2, <4>1
    <3>4. CASE xchg[x].kind # "refresh"
      BY <1>2, <3>1, <3>2, <3>4
    <3> QED
      BY <3>3, <3>4
  <2>4. ASSUME NEW c \in Calls, call'[c].at = "waiting"
        PROVE  flight'[TabOf[c]] # NoExchange
    <3>1. TabOf[c] \in Tabs
      BY <1>1, Typed
    <3>2. CASE xchg[x].kind = "refresh"
      <4>1. TabOf[c] # t /\ call[c].at = "waiting"
        <5>1. call'[c] = IF TabOf[c] = t /\ call[c].at = "waiting"
                         THEN [call[c] EXCEPT !.at = "sent", !.token = "fresh"] ELSE call[c]
          BY <1>2, <3>2 DEF Resent
        <5>2. [call[c] EXCEPT !.at = "sent", !.token = "fresh"].at = "sent"
          BY <1>1, Typed DEF CallStates
        <5> QED
          BY <2>4, <5>1, <5>2
      <4> QED
        BY <1>1, <2>1, <3>1, <4>1 DEF FlightInv
    <3>3. CASE xchg[x].kind # "refresh"
      BY <1>1, <1>2, <2>4, <3>3 DEF FlightInv
    <3> QED
      BY <3>2, <3>3
  <2> QED
    BY <2>2, <2>3, <2>4 DEF FlightInv
<1>12. LostInv'
  BY <1>2, <1>6, <1>7 DEF AuthInv, LostInv, Minting
<1>13. MintInv'
  <2> SUFFICES ASSUME NEW y \in Exchanges, xchg'[y].kind \in Minting, xchg'[y].step = "reply"
               PROVE  /\ xchg'[y].token \in live' /\ xchg'[y].token # cookie'
                      /\ \A z \in Exchanges \ {y} : xchg'[z].token # xchg'[y].token
    BY DEF MintInv
  <2>1. y # x /\ xchg'[y] = xchg[y]
    BY <1>6, <1>7
  <2>2. /\ xchg[y].token \in live /\ xchg[y].token # cookie
        /\ \A z \in Exchanges \ {y} : xchg[z].token # xchg[y].token
    BY <2>1 DEF AuthInv, MintInv
  <2>3. xchg[y].token # NoToken /\ xchg[y].token \in live'
    BY <1>1, <1>5, <2>1, <2>2, TokensTyped DEF TypeOK, Remembers
  <2> QED
    BY <1>2, <1>4, <1>6, <1>7, <2>1, <2>2, <2>3
<1>14. OnceInv'
  BY <1>6, <1>7 DEF AuthInv, OnceInv
<1>15. QuietInv'
  <2>1. \A y \in Exchanges : cookie' # NoToken => xchg'[y].token # cookie'
    BY <1>2, <1>4, <1>6, <1>7
  <2> QED
    BY <2>1 DEF QuietInv
<1>16. CookieInv'
  BY <1>8 DEF CookieInv
<1>17. RefusedInv'
  <2> SUFFICES ASSUME NEW y \in Exchanges, xchg'[y].step \in {"get", "refused"},
                      xchg'[y].tab # NoTab, xchg'[y].token # NoToken
               PROVE  Excused(y)'
    BY DEF RefusedInv
  <2>1. xchg'[y] = xchg[y]
    BY <1>6, <1>7
  <2>2. Excused(y)
    BY <2>1 DEF AuthInv, RefusedInv
  <2> QED
    BY <1>1, <1>2, <2>1, <2>2, ExcusedKept
<1> QED
  BY <1>9, <1>10, <1>11, <1>12, <1>13, <1>14, <1>15, <1>16, <1>17 DEF AuthInv

(* A session that runs out takes the cookie with its key. *)
LEMMA SessionRunsOutStep == AuthInv /\ SessionRunsOut => AuthInv'
<1> SUFFICES ASSUME AuthInv, SessionRunsOut
             PROVE  AuthInv'
  OBVIOUS
<1>1. cookie' = NoToken /\ UNCHANGED <<access, call, xchg, flight, lost>>
      /\ Forget(live, ended, rotators)
  BY DEF SessionRunsOut
<1>2. TypeOK
  BY DEF AuthInv
<1>3. Remembers(live, ended, rotators)
  BY <1>1, <1>2, Kept
<1>4. TypeOK'
  BY <1>1, <1>2, <1>3 DEF TypeOK, Remembers
<1>5. ShapeInv' /\ FlightInv' /\ LostInv' /\ OnceInv'
  BY <1>1 DEF AuthInv, ShapeInv, ShapeOK, FlightInv, LostInv, OnceInv
<1>6. MintInv'
  BY <1>1, <1>2, MintKept DEF AuthInv
<1>7. QuietInv' /\ CookieInv'
  BY <1>1 DEF QuietInv, CookieInv
<1>8. RefusedInv'
  <2> SUFFICES ASSUME NEW y \in Exchanges, xchg'[y].step \in {"get", "refused"},
                      xchg'[y].tab # NoTab, xchg'[y].token # NoToken
               PROVE  Excused(y)'
    BY DEF RefusedInv
  <2>1. Excused(y)
    BY <1>1 DEF AuthInv, RefusedInv
  <2> QED
    BY <1>1, <1>2, <2>1, ExcusedKept
<1> QED
  BY <1>4, <1>5, <1>6, <1>7, <1>8 DEF AuthInv

LEMMA ReplyStep == ASSUME NEW x \in Exchanges PROVE AuthInv /\ Reply(x) => AuthInv'
<1> SUFFICES ASSUME AuthInv, Reply(x)
             PROVE  AuthInv'
  OBVIOUS
<1>0. TypeOK /\ xchg[x] \in Entries
  BY Typed DEF AuthInv
<1>1. xchg[x].tab # NoTab => xchg[x].tab \in Tabs
  BY <1>0 DEF Entries
<1>2. CASE TokenReply(x)
  BY <1>2, TokenReplyStep
<1>3. CASE LogoutReply(x)
  <2>1. /\ xchg[x].step = "reply" /\ xchg[x].kind = "logout" /\ xchg[x].tab # NoTab
        /\ xchg' = [xchg EXCEPT ![x] = Free] /\ UNCHANGED <<cookie, call, flight, lost>>
        /\ access' = [access EXCEPT ![xchg[x].tab] = "none"] /\ Forget(live, ended, rotators)
    BY <1>3 DEF LogoutReply, Answered
  <2>2. /\ access' \in [Tabs -> {"none", "fresh", "stale"}]
        /\ \A t \in Tabs : access[t] = "none" => access'[t] = "none"
    BY <1>0, <2>1 DEF TypeOK
  <2>3. ~Mints(x) /\ lost' \in BOOLEAN
    BY <1>0, <2>1 DEF Mints, TypeOK
  <2>4. LetsGo(x)
    BY <2>1, NotAwaited
  <2> QED
    BY <2>1, <2>2, <2>3, <2>4, Ends
<1>4. CASE RefusedReply(x)
  <2>1. xchg[x].step = "refused" /\ xchg[x].tab # NoTab
    BY <1>4 DEF RefusedReply
  <2>2. CASE xchg[x].kind = "refresh" /\ LoadPage(xchg[x].tab, x)
    BY <1>1, <2>1, <2>2, LoadPageStep
  <2>3. CASE /\ xchg[x].kind \in {"hydrate", "register"}
             /\ Answered(x)
             /\ UNCHANGED <<cookie, access, call, flight, lost>>
             /\ Forget(live, ended, rotators)
    <3>1. ~Mints(x) /\ lost' \in BOOLEAN /\ access' \in [Tabs -> {"none", "fresh", "stale"}]
      BY <1>0, <2>1, <2>3 DEF Mints, TypeOK
    <3>2. LetsGo(x)
      BY <2>3, NotAwaited
    <3> QED
      BY <2>1, <2>3, <3>1, <3>2, Ends DEF Answered
  <2>4. CASE /\ xchg[x].kind = "refresh"
             /\ Answered(x)
             /\ StaysOnLogin(xchg[x].tab)
             /\ UNCHANGED lost
    <3>1. ~Mints(x) /\ lost' \in BOOLEAN
      BY <1>0, <2>1, <2>4 DEF Mints, TypeOK
    <3>2. /\ LetsGo(x) /\ access' \in [Tabs -> {"none", "fresh", "stale"}]
          /\ UNCHANGED <<cookie, access>> /\ Forget(live, ended, rotators)
      BY <1>1, <2>1, <2>4, SignedOutAlready
    <3> QED
      BY <2>1, <2>4, <3>1, <3>2, Ends DEF Answered
  <2> QED
    BY <1>4, <2>2, <2>3, <2>4 DEF RefusedReply
<1>5. CASE ReplyToNobody(x)
  <2>1. /\ xchg[x].step \in {"reply", "refused"} /\ xchg[x].tab = NoTab
        /\ xchg' = [xchg EXCEPT ![x] = Free] /\ UNCHANGED <<cookie, access, call, flight, lost>>
        /\ Forget(live, ended, rotators)
    BY <1>5 DEF ReplyToNobody, Answered
  <2>2. Mints(x) => lost
    BY <2>1 DEF AuthInv, LostInv, Mints, Minting
  <2>3. lost' \in BOOLEAN /\ access' \in [Tabs -> {"none", "fresh", "stale"}]
    BY <1>0, <2>1 DEF TypeOK
  <2>4. LetsGo(x)
    BY <2>1, NotAwaited
  <2> QED
    BY <2>1, <2>2, <2>3, <2>4, Ends
<1> QED
  BY <1>2, <1>3, <1>4, <1>5 DEF Reply

LEMMA GiveUpStep == ASSUME NEW x \in Exchanges PROVE AuthInv /\ GiveUp(x) => AuthInv'
<1> SUFFICES ASSUME AuthInv, GiveUp(x)
             PROVE  AuthInv'
  OBVIOUS
<1>0. TypeOK /\ xchg[x] \in Entries
  BY Typed DEF AuthInv
<1>1. xchg[x].step # "free" /\ xchg[x].tab # NoTab /\ xchg[x].tab \in Tabs
  BY <1>0 DEF GiveUp, Entries
<1>2. CASE xchg[x].kind = "refresh" /\ \E y \in FreeSlots \cup {x} : LoadPage(xchg[x].tab, y)
  BY <1>1, <1>2, LoadPageStep DEF FreeSlots
<1>3. CASE /\ xchg[x].kind # "refresh"
           /\ Abandoned(x)
           /\ access' = [access EXCEPT ![xchg[x].tab] = IF xchg[x].kind = "logout" THEN "none" ELSE @]
           /\ lost' = (lost \/ Mints(x))
           /\ UNCHANGED <<cookie, call, flight>>
           /\ Forget(live, ended, rotators)
  <2>1. \/ xchg' = [xchg EXCEPT ![x] = Free]
        \/ xchg' = [xchg EXCEPT ![x] = [xchg[x] EXCEPT !.tab = NoTab]]
    BY <1>3 DEF Abandoned, Answered
  <2>2. /\ access' \in [Tabs -> {"none", "fresh", "stale"}]
        /\ \A t \in Tabs : access[t] = "none" => access'[t] = "none"
    BY <1>0, <1>1, <1>3 DEF TypeOK
  <2>3. lost' \in BOOLEAN /\ (lost => lost') /\ (Mints(x) => lost')
    BY <1>3
  <2>4. LetsGo(x)
    BY <1>3, NotAwaited
  <2> QED
    BY <1>1, <1>3, <2>1, <2>2, <2>3, <2>4, Ends
<1>4. CASE /\ xchg[x].kind = "refresh"
           /\ Abandoned(x)
           /\ StaysOnLogin(xchg[x].tab)
           /\ lost' = (lost \/ Mints(x))
  <2>1. \/ xchg' = [xchg EXCEPT ![x] = Free]
        \/ xchg' = [xchg EXCEPT ![x] = [xchg[x] EXCEPT !.tab = NoTab]]
    BY <1>4 DEF Abandoned, Answered
  <2>2. lost' \in BOOLEAN /\ (lost => lost') /\ (Mints(x) => lost')
    BY <1>4
  <2>3. /\ LetsGo(x) /\ access' \in [Tabs -> {"none", "fresh", "stale"}]
        /\ UNCHANGED <<cookie, access>> /\ Forget(live, ended, rotators)
    BY <1>1, <1>4, SignedOutAlready
  <2> QED
    BY <1>1, <2>1, <2>2, <2>3, Ends
<1> QED
  BY <1>2, <1>3, <1>4 DEF GiveUp

LEMMA ServeStep == ASSUME NEW x \in Exchanges PROVE AuthInv /\ Serve(x) => AuthInv'
BY LookUpNameStep, InsertUserStep, GetTokenStep, DeleteTokenStep, IssueTokensStep,
   RevokeTokenStep DEF Serve

LEMMA TabStep ==
  ASSUME NEW t \in Tabs
  PROVE  AuthInv /\ (Reload(t) \/ Register(t) \/ Login(t) \/ Logout(t) \/ AccessTokenExpires(t))
           => AuthInv'
<1> SUFFICES ASSUME AuthInv,
                    Reload(t) \/ Register(t) \/ Login(t) \/ Logout(t) \/ AccessTokenExpires(t)
             PROVE  AuthInv'
  OBVIOUS
<1>0. TypeOK /\ call \in [Calls -> CallStates]
  BY Typed DEF AuthInv
<1>1. CASE Reload(t)
  BY <1>1, LoadPageStep DEF Reload, FreeSlots
<1>2. ASSUME NEW x \in FreeSlots, NEW kind \in {"register", "login", "logout"},
             xchg' = [xchg EXCEPT ![x] = Opened(kind, t)],
             UNCHANGED <<tokens, cookie, access, call, flight, lost>>
      PROVE  AuthInv'
  <2>1. call' \in [Calls -> CallStates] /\ call' = call /\ flight' = flight
    BY <1>0, <1>2
  <2> QED
    BY <1>2, <2>1, Opens
<1>3. CASE Register(t) \/ Login(t) \/ Logout(t)
  BY <1>2, <1>3 DEF Register, Login, Logout
<1>4. CASE AccessTokenExpires(t)
  <2>1. /\ access[t] = "fresh" /\ access' = [access EXCEPT ![t] = "stale"]
        /\ UNCHANGED <<tokens, cookie, call, xchg, flight, lost>>
    BY <1>4 DEF AccessTokenExpires
  <2>2. /\ access' \in [Tabs -> {"none", "fresh", "stale"}]
        /\ \A u \in Tabs : access'[u] = "none" <=> access[u] = "none"
    BY <1>0, <2>1 DEF TypeOK
  <2>3. \A c \in Calls : call'[c].at = "waiting" => flight[TabOf[c]] # NoExchange
    BY <2>1 DEF AuthInv, FlightInv
  <2>4. call' \in [Calls -> CallStates]
    BY <1>0, <2>1
  <2> QED
    BY <2>1, <2>2, <2>3, <2>4, CallsOnly
<1> QED
  BY <1>1, <1>3, <1>4

(* A call goes on alone: it is sent, answered or expires on its way. *)
LEMMA CallAlone ==
  ASSUME AuthInv, NEW c \in Calls, NEW k \in CallStates, call' = [call EXCEPT ![c] = k],
         UNCHANGED <<tokens, cookie, access, xchg, flight, lost>>,
         k.at # "idle" => call[c].at # "idle" \/ access[TabOf[c]] # "none",
         k.at = "waiting" => flight[TabOf[c]] # NoExchange
  PROVE  AuthInv'
<1>1. TypeOK /\ call \in [Calls -> CallStates]
  BY Typed DEF AuthInv
<1>2. access' \in [Tabs -> {"none", "fresh", "stale"}] /\ call' \in [Calls -> CallStates]
  BY <1>1 DEF TypeOK
<1>3. call'[c] = k /\ \A d \in Calls \ {c} : call'[d] = call[d]
  BY <1>1
<1>4. \A d \in Calls :
        /\ call'[d].at # "idle" => call[d].at # "idle" \/ access[TabOf[d]] # "none"
        /\ call'[d].at = "waiting" => flight[TabOf[d]] # NoExchange
  BY <1>3 DEF AuthInv, FlightInv
<1> QED
  BY <1>2, <1>4, CallsOnly

LEMMA CallStep ==
  ASSUME NEW c \in Calls
  PROVE  AuthInv /\ (SendCall(c) \/ Answer(c) \/ NetworkError(c) \/ CarriedTokenExpires(c))
           => AuthInv'
<1> SUFFICES ASSUME AuthInv,
                    SendCall(c) \/ Answer(c) \/ NetworkError(c) \/ CarriedTokenExpires(c)
             PROVE  AuthInv'
  OBVIOUS
<1>0. /\ TypeOK /\ call \in [Calls -> CallStates] /\ call[c] \in CallStates /\ TabOf[c] \in Tabs
      /\ access[TabOf[c]] \in {"none", "fresh", "stale"}
  BY Typed DEF AuthInv
<1>1. Idle \in CallStates /\ Idle.at = "idle"
  BY DEF Idle, CallStates
<1>2. CASE SendCall(c)
  <2> DEFINE k == [at |-> "sent", token |-> access[TabOf[c]], retried |-> FALSE]
  <2>1. k \in CallStates /\ k.at = "sent"
    BY <1>0 DEF CallStates
  <2>2. /\ call' = [call EXCEPT ![c] = k] /\ access[TabOf[c]] # "none"
        /\ UNCHANGED <<tokens, cookie, access, xchg, flight, lost>>
    BY <1>2 DEF SendCall
  <2> HIDE DEF k
  <2> QED
    BY <2>1, <2>2, CallAlone
<1>3. CASE Accepted(c) \/ Rejected(c) \/ NetworkError(c)
  BY <1>1, <1>3, CallAlone DEF Accepted, Rejected, NetworkError
<1>4. CASE CarriedTokenExpires(c)
  <2> DEFINE k == [call[c] EXCEPT !.token = "stale"]
  <2>1. k \in CallStates /\ k.at = "sent" /\ call[c].at = "sent"
    BY <1>0, <1>4 DEF CallStates, CarriedTokenExpires
  <2>2. /\ call' = [call EXCEPT ![c] = k]
        /\ UNCHANGED <<tokens, cookie, access, xchg, flight, lost>>
    BY <1>4 DEF CarriedTokenExpires
  <2> HIDE DEF k
  <2> QED
    BY <2>1, <2>2, CallAlone
<1>5. CASE Unauthorized(c)
  <2> DEFINE k == [call[c] EXCEPT !.at = "waiting", !.retried = TRUE]
             t == TabOf[c]
  <2>1. k \in CallStates /\ k.at = "waiting"
    BY <1>0 DEF CallStates
  <2>2. /\ call[c].at = "sent" /\ call' = [call EXCEPT ![c] = k]
        /\ UNCHANGED <<tokens, cookie, access, lost>>
        /\ \/ flight[t] # NoExchange /\ UNCHANGED <<xchg, flight>>
           \/ /\ flight[t] = NoExchange
              /\ \E x \in FreeSlots : /\ xchg' = [xchg EXCEPT ![x] = Opened("refresh", t)]
                                      /\ flight' = [flight EXCEPT ![t] = x]
    BY <1>5 DEF Unauthorized, JoinsRefresh
  <2> HIDE DEF k
  <2>3. CASE flight[t] # NoExchange /\ UNCHANGED <<xchg, flight>>
    BY <2>1, <2>2, <2>3, CallAlone
  <2>4. CASE /\ flight[t] = NoExchange
             /\ \E x \in FreeSlots : /\ xchg' = [xchg EXCEPT ![x] = Opened("refresh", t)]
                                     /\ flight' = [flight EXCEPT ![t] = x]
    <3>1. PICK x \in FreeSlots : /\ xchg' = [xchg EXCEPT ![x] = Opened("refresh", t)]
                                 /\ flight' = [flight EXCEPT ![t] = x]
      BY <2>4
    <3>2. call' \in [Calls -> CallStates] /\ call'[c] = k
          /\ \A d \in Calls \ {c} : call'[d] = call[d]
      BY <1>0, <2>1, <2>2
    <3>3. flight'[t] = x
      BY <1>0, <3>1 DEF TypeOK
    <3>4. ~Quiet(t)
      BY <2>2 DEF Quiet
    <3>5. \A d \in Calls : call'[d].at = "idle" <=> call[d].at = "idle"
      BY <2>1, <2>2, <3>2
    <3>6. \A d \in Calls : call'[d].at = "waiting" => call[d].at = "waiting" \/ flight'[TabOf[d]] = x
      BY <3>2, <3>3
    <3> QED
      BY <1>0, <2>2, <2>4, <3>1, <3>2, <3>4, <3>5, <3>6, Opens
  <2> QED
    BY <2>2, <2>3, <2>4
<1> QED
  BY <1>2, <1>3, <1>4, <1>5 DEF Answer

-----------------------------------------------------------------------------
(* The invariant, and what it says. *)

LEMMA InitAuth == Init => AuthInv
<1> SUFFICES ASSUME Init
             PROVE  AuthInv
  OBVIOUS
<1>1. /\ live = {} /\ cookie = NoToken /\ ended = {} /\ lost = FALSE /\ known \in BOOLEAN
      /\ access = [t \in Tabs |-> "none"] /\ call = [c \in Calls |-> Idle]
      /\ flight = [t \in Tabs |-> NoExchange] /\ rotators = [k \in Tokens |-> {}]
      /\ xchg = [x \in Exchanges |-> Free]
  BY DEF Init
<1>2. Free.kind = "none" /\ Free.tab = NoTab /\ Free.step = "free" /\ Free.token = NoToken
  BY DEF Free
<1>3. TypeOK
  <2>1. call \in [Calls -> CallStates] /\ xchg \in [Exchanges -> Entries]
    BY <1>1, FreeShape DEF Idle, CallStates
  <2> QED
    BY <1>1, <2>1 DEF TypeOK, CallStates, Entries
<1>4. ShapeInv
  BY <1>1, FreeShape DEF ShapeInv
<1>5. FlightInv
  <2>1. \A t \in Tabs : flight[t] = NoExchange
    BY <1>1
  <2>2. \A x \in Exchanges : xchg[x].tab = NoTab
    BY <1>1, <1>2
  <2>3. \A c \in Calls : call[c].at = "idle"
    BY <1>1 DEF Idle
  <2>4. \A t \in Tabs : flight[t] # NoExchange =>
          xchg[flight[t]].kind = "refresh" /\ xchg[flight[t]].tab = t
    BY <2>1
  <2>5. \A x \in Exchanges : xchg[x].kind = "refresh" /\ xchg[x].tab # NoTab =>
          flight[xchg[x].tab] = x
    BY <2>2
  <2>6. \A c \in Calls : call[c].at = "waiting" => flight[TabOf[c]] # NoExchange
    BY <2>3
  <2> QED
    BY <2>4, <2>5, <2>6 DEF FlightInv
<1>6. LostInv /\ MintInv /\ OnceInv
  <2>1. \A x \in Exchanges : xchg[x].kind \notin Minting /\ xchg[x].token = NoToken
    BY <1>1, <1>2 DEF Minting
  <2>2. LostInv
    BY <2>1 DEF LostInv
  <2>3. MintInv
    BY <2>1 DEF MintInv
  <2>4. OnceInv
    BY <2>1 DEF OnceInv
  <2> QED
    BY <2>2, <2>3, <2>4
<1>7. QuietInv /\ CookieInv /\ RefusedInv
  BY <1>1, <1>2 DEF QuietInv, CookieInv, RefusedInv
<1> QED
  BY <1>3, <1>4, <1>5, <1>6, <1>7 DEF AuthInv

LEMMA AuthInvariant == Spec => []AuthInv
<1>1. AuthInv /\ [Next]_vars => AuthInv'
  <2> SUFFICES ASSUME AuthInv, [Next]_vars
               PROVE  AuthInv'
    OBVIOUS
  <2>1. CASE UNCHANGED vars
    BY <2>1 DEF vars, AuthInv, TypeOK, ShapeInv, ShapeOK, FlightInv, LostInv, MintInv, OnceInv,
                QuietInv, Quiet, CookieInv, Replaces, RefusedInv, Excused
  <2> QED
    BY <2>1, TabStep, CallStep, ServeStep, ReplyStep, GiveUpStep, SessionRunsOutStep DEF Next
<1> QED
  BY <1>1, InitAuth, PTL DEF Spec

(* The tabs, the exchanges and the keys are typed: what is minted is a     *)
(* token that is left (auth_service.py, _issue_tokens).                    *)
THEOREM SessionsTypeCorrect == Spec => []TypeOK
<1>1. AuthInv => TypeOK
  BY DEF AuthInv
<1> QED
  BY <1>1, AuthInvariant, PTL

(* A call that waits for the refresh waits for one that is in flight in    *)
(* its own tab (apiClient.js:110).                                         *)
THEOREM NobodyWaitsForNothing == Spec => []WaitersHaveARefresh
<1>1. AuthInv => WaitersHaveARefresh
  <2> SUFFICES ASSUME AuthInv, NEW c \in Calls, call[c].at = "waiting"
               PROVE  LET x == flight[TabOf[c]]
                      IN x # NoExchange /\ xchg[x].kind = "refresh" /\ xchg[x].tab = TabOf[c]
    BY DEF WaitersHaveARefresh
  <2>1. TabOf[c] \in Tabs
    BY Typed DEF AuthInv
  <2> QED
    BY <2>1 DEF AuthInv, FlightInv
<1> QED
  BY <1>1, AuthInvariant, PTL

(* Single-flight refresh: however a tab's loads, refreshes, forms and      *)
(* logouts interleave with those of other tabs, it never spoils its own    *)
(* token (apiClient.js:78).                                                *)
THEOREM NoTabSpoilsItsToken == Spec => []RefusedForAReason
<1>1. AuthInv => RefusedForAReason
  BY DEF AuthInv, RefusedInv, Excused, RefusedForAReason
<1> QED
  BY <1>1, AuthInvariant, PTL

(* Once every reply has arrived, the cookie names a live key or a session  *)
(* that was ended: rotation leaves no dead cookie (auth_service.py:118).   *)
THEOREM CookieOutlivesRotation == Spec => []CookieNamesASession
<1>1. AuthInv => CookieNamesASession
  BY DEF AuthInv, CookieInv, Replaces, CookieNamesASession
<1> QED
  BY <1>1, AuthInvariant, PTL
=============================================================================
