---------------------------- MODULE AuthSessions ----------------------------
(***************************************************************************)
(* One user's sessions: the tabs of a browser that share a refresh cookie  *)
(* (frontend/src/services/apiClient.js, authService.js), and the server    *)
(* that keeps refresh tokens in Redis (app/services/auth_service.py).      *)
(*                                                                         *)
(* An exchange is one request to /auth/{refresh,register,login,demo,       *)
(* logout} on its way: the handler takes one action per Redis command or   *)
(* query, then the reply arrives at the tab, unless the tab has given up   *)
(* or left the page meanwhile.                                             *)
(*                                                                         *)
(* Data abstracted: a refresh token is a number, reused once nobody holds  *)
(* it; an access token is fresh or stale; whoever registers in this        *)
(* browser takes the same name, and who logs in knows the password.        *)
(***************************************************************************)
EXTENDS Integers, FiniteSets, FiniteSetsExt

CONSTANTS Tabs,       \* tabs of one browser
          Calls,      \* API calls a tab can have in flight
          TabOf,      \* the tab each call belongs to
          Exchanges,  \* bound: auth requests in flight at once
          MaxToken,   \* bound: refresh tokens held at once
          UserDoes,   \* what the user of a tab does besides working in it
          NoTab,      \* the tab of an exchange nobody waits for
          NoExchange

ASSUME TabOfAssumption == TabOf \in [Calls -> Tabs]
ASSUME UserAssumption == UserDoes \subseteq {"reload", "logout", "register"}
ASSUME NamesAssumption == NoTab \notin Tabs /\ NoExchange \notin Exchanges
ASSUME TokenAssumption ==
  IsFiniteSet(Exchanges) /\ MaxToken \in Nat /\ MaxToken > Cardinality(Exchanges)

VARIABLES known,     \* the users table has the name
          live,      \* Redis: the refresh:<token> keys
          cookie,    \* the browser's refresh cookie; 0 is none
          access,    \* authStore.accessToken of each tab
          call,      \* API calls of the tabs
          xchg,      \* exchanges with the auth endpoints
          flight,    \* refreshInFlight of each tab
          rotators,  \* history: the tabs whose refresh rotated a token
          ended,     \* history: tokens ended by a logout
          lost       \* history: a reply that carried a token was dropped

tokens == <<known, live, ended, rotators>>
vars == <<known, live, cookie, access, call, xchg, flight, rotators, ended, lost>>

Tokens == 1..MaxToken
NoToken == 0
Idle == [at |-> "idle", token |-> "none", retried |-> FALSE]
Free == [kind |-> "none", tab |-> NoTab, step |-> "free", token |-> NoToken]

(* A token nobody holds is never presented again: what Redis has under its *)
(* name is left to its TTL, and the model forgets it.                      *)
Held == {cookie} \cup {xchg[x].token : x \in Exchanges}
Forget(keys, dead, history) ==
  /\ live' = keys \cap Held'
  /\ UNCHANGED known
  /\ ended' = dead \cap Held'
  /\ rotators' = [k \in Tokens |-> IF k \in Held' THEN history[k] ELSE {}]

FreeSlots == {x \in Exchanges : xchg[x].step = "free"}
CallsOf(t) == {c \in Calls : TabOf[c] = t}

(* A reply to one of these brings a new refresh token. *)
Mints(x) == xchg[x].kind \in {"refresh", "hydrate", "login", "register"} /\ xchg[x].step # "refused"

Opened(kind, t) ==
  [kind |-> kind, tab |-> t, token |-> IF kind \in {"login", "register"} THEN NoToken ELSE cookie,
   step |-> CASE kind = "login" -> "issue" [] kind = "register" -> "lookup"
              [] kind = "logout" -> "revoke" [] OTHER -> "get"]

-----------------------------------------------------------------------------
(* What the user and the pages start *)

(* A page load: memory is gone, what was in flight is dropped, and         *)
(* useAuthHydration tries the cookie once.                                 *)
LoadPage(t, x) ==
  /\ xchg' = [y \in Exchanges |-> IF y = x THEN Opened("hydrate", t)
                                  ELSE IF xchg[y].tab = t THEN [xchg[y] EXCEPT !.tab = NoTab]
                                  ELSE xchg[y]]
  /\ access' = [access EXCEPT ![t] = "none"]
  /\ call' = [c \in Calls |-> IF TabOf[c] = t THEN Idle ELSE call[c]]
  /\ flight' = [flight EXCEPT ![t] = NoExchange]
  /\ lost' = (lost \/ \E y \in Exchanges : xchg[y].tab = t /\ Mints(y))
  /\ UNCHANGED cookie
  /\ Forget(live, ended, rotators)

Reload(t) == "reload" \in UserDoes /\ \E x \in FreeSlots : LoadPage(t, x)

(* Which routes the guards of App.jsx let a tab see. *)
SignedOut(t) == access[t] = "none"

(* The forms of a tab that is signed out.  Each is disabled while its own  *)
(* request is out, but there are three on two pages, and a form that is    *)
(* left and mounted again knows of none.  Login stands for demo, too.      *)
Register(t) ==
  \E x \in FreeSlots :
    /\ "register" \in UserDoes
    /\ SignedOut(t)
    /\ xchg' = [xchg EXCEPT ![x] = Opened("register", t)]
    /\ UNCHANGED <<tokens, cookie, access, call, flight, lost>>

Login(t) ==
  \E x \in FreeSlots :
    /\ SignedOut(t)
    /\ xchg' = [xchg EXCEPT ![x] = Opened("login", t)]
    /\ UNCHANGED <<tokens, cookie, access, call, flight, lost>>

Logout(t) ==
  \E x \in FreeSlots :
    /\ "logout" \in UserDoes
    /\ ~SignedOut(t)
    /\ xchg' = [xchg EXCEPT ![x] = Opened("logout", t)]
    /\ UNCHANGED <<tokens, cookie, access, call, flight, lost>>

(* The request interceptor attaches whatever token the store holds. *)
SendCall(c) ==
  /\ call[c].at = "idle"
  /\ access[TabOf[c]] # "none"
  /\ call' = [call EXCEPT ![c] = [at |-> "sent", token |-> access[TabOf[c]], retried |-> FALSE]]
  /\ UNCHANGED <<tokens, cookie, access, xchg, flight, lost>>

-----------------------------------------------------------------------------
(* Answers to API calls: the response interceptor.  A call goes to an      *)
(* endpoint outside /auth/, for which isAuthEndpoint is false; profile and *)
(* password requests, which a 401 rejects at once, are left out.           *)

MayAlwaysRetry(c) == TRUE  \* mutant: _retried is not looked at
MayRetry(c) == ~call[c].retried

(* getRefreshPromise: a refresh already in flight is joined. *)
JoinsRefresh(t) == flight[t] # NoExchange

Accepted(c) ==
  /\ call[c].at = "sent"
  /\ call[c].token = "fresh"
  /\ call' = [call EXCEPT ![c] = Idle]
  /\ UNCHANGED <<tokens, cookie, access, xchg, flight, lost>>

Unauthorized(c) ==
  LET t == TabOf[c]
  IN /\ call[c].at = "sent"
     /\ call[c].token = "stale"
     /\ MayRetry(c)
     /\ call' = [call EXCEPT ![c].at = "waiting", ![c].retried = TRUE]
     /\ \/ /\ JoinsRefresh(t)
           /\ UNCHANGED <<xchg, flight>>
        \/ /\ ~JoinsRefresh(t)
           /\ \E x \in FreeSlots :
                /\ xchg' = [xchg EXCEPT ![x] = Opened("refresh", t)]
                /\ flight' = [flight EXCEPT ![t] = x]
     /\ UNCHANGED <<tokens, cookie, access, lost>>

(* A second 401 is handed to the caller ... *)
Rejected(c) ==
  /\ call[c].at = "sent"
  /\ call[c].token = "stale"
  /\ ~MayRetry(c)
  /\ call' = [call EXCEPT ![c] = Idle]
  /\ UNCHANGED <<tokens, cookie, access, xchg, flight, lost>>

(* ... and so is a network error or a timeout. *)
NetworkError(c) ==
  /\ call[c].at = "sent"
  /\ call' = [call EXCEPT ![c] = Idle]
  /\ UNCHANGED <<tokens, cookie, access, xchg, flight, lost>>

-----------------------------------------------------------------------------
(* The server: AuthService.register, .refresh, .logout and ._issue_tokens *)

At(x, step, next) ==
  /\ xchg[x].step = step
  /\ xchg' = [xchg EXCEPT ![x].step = next]

(* A name that is taken is refused, by the query or by the constraint.    *)
LookUpName(x) ==
  /\ At(x, "lookup", IF known THEN "refused" ELSE "insert")
  /\ UNCHANGED <<tokens, cookie, access, call, flight, lost>>

InsertUser(x) ==
  /\ At(x, "insert", IF known THEN "refused" ELSE "issue")
  /\ known' = TRUE
  /\ UNCHANGED <<live, ended, rotators, cookie, access, call, flight, lost>>

GetToken(x) ==
  /\ At(x, "get", IF xchg[x].token \in live THEN "delete" ELSE "refused")
  /\ UNCHANGED <<tokens, cookie, access, call, flight, lost>>

(* The DELETE's count is not looked at. *)
DeleteToken(x) ==
  LET k == xchg[x].token
  IN /\ xchg[x].step = "delete"
     /\ xchg' = [xchg EXCEPT ![x].step = "issue", ![x].token = NoToken]
     /\ UNCHANGED <<cookie, access, call, flight, lost>>
     /\ Forget(live \ {k}, ended, [rotators EXCEPT ![k] = @ \cup {xchg[x].tab}])

(* generate_refresh_token: a token nobody holds. *)
NextToken == Cardinality(Held) + 1  \* mutant: tokens are counted, not drawn
NewToken == Min(Tokens \ Held)

NothingStored(k) == live  \* mutant: the SETEX is missing
Stored(k) == live \cup {k}

IssueTokens(x) ==
  /\ xchg[x].step = "issue"
  /\ xchg' = [xchg EXCEPT ![x].step = "reply", ![x].token = NewToken]
  /\ live' = Stored(NewToken)
  /\ UNCHANGED <<known, ended, rotators, cookie, access, call, flight, lost>>

RevokeToken(x) ==
  /\ At(x, "revoke", "reply")
  /\ live' = live \ {xchg[x].token}
  /\ ended' = ended \cup {xchg[x].token}
  /\ UNCHANGED <<known, rotators, cookie, access, call, flight, lost>>

Serve(x) ==
  LookUpName(x) \/ InsertUser(x) \/ GetToken(x) \/ DeleteToken(x) \/ IssueTokens(x) \/ RevokeToken(x)

-----------------------------------------------------------------------------
(* Replies of the auth endpoints *)

Answered(x) == xchg' = [xchg EXCEPT ![x] = Free]

(* setAuth; the calls that waited for the refresh are sent again. *)
NobodyResent(t) == call  \* mutant: the waiting calls are forgotten
Resent(t) ==
  [c \in Calls |-> IF TabOf[c] = t /\ call[c].at = "waiting"
                   THEN [call[c] EXCEPT !.at = "sent", !.token = "fresh"] ELSE call[c]]

OldCookieKept(x) ==  \* mutant: /auth/refresh does not set the cookie
  IF xchg[x].kind = "login" THEN xchg[x].token ELSE cookie
SetCookie(x) == xchg[x].token

TokenReply(x) ==
  LET t == xchg[x].tab
  IN /\ xchg[x].step = "reply"
     /\ xchg[x].kind # "logout"
     /\ t # NoTab
     /\ Answered(x)
     /\ cookie' = SetCookie(x)
     /\ access' = [access EXCEPT ![t] = "fresh"]
     /\ IF xchg[x].kind = "refresh"
        THEN call' = Resent(t) /\ flight' = [flight EXCEPT ![t] = NoExchange]
        ELSE UNCHANGED <<call, flight>>
     /\ Forget(live, ended, rotators)
     /\ UNCHANGED lost

(* The cleared cookie is set on a response object that is not the one      *)
(* returned, so the browser keeps its cookie.                              *)
LogoutReply(x) ==
  LET t == xchg[x].tab
  IN /\ xchg[x].step = "reply"
     /\ xchg[x].kind = "logout"
     /\ t # NoTab
     /\ Answered(x)
     /\ access' = [access EXCEPT ![t] = "none"]
     /\ UNCHANGED <<cookie, call, flight, lost>>
     /\ Forget(live, ended, rotators)

(* A refresh that failed rejects the calls that waited for it and clears   *)
(* the store.  It loads /login, unless the tab, signed out meanwhile, may  *)
(* be there already.                                                       *)
StaysOnLogin(t) ==
  /\ SignedOut(t)
  /\ call' = [c \in Calls |-> IF TabOf[c] = t /\ call[c].at = "waiting" THEN Idle ELSE call[c]]
  /\ flight' = [flight EXCEPT ![t] = NoExchange]
  /\ UNCHANGED <<cookie, access>>
  /\ Forget(live, ended, rotators)

(* A refused hydration or registration leaves the page signed out.         *)
RefusedReply(x) ==
  LET t == xchg[x].tab
  IN /\ xchg[x].step = "refused"
     /\ t # NoTab
     /\ \/ xchg[x].kind = "refresh" /\ LoadPage(t, x)
        \/ /\ xchg[x].kind = "refresh"
           /\ Answered(x)
           /\ StaysOnLogin(t)
           /\ UNCHANGED lost
        \/ /\ xchg[x].kind \in {"hydrate", "register"}
           /\ Answered(x)
           /\ UNCHANGED <<cookie, access, call, flight, lost>>
           /\ Forget(live, ended, rotators)

(* The reply to a request whose page is gone. *)
ReplyToNobody(x) ==
  /\ xchg[x].step \in {"reply", "refused"}
  /\ xchg[x].tab = NoTab
  /\ Answered(x)
  /\ UNCHANGED <<cookie, access, call, flight, lost>>
  /\ Forget(live, ended, rotators)

Reply(x) == TokenReply(x) \/ LogoutReply(x) \/ RefusedReply(x) \/ ReplyToNobody(x)

-----------------------------------------------------------------------------
(* Time and failures *)

(* The handler goes on without its tab, or has died with its process. *)
Abandoned(x) == Answered(x) \/ xchg' = [xchg EXCEPT ![x].tab = NoTab]

(* The tab stops waiting: axios timeout, network error, 5xx.  A page load  *)
(* takes the slot of a handler that died, or another.                      *)
GiveUp(x) ==
  LET t == xchg[x].tab
  IN /\ xchg[x].step # "free"
     /\ t # NoTab
     /\ \/ /\ xchg[x].kind = "refresh"
           /\ \E y \in FreeSlots \cup {x} : LoadPage(t, y)
        \/ /\ xchg[x].kind = "refresh"
           /\ Abandoned(x)
           /\ StaysOnLogin(t)
           /\ lost' = (lost \/ Mints(x))
        \/ /\ xchg[x].kind # "refresh"
           /\ Abandoned(x)
           /\ access' = [access EXCEPT ![t] = IF xchg[x].kind = "logout" THEN "none" ELSE @]
           /\ lost' = (lost \/ Mints(x))
           /\ UNCHANGED <<cookie, call, flight>>
           /\ Forget(live, ended, rotators)

AccessTokenExpires(t) ==
  /\ access[t] = "fresh"
  /\ access' = [access EXCEPT ![t] = "stale"]
  /\ UNCHANGED <<tokens, cookie, call, xchg, flight, lost>>

(* The token a call carries expires on the way. *)
CarriedTokenExpires(c) ==
  /\ call[c].at = "sent"
  /\ call[c].token = "fresh"
  /\ call' = [call EXCEPT ![c].token = "stale"]
  /\ UNCHANGED <<tokens, cookie, access, xchg, flight, lost>>

(* jwt_refresh_days are over for the key and for the cookie.  (They last   *)
(* far longer than any exchange that presents the token.)                  *)
SessionRunsOut ==
  /\ cookie \in live
  /\ \A x \in Exchanges : xchg[x].token # cookie
  /\ cookie' = NoToken
  /\ UNCHANGED <<access, call, xchg, flight, lost>>
  /\ Forget(live, ended, rotators)

-----------------------------------------------------------------------------
Init ==
  /\ known = ("register" \notin UserDoes)
  /\ live = {}
  /\ cookie = NoToken
  /\ access = [t \in Tabs |-> "none"]
  /\ call = [c \in Calls |-> Idle]
  /\ xchg = [x \in Exchanges |-> Free]
  /\ flight = [t \in Tabs |-> NoExchange]
  /\ rotators = [k \in Tokens |-> {}]
  /\ ended = {}
  /\ lost = FALSE

Answer(c) == Accepted(c) \/ Unauthorized(c) \/ Rejected(c)

Next ==
  \/ \E t \in Tabs : Reload(t) \/ Register(t) \/ Login(t) \/ Logout(t) \/ AccessTokenExpires(t)
  \/ \E c \in Calls : SendCall(c) \/ Answer(c) \/ NetworkError(c) \/ CarriedTokenExpires(c)
  \/ \E x \in Exchanges : Serve(x) \/ Reply(x) \/ GiveUp(x)
  \/ SessionRunsOut

Spec == Init /\ [][Next]_vars

(* The server answers what it receives and the browser delivers replies.   *)
(* Strong fairness for Answer: a 401 that starts a refresh waits for a     *)
(* slot only because Exchanges is a bound of the model.                    *)
Fairness ==
  /\ \A x \in Exchanges : WF_vars(Serve(x) \/ Reply(x))
  /\ \A c \in Calls : SF_vars(Answer(c))
FairSpec == Spec /\ Fairness

-----------------------------------------------------------------------------
(* Properties *)

TypeOK ==
  /\ known \in BOOLEAN
  /\ live \in SUBSET Tokens
  /\ cookie \in Tokens \cup {NoToken}
  /\ access \in [Tabs -> {"none", "fresh", "stale"}]
  /\ call \in [Calls -> [at : {"idle", "sent", "waiting"},
                        token : {"none", "fresh", "stale"}, retried : BOOLEAN]]
  /\ xchg \in [Exchanges ->
       [kind : {"none", "refresh", "hydrate", "register", "login", "logout"}, tab : Tabs \cup {NoTab},
        step : {"free", "lookup", "insert", "get", "delete", "issue", "revoke", "reply", "refused"},
        token : Tokens \cup {NoToken}]]
  /\ flight \in [Tabs -> Exchanges \cup {NoExchange}]
  /\ rotators \in [Tokens -> SUBSET (Tabs \cup {NoTab})]
  /\ ended \in SUBSET (Tokens \cup {NoToken})
  /\ lost \in BOOLEAN

(* A call that waits for the refresh (apiClient.js:110) waits for one that *)
(* is in flight in its own tab: refreshInFlight is never cleared, replaced *)
(* or left behind while somebody waits.                                    *)
WaitersHaveARefresh ==
  \A c \in Calls : call[c].at = "waiting" =>
    LET x == flight[TabOf[c]]
    IN x # NoExchange /\ xchg[x].kind = "refresh" /\ xchg[x].tab = TabOf[c]

(* Single-flight refresh (apiClient.js:78): a tab never spoils its own     *)
(* token.  When the server refuses a tab's cookie, the session was logged  *)
(* out, ran out, had its last reply lost, or was rotated by another tab.   *)
RefusedForAReason ==
  \A x \in Exchanges :
    LET k == xchg[x].token
    IN (xchg[x].step = "refused" /\ xchg[x].tab # NoTab /\ k # NoToken) =>
         lost \/ k \in ended \/ rotators[k] \ {xchg[x].tab} # {}

(* Rotation never leaves the browser with a dead cookie: once every reply  *)
(* has arrived, however refreshes, logins and logouts of the tabs were     *)
(* interleaved, the cookie names a live key or a session that was ended.   *)
CookieNamesASession ==
  (~lost /\ \A x \in Exchanges : xchg[x].step = "free") =>
    cookie \in live \cup ended \cup {NoToken}

(* A refresh token is rotated at most once: concurrent refresh attempts    *)
(* lose the race (auth_service.py:128).                                    *)
RefreshIsSingleUse == \A k \in Tokens : Cardinality(rotators[k]) <= 1

(* Every API call is answered: a 401 refreshes and retries at most once.   *)
EveryCallSettles == \A c \in Calls : call[c].at # "idle" ~> call[c].at = "idle"
=============================================================================
