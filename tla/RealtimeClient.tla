--------------------------- MODULE RealtimeClient ---------------------------
(***************************************************************************)
(* The realtime connection of a tab: the engine that keeps a socket open   *)
(* (frontend/src/services/websocket.js), the hook whose mounting starts it *)
(* (hooks/useMarket.js), the endpoint that serves it (app/api/routes.py)   *)
(* and the manager that broadcasts (app/websocket/manager.py).             *)
(*                                                                         *)
(* Each WebSocket object is a member of Sockets, which is used again when  *)
(* neither side knows it any more.  A callback of the browser and a        *)
(* stretch of the server between two awaits are one step each.  onerror is *)
(* left out: it asks for the close that follows it in any case.  So is the *)
(* branch of onclose for codes 1008 and 4401: the server closes a refused  *)
(* socket before it has accepted it, which a browser reports as 1006.      *)
(*                                                                         *)
(* Data abstracted: the market to the price of one symbol (MarketFeed says *)
(* where it comes from), a client's messages to whether there is one, the  *)
(* access token to whether it is there and valid.  A message is on its way *)
(* until its send ends; on one socket messages keep their order.           *)
(***************************************************************************)
EXTENDS TickGuard, FiniteSets

CONSTANTS Sockets,               \* bound: sockets one side or the other knows
          MaxReconnectAttempts,  \* 20 in the code
          Hooks,                 \* the useMarket hooks: the layout's and a page's
          Engines,               \* the loops of the server that broadcast prices
          Prices,                \* bound: what market_state may hold
          None                   \* no socket, no reason, no hook

ASSUME RealtimeAssumption == MaxReconnectAttempts \in Nat /\ Prices \subseteq Nat \ {NoPrice}

VARIABLES token,     \* the access token in the store
          healthy,   \* network and server work
          price,     \* market_state's price
          shown,     \* bufferRef of each hook, or None
          eng,       \* fields of WebSocketEngine, and its timeouts
          sock,      \* browser: state of each socket
          fresh,     \* whether the token a socket was opened with is still valid
          linked,    \* whether the connection below a socket still works
          conn,      \* server: where websocket_endpoint is for each socket
          inbox,     \* server: a ping or a subscription has yet to be answered
          registry,  \* manager._connections
          casting,   \* the sends each engine's broadcast still waits for
          snapshot,  \* the price they carry
          left       \* history: why the engine has stopped trying

network == <<token, healthy>>
server == <<conn, inbox, registry, casting, snapshot>>
market == <<price, shown>>
client == <<eng, sock, fresh, left>>
vars == <<network, market, client, linked, server>>

-----------------------------------------------------------------------------
(* WebSocketEngine *)

Engine == [socket |-> None, connected |-> FALSE, connecting |-> FALSE,
           attempts |-> 0, timers |-> 0, beats |-> FALSE, queue |-> 0]

(* What is sent while there is no connection is kept for the next one.     *)
Send(e) == IF e.connected THEN e ELSE [e EXCEPT !.queue = @ + 1]
FlushQueue(e) == [e EXCEPT !.queue = 0]

TimerKept(e) == [e EXCEPT !.beats = FALSE]  \* mutant: the timeout is not cleared
Cleanup(e) == [e EXCEPT !.beats = FALSE, !.timers = 0]

Opened(e) ==
  FlushQueue([e EXCEPT !.connected = TRUE, !.connecting = FALSE, !.attempts = 0, !.beats = TRUE])
StillConnecting(e) == Cleanup([e EXCEPT !.connected = FALSE])  \* mutant: isConnecting stays
Closed(e) == Cleanup([e EXCEPT !.connected = FALSE, !.connecting = FALSE])

CanRetry(e) == e.attempts < MaxReconnectAttempts
Retried(e) == [e EXCEPT !.attempts = @ + 1, !.timers = @ + 1]

(* connect(), called on an engine in state e.                              *)
Free(s) == sock[s] = "none" /\ conn[s] = "none" /\ s \notin registry \cup UNION {casting[g] : g \in Engines}
Connect(e) ==
  IF e.connected \/ e.connecting
  THEN eng' = e /\ UNCHANGED <<sock, fresh, linked, left>>
  ELSE IF token # "valid"
  THEN /\ eng' = e
       /\ left' = (IF e.timers = 0 /\ left = None THEN "token" ELSE left)
       /\ UNCHANGED <<sock, fresh, linked>>
  ELSE \E s \in {s \in Sockets : Free(s)} :
         /\ eng' = [e EXCEPT !.connecting = TRUE, !.socket = s]
         /\ sock' = [sock EXCEPT ![s] = "opening"]
         /\ fresh' = [fresh EXCEPT ![s] = TRUE]
         /\ linked' = [linked EXCEPT ![s] = TRUE]
         /\ left' = None

(* useMarket is mounted, by the layout or by a page that trades, and gone. *)
Mount(h) ==
  /\ token # "none" /\ shown[h] = None
  /\ shown' = [shown EXCEPT ![h] = NoPrice]
  /\ Connect(eng)
  /\ UNCHANGED <<network, price, server>>
Unmount(h) ==
  /\ shown[h] # None
  /\ shown' = [shown EXCEPT ![h] = None]
  /\ UNCHANGED <<network, price, client, linked, server>>

Reconnect ==
  /\ eng.timers > 0
  /\ Connect([eng EXCEPT !.timers = @ - 1])
  /\ UNCHANGED <<network, market, server>>

(* The queue is flushed, the heartbeat runs, and the market is subscribed. *)
OnOpen(s) ==
  /\ sock[s] = "opening" /\ conn[s] # "none" /\ linked[s]
  /\ eng' = Send(Opened(eng))
  /\ sock' = [sock EXCEPT ![s] = "open"]
  /\ inbox' = [inbox EXCEPT ![s] = TRUE]
  /\ UNCHANGED <<network, market, fresh, left, linked, conn, registry, casting, snapshot>>

OnClose(s) ==
  /\ sock[s] # "none" /\ ~linked[s]
  /\ sock' = [sock EXCEPT ![s] = "none"]
  /\ LET e == Closed(eng)
     IN \/ /\ token # "valid"
           /\ eng' = e /\ left' = "token"
        \/ /\ token = "valid" /\ ~CanRetry(e)
           /\ eng' = e /\ left' = "limit"
        \/ /\ token = "valid" /\ CanRetry(e)
           /\ eng' = Retried(e) /\ UNCHANGED left
  /\ UNCHANGED <<network, market, fresh, linked, server>>

Heartbeat ==
  /\ eng.beats
  /\ eng' = Send(eng)
  /\ inbox' = [s \in Sockets |-> inbox[s] \/ (eng.connected /\ s = eng.socket /\ linked[s])]
  /\ UNCHANGED <<network, market, sock, fresh, left, linked, conn, registry, casting, snapshot>>

-----------------------------------------------------------------------------
(* websocket_endpoint and ConnectionManager *)

(* The listeners are the hooks that are mounted. *)
HandleMessage(p) ==
  shown' = [h \in Hooks |-> IF shown[h] = None THEN None ELSE Merged(shown[h], p)]

EveryoneDropped(s) == {}  \* mutant: the registry is emptied
Disconnect(s) == registry \ {s}

(* A token that has expired on the way is refused. *)
Refuse(s) ==
  /\ sock[s] = "opening" /\ linked[s] /\ conn[s] = "none" /\ ~fresh[s]
  /\ linked' = [linked EXCEPT ![s] = FALSE]
  /\ UNCHANGED <<network, market, client, server>>

(* manager.connect: accepted, then listed. *)
Accept(s) ==
  /\ sock[s] = "opening" /\ linked[s] /\ conn[s] = "none" /\ fresh[s]
  /\ conn' = [conn EXCEPT ![s] = "accepted"]
  /\ UNCHANGED <<network, market, client, linked, inbox, registry, casting, snapshot>>
Register(s) ==
  /\ conn[s] = "accepted"
  /\ conn' = [conn EXCEPT ![s] = "serving"]
  /\ registry' = registry \cup {s}
  /\ UNCHANGED <<network, market, client, linked, inbox, casting, snapshot>>

(* The loop answers, or fails to.  Either way out of it disconnects.       *)
Answer(s) ==
  /\ conn[s] = "serving" /\ inbox[s] /\ linked[s]
  /\ inbox' = [inbox EXCEPT ![s] = FALSE]
  /\ UNCHANGED <<network, market, client, linked, conn, registry, casting, snapshot>>
EndpointEnds(s) ==
  /\ conn[s] = "serving" /\ ~linked[s]
  /\ conn' = [conn EXCEPT ![s] = "none"]
  /\ inbox' = [inbox EXCEPT ![s] = FALSE]
  /\ registry' = Disconnect(s)
  /\ UNCHANGED <<network, market, client, linked, casting, snapshot>>

(* A broadcast sends to those who are listed when it begins; who cannot be *)
(* sent to is dropped.  Its engine waits for all the sends, and the others *)
(* may broadcast meanwhile.                                                *)
Broadcast(g) ==
  /\ casting[g] = {} /\ registry # {}
  /\ casting' = [casting EXCEPT ![g] = registry]
  /\ snapshot' = [snapshot EXCEPT ![g] = price]
  /\ UNCHANGED <<network, market, client, linked, conn, inbox, registry>>
SafeSend(g, s) ==
  /\ s \in casting[g]
  /\ casting' = [casting EXCEPT ![g] = @ \ {s}]
  /\ snapshot' = [snapshot EXCEPT ![g] = IF casting'[g] = {} THEN NoPrice ELSE @]
  /\ IF linked[s]
     THEN sock[s] = "open" /\ HandleMessage(snapshot[g]) /\ UNCHANGED registry
     ELSE registry' = Disconnect(s) /\ UNCHANGED shown
  /\ UNCHANGED <<network, price, client, linked, conn, inbox>>

-----------------------------------------------------------------------------
(* The environment *)

(* The market moves. *)
Tick ==
  /\ \E p \in Prices \ {price} : price' = p
  /\ UNCHANGED <<network, shown, client, linked, server>>

(* The store: signed in or refreshed, signed out, run out. *)
Issue == token # "valid" /\ token' = "valid" /\ UNCHANGED fresh
SignOut == token # "none" /\ token' = "none" /\ UNCHANGED fresh
Expire == token = "valid" /\ token' = "expired" /\ fresh' = [s \in Sockets |-> FALSE]
TokenChanges ==
  /\ Issue \/ SignOut \/ Expire
  /\ UNCHANGED <<healthy, market, eng, sock, left, linked, server>>

Fault ==
  /\ healthy' = ~healthy
  /\ UNCHANGED <<token, market, client, linked, server>>
LinkBreaks(s) ==
  /\ ~healthy /\ linked[s]
  /\ linked' = [linked EXCEPT ![s] = FALSE]
  /\ UNCHANGED <<network, market, client, server>>
ServerRestarts ==
  /\ ~healthy
  /\ linked' = [s \in Sockets |-> FALSE]
  /\ conn' = [s \in Sockets |-> "none"]
  /\ inbox' = [s \in Sockets |-> FALSE]
  /\ registry' = {}
  /\ casting' = [g \in Engines |-> {}] /\ snapshot' = [g \in Engines |-> NoPrice]
  /\ UNCHANGED <<network, market, client>>

-----------------------------------------------------------------------------
Init ==
  /\ token = "none" /\ healthy = TRUE
  /\ eng = Engine /\ left = "idle"
  /\ sock = [s \in Sockets |-> "none"]
  /\ fresh = [s \in Sockets |-> FALSE]
  /\ linked = [s \in Sockets |-> FALSE]
  /\ conn = [s \in Sockets |-> "none"]
  /\ inbox = [s \in Sockets |-> FALSE]
  /\ registry = {}
  /\ casting = [g \in Engines |-> {}] /\ snapshot = [g \in Engines |-> NoPrice]
  /\ price \in Prices /\ shown = [h \in Hooks |-> None]

Serve(s) == Refuse(s) \/ Accept(s) \/ Register(s) \/ Answer(s) \/ EndpointEnds(s)

Next ==
  \/ \E h \in Hooks : Mount(h) \/ Unmount(h)
  \/ Reconnect \/ Heartbeat
  \/ \E s \in Sockets : OnOpen(s) \/ OnClose(s) \/ Serve(s) \/ LinkBreaks(s)
  \/ \E g \in Engines : Broadcast(g) \/ \E s \in Sockets : SafeSend(g, s)
  \/ Tick \/ TokenChanges \/ Fault \/ ServerRestarts

Spec == Init /\ [][Next]_vars

(* Timeouts fire, the browser reports what becomes of a socket, and the    *)
(* server does the same; a send ends, if only with its failure.            *)
Fairness ==
  /\ WF_vars(Reconnect)
  /\ \A s \in Sockets : WF_vars(OnOpen(s)) /\ WF_vars(OnClose(s)) /\ WF_vars(Serve(s))
  /\ \A g \in Engines : WF_vars(Broadcast(g)) /\ \A s \in Sockets : WF_vars(SafeSend(g, s))
FairSpec == Spec /\ Fairness

-----------------------------------------------------------------------------
(* Properties *)

(* The engine's flags are what the browser says of its sockets, through    *)
(* mounts, timeouts and closes in any order: it never has two of them, the *)
(* heartbeat runs exactly while one is open, so that no ping piles up in   *)
(* the queue, one timeout at most is waiting, and a connection that opens  *)
(* has all its attempts again (websocket.js:57-114, 204-248).              *)
EngineTracksSocket ==
  LET live == {s \in Sockets : sock[s] # "none"}
  IN /\ live = (IF eng.connected \/ eng.connecting THEN {eng.socket} ELSE {})
     /\ eng.connected = \E s \in live : sock[s] = "open"
     /\ ~(eng.connected /\ eng.connecting)
     /\ eng.beats = eng.connected
     /\ eng.queue = 0
     /\ eng.timers <= 1 /\ eng.attempts \in 0..MaxReconnectAttempts
     /\ eng.connected => eng.attempts = 0

(* Whoever has an open socket that works is in every broadcast that begins *)
(* from the moment it is listed, however late the server learns of the     *)
(* sockets it had before (manager.py:39-69, routes.py:491-526).            *)
OpenSocketsHear ==
  \A s \in Sockets : sock[s] = "open" /\ linked[s] => conn[s] = "accepted" \/ s \in registry

(* Once the token stays valid and nothing fails any more, the stream comes *)
(* back for good, and every hook that stays mounted shows the price, or    *)
(* refuses it because it has missed the way to it (useMarket.js:43);       *)
(* unless the engine had stopped trying before, for want of a valid token  *)
(* or after its last attempt, and nobody mounts a hook again.              *)
Moving == []<><<TRUE>>_price
UpToDate(h) ==
  shown[h] \in {None, price} \/ (shown[h] # NoPrice /\ Jump(shown[h], price))
StreamComesBack ==
  <>[](token = "valid" /\ healthy) =>
    \/ <>[](left # None)
    \/ <>[](eng.connected) /\ (Moving \/ \A h \in Hooks : []<>UpToDate(h))
=============================================================================
