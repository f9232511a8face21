------------------------ MODULE RealtimeClientProofs ------------------------
(***************************************************************************)
(* What RealtimeClient keeps true for every set of sockets, hooks and      *)
(* prices and every limit on the attempts.                                 *)
(***************************************************************************)
EXTENDS RealtimeClient, TLAPS

EngineRecord ==
  [socket : Sockets \cup {None}, connected : BOOLEAN, connecting : BOOLEAN,
   attempts : Nat, timers : Nat, beats : BOOLEAN, queue : Nat]

SocketStates == [Sockets -> {"none", "opening", "open"}]

(* EngineTracksSocket of an engine in state e whose sockets are in states  *)
(* k, socket by socket.                                                    *)
Tracks(e, k) ==
  /\ e.connected \/ e.connecting => e.socket \in Sockets
  /\ \A s \in Sockets : k[s] # "none" <=> s = e.socket /\ (e.connected \/ e.connecting)
  /\ \A s \in Sockets : k[s] = "open" <=> s = e.socket /\ e.connected
  /\ ~(e.connected /\ e.connecting)
  /\ e.beats = e.connected
  /\ e.queue = 0
  /\ e.timers <= 1 /\ e.attempts <= MaxReconnectAttempts
  /\ e.connected => e.attempts = 0

ClientType == eng \in EngineRecord /\ sock \in SocketStates
ClientInv == ClientType /\ Tracks(eng, sock)

ServerType ==
  /\ linked \in [Sockets -> BOOLEAN]
  /\ conn \in [Sockets -> {"none", "accepted", "serving"}]

(* Who is served over a link that works is listed, and who has an open     *)
(* socket has been accepted.                                               *)
Listed ==
  \A s \in Sockets : linked[s] =>
    /\ conn[s] = "serving" => s \in registry
    /\ sock[s] = "open" => conn[s] # "none"

ServerInv == sock \in SocketStates /\ ServerType /\ Listed

-----------------------------------------------------------------------------
(* The engine's side *)

LEMMA TracksIsEnough ==
  ASSUME ClientInv PROVE EngineTracksSocket
<1> DEFINE live == {s \in Sockets : sock[s] # "none"}
<1>1. eng.attempts \in 0..MaxReconnectAttempts
  BY RealtimeAssumption DEF ClientInv, ClientType, Tracks, EngineRecord
<1>2. CASE eng.connected \/ eng.connecting
  <2>1. live = {eng.socket}
    BY <1>2 DEF ClientInv, Tracks
  <2>2. eng.connected = \E s \in live : sock[s] = "open"
    BY <1>2, <2>1 DEF ClientInv, ClientType, Tracks, EngineRecord
  <2> QED BY <1>1, <1>2, <2>1, <2>2 DEF ClientInv, Tracks, EngineTracksSocket
<1>3. CASE ~(eng.connected \/ eng.connecting)
  <2>1. live = {}
    BY <1>3 DEF ClientInv, Tracks
  <2>2. eng.connected = \E s \in live : sock[s] = "open"
    BY <1>3, <2>1 DEF ClientInv, ClientType, EngineRecord
  <2> QED BY <1>1, <1>3, <2>1, <2>2 DEF ClientInv, Tracks, EngineTracksSocket
<1> QED BY <1>2, <1>3

(* connect() leaves an engine that tracks its socket in such a state, also *)
(* when it is called by a timeout that has just been taken off.            *)
LEMMA ConnectTracks ==
  ASSUME NEW e \in EngineRecord, sock \in SocketStates, Tracks(e, sock), Connect(e)
  PROVE  ClientInv'
<1>1. CASE eng' = e /\ UNCHANGED sock
  BY <1>1 DEF ClientInv, ClientType, Tracks
<1>2. CASE \E s \in Sockets :
             /\ ~e.connected /\ ~e.connecting
             /\ eng' = [e EXCEPT !.connecting = TRUE, !.socket = s]
             /\ sock' = [sock EXCEPT ![s] = "opening"]
  <2> PICK s \in Sockets :
             /\ ~e.connected /\ ~e.connecting
             /\ eng' = [e EXCEPT !.connecting = TRUE, !.socket = s]
             /\ sock' = [sock EXCEPT ![s] = "opening"]
    BY <1>2
  <2>1. ClientType'
    BY DEF ClientType, EngineRecord, SocketStates
  <2>2. Tracks(eng, sock)'
    BY DEF Tracks, EngineRecord, SocketStates
  <2> QED BY <2>1, <2>2 DEF ClientInv
<1> QED BY <1>1, <1>2 DEF Connect

LEMMA MountTracks ==
  ASSUME ClientInv, NEW h \in Hooks, Mount(h) PROVE ClientInv'
BY ConnectTracks DEF Mount, ClientInv, ClientType

LEMMA ReconnectTracks ==
  ASSUME ClientInv, Reconnect PROVE ClientInv'
<1> DEFINE e == [eng EXCEPT !.timers = @ - 1]
<1>1. e \in EngineRecord /\ Tracks(e, sock) /\ sock \in SocketStates /\ Connect(e)
  BY DEF Reconnect, ClientInv, ClientType, EngineRecord, Tracks
<1> HIDE DEF e
<1> QED BY <1>1, ConnectTracks

LEMMA OnOpenTracks ==
  ASSUME ClientInv, NEW s \in Sockets, OnOpen(s) PROVE ClientInv'
<1>1. s = eng.socket /\ eng.connecting /\ ~eng.connected
  BY DEF OnOpen, ClientInv, ClientType, Tracks, EngineRecord
<1>2. eng' = [eng EXCEPT !.connected = TRUE, !.connecting = FALSE, !.attempts = 0,
                         !.beats = TRUE, !.queue = 0]
  BY <1>1 DEF OnOpen, Opened, Send, FlushQueue, ClientInv, ClientType, EngineRecord
<1>3. sock' = [sock EXCEPT ![s] = "open"]
  BY DEF OnOpen
<1>4. ClientType'
  BY <1>2, <1>3 DEF ClientInv, ClientType, EngineRecord, SocketStates
<1>5. Tracks(eng, sock)'
  BY <1>1, <1>2, <1>3, RealtimeAssumption
     DEF ClientInv, ClientType, Tracks, EngineRecord, SocketStates
<1> QED BY <1>4, <1>5 DEF ClientInv

(* The socket that closes is the engine's only one. *)
LEMMA OnCloseTracks ==
  ASSUME ClientInv, NEW s \in Sockets, OnClose(s) PROVE ClientInv'
<1> DEFINE e == [eng EXCEPT !.connected = FALSE, !.connecting = FALSE,
                            !.beats = FALSE, !.timers = 0]
<1>1. s = eng.socket
  BY DEF OnClose, ClientInv, Tracks
<1>2. Closed(eng) = e
  BY DEF ClientInv, ClientType, EngineRecord, Closed, Cleanup
<1>3. /\ e \in EngineRecord /\ ~e.connected /\ ~e.connecting /\ ~e.beats
      /\ e.timers = 0 /\ e.queue = 0 /\ e.attempts <= MaxReconnectAttempts
  BY DEF ClientInv, ClientType, Tracks, EngineRecord
<1>4. \/ eng' = e
      \/ e.attempts < MaxReconnectAttempts /\ eng' = [e EXCEPT !.attempts = @ + 1, !.timers = @ + 1]
  BY <1>2 DEF OnClose, Retried, CanRetry
<1> HIDE DEF e
<1>5. /\ eng' \in EngineRecord /\ ~eng'.connected /\ ~eng'.connecting /\ ~eng'.beats
      /\ eng'.timers <= 1 /\ eng'.queue = 0 /\ eng'.attempts <= MaxReconnectAttempts
  <2>1. CASE eng' = e
    BY <1>3, <2>1
  <2>2. CASE /\ e.attempts < MaxReconnectAttempts
             /\ eng' = [e EXCEPT !.attempts = @ + 1, !.timers = @ + 1]
    <3>1. e.attempts + 1 \in Nat /\ e.timers + 1 \in Nat
      BY <1>3 DEF EngineRecord
    <3>2. eng' = [e EXCEPT !.attempts = e.attempts + 1, !.timers = e.timers + 1]
      BY <2>2
    <3>3. e.attempts \in Nat
      BY <1>3 DEF EngineRecord
    <3>4. /\ eng' \in EngineRecord /\ eng'.attempts = e.attempts + 1
          /\ eng'.timers = e.timers + 1 /\ eng'.queue = e.queue
      BY <1>3, <3>1, <3>2 DEF EngineRecord
    <3>5. eng'.connected = e.connected /\ eng'.connecting = e.connecting /\ eng'.beats = e.beats
      BY <1>3, <3>2 DEF EngineRecord
    <3> QED BY <1>3, <2>2, <3>3, <3>4, <3>5, RealtimeAssumption
  <2> QED BY <1>4, <2>1, <2>2
<1>6. /\ sock' = [sock EXCEPT ![s] = "none"] /\ sock \in SocketStates
      /\ \A q \in Sockets : q # s => sock[q] = "none"
  BY <1>1 DEF OnClose, ClientInv, ClientType, Tracks
<1>7. sock' \in SocketStates /\ \A q \in Sockets : sock'[q] = "none"
  BY <1>6 DEF SocketStates
<1>8. eng'.beats = eng'.connected
  BY <1>5 DEF EngineRecord
<1> QED BY <1>5, <1>7, <1>8 DEF ClientInv, ClientType, Tracks

LEMMA HeartbeatTracks ==
  ASSUME ClientInv, Heartbeat PROVE ClientInv'
BY DEF Heartbeat, Send, ClientInv, ClientType, Tracks

-----------------------------------------------------------------------------
(* The server's side *)

LEMMA EndpointListed ==
  ASSUME ServerInv, NEW s \in Sockets, Serve(s) PROVE ServerInv'
<1>1. CASE Refuse(s)
  BY <1>1 DEF Refuse, client, server, ServerInv, ServerType, Listed
<1>2. CASE Accept(s)
  BY <1>2 DEF Accept, client, ServerInv, ServerType, Listed
<1>3. CASE Register(s)
  BY <1>3 DEF Register, client, ServerInv, ServerType, Listed
<1>4. CASE Answer(s)
  BY <1>4 DEF Answer, client, ServerInv, ServerType, Listed
<1>5. CASE EndpointEnds(s)
  BY <1>5 DEF EndpointEnds, Disconnect, client, ServerInv, ServerType, Listed
<1> QED BY <1>1, <1>2, <1>3, <1>4, <1>5 DEF Serve

(* A new socket is one the server does not know. *)
LEMMA ConnectListed ==
  ASSUME ServerInv, NEW e, Connect(e), UNCHANGED server PROVE ServerInv'
<1>1. CASE UNCHANGED <<sock, linked>>
  BY <1>1 DEF server, ServerInv, ServerType, Listed
<1>2. CASE \E s \in Sockets :
             /\ conn[s] = "none"
             /\ sock' = [sock EXCEPT ![s] = "opening"]
             /\ linked' = [linked EXCEPT ![s] = TRUE]
  BY <1>2 DEF server, ServerInv, ServerType, Listed, SocketStates
<1> QED BY <1>1, <1>2 DEF Connect, Free

LEMMA BrowserListed ==
  ASSUME ServerInv, NEW s \in Sockets, OnOpen(s) \/ OnClose(s) PROVE ServerInv'
<1>1. CASE OnOpen(s)
  BY <1>1 DEF OnOpen, ServerInv, ServerType, Listed, SocketStates
<1>2. CASE OnClose(s)
  BY <1>2 DEF OnClose, server, ServerInv, ServerType, Listed, SocketStates
<1> QED BY <1>1, <1>2

(* Only who cannot be sent to is dropped by a broadcast. *)
LEMMA BroadcastListed ==
  ASSUME ServerInv, NEW g \in Engines, Broadcast(g) \/ \E s \in Sockets : SafeSend(g, s)
  PROVE  ServerInv'
BY DEF Broadcast, SafeSend, Disconnect, client, ServerInv, ServerType, Listed

LEMMA FaultsListed ==
  ASSUME ServerInv, ServerRestarts \/ \E s \in Sockets : LinkBreaks(s) PROVE ServerInv'
BY DEF ServerRestarts, LinkBreaks, client, server, ServerInv, ServerType, Listed

-----------------------------------------------------------------------------
IInv == ClientInv /\ ServerInv

LEMMA InitIInv == Init => IInv
BY RealtimeAssumption
   DEF Init, IInv, ClientInv, ClientType, ServerInv, ServerType, Tracks, Listed,
       Engine, EngineRecord, SocketStates

LEMMA ClientStep == ASSUME ClientInv, [Next]_vars PROVE ClientInv'
<1>1. ASSUME NEW s \in Sockets, Serve(s) \/ LinkBreaks(s) PROVE ClientInv'
  <2>1. UNCHANGED client
    BY <1>1 DEF Serve, Refuse, Accept, Register, Answer, EndpointEnds, LinkBreaks
  <2> QED BY <2>1 DEF client, ClientInv, ClientType, Tracks
<1>2. ASSUME UNCHANGED <<eng, sock>> PROVE ClientInv'
  BY <1>2 DEF ClientInv, ClientType, Tracks
<1>3. ASSUME NEW g \in Engines, Broadcast(g) \/ \E s \in Sockets : SafeSend(g, s)
      PROVE  UNCHANGED <<eng, sock>>
  BY <1>3 DEF Broadcast, SafeSend, client
<1>4. Tick \/ TokenChanges \/ Fault \/ ServerRestarts \/ UNCHANGED vars
      \/ (\E h \in Hooks : Unmount(h)) => UNCHANGED <<eng, sock>>
  BY DEF Tick, TokenChanges, Fault, ServerRestarts, Unmount, client, vars
<1> QED BY <1>1, <1>2, <1>3, <1>4, MountTracks, ReconnectTracks, OnOpenTracks, OnCloseTracks,
           HeartbeatTracks DEF Next

LEMMA ServerStep == ASSUME ServerInv, [Next]_vars PROVE ServerInv'
<1>1. ASSUME UNCHANGED <<sock, linked, conn, registry>> PROVE ServerInv'
  BY <1>1 DEF ServerInv, ServerType, Listed
<1>2. Heartbeat \/ Tick \/ TokenChanges \/ Fault \/ UNCHANGED vars
      \/ (\E h \in Hooks : Unmount(h)) => UNCHANGED <<sock, linked, conn, registry>>
  BY DEF Heartbeat, Tick, TokenChanges, Fault, Unmount, client, server, vars
<1>3. ASSUME Reconnect \/ \E h \in Hooks : Mount(h) PROVE ServerInv'
  BY <1>3, ConnectListed DEF Reconnect, Mount
<1> QED BY <1>1, <1>2, <1>3, EndpointListed, BrowserListed, BroadcastListed, FaultsListed DEF Next

THEOREM InductiveInvariant == Spec => []IInv
<1>1. Init => IInv
  BY InitIInv
<1>2. IInv /\ [Next]_vars => IInv'
  BY ClientStep, ServerStep DEF IInv
<1> QED BY <1>1, <1>2, PTL DEF Spec

(* However mounts, timeouts and closes interleave, there is one socket, one *)
(* timeout and one heartbeat at most, and no queue (websocket.js:57-248).   *)
THEOREM EngineAlwaysTracksSocket == Spec => []EngineTracksSocket
<1>1. IInv => EngineTracksSocket
  BY TracksIsEnough DEF IInv
<1> QED BY <1>1, InductiveInvariant, PTL

(* However late the server learns what became of the sockets before it, an  *)
(* open socket that works is in every broadcast (manager.py:39-69).         *)
THEOREM OpenSocketsAlwaysHear == Spec => []OpenSocketsHear
<1>1. IInv => OpenSocketsHear
  BY DEF IInv, ServerInv, ServerType, Listed, OpenSocketsHear
<1> QED BY <1>1, InductiveInvariant, PTL
=============================================================================
