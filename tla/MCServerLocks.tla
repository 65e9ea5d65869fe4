--------------------------- MODULE MCServerLocks ----------------------------
(* Instances of ServerLocks for TLC: which goroutine runs what. *)
EXTENDS ServerLocks, TLC

CONSTANTS c1, c2, tcp, udp, own

TwoConns == {c1, c2}
Locks == {c1, c2, Server}

\* The server's mutex is taken before those of the connections.
ServerFirst == [l \in Locks |-> IF l = Server THEN 1 ELSE 0]

\* A map of both connections is gone through in either order, or in one.
BothOrders == {<<c1, c2>>, <<c2, c1>>}
OneOrder == {<<c1, c2>>}

Goroutines == {tcp, udp, own}

\* Handlers that take the server's mutex first, or one mutex at a time.  The
\* goroutine tcp serves the stream of c1; udp the datagrams of both
\* connections, or delivers a broadcast; own is the server's.
LobbyCalls ==
  tcp :> Accept(c1) \cup Disconnect(c1) \cup HandleMessage(c1, HandleLogin(c1)) @@
  udp :> FindConnection(c1) \cup HandleMessage(c1, HandlePlayerData(c1))
           \cup HandleChunkRequest(c2) \cup DeliverAll(c2) \cup DeliverInRange(c1) @@
  own :> CleanupInactiveConnections \cup Save

\* The game itself: nobody comes or goes.  The order of the locks is the
\* other way round.
ConnectionsFirst == [l \in Locks |-> IF l = Server THEN 0 ELSE 1]
GameCalls ==
  tcp :> HandleMovement(c1) \cup ChatToAll(c1) \cup DeliverAll(c2) @@
  udp :> HandleMessage(c1, HandlePingPong(c1)) \cup HandleChunkRequest(c1)
           \cup Heartbeat(c2) @@
  own :> Save \cup Tick

\* A login on one connection, a movement on the other.
LoginMovementCalls ==
  tcp :> HandleLogin(c1) @@ udp :> HandleMovement(c2) @@ own :> {}

\* A chat message to all and a heartbeat of one connection, and the sweep.
ChatSweepCalls ==
  tcp :> ChatToAll(c1) @@ udp :> Heartbeat(c1) @@ own :> CleanupInactiveConnections

\* A movement on a connection nobody is logged in on, and a login on it.
AnonymousCalls ==
  tcp :> HandleLogin(c1) @@ udp :> AnonymousMovement(c1) @@ own :> {}

\* Two logins on one connection, by TCP and by UDP.
TwoLoginsCalls ==
  tcp :> HandleLogin(c1) @@ udp :> HandleLogin(c1) @@ own :> {}

\* A chat message by TCP and a heartbeat by UDP of one connection.
ChatHeartbeatCalls ==
  tcp :> ChatAnswer(c1) \cup ChatTeleport(c1) @@ udp :> Heartbeat(c1) @@ own :> {}
=============================================================================
