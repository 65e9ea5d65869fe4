---------------------------- MODULE ServerLocks -----------------------------
(***************************************************************************)
(* The locking of the game server.  GameServer.mu and the GameConnection.mu*)
(* of every connection are the mutexes; each handler is the set of the     *)
(* codes one call of it may run, one per way through it: which lock is     *)
(* taken and released when, which shared variable is used under it, and    *)
(* where the handler writes to a TCP socket.                               *)
(*                                                                         *)
(* Ways through a handler which only differ in the text of the answer, and *)
(* reads of variables nobody changes after StartServer, are not told apart.*)
(* The goroutines a broadcast starts are codes of their own, DeliverAll    *)
(* and DeliverInRange.                                                     *)
(***************************************************************************)
EXTENDS RWMutex, SequencesExt

CONSTANTS
  Conn,    \* the connections, each with its mutex and its peer
  Server,  \* GameServer.mu
  Listings \* the orders in which a map of connections, or a copy of it, is
           \* gone through, to its end or until a break

ASSUME LocksAssumption ==
  /\ Lock = Conn \cup {Server}
  /\ Peer = Conn
  /\ Server \notin Conn
  /\ Listings \subseteq Seq(Conn)

\* What goroutines share: the maps of GameServer, and of each connection
\* the pointer gc.player, the fields of *gc.player and the UDP address.
Table == <<"connections", Server>>
Moving == <<"movingPlayers", Server>>
Tiles == <<"updatedTiles", Server>>
PlayerOf(c) == <<"player", c>>
RowOf(c) == <<"row", c>>
UdpOf(c) == <<"udpAddr", c>>

Maps == {Table, Moving, Tiles}
Shared == Maps \cup ({"player", "row", "udpAddr"} \X Conn)

ASSUME SharedAssumption == Shared \subseteq Object

Read(x) == <<<<"read", x>>>>
Write(x) == <<<<"write", x>>>>

\* A critical section.
Reading(l, body) == <<<<"RLock", l>>>> \o body \o <<<<"RUnlock", l>>>>
Writing(l, body) == <<<<"Lock", l>>>> \o body \o <<<<"Unlock", l>>>>

\* The loop over a listing.
ForEach(o, Body(_)) == FlattenSeq([i \in DOMAIN o |-> Body(o[i])])

-----------------------------------------------------------------------------
(* Sending. *)

\* Mutant: the lock is kept during the write.
SendTCPMessage_Deferred(c) == Reading(c, <<<<"send", c>>>>)
SendTCPMessage(c) == Reading(c, <<>>) \o <<<<"send", c>>>>

\* gc.udpConn is first tested without the lock.
SendUDPMessage(c) == Read(UdpOf(c)) \o Reading(c, Read(UdpOf(c)))

\* Broadcast and BroadcastInRange: a copy of the table, and goroutines.
Broadcast == Reading(Server, Read(Table))

\* Such a goroutine of Broadcast.
DeliverAll(c) == {SendTCPMessage(c)}

\* Such a goroutine of BroadcastInRange, for each of the ways to send.
DeliverInRange(c) ==
  LET range == Reading(c, Read(PlayerOf(c)) \o Read(RowOf(c)))
  IN  {Reading(c, Read(PlayerOf(c))), range, range \o SendTCPMessage(c), range \o SendUDPMessage(c)}

-----------------------------------------------------------------------------
(* Connections. *)

\* handleTCPConnection up to its loop, NewGameConnection included; the
\* server is full, or not.
Accept(c) ==
  LET unique == Reading(Server, Read(Table))
  IN  {unique \o Writing(Server, Read(Table)) \o SendTCPMessage(c),
       unique \o Writing(Server, Read(Table) \o Write(Table)) \o SendTCPMessage(c)}

\* handleUDPConnection, before handleMessage: the address is bound, or only
\* compared, or the connection is not found.
FindConnection(c) ==
  LET find == Reading(Server, Read(Table))
  IN  {find \o Writing(c, Read(UdpOf(c))), find \o Writing(c, Read(UdpOf(c)) \o Write(UdpOf(c))), find}

\* The head of handleMessage.
Heartbeat(c) == {Writing(c, <<>>)}

\* handleMessage around the codes of a handler.
HandleMessage(c, handler) == {h \o m : h \in Heartbeat(c), m \in handler}

\* Mutant: handleDisconnect takes the lock its callers hold.
HandleDisconnect_Locking(c) ==
  Reading(c, Read(PlayerOf(c))) \o Writing(Server, Read(Table) \o Write(Table)) \o Read(RowOf(c))

\* It is called with the server's mutex locked.  The row of a connection that
\* has one is saved without the connection's mutex.
HandleDisconnect(c) ==
  Reading(c, Read(PlayerOf(c)) \o Read(RowOf(c))) \o Read(Table) \o Write(Table) \o Read(RowOf(c))

\* The two callers that serve the connection: the tail of
\* handleTCPConnection and a Disconnect message.
Disconnect(c) == {Writing(Server, HandleDisconnect(c))}

\* Who has been silent is looked for in the connections o, then removed.
Heartbeats(o) == ForEach(o, LAMBDA c : Reading(c, <<>>))
Sweep(o) == IF o = <<>> THEN <<>> ELSE Writing(Server, ForEach(o, HandleDisconnect))

CleanupInactiveConnections ==
  {Reading(Server, Read(Table)) \o Heartbeats(o) \o Sweep(r) : o \in Listings, r \in Listings}

-----------------------------------------------------------------------------
(* Messages. *)

\* The players of the connections o are looked at, each under its mutex.
LookAt(o) == ForEach(o, LAMBDA d : Reading(d, Read(PlayerOf(d)) \o Read(RowOf(d))))

SendSyncState(c) ==
  LET me == Reading(c, Read(PlayerOf(c)) \o Read(RowOf(c)))
      tables == Reading(Server, Read(Table)) \o Reading(Server, <<>>)
  IN  {me \o tables \o LookAt(o) \o SendTCPMessage(c) : o \in Listings}
      \cup {Reading(c, Read(PlayerOf(c)))}

\* The nicknames of the connections are read under both locks.
CheckNickname(o) == Reading(Server, Read(Table) \o LookAt(o))

\* Refused, not found, found.  The row found is read without a lock.
HandleLogin(c) ==
  LET look == Writing(c, Write(PlayerOf(c)))
      answer == Read(PlayerOf(c)) \o Read(RowOf(c)) \o SendTCPMessage(c)
      join == Read(PlayerOf(c)) \o Read(RowOf(c)) \o Broadcast
  IN  UNION {
        {CheckNickname(o) \o SendTCPMessage(c),
         CheckNickname(o) \o look \o SendTCPMessage(c)} \cup
        {CheckNickname(o) \o look \o answer \o join \o s : s \in SendSyncState(c)} : o \in Listings}

\* The whole of handleChat holds the connection's mutex for reading.
InChat(c, body) == Reading(c, Read(PlayerOf(c)) \o body)

\* An answer to the sender alone: an error, /help, /w.
ChatAnswer(c) == {InChat(c, SendTCPMessage(c))}

\* A message to all, or /notice.
ChatToAll(c) == {InChat(c, Read(RowOf(c)) \o Broadcast)}

\* /tp: the players of all connections are looked at under the server's
\* mutex only; @me skips the search.
ChatTeleport(c) ==
  LET search(o) == Reading(Server, Read(Table) \o
                     ForEach(o, LAMBDA d : Read(PlayerOf(d)) \o Read(RowOf(d))))
      move(d) == Write(RowOf(d)) \o Writing(Server, Write(Moving)) \o SendTCPMessage(c)
  IN  {InChat(c, move(c))}
      \cup {InChat(c, search(o) \o SendTCPMessage(c)) : o \in Listings}
      \cup {InChat(c, search(o) \o move(Last(o))) : o \in Listings \ {<<>>}}

\* Mutant: movingPlayers is changed without the server's mutex.
HandleMovement_Unlocked(c) ==
  {Writing(c, Read(PlayerOf(c)) \o Write(RowOf(c)) \o Write(Moving)),
   Writing(c, Read(PlayerOf(c)) \o Read(RowOf(c)))}

\* Logged in: accepted, or older than what is known.
HandleMovement(c) ==
  {Writing(c, Read(PlayerOf(c)) \o Write(RowOf(c)) \o Writing(Server, Write(Moving))),
   Writing(c, Read(PlayerOf(c)) \o Read(RowOf(c)))}

\* Not logged in: the mutex is unlocked before the answer and, by the
\* deferred call, after it.
AnonymousMovement(c) ==
  {Writing(c, Read(PlayerOf(c))) \o SendTCPMessage(c) \o <<<<"Unlock", c>>>>}

\* Mutant: the unlock of the early return is left to a deferred call too.
HandlePlayerData_Deferred(c) ==
  {Reading(c, Read(PlayerOf(c))) \o SendTCPMessage(c) \o <<<<"RUnlock", c>>>>}

\* The player asked for is found in the last connection gone through.
HandlePlayerData(c) ==
  LET me == Reading(c, Read(PlayerOf(c)) \o Read(RowOf(c)))
      search(o) == Reading(Server, Read(Table)) \o LookAt(o)
  IN  {Reading(c, Read(PlayerOf(c))) \o SendTCPMessage(c)}
      \cup {me \o search(o) : o \in Listings}
      \cup {me \o search(o) \o SendTCPMessage(c) : o \in Listings}

HandleChunkRequest(c) ==
  {Reading(c, Read(PlayerOf(c))) \o SendTCPMessage(c),
   Reading(c, Read(PlayerOf(c)) \o Read(RowOf(c))) \o Reading(Server, <<>>) \o SendTCPMessage(c)}

HandlePingPong(c) == {SendUDPMessage(c)}

-----------------------------------------------------------------------------
(* The server's own goroutines. *)

\* The players of the connections o are collected, and saved to the database
\* without any lock.
Collect(o) == ForEach(o, LAMBDA c : Reading(c, Read(PlayerOf(c))))
Store(o) == ForEach(o, LAMBDA c : Read(RowOf(c)))

Save ==
  {Reading(Server, Read(Table) \o Read(Tiles)) \o
     Writing(Server, Write(Tiles)) \o Collect(o) \o Store(o) : o \in Listings}

\* What tickLoop does with the moving players, in the order o: those of S
\* have stopped and are taken out, one by one; the others are moved, without
\* a lock.
TakeOut(o, S) ==
  ForEach(o, LAMBDA c : Read(RowOf(c)) \o IF c \in S THEN Writing(Server, Write(Moving)) ELSE <<>>)
Move(o, S) ==
  ForEach(o, LAMBDA c : IF c \in S THEN <<>> ELSE Write(RowOf(c)) \o Broadcast)

\* Mutant: players are taken out under the lock the copy is made under.
Tick_Nested ==
  {Reading(Server, Read(Moving) \o TakeOut(o, S)) \o Move(o, S) : o \in Listings, S \in SUBSET Conn}

\* One turn of tickLoop.
Tick ==
  {Reading(Server, Read(Moving)) \o TakeOut(o, S) \o Move(o, S) : o \in Listings, S \in SUBSET Conn}

-----------------------------------------------------------------------------
\* What a goroutine has left to run takes the locks in the order of Level,
\* releases what it takes, and exactly that: it has still to release what it
\* holds now.  The maps are used under the server's mutex.
Discipline ==
  \A g \in Goroutine :
    /\ Paired(code[g]) /\ Ordered(code[g])
    /\ \A m \in Maps : Guarded(code[g], m, Server)
    /\ \A l \in Lock :
         /\ NextOn(code[g], 1, l, "RUnlock") <=> readers[l][g] = 1
         /\ NextOn(code[g], 1, l, "Unlock") <=> writer[l] = g /\ writing[l]

\* The mutex of a connection makes its fields safe to use (socket.go:36, "Mutex
\* for thread-safe access"): nobody changes gc.player while another goroutine
\* is about to use it.
NoPlayerRace == \A c \in Conn : ~Race(PlayerOf(c))

\* Go kills a process that changes a map while another goroutine uses it.
NoMapRace == \A m \in Maps : ~Race(m)
=============================================================================
