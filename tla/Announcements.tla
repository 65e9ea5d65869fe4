---------------------------- MODULE Announcements ----------------------------
(***************************************************************************)
(* Who is told of whom: the PlayerJoined message and the SyncState of a    *)
(* login, and the PlayerLeft message of a disconnect.                      *)
(*                                                                         *)
(* A broadcast copies the table of connections and starts a goroutine for  *)
(* each of them; a goroutine runs when it likes, and looks only then       *)
(* whether the player of its client is in range.  The SyncState is put     *)
(* together from the players of another copy, one by one.  Logins,         *)
(* disconnects, movement and goroutines go on meanwhile.                   *)
(*                                                                         *)
(* The table is a set here and a nickname stands for one row: numbers that *)
(* collide, patterns and two logins at once on one connection are the      *)
(* subject of Sessions.                                                    *)
(***************************************************************************)
EXTENDS Naturals, FiniteSets

CONSTANTS
  Conn,       \* GameConnection objects
  Player,     \* primary keys of the rows of table players
  NoPlayer,   \* a nil *models.Player
  Unknown,    \* a nickname without a row
  Unsendable, \* players whose nickname an encoder refuses (over 255 bytes)
  MaxListed,  \* players a SyncState can list: 255 by its counter, fewer if
              \* their nicknames make its two bytes of length overflow
  Place,      \* where a player can stand
  Stored,     \* where the rows of the database say they stand
  NoPlace,    \* no player, no broadcast, no SyncState under way
  Near,       \* pairs of places at most config.MaxViewDistance apart
  MaxCopies,  \* equal goroutines that wait at the same time (bound)
  MaxInputs,  \* moves and disconnects in all (bound)
  MaxWaiting  \* different goroutines that wait when a broadcast is made (bound)

ASSUME AnnouncementsAssumption ==
  /\ NoPlayer \notin Player
  /\ Unknown \notin Player
  /\ Unknown # NoPlayer
  /\ Unsendable \subseteq Player
  /\ Near \subseteq Place \X Place
  /\ \A p, q \in Place : <<p, q>> \in Near => <<q, p>> \in Near
  /\ NoPlace \notin Place
  /\ Stored \subseteq Place
  /\ MaxListed \in Nat
  /\ MaxCopies \in Nat
  /\ MaxWaiting \in Nat
  /\ MaxInputs \in Nat

VARIABLES
  connections, \* GameServer.connections
  player,      \* GameConnection.player
  place,       \* CoordX and CoordY of that player
  pc,          \* where the TCP loop of each connection is
  nick,        \* the player whose nickname it is logging in
  at,          \* playerCoords of sendSyncState, or the centre of a broadcast
  todo,        \* the connections sendSyncState has not looked at
  seen,        \* nearbyPlayers
  inflight,    \* the goroutines that have not run, each with its message
  told,        \* history: the players each client was sent in a PlayerJoined
               \* or SyncState, since both of them were loaded
  spoilt,      \* history: those in a SyncState it could not read, likewise
  bid,         \* history: those it was sent a PlayerLeft of, likewise
  moved,       \* history: connections whose player moved since it was loaded
  left,        \* history: connections whose player was announced to have left
  before,      \* history: left, when the player of a connection was loaded
  inputs       \* how many logins, moves and disconnects there were

sessionVars == <<connections, player, place>>
loginVars == <<pc, nick, at, todo, seen>>
history == <<told, spoilt, bid, moved, left, before>>
vars == <<sessionVars, loginVars, inflight, history, inputs>>

\* What a goroutine carries; no tells goroutines with equal messages apart.
Message == [kind : {"joined", "left"}, by : Conn, id : Player, at : Place, to : Conn,
            no : 1..MaxCopies]

InRange(p, q) == <<p, q>> \in Near

\* out: not accepted; lobby: reading the stream; over: the stream has ended;
\* between them the parts of handleLogin and sendSyncState.
Phase == {"out", "lobby", "lookup", "reply", "announce", "sync", "copy", "collect", "over"}

TypeOK ==
  /\ connections \subseteq Conn
  /\ player \in [Conn -> Player \cup {NoPlayer}]
  /\ place \in [Conn -> Place \cup {NoPlace}]
  /\ pc \in [Conn -> Phase]
  /\ nick \in [Conn -> Player \cup {Unknown}]
  /\ at \in [Conn -> Place \cup {NoPlace}]
  /\ todo \in [Conn -> SUBSET Conn]
  /\ seen \in [Conn -> SUBSET (Conn \X Player)]
  /\ inflight \subseteq Message
  /\ told \in [Conn -> SUBSET (Conn \X Player)]
  /\ spoilt \in [Conn -> SUBSET (Conn \X Player)]
  /\ bid \in [Conn -> SUBSET (Conn \X Player)]
  /\ moved \subseteq Conn
  /\ left \subseteq Conn
  /\ before \in [Conn -> SUBSET Conn]
  /\ inputs \in Nat

Init ==
  /\ connections = {}
  /\ player = [c \in Conn |-> NoPlayer]
  /\ place = [c \in Conn |-> NoPlace]
  /\ pc = [c \in Conn |-> "out"]
  /\ nick = [c \in Conn |-> Unknown]
  /\ at = [c \in Conn |-> NoPlace]
  /\ todo = [c \in Conn |-> {}]
  /\ seen = [c \in Conn |-> {}]
  /\ inflight = {}
  /\ told = [c \in Conn |-> {}]
  /\ spoilt = [c \in Conn |-> {}]
  /\ bid = [c \in Conn |-> {}]
  /\ moved = {}
  /\ left = {}
  /\ before = [c \in Conn |-> {}]
  /\ inputs = 0

Input ==
  /\ inputs < MaxInputs
  /\ inputs' = inputs + 1

Goto(c, phase) == pc' = [pc EXCEPT ![c] = phase]

-----------------------------------------------------------------------------
(* Broadcasts. *)

\* BroadcastInRange copies the table and starts a goroutine per connection.
BroadcastInRange(kind, by, id, centre) ==
  \E n \in 1..MaxCopies :
    LET ms == [kind : {kind}, by : {by}, id : {id}, at : {centre}, to : connections, no : {n}]
    IN  /\ ms \cap inflight = {}
        /\ Cardinality(inflight \cup ms) <= MaxWaiting
        /\ inflight' = inflight \cup ms

\* A goroutine runs: nothing is sent to a client without a player or out of
\* range.  What it writes, it writes outside the lock; nothing it depends on
\* is read again.
Deliver(m) ==
  LET sent == player[m.to] # NoPlayer /\ InRange(place[m.to], m.at)
  IN  /\ m \in inflight
      /\ inflight' = inflight \ {m}
      /\ told' = IF sent /\ m.kind = "joined"
                 THEN [told EXCEPT ![m.to] = @ \cup {<<m.by, m.id>>}] ELSE told
      /\ bid' = IF sent /\ m.kind = "left"
                THEN [bid EXCEPT ![m.to] = @ \cup {<<m.by, m.id>>}] ELSE bid
      /\ UNCHANGED <<sessionVars, loginVars, spoilt, moved, left, before, inputs>>

-----------------------------------------------------------------------------
(* Connections. *)

\* The head of handleTCPConnection.
Accept(c) ==
  /\ pc[c] = "out"
  /\ connections' = connections \cup {c}
  /\ Goto(c, "lobby")
  /\ UNCHANGED <<player, place, nick, at, todo, seen, inflight, history, inputs>>

\* Mutant: a connection that has been removed already is passed over.
HandleDisconnect_Once(c) ==
  /\ connections' = connections \ {c}
  /\ IF player[c] = NoPlayer THEN UNCHANGED left ELSE left' = left \cup {c}
  /\ \/ /\ player[c] = NoPlayer \/ c \notin connections
        /\ UNCHANGED inflight
     \/ /\ player[c] # NoPlayer /\ c \in connections
        /\ BroadcastInRange("left", c, player[c], place[c])

\* handleDisconnect: the copy is taken before the entry is deleted.  The
\* player stays with the connection; the row it saves is in Persistence.
HandleDisconnect(c) ==
  /\ connections' = connections \ {c}
  /\ \/ /\ player[c] = NoPlayer
        /\ UNCHANGED <<inflight, left>>
     \/ /\ player[c] # NoPlayer
        /\ BroadcastInRange("left", c, player[c], place[c])
        /\ left' = left \cup {c}

\* The tail of handleTCPConnection.
EndOfStream(c) ==
  /\ pc[c] = "lobby"
  /\ Input
  /\ HandleDisconnect(c)
  /\ Goto(c, "over")
  /\ UNCHANGED <<player, place, nick, at, todo, seen, told, spoilt, bid, moved, before>>

\* A Disconnect message, in a datagram or in the stream, or the sweep of
\* silent connections, which may have copied the table long ago.
Removed(c) ==
  /\ pc[c] # "out"
  /\ Input
  /\ HandleDisconnect(c)
  /\ UNCHANGED <<player, place, loginVars, told, spoilt, bid, moved, before>>

\* tickLoop or /tp: World knows how far.  The PlayerMovement messages are not
\* followed here, they go by UDP and carry a number and no name.
Move(c) ==
  /\ player[c] # NoPlayer
  /\ Input
  /\ \E p \in Place : place' = [place EXCEPT ![c] = p]
  /\ moved' = moved \cup {c}
  /\ UNCHANGED <<connections, player, loginVars, inflight, told, spoilt, bid, left, before>>

-----------------------------------------------------------------------------
(* Logging in. *)

\* The players of the connections in the table, by their nicknames.
ConnectedNicknames == {player[d] : d \in connections}

\* A login for a nickname that nobody in the table has; any other is refused.
CheckNickname(c) ==
  /\ pc[c] = "lobby"
  /\ \E n \in (Player \cup {Unknown}) \ ConnectedNicknames : nick' = [nick EXCEPT ![c] = n]
  /\ Input
  /\ Goto(c, "lookup")
  /\ UNCHANGED <<sessionVars, at, todo, seen, inflight, history>>

\* When gc.player points to a row already, gorm looks for that row only.
Found(c) == nick[c] \in Player /\ player[c] \in {NoPlayer, nick[c]}

\* History starts anew with the player of c.
Forget(c) ==
  LET Others(of) == [d \in Conn |-> IF d = c THEN {} ELSE {s \in of[d] : s[1] # c}]
  IN  /\ told' = Others(told)
      /\ spoilt' = Others(spoilt)
      /\ bid' = Others(bid)
      /\ moved' = moved \ {c}
      /\ left' = left \ {c}
      /\ before' = [d \in Conn |-> IF d = c THEN left ELSE before[d] \ {c}]

\* Mutant: the branch of a nickname not found does not reset the player.
LookUpPlayer_NoReset(c) ==
  /\ pc[c] = "lookup"
  /\ \E p \in Stored : place' = [place EXCEPT ![c] = p]
  /\ player' = [player EXCEPT ![c] = nick[c]]
  /\ Goto(c, IF Found(c) THEN "reply" ELSE "lobby")
  /\ nick' = [nick EXCEPT ![c] = Unknown]
  /\ Forget(c)
  /\ UNCHANGED <<connections, at, todo, seen, inflight, inputs>>

\* The query under gc.mu.  The row's coordinates are what was last saved.
LookUpPlayer(c) ==
  /\ pc[c] = "lookup"
  /\ \/ /\ ~Found(c)
        /\ player' = [player EXCEPT ![c] = NoPlayer]
        /\ place' = [place EXCEPT ![c] = NoPlace]
        /\ Goto(c, "lobby")
     \/ /\ Found(c)
        /\ player' = [player EXCEPT ![c] = nick[c]]
        /\ Goto(c, "reply")
        /\ \E p \in Stored : place' = [place EXCEPT ![c] = p]
  /\ nick' = [nick EXCEPT ![c] = Unknown]
  /\ Forget(c)
  /\ UNCHANGED <<connections, at, todo, seen, inflight, inputs>>

\* EncodePlayer, the answer, and the reads of the broadcast's arguments.
ReplyLogin(c) ==
  /\ pc[c] = "reply"
  /\ \/ /\ player[c] \in Unsendable
        /\ Goto(c, "lobby")
        /\ UNCHANGED at
     \/ /\ player[c] \notin Unsendable
        /\ Goto(c, "announce")
        /\ at' = [at EXCEPT ![c] = place[c]]
  /\ UNCHANGED <<sessionVars, nick, todo, seen, inflight, history, inputs>>

\* Mutant: the initial data are not sent.
AnnounceLogin_NoSync(c) ==
  /\ pc[c] = "announce"
  /\ BroadcastInRange("joined", c, player[c], at[c])
  /\ Goto(c, "lobby")
  /\ UNCHANGED <<sessionVars, nick, at, todo, seen, history, inputs>>

AnnounceLogin(c) ==
  /\ pc[c] = "announce"
  /\ BroadcastInRange("joined", c, player[c], at[c])
  /\ Goto(c, "sync")
  /\ at' = [at EXCEPT ![c] = NoPlace]
  /\ UNCHANGED <<sessionVars, nick, todo, seen, history, inputs>>

-----------------------------------------------------------------------------
(* sendSyncState. *)

\* The own position, under gc.mu.
SyncPosition(c) ==
  /\ pc[c] = "sync"
  /\ at' = [at EXCEPT ![c] = place[c]]
  /\ Goto(c, "copy")
  /\ UNCHANGED <<sessionVars, nick, todo, seen, inflight, history, inputs>>

\* The table, under the server's mutex.
SyncCopy(c) ==
  /\ pc[c] = "copy"
  /\ todo' = [todo EXCEPT ![c] = connections]
  /\ Goto(c, "collect")
  /\ UNCHANGED <<sessionVars, nick, at, seen, inflight, history, inputs>>

\* One connection of the copy, under its mutex: its player is listed if he
\* is another one than the own and in range.
SyncCollect(c, d) ==
  /\ pc[c] = "collect"
  /\ d \in todo[c]
  /\ todo' = [todo EXCEPT ![c] = @ \ {d}]
  /\ seen' = IF player[d] \notin {NoPlayer, player[c]} /\ InRange(place[d], at[c])
             THEN [seen EXCEPT ![c] = @ \cup {<<d, player[d]>>}] ELSE seen
  /\ UNCHANGED <<sessionVars, pc, nick, at, inflight, history, inputs>>

\* EncodeSyncStateData passes over players it cannot encode and counts them
\* all the same, in one byte: the message is then of no use to its reader,
\* who looks for more players, or fewer, than there are.
Readable(players) ==
  /\ \A s \in players : s[2] \notin Unsendable
  /\ Cardinality(players) <= MaxListed

SyncSend(c) ==
  /\ pc[c] = "collect"
  /\ todo[c] = {}
  /\ IF Readable(seen[c])
     THEN told' = [told EXCEPT ![c] = @ \cup seen[c]] /\ UNCHANGED spoilt
     ELSE spoilt' = [spoilt EXCEPT ![c] = @ \cup seen[c]] /\ UNCHANGED told
  /\ seen' = [seen EXCEPT ![c] = {}]
  /\ at' = [at EXCEPT ![c] = NoPlace]
  /\ Goto(c, "lobby")
  /\ UNCHANGED <<sessionVars, nick, todo, inflight, bid, moved, left, before, inputs>>

HandleLogin(c) ==
  \/ CheckNickname(c) \/ LookUpPlayer(c) \/ ReplyLogin(c) \/ AnnounceLogin(c)
  \/ SyncPosition(c) \/ SyncCopy(c) \/ SyncSend(c)
  \/ \E d \in Conn : SyncCollect(c, d)

Next ==
  \/ \E c \in Conn : Accept(c) \/ EndOfStream(c) \/ Removed(c) \/ Move(c) \/ HandleLogin(c)
  \/ \E m \in inflight : Deliver(m)

Spec == Init /\ [][Next]_vars

-----------------------------------------------------------------------------
(* Properties. *)

\* A goroutine waits to tell the client of c that the player of d came or left.
Waiting(kind, c, d) ==
  \E m \in inflight : /\ m.kind = kind /\ m.to = c /\ m.by = d /\ m.id = player[d]
                      /\ InRange(place[c], m.at)

\* The players of c and d have stood in sight of each other since the later
\* of them was loaded, and c is in the table.
InSight(c, d) ==
  /\ c # d
  /\ c \in connections
  /\ {player[c], player[d]} \subseteq Player
  /\ {c, d} \cap moved = {}
  /\ InRange(place[c], place[d])

\* Both are in the game, under other names, which can be sent; the login of
\* neither is under way and no goroutine waits to tell c.
Settled(c, d) ==
  /\ InSight(c, d) /\ d \in connections
  /\ player[c] # player[d]
  /\ {player[c], player[d]} \cap Unsendable = {}
  /\ pc[c] = "lobby" /\ pc[d] = "lobby"
  /\ ~Waiting("joined", c, d)

\* Either then knows of the other: by the PlayerJoined of the one who came
\* last, or by his SyncState, if that could be read - whatever order their
\* checks, lookups, broadcasts and copies were in.  socket.go:236 "send player
\* joined message to nearby players", 241 "send initial data".
Introduced ==
  \A c, d \in Conn :
    Settled(c, d) /\ <<d, player[d]>> \notin spoilt[c] => <<d, player[d]>> \in told[c]

\* "send initial data" (socket.go:241): whoever cannot be sent himself keeps
\* nobody else from being introduced.
NobodySpoilt == \A c, d \in Conn : Settled(c, d) => <<d, player[d]>> \in told[c]

\* Nobody leaves unnoticed: a client that was in the game when a player in
\* sight left is sent his PlayerLeft, be it the second time that he leaves
\* on a connection (socket.go:641).  A client who loads his player after
\* that may have been sent a late PlayerJoined of him and never hear more.
Farewell ==
  \A c, d \in Conn :
    /\ InSight(c, d)
    /\ d \in left \ before[c]
    /\ ~Waiting("left", c, d)
    => <<d, player[d]>> \in bid[c]
=============================================================================
