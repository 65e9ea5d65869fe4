------------------------------ MODULE Sessions ------------------------------
(***************************************************************************)
(* The sessions of the game server: how a TCP connection enters and leaves *)
(* the table GameServer.connections, how a player logs in on it, and how   *)
(* the three things that end a session race with each other: the end of    *)
(* the TCP stream, a Disconnect message and the sweep of silent            *)
(* connections.                                                            *)
(*                                                                         *)
(* One connection is served by several goroutines at once: the TCP loop of *)
(* handleTCPConnection and one handleUDPConnection goroutine per datagram. *)
(* A worker is a pair <<connection, channel>>.  Each action is a section   *)
(* of a handler between two points where another goroutine can run: a      *)
(* critical section of GameServer.mu or GameConnection.mu, or the reads    *)
(* between two of them.                                                    *)
(*                                                                         *)
(* Locks are taken for granted here (module ServerLocks is about them).    *)
(* Messages that change neither the table, nor a session, nor a heartbeat  *)
(* beyond refreshing it, are the single input "other".                     *)
(***************************************************************************)
EXTENDS Naturals, FiniteSets

CONSTANTS
  Conn,       \* GameConnection objects: one per accepted TCP connection
  ConnID,     \* the values rand.Uint32 can return
  Udp,        \* how many datagrams of a connection are handled at once (bound)
  Player,     \* primary keys of the rows of table players
  Nick,       \* nicknames up to letter case
  NickOf,     \* the nickname of each row
  ILike,      \* ILike[n]: the rows selected by "nickname ILIKE n"
  NoNick,     \* no login under way
  LongNick,   \* rows whose nickname EncodePlayer refuses (over 255 bytes)
  MaxPlayers, \* config.MaxPlayers
  NoConn,     \* no entry under an identifier
  NoID        \* a connection whose identifier is not drawn yet

NoPlayer == 0 \* a nil *models.Player: primary keys start at 1

ASSUME ConstantsAssumption ==
  /\ IsFiniteSet(ConnID)
  /\ Player \subseteq Nat \ {NoPlayer}
  /\ NickOf \in [Player -> Nick]
  /\ ILike \in [Nick -> SUBSET Player]
  /\ LongNick \subseteq Player
  /\ MaxPlayers \in Nat
  /\ NoConn \notin Conn
  /\ NoID \notin ConnID
  /\ NoNick \notin Nick
  /\ "tcp" \notin Udp

VARIABLES
  connections, \* GameServer.connections, NoConn where there is no entry
  connID,      \* GameConnection.connID
  player,      \* GameConnection.player: the row it was loaded from, or nil
  fresh,       \* lastHeartbeat is at most 30 s old
  pc,          \* where each worker is
  nick,        \* the nickname a worker is logging in
  sweep,       \* the goroutine of cleanupInactiveConnections
  departed,    \* history: connections handleDisconnect has run for
  doubtful,    \* history: rows loaded by a login the nickname check missed
  crashed      \* a panic has killed the process

vars == <<connections, connID, player, fresh, pc, nick, sweep, departed, doubtful, crashed>>

Channel == {"tcp"} \cup Udp
Worker == Conn \X Channel

\* TCP only: not accepted, identifier drawn, turned away, loop left.
\* Both: about to check, look up, answer and announce a login, or to
\* disconnect.  Idle: "read" (TCP) or "idle" (UDP); "found": a datagram
\* whose connection was found.
Phase == {"accept", "drawn", "refused", "done", "read", "idle", "found",
          "check", "lookup", "reply", "announce", "leave"}

\* Where a worker goes back to when a handler returns.
Home(w) == IF w[2] = "tcp" THEN "read" ELSE "idle"

Occupied == {id \in ConnID : connections[id] # NoConn}
Registered == {connections[id] : id \in ConnID} \ {NoConn}

\* Accepted and not turned away: its TCP loop was entered.
Served(c) == pc[<<c, "tcp">>] \notin {"accept", "drawn", "refused"}

Goto(w, phase) == pc' = [pc EXCEPT ![w] = phase]

TypeOK ==
  /\ connections \in [ConnID -> Conn \cup {NoConn}]
  /\ connID \in [Conn -> ConnID \cup {NoID}]
  /\ player \in [Conn -> Player \cup {NoPlayer}]
  /\ fresh \in [Conn -> BOOLEAN]
  /\ pc \in [Worker -> Phase]
  /\ nick \in [Worker -> Nick \cup {NoNick}]
  /\ sweep \in [on : BOOLEAN, todo : SUBSET Conn, stale : SUBSET Conn]
  /\ departed \in SUBSET Conn
  /\ doubtful \in SUBSET Player
  /\ crashed \in BOOLEAN

SweepIdle == [on |-> FALSE, todo |-> {}, stale |-> {}]

\* NewGameServer; no connection has been accepted.  The heartbeat of a new
\* GameConnection is the zero time, hence not fresh.
Init ==
  /\ connections = [id \in ConnID |-> NoConn]
  /\ connID = [c \in Conn |-> NoID]
  /\ player = [c \in Conn |-> NoPlayer]
  /\ fresh = [c \in Conn |-> FALSE]
  /\ pc = [w \in Worker |-> IF w[2] = "tcp" THEN "accept" ELSE "idle"]
  /\ nick = [w \in Worker |-> NoNick]
  /\ sweep = SweepIdle
  /\ departed = {}
  /\ doubtful = {}
  /\ crashed = FALSE

-----------------------------------------------------------------------------
(* Accepting a TCP connection. *)

\* NewGameConnection draws until the number is not in the table.  The entry
\* is made later, under another acquisition of the lock.
NewGameConnection(c) ==
  /\ pc[<<c, "tcp">>] = "accept"
  /\ \E id \in ConnID \ Occupied : connID' = [connID EXCEPT ![c] = id]
  /\ Goto(<<c, "tcp">>, "drawn")
  /\ UNCHANGED <<connections, player, fresh, nick, sweep, departed>>

\* Mutant: one too many.
ServerFull_OffByOne == Cardinality(Occupied) > MaxPlayers
ServerFull == Cardinality(Occupied) >= MaxPlayers

\* Mutant: the branch of a full server does not return.
Register_NoReturn(c) ==
  /\ pc[<<c, "tcp">>] = "drawn"
  /\ connections' = IF ServerFull THEN connections ELSE [connections EXCEPT ![connID[c]] = c]
  /\ Goto(<<c, "tcp">>, "read")
  /\ UNCHANGED <<connID, player, fresh, nick, sweep, departed>>

\* The head of handleTCPConnection: turned away when the server is full,
\* entered in the table otherwise.
Register(c) ==
  /\ pc[<<c, "tcp">>] = "drawn"
  /\ \/ /\ ServerFull
        /\ Goto(<<c, "tcp">>, "refused")
        /\ UNCHANGED connections
     \/ /\ ~ServerFull
        /\ connections' = [connections EXCEPT ![connID[c]] = c]
        /\ Goto(<<c, "tcp">>, "read")
  /\ UNCHANGED <<connID, player, fresh, nick, sweep, departed>>

-----------------------------------------------------------------------------
(* Leaving. *)

\* Mutant: the entry is set to a nil pointer instead of being deleted.
HandleDisconnect_NilEntry(S) ==
  /\ connections' = [id \in ConnID |->
                       IF \E c \in S : connID[c] = id THEN NoPlayer ELSE connections[id]]
  /\ departed' = departed \cup S

\* handleDisconnect for every connection of S, in one critical section of
\* GameServer.mu.  It deletes whatever is under the connection's identifier
\* and leaves GameConnection.player as it is.  The row it saves and the
\* PlayerLeft message it sends are the subject of other modules.
HandleDisconnect(S) ==
  /\ connections' = [id \in ConnID |->
                       IF \E c \in S : connID[c] = id THEN NoConn ELSE connections[id]]
  /\ departed' = departed \cup S

\* Mutant: the loop is left by a return, past the tail of the function.
EndOfStream_NoTail(c) ==
  /\ pc[<<c, "tcp">>] = "read"
  /\ Goto(<<c, "tcp">>, "done")
  /\ UNCHANGED <<connections, connID, player, fresh, nick, sweep, departed>>

\* The TCP stream ends: the loop breaks and the tail of handleTCPConnection
\* runs, whether or not the connection was disconnected before.
EndOfStream(c) ==
  /\ pc[<<c, "tcp">>] = "read"
  /\ HandleDisconnect({c})
  /\ Goto(<<c, "tcp">>, "done")
  /\ UNCHANGED <<connID, player, fresh, nick, sweep>>

\* Mutant: the message ends the session of the player as well.
DisconnectMessage_LogOut(w) ==
  /\ pc[w] = "leave"
  /\ HandleDisconnect({w[1]})
  /\ player' = [player EXCEPT ![w[1]] = NoPlayer]
  /\ Goto(w, Home(w))
  /\ UNCHANGED <<connID, fresh, nick, sweep>>

\* A Disconnect message.  The TCP loop goes on reading afterwards.
DisconnectMessage(w) ==
  /\ pc[w] = "leave"
  /\ HandleDisconnect({w[1]})
  /\ Goto(w, Home(w))
  /\ UNCHANGED <<connID, player, fresh, nick, sweep>>

-----------------------------------------------------------------------------
(* Messages. *)

\* handleUDPConnection looks the identifier of a datagram up.  Whether the
\* sender's address is the one bound to the connection is left to the
\* environment: a datagram that fails the test changes nothing.
FindConnection(c, u) ==
  /\ pc[<<c, u>>] = "idle"
  /\ c \in Registered
  /\ Goto(<<c, u>>, "found")
  /\ UNCHANGED <<connections, connID, player, fresh, nick, sweep, departed>>

\* Mutant: a message puts a connection that was swept back in the table.
HandleMessage_Revive(w) ==
  /\ pc[w] \in {"read", "found"}
  /\ fresh' = [fresh EXCEPT ![w[1]] = TRUE]
  /\ connections' = [connections EXCEPT ![connID[w[1]]] = w[1]]
  /\ Goto(w, Home(w))
  /\ UNCHANGED <<connID, player, nick, sweep, departed>>

\* handleMessage: any message that decodes refreshes the heartbeat, and is
\* then dispatched on its type.
HandleMessage(w) ==
  /\ pc[w] \in {"read", "found"}
  /\ fresh' = [fresh EXCEPT ![w[1]] = TRUE]
  /\ \/ \E n \in Nick : nick' = [nick EXCEPT ![w] = n] /\ Goto(w, "check")
     \/ Goto(w, "leave") /\ UNCHANGED nick
     \/ Goto(w, Home(w)) /\ UNCHANGED nick
  /\ UNCHANGED <<connections, connID, player, sweep, departed>>

\* Thirty seconds pass without a message of c.  The sweep reads the clock
\* once, before it looks at any heartbeat, so what lapses during a scan
\* counts from the next one.
Lapse(c) ==
  /\ ~sweep.on
  /\ fresh[c]
  /\ fresh' = [fresh EXCEPT ![c] = FALSE]
  /\ UNCHANGED <<connections, connID, player, pc, nick, sweep, departed>>

-----------------------------------------------------------------------------
(* Logging in. *)

\* The nicknames of the connections in the table, lower-cased.
ConnectedNicknames == {NickOf[player[d]] : d \in {e \in Registered : player[e] # NoPlayer}}

\* The request goes out of use.
Forget(w) == nick' = [nick EXCEPT ![w] = NoNick]

\* First orders by primary key.
First(rows) == CHOOSE p \in rows : \A q \in rows : p <= q

\* The rows a lookup of nickname n on connection c selects.  When gc.player
\* already points to a row, gorm adds its primary key to the condition.
Matches(c, n) ==
  IF player[c] = NoPlayer THEN ILike[n] ELSE ILike[n] \cap {player[c]}

\* Mutant: the branch of a nickname in use answers and does not return.
CheckNickname_NoReturn(w) ==
  /\ pc[w] = "check"
  /\ Goto(w, "lookup")
  /\ UNCHANGED <<connections, connID, player, fresh, nick, sweep, departed>>

\* First part of handleLogin: refuse a nickname some connection holds.
CheckNickname(w) ==
  /\ pc[w] = "check"
  /\ \/ /\ nick[w] \in ConnectedNicknames
        /\ Goto(w, Home(w))
        /\ Forget(w)
     \/ /\ nick[w] \notin ConnectedNicknames
        /\ Goto(w, "lookup")
        /\ UNCHANGED nick
  /\ UNCHANGED <<connections, connID, player, fresh, sweep, departed>>

\* The database query, under gc.mu: it sets gc.player, or resets it.
LookUpPlayer(w) ==
  LET c == w[1]
      rows == Matches(c, nick[w])
  IN  /\ pc[w] = "lookup"
      /\ \/ /\ rows = {}
            /\ player' = [player EXCEPT ![c] = NoPlayer]
            /\ Goto(w, Home(w))
         \/ /\ rows # {}
            /\ player' = [player EXCEPT ![c] = First(rows)]
            /\ Goto(w, "reply")
      /\ Forget(w)
      /\ UNCHANGED <<connections, connID, fresh, sweep, departed>>

\* gc.player is read again, without a lock, to build the answer.
ReplyLogin(w) ==
  /\ pc[w] = "reply"
  /\ player[w[1]] # NoPlayer
  /\ Goto(w, IF player[w[1]] \in LongNick THEN Home(w) ELSE "announce")
  /\ UNCHANGED <<connections, connID, player, fresh, nick, sweep, departed>>

\* It is read once more for the position of the PlayerJoined broadcast;
\* sendSyncState, which follows, tests it.
AnnounceLogin(w) ==
  /\ pc[w] = "announce"
  /\ player[w[1]] # NoPlayer
  /\ Goto(w, Home(w))
  /\ UNCHANGED <<connections, connID, player, fresh, nick, sweep, departed>>

\* Both reads dereference the pointer: a panic nobody recovers if another
\* worker of the connection has reset it since.
NilDereference(w) ==
  /\ pc[w] \in {"reply", "announce"}
  /\ player[w[1]] = NoPlayer
  /\ crashed' = TRUE
  /\ UNCHANGED <<connections, connID, player, fresh, pc, nick, sweep, departed, doubtful>>

HandleLogin(w) ==
  CheckNickname(w) \/ LookUpPlayer(w) \/ ReplyLogin(w) \/ AnnounceLogin(w)

-----------------------------------------------------------------------------
(* The sweep of silent connections: copy the table, look at each heartbeat, *)
(* remove what was found stale.  Three separate uses of the locks.          *)

\* Mutant: only connections with a player are looked at.
SweepTargets_LoggedIn == {c \in Registered : player[c] # NoPlayer}
SweepTargets == Registered

SweepCopy ==
  /\ ~sweep.on
  /\ sweep' = [on |-> TRUE, todo |-> SweepTargets, stale |-> {}]
  /\ UNCHANGED <<connections, connID, player, fresh, pc, nick, departed>>

SweepScan(c) ==
  /\ c \in sweep.todo
  /\ sweep' = [sweep EXCEPT !.todo = @ \ {c},
                            !.stale = IF fresh[c] THEN @ ELSE @ \cup {c}]
  /\ UNCHANGED <<connections, connID, player, fresh, pc, nick, departed>>

SweepRemove ==
  /\ sweep.on /\ sweep.todo = {}
  /\ HandleDisconnect(sweep.stale)
  /\ sweep' = SweepIdle
  /\ UNCHANGED <<connID, player, fresh, pc, nick>>

-----------------------------------------------------------------------------
\* The history doubtful, by one rule for every step.  Two lookups that load a
\* row tell the check nothing of its other sessions: one under a nickname that
\* is not the row's (a pattern of ILIKE), and one while another login under
\* the row's nickname has passed the check as well.
Missed(w, p) ==
  /\ pc[w] = "lookup" /\ pc'[w] = "reply" /\ player'[w[1]] = p
  /\ \/ nick[w] # NickOf[p]
     \/ \E v \in Worker \ {w} : pc[v] = "lookup" /\ nick[v] = NickOf[p]

\* It is forgotten with the last session of the row.
Held(p) == \E c \in Registered : player[c] = p
Doubt ==
  doubtful' = {p \in Player : /\ p \in doubtful \/ \E w \in Worker : Missed(w, p)
                             /\ Held(p)'}

\* Steps of the process while it is alive.
Step ==
  /\ UNCHANGED crashed
  /\ \/ \E c \in Conn : \/ NewGameConnection(c) \/ Register(c) \/ EndOfStream(c)
                        \/ Lapse(c) \/ SweepScan(c)
                        \/ \E u \in Udp : FindConnection(c, u)
     \/ \E w \in Worker : HandleMessage(w) \/ HandleLogin(w) \/ DisconnectMessage(w)
     \/ SweepCopy \/ SweepRemove
  /\ Doubt

Next == ~crashed /\ (Step \/ \E w \in Worker : NilDereference(w))

Spec == Init /\ [][Next]_vars

\* The ticker of cleanupInactiveConnections keeps firing and its loop is
\* never abandoned.  Nothing is assumed of clients.
SweepFairness ==
  /\ WF_vars(~crashed /\ UNCHANGED crashed /\ SweepCopy /\ Doubt)
  /\ WF_vars(~crashed /\ UNCHANGED crashed /\ SweepRemove /\ Doubt)
  /\ \A c \in Conn : WF_vars(~crashed /\ UNCHANGED crashed /\ SweepScan(c) /\ Doubt)

FairSpec == Spec /\ SweepFairness

\* A client may well send its logins one after the other: the behaviours in
\* which at most one worker is between its nickname check and its lookup.
OneLoginAtATime ==
  \A v, w \in Worker : pc[v] = "lookup" /\ pc[w] = "lookup" => v = w
SerialNext == Next /\ OneLoginAtATime'
SerialSpec == Init /\ [][SerialNext]_vars

-----------------------------------------------------------------------------
(* Properties. *)

\* The limit of tcp_handler.go:22-31 is never exceeded, whatever the
\* interleaving of accepts, disconnects and sweeps.
Capacity == Cardinality(Registered) <= MaxPlayers

\* Nothing is left behind in the table: an entry is filed under its
\* connection's own identifier, its TCP loop is still running, and
\* handleDisconnect has not run for it - not even for a connection that was
\* swept, kept talking and ended later, or whose identifier was drawn again.
NoGhostEntry ==
  \A id \in ConnID : connections[id] # NoConn =>
    LET c == connections[id]
    IN  /\ connID[c] = id
        /\ Served(c) /\ pc[<<c, "tcp">>] # "done"
        /\ c \notin departed

\* A connection that is being served and was never disconnected can only be
\* missing from the table because another one drew the same identifier.
\* This is what NewGameConnection's search for a unique number is for.
LostOnlyByCollision ==
  \A c \in Conn \ departed :
    Served(c) /\ c \notin Registered =>
      \E d \in Conn \ {c} : connID[d] = connID[c]

\* handleLogin's "check if player with nickname already connected"
\* (socket.go:187): no two connections of the table hold the same player.
\* Overlapping logins break it, and so does a nickname that is a pattern.
SingleSession ==
  \A c, d \in Registered : player[c] = player[d] /\ player[c] # NoPlayer => c = d

\* These are the only ways in: a row of which every session was loaded under
\* its own nickname, with no second login past the check at the time, has one
\* connection of the table at most - whatever disconnects, sweeps, collisions
\* of identifiers, repeated and failed logins happen in between.
OneSession ==
  \A c, d \in Registered :
    player[c] = player[d] /\ player[c] \notin doubtful \cup {NoPlayer} => c = d

\* What a login has loaded stays where it will read it again, without the
\* mutex (socket.go:219, 239), whatever datagrams, disconnects, sweeps and
\* collisions come in between: the only thing that takes a connection's player
\* away is another login on it, under a nickname the player is not found by
\* (209), and nothing puts another one in its place.
PlayerKept ==
  [][\A c \in Conn :
       player[c] # NoPlayer /\ player'[c] # player[c] =>
         /\ player'[c] = NoPlayer
         /\ \E w \in Worker : /\ w[1] = c /\ pc[w] = "lookup"
                             /\ player[c] \notin ILike[nick[w]]]_vars

\* The mutex of a connection makes its fields safe to use (socket.go:36, "Mutex
\* for thread-safe access"): no login finds the player it has just loaded gone.
\* It does not hold: a second login, in a datagram, can reset gc.player (209),
\* the nil pointer is dereferenced, and nobody recovers the panic.
NoPanic == ~crashed

\* A silent connection does not stay in the table: from some point on no
\* heartbeat, then from some point on no entry.  TCP alone does not
\* guarantee it, a peer that vanishes never ends the stream.
SilentIsRemoved ==
  []NoPanic => \A c \in Conn : <>[](~fresh[c]) => <>[](c \notin Registered)

\* The table implements a bounded membership that nobody re-enters.
Table == INSTANCE Membership WITH
           Limit   <- MaxPlayers,
           members <- Registered,
           gone    <- {c \in Conn : Served(c)} \ Registered
TableSpec == Table!Spec
=============================================================================
