# TLA+ development of the projectt game server

`src/` is a multiplayer game server in Go: clients keep a TCP connection and
send datagrams beside it, players log in, move on a tile map and chat, and a
PostgreSQL database (through gorm) holds countries, tiles and players.  This
directory holds models of it in TLA+, their TLC configurations, and proofs
checked by TLAPS.  `PROJECT.json` lists components, runs, mutants, the lines of
the source each definition stands for, findings, hazards and theorems.

    tlc -config Sessions_table.cfg MCSessions.tla     # one run
    tlapm SessionsProofs.tla                          # the proofs of a module

## 1. The system

| component | state | operations | correct when |
|---|---|---|---|
| sessions (`socket/tcp_handler.go`, `udp_handler.go`, `handle_message.go`, login, disconnect and sweep in `socket.go`) | `GameServer.connections`; per connection `connID`, `player`, `lastHeartbeat`, `udpAddr` | accept, read loop, dispatch, login, disconnect, sweep | table bounded and without ghosts, no live connection lost, one session per player, silent connections leave, no panic |
| locking (all of `socket/`) | `GameServer.mu`, one `GameConnection.mu` each | every handler | no deadlock, no map race, every lock released once, calls return |
| autosave, save at disconnect and at shutdown | database rows of players, `*models.Player` in memory | `Save`, `handleDisconnect`, login's lookup, `main` | the row of a player never goes back; a graceful stop loses nothing; who stays connected is saved |
| movement and tick loop | `movingPlayers`, coordinates, direction, time stamps | `handleMovement`, `/tp`, `tickLoop` | who moves is in `movingPlayers`, who is idle is not for ever; positions stay on walkable tiles; older inputs do not undo newer ones |
| broadcast and announcements | goroutines in flight | `Broadcast`, `BroadcastInRange`, `sendSyncState` | clients in sight of each other are told of each other, and of who leaves |
| tiles | `tiles`, `updatedTiles` | `UpdateTile` (no caller), `Save` | every update reaches the database |
| chunk requests | none | `handleChunkRequest` | exactly the 256 tiles of a chunk in view |
| chat | none | `handleChat` | commands answer the sender, general chat reaches all |
| wire format (`binary/`) | none | encoders, decoders | what is sent can be read back; nothing cut off passes for a message |
| levels (`models/player.go`, `game/mechanics`) | `EXP` | `GetLevel`, `ExpForNextLevel`, `KillExpReward` | the two level functions agree |
| world generator, migration, seed | tables | at start-up | the world is there whole or not at all; tiles of a country are those of its polygons; borders exact; players have a home |
| configuration, types, sample client | constants | | |

How they interact.  `StartServer` starts an accept loop, a datagram loop and
three routines (autosave every 60 s, sweep every 30 s, ticks).  Each TCP
connection has one goroutine, and *each datagram a goroutine of its own*, so
several handlers of one connection run at once.  Components share the maps of
`GameServer`, and the pointer `gc.player` together with the row it points to,
which also sits in `movingPlayers`.  Broadcasts copy the table and start one
goroutine per client.

What is hard, and where the hazards of `PROJECT.json` come from:

- checks and uses in different critical sections (nickname, connection number,
  heartbeat, `gc.player`, stopped players, dirty tiles);
- three ways to leave the table that do not exclude each other, one of which
  (a Disconnect message) leaves the TCP loop running;
- two kinds of mutex, taken in both orders, read locks taken twice, writes to
  sockets under a lock;
- rows shared by pointers, written and saved under different locks or none;
- datagrams that are late, repeated or lost;
- crashes and failing statements, during the generation of the world and later;
- random numbers as keys, drawn again after use;
- narrow integers, rounding, text of varying length in byte streams.

## 2. The models

### Sessions, implementing Membership

`Sessions.tla` is the life of connections.  A *worker* `<<c, channel>>` is a
goroutine that serves connection `c`: channel `"tcp"` for the read loop, a
member of `Udp` for a datagram.  One action is one section of a handler between
points where another goroutine can run:

| action | code |
|---|---|
| `NewGameConnection`, `Register` | drawing a number, then the head of `handleTCPConnection` |
| `HandleMessage` | heartbeat and dispatch; messages that touch neither table nor session return at once |
| `FindConnection` | a datagram finds its connection |
| `CheckNickname`, `LookUpPlayer`, `ReplyLogin`, `AnnounceLogin` | the four sections of `handleLogin` |
| `NilDereference` | the panic when the last two find `gc.player` reset |
| `DisconnectMessage`, `EndOfStream`, `SweepCopy`/`SweepScan`/`SweepRemove` | the three callers of `handleDisconnect` |
| `Lapse` | 30 seconds without a message |

A nickname stands for its letter-case class; `ILike` says which rows a lookup
by it selects, so that wildcards can be modelled (`MCSessions!PatternILike`).
gorm's `First(&gc.player)` is external: it adds the primary key of a player that
is already loaded, and orders by primary key.  The heartbeat is one Boolean:
`Lapse` happens between sweeps only, because the sweep reads the clock once
before it looks at any heartbeat.  Allocation of a new connection's fields, the
text of answers and the binding of UDP addresses are left out.  `crashed` stops
everything, as an unrecovered panic does.  `doubtful` is history: the rows some
login has loaded of which the nickname check could not tell that they were in
use - under a nickname that is not the row's, or while another login under that
nickname was past the check as well - until their last session has gone.

`SerialSpec` is those behaviours in which logins are looked up one at a time.

`Membership.tla` says what the table promises: at most `Limit` members, who
join once, may displace one other member (a shared number), and never come back.
`Sessions!Table` is the refinement mapping.

### ServerLocks over RWMutex

`RWMutex.tla` interprets straight-line codes over Go's `sync.RWMutex` (external:
writers announce themselves and then wait for the readers inside, later readers
queue, unlocking an unlocked mutex is fatal).  Steps are the four lock
operations, `read`/`write` of a shared object, and `send` on a socket, which a
`Stalled` peer never takes.

`ServerLocks.tla` gives each handler of `socket/` as the set of codes one call
of it may run.  `ForEach` is a loop over a map, in one of the orders `Listings`.
Every goroutine of the server that takes a mutex is there but `UpdateTile`,
which nothing calls.  A code is a footprint: what is computed is not in it.
Loops have a name each (`Heartbeats`, `Sweep`, `LookAt`, `Collect`, `Store`).
Accesses of `gc.player` are in the codes like those of the maps; most take no
lock, so that only the maps are claimed to be free of races.

### Persistence, implementing PlayerStore

`Persistence.tla` follows the rows of players.  A *row object* is the
`models.Player` a login fills; a connection, the list of `stale` connections of
the sweep and the two callers of `Save` hold pointers to it, and `Memory`, the
last conjunct of most steps, keeps what is reachable.  The content of a row is a
version, so that "older" has a meaning.  A session is `open`; `left` after a
Disconnect message or the sweep, when its TCP loop goes on; `late` when the loop
has ended but goroutines of datagrams that had found the connection still run;
and `ended`.  `Play(o)` stands for anything that changes a row - `handleMovement`,
`/tp`, `tickLoop` through `movingPlayers`, whatever the session is - as long as
the row may still be saved.  A row that only `movingPlayers` points to is not
followed: nobody saves it any more, and no login reads it.

| action | code |
|---|---|
| `Start`, `Seed`, `Serve`, `Signal`, `Crash` | `main`, `Seed` |
| `Accept`, `LoadRow`, `LoadNothing`, `Play` | life of a connection as far as rows are concerned (`handleLogin` 187-217, `handleMovement`) |
| `DisconnectMessage`, `EndOfStream`, `SweepScan`/`SweepRemove` | the three callers of `handleDisconnect`, each with the save of the row, which may fail; the first also in a datagram handled after the end of the stream |
| `HandlersEnd` | the last such goroutine returns |
| `SaveCopy`, `SaveCollect`, `SkipSave`/`StoreBatch`/`LoseBatch` | `Save`: the copy of the connections, one pointer after the other, the one statement for all |

A login is one step here; `Sessions` shows what happens between its sections.
That does not hide that a row can be in use twice: a Disconnect message leaves
the connection alive with its row, and the end of the stream leaves the row to
the datagrams in flight; the next login gets another object.
Players of whom two copies could be saved are *forked*; `PlayerStore`, a register with a latest and a stored
version, promises nothing to them (`shared`) until the process ends.  Two rows
of one player in a batch make PostgreSQL refuse all of it.

### Announcements

`Announcements.tla` is who is told of whom.  `BroadcastInRange` copies the table
and adds a member of `inflight` for each connection in it; `Deliver` is such a
goroutine when it runs, and only then looks whether its client has a player and
stands in range.  `CheckNickname` to `SyncSend` are `handleLogin` and
`sendSyncState` in the parts between which other goroutines run: the answer, the
broadcast of `PlayerJoined`, the own position, the copy of the table, one
connection after the other (`SyncCollect`), and the message.  `EncodeSyncState`
counts a player whose nickname is too long and leaves its bytes out, and counts
in a byte: with such a player listed, or more than `MaxListed` of them, the
message is not `Readable` and its reader is told of nobody, which `spoilt`
remembers.  `HandleDisconnect`
has its two kinds of callers, `EndOfStream` and `Removed` (a Disconnect message
or the sweep); what it stores is in `Persistence`.  `told` and `bid` are history:
what each client was sent since its player and the other one were loaded; `left`
and `before` are which players have been announced to have left, now and when a
client's player was loaded.  Connection numbers, nicknames as patterns and two
logins on one connection at once are in `Sessions`.

### World

`World.tla` is movement on the tile map.  Actions are the parts of handlers that
others can see: `MoveArrives` and `MoveStores` write the two components of the
direction and the time stamp of a row under the connection's mutex, `MoveTracks`
puts it into `movingPlayers`; `Teleport`/`TeleportTracks` are `/tp`; `TickCopies`,
`TickChecks`, `TickDrops`, `TickChecked`, `TickReads` and `TickMoves` are
`tickLoop`, which reads directions under no lock: `Expose` adds to what it may
read whatever is written while it calculates (`tick.xs`, `tick.ys`), and
`Targets` is the set of tiles at which such a calculation can end.  `/tp` tests
nothing and leads anywhere, also off the map (`Jump`).  A position is
a tile; where in the tile a player stands, and so how many ticks he needs for
the next one, is left open.

### WorldGen over Raster

`Raster.tla` is the geometry of the generator - degrees to tiles, Bresenham's
line, scan-line fill - with exact quotients rounded like `math.Round` in place of
float64.  `WorldGen.tla` is `GenerateWorld` with its transaction and `Seed`, one
action per feature, per tile of the border pass and per statement; statements may
fail, those of `Seed` that read too, the process may crash at any step and
starts again.  `strayed` is history: the players created after the query for a
tile had failed, an error `Seed` does not look at.  PostgreSQL is
external: after an error a transaction takes nothing more and its commit rolls
back, codes are unique, owners must exist, sequences are not rolled back.  The
file has features with an ISO code, with `"-99"` (skipped; in `src/` one of 177)
and, though the shipped file has none, without a name (the type assertion
panics, is recovered, and the transaction rolled back).

### Wire, ChunkView, Levels

Functions, and in `Calculations` their reference definitions as properties: an
input is chosen from a constant set and its function called once.
`Wire.tla` has raw messages, frames of TCP, datagrams, chat and the state sent
after a login, with bytes as digits of base `Base` and every length as wide as in
the code; `ChunkView.tla` has `handleChunkRequest`, its distances, bounds and loops
in uint16 arithmetic; `Levels.tla` has `ExpForNextLevel` and `GetLevel` of every
experience.  There the quotient of two float64 logarithms may fall on either side
of an integer at a power of 1.5 exactly, and below 667 it is -1 or less, whose
conversion to an unsigned integer Go leaves to the machine: 0 on arm64, the
number modulo 2^64 (`Uint`; 2^20 in the `.cfg`) on amd64.

## 3. The runs

Bounds: two or three connections, one to three connection numbers (numbers are
shared and drawn again), one player, at most one datagram in flight per
connection, three goroutines, two mutexes of connections.  Two of everything is
enough for each pairwise race below; three connections let one be turned away or
displaced while two are in the table; three goroutines make the shortest circle
that needs a reader, a waiting writer and a holder.  `Udp`, `Conn` and the menus
`Calls` are the bounds; no counter of these two is cut off.  `CHECK_DEADLOCK
FALSE` everywhere but in `worldgen`: a server whose connections have all ended,
or that has crashed, stops, and a calculation is over when it is done.

- `persistence`: two connections, one player, two row objects, versions up to
  two.  Two connections and two objects make the fork; versions 0, 1, 2 are "no
  row", "seeded" and "changed".  When no object is free a login that needs one
  is not taken (`Row`), and a row at `MaxVersion` is not changed.  Several
  players at once are left to the proof.
- `announcements` (in the variant of section 3 for `NobodySpoilt`: three
  connections, one place, three inputs): two connections, three players, one of
  them with a nickname too long to be sent, two places out of sight of each other, all rows stored at
  one of them.  Four logins, moves and disconnects in all (`MaxInputs`), at most
  four goroutines when a broadcast is made (`MaxWaiting`), two broadcasts for
  two clients, no two of them equal (`MaxCopies`): enough for two logins at the
  same time, a move and a departure between, and for the second departure on a
  connection.  The proofs have none of these bounds.
- `world`: two rows of one player (two sessions), three inputs in all, a map of
  four tiles with water between and one position off the map for `/tp`, at most one tile a tick
  (`.env.example`: `TICKS_PER_SECOND=60`, read as 60 ms a tick; at the default
  15 tiles a second that is 0.9).
- `worldgen`: 4 by 4 tiles, no country on the tile at the origin first, three
  files of two or three features: neighbours
  with a second part and a skipped feature, a country covered by another one,
  a feature that panics; identifiers up to 5, so that they run out.
- `calculations`: lines between all tiles 0..6 of both axes; on a map of 5 by 5
  tiles every triangle and the quadrilaterals from two corners,
  self-intersecting ones too; streams of up to two messages cut anywhere,
  datagrams beside a buffer of 12 bytes, text of up to two letters (three in
  chat) and lengths on both sides of what a byte of base 3 holds; chunks
  within 6 of the own one and of those 256 apart, and where coordinates of tiles
  wrap around (4095, 4096); EXP from 0 to 20000.

| run | instance | shows |
|---|---|---|
| table | 3 connections, 3 numbers, 2 places, TCP, one nickname | `TypeOK`, `Capacity`, `NoGhostEntry`, `LostOnlyByCollision`, `OneSession`, and that the table implements `Membership` (`TableSpec`) |
| silent | 2 connections, 1 number, 1 place, a datagram each, a nickname too long for the answer and an unknown one | `SilentIsRemoved` under the fairness of the sweep; `PlayerKept`; the panic is among its behaviours |
| lobby | accept, disconnect, login; player data, chunk request, datagram lookup, broadcasts; sweep, save; c2 does not read | `Discipline` of every code that can be started, `NoDeadlock` |
| game | movement, chat to all; ping, chunk request, a message of c2; save, ticks; c2 does not read | `NoDeadlock`, `NoMapRace`, `CallsReturn` |
| persistence | as above | `StoreSpec` (implements `PlayerStore`), `NeverGoesBack`, `ExitSaves`, `QuietIsSaved` |
| announcements | as above | `Introduced`, `Farewell` |
| world | as above | `NewestWins`, `OnGround`, `NotForgotten`, `NoFasterThanSpeed`, `IdleIsDropped` |
| worldgen | as above | `WorldAllOrNothing`, `BordersExact`, `PlayersHaveHome`, `FatalHasCause` |
| calculations | as above | `LinesAreDrawn`, `PolygonsAreFilled`; `StreamRoundTrip`, `DatagramWholeOrNothing`, `ChatArrives`, `SyncStateReadable`; `ChunkAnswers`; `LevelsAgree` |

What the properties except is what the code does not promise, or does against a
comment:

- `OneSession` excuses rows that are `doubtful`: two logins past the check at
  once, and nicknames that `ILIKE` takes for patterns, open a second session.
  Nothing else does;
- `PlayerKept` lets a login that finds nobody take its connection's player away.
  If another login of the connection is about to read it, the process panics;
  nothing else leads there;
- a row can go back, and a batch be refused as a whole, once two copies of it
  could be saved (`forked`): after a Disconnect message the connection may go on
  playing while the player logs in elsewhere, and each saves its own copy; and a
  datagram that found its connection before the end of the stream may be a
  Disconnect that saves the old copy after another login.  `NeverGoesBack` and
  `StoreSpec` say that nothing else does it - late batches, repeated disconnects
  and late datagrams alone do not, because pointers are shared;
- `ExitSaves` excuses failed saves and players who log in again during the Save;
- `Introduced` is about players who have not moved since they were loaded, whose
  nicknames can be encoded, and who were not in a SyncState that could not be
  read (`spoilt`); and `Farewell` about clients that were in the game when the
  player left.  A client that logs in afterwards may still be sent a late
  `PlayerJoined` of him and nothing more; and a second `handleDisconnect` of a
  connection sends a `PlayerLeft` even if the player is in the game again on
  another one;
- `NotForgotten` excuses a row that `tickLoop` has found idle and deletes after
  its player has moved again, and one displaced by another session of the
  player (`raced`): such a player stands still until his next input;
- `NoFasterThanSpeed` excuses a direction that changes while `tickLoop`
  calculates: it may combine the length of one direction with the components of
  another;
- `PlayersHaveHome` has players at the origin if the query for a tile failed when
  they were created (`strayed`), as well as if their country has no tile;
- `FatalHasCause`: a generation that is rolled back has used up its identifiers.
  The shipped file has 176 countries and `Country.ID` is a `uint8`, so a second
  attempt after a failure passes 255 and ends in `log.Fatalf`, as does every
  start after it;
- `ChunkAnswers` says which far chunks are answered: those whose squared distance
  is that of a near one modulo 2^16.  `LevelsAgree` says that with 1 to 666 points
  a level is 1 or one of the last numbers below 2^64.  `SyncStateReadable` is
  about counters that fit, and nicknames of at most 255 bytes;
- `CallsReturn` leaves out the answers to chat, which are written under the mutex.

Runs that find a violation, each a finding with the comment it contradicts:

| run | what happens |
|---|---|
| race | two logins under one nickname pass the check together |
| login_movement | server's mutex then connection's against connection's then server's |
| chat_heartbeat | `handleChat` read-locks its mutex twice, a heartbeat waits in between |

The modules state more that comments promise and the code does not keep: what
the exceptions above stand for, as properties without them.  TLC finds each
violated when the lines of a `.cfg` are changed as follows and the property is
its only one.

| property | `.cfg` | change | what happens |
|---|---|---|---|
| `SingleSession` | `Sessions_race` | `SPECIFICATION SerialSpec`, `Nick <- PatternNicks`, `ILike <- PatternILike` | one login at a time: a nickname with a wildcard passes the check, which compares for equality, and the lookup, which is `ILIKE`, finds a player who is connected |
| `NoPanic` | `Sessions_race` | `Conn <- OneConn`, `ConnID <- OneID`, `Udp <- OneUdp`, `Nick <- TwoNicks`, `ILike <- TwoILike` | a login by UDP that finds nobody resets `gc.player` under a login by TCP, which dereferences it |
| `NoPlayerRace` | `Locks_login_movement` | `Calls <- TwoLoginsCalls` | a login reads `gc.player` without the mutex while another one writes it |
| `NoMisuse` | `Locks_login_movement` | `Calls <- AnonymousCalls` | a movement before the login unlocks its mutex twice, which ends the process |
| `NoDeadlock` | `Locks_login_movement` | `Calls <- ChatSweepCalls`, `Listings <- OneOrder` | chat to all, heartbeat and sweep wait in a circle |
| `NobodySpoilt` | `Announcements` | `Conn <- ThreeConns`, `Place <- OnePlace`, `MaxInputs = 3`, `MaxWaiting = 3` | a SyncState counts a player that is not in it, and the others in it are not read |
| `CreatedAtHome` | `WorldGen` | none | the query for a tile fails, and players are created at the origin |
| `SentAreInView` | `Calculations` | the other inputs `<- Nothing` | the chunk 256 away is sent |
| `LowestIsOne` | `Calculations` | the other inputs `<- Nothing` | one point of experience makes nearly the highest level |

Fairness.  `SweepFairness` is weak fairness of the three parts of
`cleanupInactiveConnections`: its ticker keeps firing and its loop has no other
exit; nothing is assumed of clients.  (`SilentIsRemoved` is about behaviours
without the panic, which ends all routines.)  `RWMutex!Fairness` is weak
fairness of every goroutine's next step, the Go scheduler's, and strong fairness
of a writer's announcement, because writers queue in turn on the mutex inside an
RWMutex; nobody is obliged to make a call, and a stalled peer stays stalled.
`SaveFairness` is weak fairness of `autoSaveRoutine` (its ticker keeps firing,
`Save` returns) and strong fairness of a batch that is stored: a statement that
can succeed again and again is not refused for ever.  In `World` the ticker keeps
firing (`WF_vars(Tick)`); nothing is assumed of clients or of the clock.

## 4. The proofs

`SessionsProofs` (any number of connections, numbers, players, datagrams):

- `Inv` is inductive.  `NoGhostEntry` and `LostOnlyByCollision` are not so
  alone: a sweep could remove a connection that has not been registered yet, and
  it would be registered afterwards.  `Untouched` excludes that - before its TCP
  loop nobody looks a connection up, sweeps it or logs in on it - and `Drawn`
  and `Requested` give the values of `connID` and `nick` their meaning.
  Theorems `TypeCorrectness`, `NoGhosts`, `LossesAreCollisions`.
- `CapacityRespected`: cardinality of the table, step by step.
- `TableRefinement`: every step is a `Join`, a `Leave` or a stutter of
  `Membership`.
- `OneSessionPerPlayer`, with the auxiliary invariant `Unheld`: nobody in the
  table holds a row under whose nickname a login is past the check, unless the
  row is doubtful.  Four lemmas follow it through the steps that could break it
  (`RegisterOneSession`, `CheckOneSession`, `LookUpOneSession`,
  `OtherOneSession`).  Nothing is assumed of nicknames, of how many logins
  overlap or of what `ILIKE` selects.  The run `race` and its variant with
  wildcards in section 3 show that both excuses are needed.
- `PlayersAreKept`: gorm's primary key makes a lookup on a connection that has a
  player select that player or nobody.

`ServerLocksProofs` is first about `RWMutex` (any goroutines, mutexes and codes).
`LockInv` reads off the rest of a goroutine's code which mutexes it holds.  From
it, for balanced codes:
`NoMisuseIfBalanced`, `ExclusionIfBalanced`; for ordered codes
`NoDeadlockIfOrdered` - in a circle, take the contended lock of the lowest
level; its holder waits for a contended lock of a lower level still, the case of
a reader queued behind a waiting writer included; for guarded variables
`NoRaceIfGuarded`.

Then it shows of every handler, for any number of connections and clients, that
its codes keep the discipline those theorems ask for.

- A code is composed of steps, sections (lock, what is done inside, unlock) and
  loops.  `Code(K, mode, ordered)` is the balanced codes about the locks `K`, in
  the order of levels if that is asked for, which guard the maps themselves or
  may be run where the server's mutex is held for reading or for writing
  (`mode`).  Such sets are closed under concatenation, under `ForEach` over any
  list, and putting a code into a section of a lock that is not in `K` adds it.
  Each handler then follows from its own structure.
- The two orders of locks are two menus of handlers.  `Lobby` holds the handlers
  that take the server's mutex before a connection's or one at a time
  (`ServerAbove`), `Game` those that take it under a connection's
  (`ServerBelow`).  `LobbyDiscipline`, `LobbyNeverDeadlocks`,
  `GameNeverDeadlocks`: each menu is free of deadlocks - the finding
  `login_movement` is that the two together are not.
- `ServerNeverRaces` needs no order of locks and holds of both menus together.
- Outside the menus are `ChatAnswer` and `ChatTeleport`, which take their own
  mutex for reading twice (the finding `chat_heartbeat`), and
  `AnonymousMovement`, which unlocks it twice.  The hypothesis of a theorem
  (`LobbyCalled`, `GameCalled`, `AnyCalled`) is that goroutines call what is on
  the menu, as they do in the runs `lobby` and `game`.

`PersistenceProofs` (any connections, players and row objects):

- `Inv`: without a fork at most one object that may still be saved holds a
  player's row (`Single`), late datagrams and pointers in a batch counted, the database is not ahead of it (`Ahead`), what nobody reaches is
  blank and a process that does not run holds nothing.  `NeverGoesBack` is not
  provable without them: a batch writes what its pointers point to *now*, and
  only `Single` makes that the object the sessions use.
- `SettleStep` is the heart: every step that changes no object - three kinds of
  disconnect, one of them after the end of the stream too, the end of the late
  handlers, both halves of the sweep, the parts of `Save` - stores the latest
  version of some players and drops others, a `Settle` of `PlayerStore`.  The
  other steps are `Progress`, `Share`, `Create` and `End`.  Theorems
  `StoreRefinement`, `StoredNeverGoesBack`.
- `ExitSavesAll`: what is owed since the signal and not yet stored is in an
  object the exit's `Save` has collected, or will collect from a connection that
  is still open (`OwedKept`); whoever closes it saves it first.

`AnnouncementsProofs` (any connections, players and places, any number of inputs
and goroutines):

- `Introduced` and `Farewell` speak of what has been sent; `Inv` says that it has
  been or will be.  `Coming` lists what may still tell a client of a player: a
  goroutine that waits, a login that has not yet broadcast, a `SyncState` that
  has not been started, has the connection still to look at, or has him listed.
  Each step that ends one of these begins another or tells.  The login whose
  lookup comes last brings about both directions, by its broadcast and by its
  own `SyncState`; a step of another player's login cannot undo that.  A
  `SyncState` that cannot be read tells nobody, and what it should have told is
  in `spoilt` from then on.
- `Parting` is the same for a departure.  `Positions` says that what a login has
  read of its position is right until its player moves.  Theorems
  `EverybodyIntroduced`, `NobodyLeavesUnnoticed`.

`WorldProofs` (any players, rows, inputs, maps and speeds): `NewestInputWins`,
from what a movement under way has written (`NewestUnderWay`);
`NobodyLeavesTheGround`; `MoversAreTracked`; `SpeedLimit`, from what `tickLoop`
has read of a direction nobody changed.

`WorldGenProofs` (any map, any files that fit `WorldsAssumption`, any number of
crashes and failures): `Drawing` says what the transaction holds after some
features; `Bordering` what the border pass has marked after some tiles - those
whose turn has come iff they are borders, the others iff a foreign neighbour has
had its turn, which is why each may overwrite its neighbours' marks
(`CheckTileStep`, with `ForeignSymmetric`); `Stored`, `HomeRead` and `Cause` are
about the rest; `HomeRead` says what `Seed` has read of the home country and its
tile, or that the query failed (`strayed`).  Theorems `ExactBorders`, `AllOrNothing`,
`SeededPlayersHaveHome`, `FatalEndsHaveCauses`.

`CalculationsProofs` (inputs of any size): `FunctionsAnswer` says that a result
is the one its function returns for the input chosen; what the function returns
is shown without a state, and of lines and polygons in `RasterProofs`.

- `LinesAlwaysDrawn`: after `i` steps along the longer axis and `j` along the
  other one the error term of `drawLine` is `(j + 1) dx - (i + 1) dy`, and
  `|2 (j dx - i dy)|` is at most the length of the longer axis (`FlatTurn`,
  `SteepTurn`).  That is what keeps a tile within half a tile of the edge, and
  what makes the line end at its end (`SmallMultiple`).
- `PolygonsAlwaysFilled`: a tile off the ring is inside when edges pass below it
  an odd number of times, and is filled when the sorted crossings to its left are
  odd in number.  An edge passes below the tile or to its left, not both and not
  neither, iff one of its ends is below and left of the tile and the other is not
  (`OneSide`); followed round the ring this leaves the two numbers equal in parity
  (`RowIsCounted`).  Rounding moves a crossing past the tile only if the edge is
  within half a tile of it (`ColumnIsNear`), and sorting gives the k-th crossing
  its place whatever their order was (`SortIsSorted`).
- `DatagramsWholeOrNothing`: lengths of two and four bytes are read as they were
  written (`Value16`, `Value32`), and a raw message is decoded from all its bytes
  and from no fewer (`RawIsRead`).
- `StreamsRoundTrip`: the bytes of `n` frames begin with those of the first
  `n - 1` (`FlattenStep`, `FlattenBegins`); what stands at the end of a whole frame
  is read on from there, and the part of a frame is not read (`FrameIsRead`).
  Assumed of the inputs: an encoded message has a length of four bytes.
- `SyncStatesReadable`: an item in front of any bytes is read, and what is behind
  it is left over (`ItemIsRead`); so are any number of items (`ItemsAreRead`), a
  section (`SectionIsRead`) and the two sections of a state (`SyncIsRead`).
- `ChatsArrive`: text that is trimmed does not grow (`TrimIsShort`), so that what
  fits the length byte when decoded fits it when encoded.
- `ChunksAnswered`: sums and squares of numbers cut to a uint16 are those of the
  numbers themselves, cut (`ModuloAdds`, `SquareModulo`), so that the code asks for
  the squared distance modulo 2^16 (`InViewIsDistance`); the coordinates of a
  chunk in view are not cut off, those of another one may be (`Wrapping`,
  `ChunkIsAnswered`).  `PacketAssumption`: a packet holds a chunk, and there is
  room above the map for the chunks in view.
- `LevelsAreRight`: an experience between two powers of 3/2 is between their
  quotients, cut off, as well (`LevelFits`); one below 2/3 of the base has a
  negative quotient that a uint holds as 0 or as one of its last numbers
  (`LevelWraps`).

Recursive functions need induction over numbers; the rule of the library has an
operator as parameter.  Wherever a set of numbers can be named its form for sets
takes its place (`Induction`, from the well-foundedness of `<`).

Assumptions: the `ASSUME`s of the modules (types of constants, finitely many
connection numbers, Listings are sequences of connections; of `WorldGen`, that no
code occurs twice in a file and that what is drawn is on the map, which
`latLongToTileCoords` clamps), evaluated by TLC in the runs, and the hypotheses
named above.

Only model-checked: liveness (`SilentIsRemoved`, `CallsReturn`, `QuietIsSaved`,
`IdleIsDropped`), which is out of the prover's reach.  That `IsLine` and the
other references say what they should is for the reader to judge.

## 5. Not modelled, and why

- *The order of announcements.*  `PlayerJoined` and `PlayerLeft` may arrive in
  the other order, and nothing in the repository says what a client does then:
  `Announcements` tells what is sent, not what a client makes of it.  Chat and
  movement data are broadcast in the same way and change no state.
- *Map tiles after their generation*.  `UpdateTile` has no caller and
  `updatedTiles` is always empty, so that what `Save` does with it, the window
  between its copy and its reset included, is left out.
- *UDP addresses*.  A number is bound to whoever uses it first; the repository
  does not say to whom it belongs.
- *Payloads of fixed width* (movement, welcome, chunk tiles), the login (one
  length byte and a text), translations (collected, never stored), the text of
  commands.
- `KillExpReward`: a formula without a counterpart, and without a caller.
- *Where in a tile a player stands*, and the tearing of one coordinate: `World`
  knows tiles.  `/tp` to coordinates that a uint16 does not hold, which `tickLoop`
  wraps around, is left out.  `FixedDeltaTime` is `TICKS_PER_SECOND` *milliseconds*, which
  changes how often ticks come, not how far they carry at a given speed.
- Configuration, data types, the sample client, and behaviour inside gorm,
  PostgreSQL and the network beyond what handlers see.

What could be added next: a finer `Persistence` in which a login takes the steps
it takes in `Sessions`, and `/tp` and the coordinates of `tickLoop` modulo 2^16.
