-------------------------------- MODULE World --------------------------------
(***************************************************************************)
(* Movement: datagrams that set the direction of a player, teleports, and  *)
(* the tick loop that moves the players of GameServer.movingPlayers and    *)
(* drops those it has heard nothing of for a second.                       *)
(*                                                                         *)
(* Direction, coordinates and time stamps of a row are written by          *)
(* handleMovement under the connection's mutex, by /tp under another one   *)
(* and by tickLoop under none.  movingPlayers is guarded by the server's   *)
(* mutex, but what a goroutine does with it depends on what it read        *)
(* before.  Each action is a part of a handler that the others can see.    *)
(*                                                                         *)
(* A position is a tile; where in the tile a player stands is left open.   *)
(* A direction is a pair of integers, not normalised.                      *)
(***************************************************************************)
EXTENDS Integers, Sequences

CONSTANTS
  Row,      \* row objects: a player who logs in again has another one
  NoRow,
  IdOf,     \* the primary key of each row
  UnitOf,   \* its GetUnitType
  Input,    \* the directions its client sends, in the order of their time stamps
  Loaded,   \* direction and tile of the row in the database at its login
  TileType, \* the tiles of the map and their types
  Jump,     \* where /tp is told to put players, on the map or not (bound)
  MaxStep   \* tiles a player moves at most in one tick, at his speed

ASSUME WorldAssumption ==
  /\ NoRow \notin Row
  /\ DOMAIN IdOf = Row
  /\ DOMAIN UnitOf = Row
  /\ Input \in [Row -> Seq(Int \X Int)]
  /\ Loaded \in [Row -> [dir : Int \X Int, tile : DOMAIN TileType]]
  /\ DOMAIN TileType \subseteq Int \X Int
  /\ Jump \subseteq Nat \X Nat
  /\ MaxStep \in Nat

VARIABLES
  life,   \* "new", "served", or "gone": its session is over
  dir,    \* DirX and DirY
  ticks,  \* LastUpdatedTicks
  recent, \* LastUpdated is less than a second old
  tile,   \* CoordX and CoordY, as a tile
  moving, \* GameServer.movingPlayers
  move,   \* where the movement handler of each row is, and its time stamp
  jumps,  \* rows that were teleported and are about to be put into movingPlayers
  tick,   \* the goroutine of tickLoop
  got,    \* history: the newest time stamp that has arrived
  jumped, \* history: rows that were teleported
  raced   \* history: rows whose entry was removed although it was wanted

vars == <<life, dir, ticks, recent, tile, moving, move, jumps, tick, got, jumped, raced>>
rowVars == <<life, dir, ticks, recent, tile>>
history == <<got, jumped, raced>>

Player == {IdOf[r] : r \in Row}
Stamp(r) == DOMAIN Input[r]
Tile == DOMAIN TileType
Place == Tile \cup Jump
Resting == [phase |-> "rest", copied |-> {}, players |-> {}, row |-> NoRow,
            from |-> <<0, 0>>, xs |-> {}, ys |-> {}]

Sent(r) == {Loaded[r].dir} \cup {Input[r][ts] : ts \in Stamp(r)}
SentX(r) == {d[1] : d \in Sent(r)}
SentY(r) == {d[2] : d \in Sent(r)}

TypeOK ==
  /\ life \in [Row -> {"new", "served", "gone"}]
  /\ \A r \in Row : /\ dir[r] \in SentX(r) \X SentY(r)
                    /\ ticks[r] \in {0} \cup Stamp(r)
                    /\ got[r] \in {0} \cup Stamp(r)
                    /\ tile[r] \in Place
                    /\ move[r].phase \in {"rest", "half", "stored"}
                    /\ move[r].stamp \in {0} \cup Stamp(r)
  /\ recent \in [Row -> BOOLEAN]
  /\ \A p \in Player : moving[p] \in {NoRow} \cup {r \in Row : IdOf[r] = p}
  /\ jumps \subseteq jumped
  /\ tick.phase \in {"rest", "check", "drop", "move", "calculate"}
  /\ tick.copied \subseteq Row
  /\ tick.players \subseteq Row
  /\ tick.row \in Row \cup {NoRow}
  /\ jumped \in SUBSET Row
  /\ raced \in SUBSET Row

NoMove == [phase |-> "rest", stamp |-> 0]

Init ==
  /\ life = [r \in Row |-> "new"]
  /\ dir = [r \in Row |-> Loaded[r].dir]
  /\ ticks = [r \in Row |-> 0]
  /\ recent = [r \in Row |-> FALSE]
  /\ tile = [r \in Row |-> Loaded[r].tile]
  /\ moving = [p \in Player |-> NoRow]
  /\ move = [r \in Row |-> NoMove]
  /\ jumps = {}
  /\ tick = Resting
  /\ got = [r \in Row |-> 0]
  /\ jumped = {}
  /\ raced = {}

-----------------------------------------------------------------------------
(* Sessions and the clock. *)

\* A login loads the row of a player nobody else has loaded.
Login(r) ==
  /\ life[r] = "new"
  /\ \A q \in Row : IdOf[q] = IdOf[r] => life[q] # "served"
  /\ life' = [life EXCEPT ![r] = "served"]
  /\ UNCHANGED <<dir, ticks, recent, tile, moving, move, jumps, tick, history>>

\* handleDisconnect leaves movingPlayers alone, and a datagram that has found
\* its connection before is handled afterwards.
Depart(r) ==
  /\ life[r] = "served"
  /\ life' = [life EXCEPT ![r] = "gone"]
  /\ UNCHANGED <<dir, ticks, recent, tile, moving, move, jumps, tick, history>>

\* A second has passed since LastUpdated.
Lapse(r) ==
  /\ recent[r]
  /\ recent' = [recent EXCEPT ![r] = FALSE]
  /\ UNCHANGED <<life, dir, ticks, tile, moving, move, jumps, tick, history>>

-----------------------------------------------------------------------------
(* handleMovement.  gc.mu lets one movement of a row in at a time. *)

\* Values the fields of a row have while tickLoop calculates with them: it
\* may see each of them at each of its reads.
Expose(r) ==
  tick' = IF tick.row = r
          THEN [tick EXCEPT !.xs = @ \cup {dir'[r][1]}, !.ys = @ \cup {dir'[r][2]}]
          ELSE tick

Newer(a, b) == IF a > b THEN a ELSE b

\* Mutant: no check of the time stamp.
Old_Never(r, ts) == FALSE
Old(r, ts) == ticks[r] > ts

\* A datagram arrives: late, repeated, or never.
MoveArrives(r, ts) ==
  /\ life[r] # "new"
  /\ move[r].phase = "rest"
  /\ got' = [got EXCEPT ![r] = Newer(@, ts)]
  /\ IF Old(r, ts)
     THEN UNCHANGED <<dir, move, tick>>
     ELSE /\ dir' = [dir EXCEPT ![r][1] = Input[r][ts][1]]
          /\ move' = [move EXCEPT ![r] = [phase |-> "half", stamp |-> ts]]
          /\ Expose(r)
  /\ UNCHANGED <<life, ticks, recent, tile, moving, jumps, jumped, raced>>

MoveStores(r) ==
  /\ move[r].phase = "half"
  /\ dir' = [dir EXCEPT ![r][2] = Input[r][move[r].stamp][2]]
  /\ ticks' = [ticks EXCEPT ![r] = move[r].stamp]
  /\ recent' = [recent EXCEPT ![r] = TRUE]
  /\ move' = [move EXCEPT ![r].phase = "stored"]
  /\ Expose(r)
  /\ UNCHANGED <<life, tile, moving, jumps, history>>

\* Mutant: only the horizontal direction counts.
IsMoving_X(r) == dir[r][1] # 0
IsMoving(r) == dir[r] # <<0, 0>>

\* An entry of movingPlayers; another row object of the player is displaced.
Track(r) ==
  /\ moving' = [moving EXCEPT ![IdOf[r]] = r]
  /\ raced' = (raced \ {r}) \cup ({moving[IdOf[r]]} \ {NoRow, r})

MoveTracks(r) ==
  /\ move[r].phase = "stored"
  /\ IF IsMoving(r) THEN Track(r) ELSE UNCHANGED <<moving, raced>>
  /\ move' = [move EXCEPT ![r] = NoMove]
  /\ UNCHANGED <<rowVars, jumps, tick, got, jumped>>

-----------------------------------------------------------------------------
(* /tp, to any coordinates: nobody looks for a tile there.  Those that       *)
(* tickLoop wraps around, negative or 2^16 and more, are left out.           *)

Teleport(r, t) ==
  /\ life[r] = "served"
  /\ tile' = [tile EXCEPT ![r] = t]
  /\ recent' = [recent EXCEPT ![r] = TRUE]
  /\ jumps' = jumps \cup {r}
  /\ jumped' = jumped \cup {r}
  /\ UNCHANGED <<life, dir, ticks, moving, move, tick, got, raced>>

TeleportTracks(r) ==
  /\ r \in jumps
  /\ jumps' = jumps \ {r}
  /\ Track(r)
  /\ UNCHANGED <<rowVars, move, tick, got, jumped>>

-----------------------------------------------------------------------------
(* tickLoop *)

TickCopies ==
  /\ tick.phase = "rest"
  /\ tick' = [Resting EXCEPT !.phase = "check", !.copied = {moving[p] : p \in Player} \ {NoRow}]
  /\ UNCHANGED <<rowVars, moving, move, jumps, history>>

\* Mutant: a player is only dropped when his direction is zero as well.
Idle_Standing(r) == ~recent[r] /\ ~IsMoving(r)
Idle(r) == ~recent[r]

\* One player of the copy: kept, or found idle ...
TickChecks(r) ==
  /\ tick.phase = "check"
  /\ r \in tick.copied
  /\ tick' = IF Idle(r)
             THEN [tick EXCEPT !.phase = "drop", !.copied = @ \ {r}, !.row = r]
             ELSE [tick EXCEPT !.copied = @ \ {r}, !.players = @ \cup {r}]
  /\ UNCHANGED <<rowVars, moving, move, jumps, history>>

\* ... and then deleted, by primary key.
TickDrops ==
  /\ tick.phase = "drop"
  /\ LET p == IdOf[tick.row] IN
     /\ moving' = [moving EXCEPT ![p] = NoRow]
     /\ raced' = IF moving[p] # NoRow /\ (recent[moving[p]] \/ moving[p] # tick.row)
                 THEN raced \cup {moving[p]} ELSE raced
  /\ tick' = [tick EXCEPT !.phase = "check", !.row = NoRow]
  /\ UNCHANGED <<rowVars, move, jumps, got, jumped>>

TickChecked ==
  /\ tick.phase = "check"
  /\ tick.copied = {}
  /\ tick' = IF tick.players = {} THEN Resting ELSE [tick EXCEPT !.phase = "move"]
  /\ UNCHANGED <<rowVars, moving, move, jumps, history>>

\* The coordinates of a player are read; reads of his direction begin.
TickReads(r) ==
  /\ tick.phase = "move"
  /\ r \in tick.players
  /\ tick' = [tick EXCEPT !.phase = "calculate", !.players = @ \ {r}, !.row = r,
                          !.from = tile[r], !.xs = {dir[r][1]}, !.ys = {dir[r][2]}]
  /\ UNCHANGED <<rowVars, moving, move, jumps, history>>

Sign(c) == IF c > 0 THEN 1 ELSE IF c < 0 THEN -1 ELSE 0

\* Tiles a component c of a direction can carry a player, when the square of
\* the direction's length is read as m: MaxStep * c / sqrt(m), rounded up.
\* Mutant: the direction is not normalised.
Reach_Raw(c, m) == 0..MaxStep * c * Sign(c)
Reach(c, m) ==
  IF m = 0 THEN {0}
  ELSE {k \in 0..MaxStep * c * Sign(c) : k = 0 \/ (k - 1) * (k - 1) * m < MaxStep * MaxStep * c * c}

\* Where the calculation can end: length and components are read separately.
Targets ==
  UNION {{<<tick.from[1] + Sign(x) * i, tick.from[2] + Sign(y) * j>> :
            i \in Reach(x, a * a + b * b), j \in Reach(y, a * a + b * b)} :
          x, a \in tick.xs, y, b \in tick.ys}

\* Mutant: a missing tile does not stop a player.
Suitable_Beyond(r, t) == t \notin Tile \/ TileType[t] = "ground"
Suitable(r, t) ==
  /\ t \in Tile
  /\ UnitOf[r] \in {"infantry", "tank"} => TileType[t] = "ground"
  /\ UnitOf[r] \in {"ship", "battleship"} => TileType[t] = "water"

\* Mutant: the tile the player leaves is looked at.
TickMoves_From ==
  /\ tick.phase = "calculate"
  /\ \E t \in Targets \cap Tile :
       tile' = IF Suitable(tick.row, tick.from) THEN [tile EXCEPT ![tick.row] = t] ELSE tile
  /\ tick' = IF tick.players = {} THEN Resting
             ELSE [tick EXCEPT !.phase = "move", !.row = NoRow, !.xs = {}, !.ys = {}]
  /\ UNCHANGED <<life, dir, ticks, recent, moving, move, jumps, history>>

\* The new coordinates are written if their tile suits the unit.
TickMoves ==
  /\ tick.phase = "calculate"
  /\ \E t \in Targets :
       tile' = IF Suitable(tick.row, t) THEN [tile EXCEPT ![tick.row] = t] ELSE tile
  /\ tick' = IF tick.players = {} THEN Resting
             ELSE [tick EXCEPT !.phase = "move", !.row = NoRow, !.xs = {}, !.ys = {}]
  /\ UNCHANGED <<life, dir, ticks, recent, moving, move, jumps, history>>

-----------------------------------------------------------------------------
Tick == \/ TickCopies \/ TickDrops \/ TickChecked \/ TickMoves
        \/ \E r \in Row : TickChecks(r) \/ TickReads(r)

Next ==
  \/ Tick
  \/ \E r \in Row :
       \/ Login(r) \/ Depart(r) \/ Lapse(r)
       \/ MoveStores(r) \/ MoveTracks(r) \/ TeleportTracks(r)
       \/ \E ts \in Stamp(r) : MoveArrives(r, ts)
       \/ \E t \in Jump : Teleport(r, t)

Spec == Init /\ [][Next]_vars

\* The ticker keeps firing and tickLoop waits for nobody for ever.
FairSpec == Spec /\ WF_vars(Tick)

-----------------------------------------------------------------------------
(* Properties. *)

\* Whatever the order in which the datagrams arrive, lost and repeated ones
\* included, a row whose movement handler is at rest has the direction and the
\* time stamp of the newest one (handleMovement's check of old requests).
NewestWins ==
  \A r \in Row : move[r].phase = "rest" =>
    /\ ticks[r] = got[r]
    /\ dir[r] = IF got[r] = 0 THEN Loaded[r].dir ELSE Input[r][got[r]]

\* A player who has never been teleported stands on a tile his unit may be on,
\* or where he was loaded, whatever directions tickLoop has read while they
\* were being changed.
OnGround ==
  \A r \in Row \ jumped : tile[r] = Loaded[r].tile \/ Suitable(r, tile[r])

\* tickLoop moves a player no farther than his speed allows - unless his
\* direction was changed while it calculated: then the length may be that of
\* one direction and the components those of another.
Near(s, t, d) == \A i \in {1, 2} : s[i] - t[i] \in -d..d
NoFasterThanSpeed ==
  [][TickMoves => \/ tile' = tile
                  \/ \E x \in tick.xs, y \in tick.ys : tick.xs # {x} \/ tick.ys # {y}
                  \/ Near(tile'[tick.row], tick.from, MaxStep)]_vars

\* A player who moves and was heard of within a second is in movingPlayers,
\* unless tickLoop found him idle and deleted him, or another row of his, after
\* that ("delete if not moving more than a second", tickLoop).
NotForgotten ==
  \A r \in Row :
    /\ got[r] # 0 /\ move[r].phase = "rest" /\ r \notin jumps
    /\ recent[r] /\ dir[r] # <<0, 0>>
    => moving[IdOf[r]] = r \/ r \in raced

\* A player of whom nothing is heard any more, connected or not, is dropped
\* from movingPlayers for good (tickLoop).
IdleIsDropped ==
  \A r \in Row : <>[]~recent[r] => <>[](moving[IdOf[r]] # r)
=============================================================================
