----------------------------- MODULE WorldProofs -----------------------------
(***************************************************************************)
(* Proofs about World, for any number of players, rows, inputs and tiles.  *)
(*                                                                         *)
(* Inv is the inductive invariant: the types, the state of a movement      *)
(* between its two writes to the direction, the ground under a player who  *)
(* was not teleported, and the entries of movingPlayers.                   *)
(***************************************************************************)
EXTENDS World, TLAPS

Phase == {"rest", "check", "drop", "move", "calculate"}

Typed ==
  /\ life \in [Row -> {"new", "served", "gone"}]
  /\ dir \in [Row -> Int \X Int]
  /\ ticks \in [Row -> Nat]
  /\ got \in [Row -> Nat]
  /\ recent \in [Row -> BOOLEAN]
  /\ tile \in [Row -> Place]
  /\ moving \in [Player -> Row \cup {NoRow}]
  /\ move \in [Row -> [phase : {"rest", "half", "stored"}, stamp : Nat]]
  /\ tick \in [phase : Phase, copied : SUBSET Row, players : SUBSET Row,
               row : Row \cup {NoRow}, from : Int \X Int, xs : SUBSET Int, ys : SUBSET Int]
  /\ jumps \subseteq jumped
  /\ jumped \subseteq Row
  /\ raced \subseteq Row

\* Directions and time stamps come from the client or from the database.
FromClient ==
  \A r \in Row : /\ dir[r] \in SentX(r) \X SentY(r)
                 /\ ticks[r] \in {0} \cup Stamp(r)
                 /\ got[r] \in {0} \cup Stamp(r)
                 /\ move[r].stamp \in {0} \cup Stamp(r)
                 /\ move[r].phase # "rest" => move[r].stamp \in Stamp(r)

\* An entry of movingPlayers is a row of the player it is listed under.
OwnEntries == \A p \in Player : moving[p] # NoRow => IdOf[moving[p]] = p

\* tickLoop drops and moves rows.
AtRow == tick.phase \in {"drop", "calculate"} => tick.row \in Row

\* A movement under way is the newest that has arrived: its first component
\* is written first, then the second and the time stamp.
NewestUnderWay ==
  \A r \in Row :
    /\ move[r].phase = "half" =>
         /\ move[r].stamp = got[r]
         /\ dir[r][1] = Input[r][got[r]][1]
    /\ move[r].phase = "stored" =>
         /\ move[r].stamp = got[r]
         /\ ticks[r] = got[r]
         /\ dir[r] = Input[r][got[r]]

Inv ==
  /\ Typed /\ FromClient /\ OwnEntries /\ AtRow
  /\ NewestUnderWay /\ NewestWins /\ OnGround /\ NotForgotten

\* What the constants are.
LEMMA Constants ==
  ASSUME NEW r \in Row
  PROVE  /\ IdOf[r] \in Player
         /\ Stamp(r) \subseteq Nat \ {0}
         /\ Loaded[r].dir \in Int \X Int
         /\ Loaded[r].tile \in Tile
         /\ Loaded[r].dir \in Sent(r)
         /\ \A ts \in Stamp(r) : Input[r][ts] \in Int \X Int /\ Input[r][ts] \in Sent(r)
<1>1. Input[r] \in Seq(Int \X Int)
  BY WorldAssumption
<1>2. Stamp(r) = 1..Len(Input[r]) /\ Len(Input[r]) \in Nat
  BY <1>1 DEF Stamp
<1>3. \A ts \in Stamp(r) : Input[r][ts] \in Int \X Int
  BY <1>1, <1>2
<1>4. Stamp(r) \subseteq Nat \ {0}
  BY <1>2
<1>5. Loaded[r] \in [dir : Int \X Int, tile : DOMAIN TileType]
  BY WorldAssumption
<1> QED
  BY <1>3, <1>4, <1>5 DEF Player, Tile, Sent

\* Components of what is sent.
LEMMA SentParts ==
  ASSUME NEW r \in Row, NEW d \in Sent(r)
  PROVE  /\ d[1] \in SentX(r) /\ d[2] \in SentY(r)
         /\ d \in Int \X Int
         /\ SentX(r) \subseteq Int /\ SentY(r) \subseteq Int
<1>1. \A e \in Sent(r) : e \in Int \X Int
  BY Constants DEF Sent
<1> QED
  BY <1>1 DEF SentX, SentY

LEMMA InitInv == Init => Inv
<1> SUFFICES ASSUME Init
             PROVE  Inv
  OBVIOUS
<1>1. Typed
  <2>1. \A r \in Row : Loaded[r].dir \in Int \X Int /\ Loaded[r].tile \in Tile
    BY Constants
  <2>2. Resting \in [phase : Phase, copied : SUBSET Row, players : SUBSET Row,
                     row : Row \cup {NoRow}, from : Int \X Int, xs : SUBSET Int, ys : SUBSET Int]
    BY DEF Resting, Phase
  <2> QED
    BY <2>1, <2>2 DEF Init, Typed, NoMove, Place
<1>2. FromClient
  <2> SUFFICES ASSUME NEW r \in Row
               PROVE  dir[r] \in SentX(r) \X SentY(r)
    BY DEF Init, FromClient, NoMove
  <2>1. Loaded[r].dir \in Sent(r)
    BY Constants
  <2> QED
    BY <2>1, SentParts DEF Init
<1>3. OwnEntries /\ AtRow
  BY DEF Init, OwnEntries, AtRow, Resting
<1>4. NewestUnderWay /\ NewestWins /\ OnGround /\ NotForgotten
  BY DEF Init, NewestUnderWay, NewestWins, OnGround, NotForgotten, NoMove
<1> QED
  BY <1>1, <1>2, <1>3, <1>4 DEF Inv

-----------------------------------------------------------------------------
(* Steps. *)

\* What an entry of movingPlayers becomes.
LEMMA TrackStep ==
  ASSUME Inv, NEW r \in Row, Track(r)
  PROVE  /\ moving' \in [Player -> Row \cup {NoRow}]
         /\ raced' \subseteq Row
         /\ OwnEntries'
         /\ moving'[IdOf[r]] = r
         /\ \A q \in Row \ {r} : moving[IdOf[q]] = q \/ q \in raced
                                  => moving'[IdOf[q]] = q \/ q \in raced'
<1> USE DEF Inv, Typed
<1>1. IdOf[r] \in Player /\ \A q \in Row : IdOf[q] \in Player
  BY Constants
<1>2. moving[IdOf[r]] \in Row \cup {NoRow} /\ NoRow \notin Row
  BY <1>1, WorldAssumption
<1>3. moving' \in [Player -> Row \cup {NoRow}] /\ raced' \subseteq Row
  BY <1>2 DEF Track
<1>4. OwnEntries'
  BY <1>1 DEF OwnEntries, Track
<1>5. \A q \in Row \ {r} : moving[IdOf[q]] = q \/ q \in raced
                            => moving'[IdOf[q]] = q \/ q \in raced'
  BY <1>1, <1>2 DEF Track
<1> QED
  BY <1>1, <1>3, <1>4, <1>5 DEF Track

\* The steps that leave rows, movements and the maps alone.
LEMMA TickBookkeeping ==
  ASSUME Inv,
         UNCHANGED <<dir, ticks, recent, tile, moving, move, jumps, history>>,
         life' \in [Row -> {"new", "served", "gone"}],
         tick' \in [phase : Phase, copied : SUBSET Row, players : SUBSET Row,
                    row : Row \cup {NoRow}, from : Int \X Int, xs : SUBSET Int, ys : SUBSET Int],
         AtRow'
  PROVE  Inv'
  BY DEF Inv, Typed, FromClient, OwnEntries, NewestUnderWay, NewestWins, OnGround,
         NotForgotten, history

LEMMA ExposeType ==
  ASSUME Typed, NEW r \in Row, Expose(r), dir' \in [Row -> Int \X Int]
  PROVE  /\ tick' \in [phase : Phase, copied : SUBSET Row, players : SUBSET Row,
                       row : Row \cup {NoRow}, from : Int \X Int, xs : SUBSET Int, ys : SUBSET Int]
         /\ tick'.phase = tick.phase /\ tick'.row = tick.row
<1>1. dir'[r][1] \in Int /\ dir'[r][2] \in Int
  OBVIOUS
<1>2. CASE tick.row = r
  <2>1. tick' = [tick EXCEPT !.xs = @ \cup {dir'[r][1]}, !.ys = @ \cup {dir'[r][2]}]
    BY <1>2 DEF Expose
  <2>2. tick.xs \cup {dir'[r][1]} \in SUBSET Int /\ tick.ys \cup {dir'[r][2]} \in SUBSET Int
    BY <1>1 DEF Typed
  <2> QED
    BY <2>1, <2>2 DEF Typed
<1>3. CASE tick.row # r
  BY <1>3 DEF Typed, Expose
<1> QED
  BY <1>2, <1>3

LEMMA MoveArrivesStep ==
  ASSUME Inv, NEW r \in Row, NEW ts \in Stamp(r), MoveArrives(r, ts)
  PROVE  Inv'
<1> USE DEF Inv
<1>1. /\ ts \in Nat \ {0}
      /\ Input[r][ts] \in Int \X Int
      /\ Input[r][ts][1] \in SentX(r)
  BY Constants, SentParts
<1>2. ticks[r] = got[r] /\ got[r] \in Nat
  BY DEF MoveArrives, NewestWins, Typed
<1>3. CASE Old(r, ts)
  <2>1. got'[r] = got[r] /\ got' = got
    BY <1>1, <1>2, <1>3 DEF MoveArrives, Old, Newer, Typed
  <2> QED
    BY <2>1, <1>3, TickBookkeeping DEF MoveArrives, AtRow, Typed, history
<1>4. CASE ~Old(r, ts)
  <2>1. /\ dir' = [dir EXCEPT ![r][1] = Input[r][ts][1]]
        /\ move' = [move EXCEPT ![r] = [phase |-> "half", stamp |-> ts]]
        /\ got' = [got EXCEPT ![r] = Newer(@, ts)]
        /\ Expose(r)
        /\ UNCHANGED <<life, ticks, recent, tile, moving, jumps, jumped, raced>>
    BY <1>4 DEF MoveArrives
  <2>2. Newer(got[r], ts) = ts
    BY <1>1, <1>2, <1>4 DEF Old, Newer
  <2>3. dir' \in [Row -> Int \X Int]
    BY <2>1, <1>1, SMTT(30) DEF Typed
  <2>4. /\ dir'[r] = <<Input[r][ts][1], dir[r][2]>>
        /\ \A q \in Row \ {r} : dir'[q] = dir[q]
    BY <2>1 DEF Typed
  <2>5. /\ got'[r] = ts /\ move'[r] = [phase |-> "half", stamp |-> ts]
        /\ \A q \in Row \ {r} : got'[q] = got[q] /\ move'[q] = move[q]
    BY <2>1, <2>2 DEF Typed
  <2>6. Typed'
    BY <2>1, <2>2, <2>3, <1>1, ExposeType DEF Typed
  <2>7. FromClient'
    BY <2>1, <2>4, <2>5, <1>1 DEF FromClient, Typed
  <2>8. OwnEntries' /\ AtRow' /\ OnGround'
    BY <2>1, <2>3, ExposeType DEF OwnEntries, AtRow, OnGround
  <2>9. NewestUnderWay' /\ NewestWins' /\ NotForgotten'
    BY <2>1, <2>4, <2>5 DEF NewestUnderWay, NewestWins, NotForgotten
  <2> QED
    BY <2>6, <2>7, <2>8, <2>9
<1> QED
  BY <1>3, <1>4

LEMMA MoveStoresStep ==
  ASSUME Inv, NEW r \in Row, MoveStores(r)
  PROVE  Inv'
<1> USE DEF Inv
<1> DEFINE ts == move[r].stamp
<1>1. ts \in Stamp(r) /\ ts = got[r] /\ dir[r][1] = Input[r][ts][1]
  BY DEF MoveStores, FromClient, NewestUnderWay
<1>2. /\ ts \in Nat \ {0}
      /\ Input[r][ts] \in Int \X Int
      /\ Input[r][ts] \in Sent(r)
  BY <1>1, Constants
<1>3. dir' \in [Row -> Int \X Int]
  BY <1>2, SMTT(30) DEF MoveStores, Typed
<1>4. /\ dir'[r] = <<dir[r][1], Input[r][ts][2]>>
      /\ \A q \in Row \ {r} : dir'[q] = dir[q]
  BY DEF MoveStores, Typed
<1>5. dir'[r] = Input[r][ts]
  BY <1>1, <1>2, <1>4
<1>6. /\ ticks'[r] = ts /\ recent'[r] /\ move'[r] = [phase |-> "stored", stamp |-> ts]
      /\ \A q \in Row \ {r} : /\ ticks'[q] = ticks[q]
                              /\ recent'[q] = recent[q]
                              /\ move'[q] = move[q]
  BY DEF MoveStores, Typed
<1>7. Typed'
  <2>1. /\ ticks' \in [Row -> Nat]
        /\ recent' \in [Row -> BOOLEAN]
        /\ move' \in [Row -> [phase : {"rest", "half", "stored"}, stamp : Nat]]
    BY <1>2, SMTT(30) DEF Typed, MoveStores
  <2>2. Expose(r) /\ UNCHANGED <<life, tile, moving, jumps, got, jumped, raced>>
    BY DEF MoveStores, history
  <2> QED
    BY <1>3, <2>1, <2>2, ExposeType DEF Typed
<1>8. FromClient'
  BY <1>1, <1>2, <1>4, <1>5, <1>6, SentParts DEF FromClient, MoveStores, history
<1>9. OwnEntries' /\ AtRow' /\ OnGround'
  BY <1>3, ExposeType DEF OwnEntries, AtRow, OnGround, MoveStores, history
<1>10. NewestUnderWay' /\ NewestWins' /\ NotForgotten'
  BY <1>1, <1>4, <1>5, <1>6 DEF NewestUnderWay, NewestWins, NotForgotten, MoveStores, history
<1> QED
  BY <1>7, <1>8, <1>9, <1>10

LEMMA MoveTracksStep ==
  ASSUME Inv, NEW r \in Row, MoveTracks(r)
  PROVE  Inv'
<1> USE DEF Inv
<1>1. /\ move'[r] = NoMove
      /\ \A q \in Row \ {r} : move'[q] = move[q]
      /\ move' \in [Row -> [phase : {"rest", "half", "stored"}, stamp : Nat]]
  BY DEF MoveTracks, Typed, NoMove
<1>2. /\ moving' \in [Player -> Row \cup {NoRow}]
      /\ raced' \subseteq Row
      /\ OwnEntries'
      /\ dir[r] # <<0, 0>> => moving'[IdOf[r]] = r
      /\ \A q \in Row \ {r} : moving[IdOf[q]] = q \/ q \in raced
                               => moving'[IdOf[q]] = q \/ q \in raced'
  <2>1. CASE IsMoving(r)
    BY <2>1, TrackStep DEF MoveTracks
  <2>2. CASE ~IsMoving(r)
    BY <2>2 DEF MoveTracks, IsMoving, Typed, OwnEntries
  <2> QED
    BY <2>1, <2>2
<1>3. Typed'
  BY <1>1, <1>2 DEF Typed, MoveTracks, rowVars
<1>4. FromClient' /\ AtRow' /\ OnGround'
  BY <1>1 DEF FromClient, AtRow, OnGround, MoveTracks, rowVars, NoMove
<1>5. NewestUnderWay' /\ NewestWins'
  <2>1. /\ ticks[r] = got[r] /\ dir[r] = Input[r][got[r]] /\ got[r] # 0
    BY Constants DEF MoveTracks, NewestUnderWay, FromClient
  <2> QED
    BY <1>1, <2>1 DEF NewestUnderWay, NewestWins, MoveTracks, rowVars, NoMove
<1>6. NotForgotten'
  <2> SUFFICES ASSUME NEW q \in Row, got[q] # 0, move'[q].phase = "rest", q \notin jumps,
                      recent[q], dir[q] # <<0, 0>>
               PROVE  moving'[IdOf[q]] = q \/ q \in raced'
    BY DEF NotForgotten, MoveTracks, rowVars
  <2>1. CASE q = r
    BY <2>1, <1>2
  <2>2. CASE q # r
    BY <2>2, <1>1, <1>2 DEF NotForgotten
  <2> QED
    BY <2>1, <2>2
<1> QED
  BY <1>2, <1>3, <1>4, <1>5, <1>6

LEMMA TeleportStep ==
  ASSUME Inv, NEW r \in Row, NEW t \in Jump, Teleport(r, t)
  PROVE  Inv'
<1> USE DEF Inv
<1>1. t \in Place
  BY DEF Place
<1>2. Typed'
  BY <1>1 DEF Typed, Teleport
<1>3. FromClient' /\ OwnEntries' /\ AtRow' /\ NewestUnderWay' /\ NewestWins'
  BY DEF FromClient, OwnEntries, AtRow, NewestUnderWay, NewestWins, Teleport
<1>4. OnGround' /\ NotForgotten'
  BY DEF OnGround, NotForgotten, Teleport, Typed
<1> QED
  BY <1>2, <1>3, <1>4

LEMMA TeleportTracksStep ==
  ASSUME Inv, NEW r \in Row, TeleportTracks(r)
  PROVE  Inv'
<1> USE DEF Inv
<1>1. Track(r)
  BY DEF TeleportTracks
<1>2. Typed'
  BY <1>1, TrackStep DEF Typed, TeleportTracks, rowVars
<1>3. FromClient' /\ OwnEntries' /\ AtRow' /\ NewestUnderWay' /\ NewestWins' /\ OnGround'
  BY <1>1, TrackStep
     DEF FromClient, AtRow, NewestUnderWay, NewestWins, OnGround, TeleportTracks, rowVars
<1>4. NotForgotten'
  BY <1>1, TrackStep DEF NotForgotten, TeleportTracks, rowVars
<1> QED
  BY <1>2, <1>3, <1>4

LEMMA LapseStep ==
  ASSUME Inv, NEW r \in Row, Lapse(r)
  PROVE  Inv'
  BY DEF Inv, Typed, FromClient, OwnEntries, AtRow, NewestUnderWay, NewestWins, OnGround,
         NotForgotten, Lapse, history

LEMMA SessionStep ==
  ASSUME Inv, NEW r \in Row, Login(r) \/ Depart(r)
  PROVE  Inv'
<1>1. life' \in [Row -> {"new", "served", "gone"}]
  BY ZenonT(30) DEF Inv, Typed, Login, Depart
<1>2. UNCHANGED <<dir, ticks, recent, tile, moving, move, jumps, tick, history>>
  BY DEF Login, Depart
<1> QED
  BY <1>1, <1>2, TickBookkeeping DEF Inv, Typed, AtRow

\* The copy, the choice of a player and the end of the checks.
LEMMA TickChoosesStep ==
  ASSUME Inv,
         TickCopies \/ TickChecked \/ \E r \in Row : TickChecks(r) \/ TickReads(r)
  PROVE  Inv'
<1> USE DEF Inv
<1> DEFINE Type == [phase : Phase, copied : SUBSET Row, players : SUBSET Row,
                    row : Row \cup {NoRow}, from : Int \X Int, xs : SUBSET Int, ys : SUBSET Int]
<1>1. UNCHANGED <<life, dir, ticks, recent, tile, moving, move, jumps, history>>
  BY DEF TickCopies, TickChecked, TickChecks, TickReads, rowVars
<1>2. Resting \in Type
  BY DEF Resting, Phase
<1>3. CASE TickCopies
  <2>1. {moving[p] : p \in Player} \ {NoRow} \in SUBSET Row
    BY DEF Typed
  <2> QED
    BY <1>1, <1>2, <1>3, <2>1, TickBookkeeping DEF TickCopies, AtRow, Typed, Phase
<1>4. CASE TickChecked
  BY <1>1, <1>2, <1>4, TickBookkeeping DEF TickChecked, AtRow, Typed, Phase, Resting
<1>5. ASSUME NEW r \in Row, TickChecks(r)
      PROVE  Inv'
  <2>1. tick' \in Type /\ (tick'.phase = "drop" => tick'.row = r)
    BY <1>5 DEF TickChecks, Typed, Phase
  <2>2. tick'.phase # "calculate"
    BY <1>5 DEF TickChecks, Typed
  <2> QED
    BY <1>1, <2>1, <2>2, TickBookkeeping DEF AtRow, Typed
<1>6. ASSUME NEW r \in Row, TickReads(r)
      PROVE  Inv'
  <2>1. tile[r] \in Int \X Int /\ dir[r][1] \in Int /\ dir[r][2] \in Int
    <3>1. Place \subseteq Int \X Int
      BY WorldAssumption DEF Place, Tile
    <3>2. tile[r] \in Int \X Int
      BY <3>1 DEF Typed
    <3>3. dir[r] \in Int \X Int
      BY DEF Typed
    <3> QED
      BY <3>2, <3>3
  <2>2. tick' \in Type /\ tick'.row = r
    BY <1>6, <2>1, ZenonT(30) DEF TickReads, Typed, Phase
  <2> QED
    BY <1>1, <2>2, TickBookkeeping DEF AtRow, Typed
<1> QED
  BY <1>3, <1>4, <1>5, <1>6

LEMMA TickDropsStep ==
  ASSUME Inv, TickDrops
  PROVE  Inv'
<1> USE DEF Inv
<1> DEFINE p == IdOf[tick.row]
<1>1. p \in Player /\ \A q \in Row : IdOf[q] \in Player
  BY Constants DEF TickDrops, AtRow
<1>2. moving[p] \in Row \cup {NoRow}
  BY <1>1 DEF Typed
<1>3. /\ moving' = [moving EXCEPT ![p] = NoRow]
      /\ raced \subseteq raced' /\ raced' \subseteq Row
      /\ moving[p] \in Row /\ recent[moving[p]] => moving[p] \in raced'
  BY <1>2, WorldAssumption DEF TickDrops, Typed
<1>4. Typed'
  BY <1>1, <1>3 DEF Typed, TickDrops, rowVars, Phase
<1>5. FromClient' /\ NewestUnderWay' /\ NewestWins' /\ OnGround'
  BY DEF FromClient, NewestUnderWay, NewestWins, OnGround, TickDrops, rowVars
<1>6. OwnEntries' /\ AtRow'
  BY <1>1, <1>3 DEF OwnEntries, AtRow, TickDrops, Typed
<1>7. NotForgotten'
  <2> SUFFICES ASSUME NEW q \in Row, got[q] # 0, move[q].phase = "rest", q \notin jumps,
                      recent[q], dir[q] # <<0, 0>>
               PROVE  moving'[IdOf[q]] = q \/ q \in raced'
    BY DEF NotForgotten, TickDrops, rowVars
  <2>1. moving[IdOf[q]] = q \/ q \in raced
    BY DEF NotForgotten
  <2> QED
    BY <1>1, <1>3, <2>1 DEF Typed
<1> QED
  BY <1>4, <1>5, <1>6, <1>7

\* The only place that writes coordinates without being asked.
LEMMA TickMovesStep ==
  ASSUME Inv, TickMoves
  PROVE  Inv'
<1> USE DEF Inv
<1>1. tick.row \in Row
  BY DEF TickMoves, AtRow
<1>2. PICK t \in Targets : tile' = IF Suitable(tick.row, t) THEN [tile EXCEPT ![tick.row] = t] ELSE tile
  BY DEF TickMoves
<1>3. tile' \in [Row -> Place]
  BY <1>2 DEF Suitable, Typed, Place
<1>4. /\ tick' \in [phase : Phase, copied : SUBSET Row, players : SUBSET Row,
                    row : Row \cup {NoRow}, from : Int \X Int, xs : SUBSET Int, ys : SUBSET Int]
      /\ tick'.phase \in {"rest", "move"}
  <2>1. CASE tick.players = {}
    BY <2>1 DEF TickMoves, Resting, Phase
  <2>2. CASE tick.players # {}
    <3>1. tick' = [tick EXCEPT !.phase = "move", !.row = NoRow, !.xs = {}, !.ys = {}]
      BY <2>2 DEF TickMoves
    <3> QED
      BY <3>1 DEF Typed, Phase
  <2> QED
    BY <2>1, <2>2
<1>5. UNCHANGED <<life, dir, ticks, recent, moving, move, jumps, got, jumped, raced>>
  BY DEF TickMoves, history
<1>6. Typed' /\ AtRow'
  BY <1>3, <1>4, <1>5 DEF Typed, AtRow
<1>7. FromClient' /\ OwnEntries' /\ NewestUnderWay' /\ NewestWins' /\ NotForgotten'
  BY <1>5 DEF FromClient, OwnEntries, NewestUnderWay, NewestWins, NotForgotten
<1>8. OnGround'
  BY <1>1, <1>2, <1>5 DEF OnGround, Typed, Suitable
<1> QED
  BY <1>6, <1>7, <1>8

LEMMA StutterStep ==
  ASSUME Inv, UNCHANGED vars
  PROVE  Inv'
  BY TickBookkeeping DEF Inv, Typed, AtRow, vars, history

\* Inv holds in every reachable state.
THEOREM Invariance == Spec => []Inv
<1>1. Inv /\ [Next]_vars => Inv'
  <2> SUFFICES ASSUME Inv, [Next]_vars
               PROVE  Inv'
    OBVIOUS
  <2>1. CASE Tick
    BY <2>1, TickChoosesStep, TickDropsStep, TickMovesStep DEF Tick
  <2>2. CASE UNCHANGED vars
    BY <2>2, StutterStep
  <2>3. ASSUME NEW r \in Row,
               \/ Login(r) \/ Depart(r) \/ Lapse(r)
               \/ MoveStores(r) \/ MoveTracks(r) \/ TeleportTracks(r)
               \/ \E ts \in Stamp(r) : MoveArrives(r, ts)
               \/ \E t \in Jump : Teleport(r, t)
        PROVE  Inv'
    BY <2>3, SessionStep, LapseStep, MoveStoresStep, MoveTracksStep, TeleportTracksStep,
       MoveArrivesStep, TeleportStep
  <2> QED
    BY <2>1, <2>2, <2>3 DEF Next
<1> QED
  BY InitInv, <1>1, PTL DEF Spec

\* The variables keep their types.
THEOREM TypeCorrectness == Spec => []TypeOK
<1>1. Inv => TypeOK
  <2> SUFFICES ASSUME Inv
               PROVE  TypeOK
    OBVIOUS
  <2>1. \A p \in Player : moving[p] \in {NoRow} \cup {r \in Row : IdOf[r] = p}
    BY DEF Inv, Typed, OwnEntries
  <2>2. \A r \in Row : /\ dir[r] \in SentX(r) \X SentY(r)
                       /\ ticks[r] \in {0} \cup Stamp(r)
                       /\ got[r] \in {0} \cup Stamp(r)
                       /\ tile[r] \in Place
                       /\ move[r].phase \in {"rest", "half", "stored"}
                       /\ move[r].stamp \in {0} \cup Stamp(r)
    BY DEF Inv, Typed, FromClient
  <2> QED
    BY <2>1, <2>2 DEF Inv, Typed, TypeOK, Phase
<1> QED
  BY Invariance, <1>1, PTL

\* Whatever the order and number of the datagrams, the newest direction that
\* has arrived is the player's (handleMovement).
THEOREM NewestInputWins == Spec => []NewestWins
<1>1. Inv => NewestWins
  BY DEF Inv
<1> QED
  BY Invariance, <1>1, PTL

\* A player who was not teleported never leaves the ground his unit may be
\* on, whatever tickLoop reads of a direction that changes.
THEOREM NobodyLeavesTheGround == Spec => []OnGround
<1>1. Inv => OnGround
  BY DEF Inv
<1> QED
  BY Invariance, <1>1, PTL

\* A player who moves is in movingPlayers but for the race of tickLoop.
THEOREM MoversAreTracked == Spec => []NotForgotten
<1>1. Inv => NotForgotten
  BY DEF Inv
<1> QED
  BY Invariance, <1>1, PTL

-----------------------------------------------------------------------------
(* Speed. *)

\* Products of natural numbers keep the order.
LEMMA Products ==
  ASSUME NEW a \in Nat, NEW b \in Nat, NEW c \in Nat, NEW d \in Nat, a <= b, c <= d
  PROVE  a * c <= b * d
<1>1. PICK e \in Nat : b = a + e
  <2>1. b - a \in Nat /\ b = a + (b - a)
    OBVIOUS
  <2> QED
    BY <2>1
<1>2. PICK f \in Nat : d = c + f
  <2>1. d - c \in Nat /\ d = c + (d - c)
    OBVIOUS
  <2> QED
    BY <2>1
<1>3. b * d = a * c + (a * f + e * c + e * f)
  BY <1>1, <1>2
<1>4. a * f \in Nat /\ e * c \in Nat /\ e * f \in Nat /\ a * c \in Nat
  OBVIOUS
<1> QED
  BY <1>3, <1>4

\* A component of a direction carries a player no farther than his speed.
LEMMA ReachBound ==
  ASSUME NEW c \in Int, NEW m \in Nat, c * c <= m, NEW k \in Reach(c, m)
  PROVE  k \in 0..MaxStep
<1>1. MaxStep \in Nat
  BY WorldAssumption
<1>2. CASE m = 0 \/ k = 0
  BY <1>1, <1>2 DEF Reach
<1>3. CASE m # 0 /\ k # 0
  <2>1. MaxStep * c * Sign(c) \in Int
    BY <1>1 DEF Sign
  <2>2. k \in 0..MaxStep * c * Sign(c)
    BY <1>3 DEF Reach
  <2>3. k \in Nat \ {0}
    BY <1>3, <2>1, <2>2
  <2>4. (k - 1) * (k - 1) * m < MaxStep * MaxStep * c * c
    BY <1>3 DEF Reach
  <2>5. ASSUME MaxStep <= k - 1
        PROVE  FALSE
    <3>1. k - 1 \in Nat
      BY <2>3
    <3>2. MaxStep * MaxStep <= (k - 1) * (k - 1)
      BY <1>1, <2>5, <3>1, Products
    <3>3. /\ MaxStep * MaxStep \in Nat
          /\ (k - 1) * (k - 1) \in Nat
      BY <1>1, <3>1
    <3>4. c * c \in Nat
      BY SMT
    <3>5. (MaxStep * MaxStep) * (c * c) <= ((k - 1) * (k - 1)) * m
      BY <3>2, <3>3, <3>4, Products
    <3>6. (MaxStep * MaxStep) * (c * c) = MaxStep * MaxStep * c * c
      BY <1>1
    <3> QED
      BY <2>4, <3>3, <3>5, <3>6
  <2> QED
    BY <1>1, <2>3, <2>5
<1> QED
  BY <1>2, <1>3

\* tickLoop moves a player no farther in a tick than his speed allows, unless
\* his direction changes while it calculates.
THEOREM SpeedLimit == Spec => NoFasterThanSpeed
<1>1. Inv /\ [Next]_vars =>
        [TickMoves => \/ tile' = tile
                      \/ \E x \in tick.xs, y \in tick.ys : tick.xs # {x} \/ tick.ys # {y}
                      \/ Near(tile'[tick.row], tick.from, MaxStep)]_vars
  <2> SUFFICES ASSUME Inv, TickMoves, tile' # tile,
                      \A x \in tick.xs, y \in tick.ys : tick.xs = {x} /\ tick.ys = {y}
               PROVE  Near(tile'[tick.row], tick.from, MaxStep)
    OBVIOUS
  <2>1. PICK t \in Targets : tile' = IF Suitable(tick.row, t) THEN [tile EXCEPT ![tick.row] = t] ELSE tile
    BY DEF TickMoves
  <2>2. tile'[tick.row] = t
    BY <2>1 DEF Inv, Typed, AtRow, TickMoves
  <2>3. PICK x \in tick.xs, a \in tick.xs, y \in tick.ys, b \in tick.ys :
          \E i \in Reach(x, a * a + b * b), j \in Reach(y, a * a + b * b) :
            t = <<tick.from[1] + Sign(x) * i, tick.from[2] + Sign(y) * j>>
    BY <2>1 DEF Targets
  <2>4. a = x /\ b = y /\ x \in Int /\ y \in Int /\ MaxStep \in Nat
    BY <2>3, WorldAssumption DEF Inv, Typed
  <2>5. PICK i \in Reach(x, x * x + y * y), j \in Reach(y, x * x + y * y) :
          t = <<tick.from[1] + Sign(x) * i, tick.from[2] + Sign(y) * j>>
    BY <2>3, <2>4
  <2>6. x * x \in Nat /\ y * y \in Nat
    BY <2>4, SMT
  <2>7. i \in 0..MaxStep
    BY <2>4, <2>5, <2>6, ReachBound
  <2>8. j \in 0..MaxStep
    BY <2>4, <2>5, <2>6, ReachBound
  <2>9. tick.from[1] \in Int /\ tick.from[2] \in Int
    BY DEF Inv, Typed
  <2>10. /\ Sign(x) \in {-1, 0, 1} /\ Sign(y) \in {-1, 0, 1}
         /\ Sign(x) * i \in -MaxStep..MaxStep
         /\ Sign(y) * j \in -MaxStep..MaxStep
    BY <2>4, <2>7, <2>8 DEF Sign
  <2> QED
    BY <2>2, <2>4, <2>5, <2>9, <2>10 DEF Near
<1> QED
  BY Invariance, <1>1, PTL DEF Spec, NoFasterThanSpeed
=============================================================================
