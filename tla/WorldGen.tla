------------------------------ MODULE WorldGen ------------------------------
(***************************************************************************)
(* What happens before the server listens: the world is generated in one   *)
(* transaction unless there is one, and the players are seeded.  The       *)
(* process may crash at any step and is started again; statements of the   *)
(* database may fail.                                                      *)
(*                                                                         *)
(* The tiles of the store are visited in the order of a Go map: any.       *)
(* PostgreSQL refuses everything in a transaction after an error, checks   *)
(* unique codes and foreign keys, and draws identifiers from a sequence    *)
(* that no rollback puts back.                                             *)
(***************************************************************************)
EXTENDS Raster

CONSTANTS
  Worlds,  \* contents the file countries.geojson may have (bound)
  MaxID,   \* 255: the largest Country.ID, a uint8
  Home,    \* the code of the players' country
  Nickname \* the seeded players

ASSUME WorldGenAssumption == MaxID \in Nat

Skipped == "-99"    \* no ISO code: the feature is skipped
Malformed == "none" \* no name: the type assertion panics

VARIABLES
  features, \* the file: codes and geometries, in order
  phase,    \* where the process is
  next,     \* the feature to draw
  tileStore,\* tiles drawn so far, and their owners
  borders,  \* tiles with IsBorder
  todo,     \* tiles whose turn in the border pass is still to come
  tx,       \* the transaction: countries and tiles written, aborted or not
  serial,   \* the last identifier drawn; MaxID + 1 stands for all beyond
  home,     \* what Seed has read: the players' country and first tile
  db,       \* committed countries, tiles, borders and players
  failed,   \* history: a statement of this generation has failed for no
            \* reason of the server's
  strayed   \* history: players created, or about to be, after the query for a
            \* tile of their country has failed

vars == <<features, phase, next, tileStore, borders, todo, tx, serial, home, db, failed, strayed>>

Empty == <<>>

\* The map g with the entries of f put into it.
Put(f, g) == [x \in DOMAIN f \cup DOMAIN g |-> IF x \in DOMAIN f THEN f[x] ELSE g[x]]

NoTx == [countries |-> Empty, aborted |-> FALSE]
NoHome == [country |-> 0, tile |-> <<0, 0>>]
memory == <<next, tileStore, borders, todo, tx, home>>

Init ==
  /\ features \in Worlds
  /\ phase = "down"
  /\ next = 1
  /\ tileStore = Empty
  /\ borders = {}
  /\ todo = {}
  /\ tx = NoTx
  /\ serial = 0
  /\ home = NoHome
  /\ db = [countries |-> Empty, tiles |-> Empty, borders |-> {}, players |-> Empty]
  /\ failed = FALSE
  /\ strayed = {}

Forget ==
  /\ next' = 1
  /\ tileStore' = Empty
  /\ borders' = {}
  /\ todo' = {}
  /\ tx' = NoTx
  /\ home' = NoHome

\* The process ends, its transaction is rolled back; Start begins again.
Crash ==
  /\ phase # "down"
  /\ phase' = "down"
  /\ Forget
  /\ UNCHANGED <<features, serial, db, failed, strayed>>

\* Mutant: the world is generated without looking.
GenerateWorld_Always ==
  /\ phase = "down"
  /\ phase' = "draw"
  /\ Forget
  /\ UNCHANGED <<features, serial, db, failed, strayed>>

\* First finds a country, or not, or fails; Begin.
GenerateWorld ==
  /\ phase = "down"
  /\ \/ phase' = (IF DOMAIN db.countries # {} THEN "seed" ELSE "draw") /\ failed' = FALSE
     \/ phase' = "draw" /\ failed' = TRUE
  /\ Forget
  /\ UNCHANGED <<features, serial, db, strayed>>

\* The file is missing or is not JSON: GenerateWorld returns.
NoFile ==
  /\ phase = "down"
  /\ DOMAIN db.countries = {}
  /\ phase' = "seed"
  /\ failed' = FALSE
  /\ Forget
  /\ UNCHANGED <<features, serial, db, strayed>>

\* The rings of a geometry that are drawn: of a polygon the outer one, of a
\* multipolygon all, holes too.
DrawnRings(geometry) ==
  CASE geometry.type = "Polygon" -> {geometry.coordinates[1]}
    [] geometry.type = "MultiPolygon" ->
         UNION {{geometry.coordinates[i][j] : j \in DOMAIN geometry.coordinates[i]} :
                  i \in DOMAIN geometry.coordinates}
    [] OTHER -> {}

Tiles(ring) == drawPolygon([i \in DOMAIN ring |-> latLongToTileCoords(ring[i][2], ring[i][1])])
Drawn(feature) == UNION {Tiles(ring) : ring \in DrawnRings(feature.geometry)}

\* No code occurs twice in the file, and what is drawn is on the map.
ASSUME WorldsAssumption ==
  \A w \in Worlds :
    /\ Len(w) \in Nat
    /\ DOMAIN w = 1..Len(w)
    /\ \A i, j \in DOMAIN w :
         w[i].code = w[j].code => i = j \/ w[i].code \in {Skipped, Malformed}
    /\ \A i \in DOMAIN w :
         Drawn(w[i]) \subseteq (0..TilemapWidth - 1) \X (0..TilemapHeight - 1)

\* Create: the identifier drawn, or 0 when the statement fails, or when the
\* identifier does not fit Country.ID (the row is written all the same).
Create(code, id, ok) ==
  IF tx.aborted \/ ~ok \/ code \in DOMAIN tx.countries \cup DOMAIN db.countries
  THEN id = 0 /\ tx' = [tx EXCEPT !.aborted = TRUE] /\ UNCHANGED serial
  ELSE /\ serial' = Least(serial + 1, MaxID + 1)
       /\ id = IF serial' > MaxID THEN 0 ELSE serial'
       /\ tx' = [tx EXCEPT !.countries = Put([c \in {code} |-> serial'], @)]

\* One turn of the loop over the features.
DrawFeature ==
  /\ phase = "draw"
  /\ next \in DOMAIN features
  /\ features[next].code # Malformed
  /\ next' = next + 1
  /\ IF features[next].code = Skipped
     THEN UNCHANGED <<tileStore, tx, serial, failed>>
     ELSE \E ok \in BOOLEAN, id \in 0..MaxID :
            /\ Create(features[next].code, id, ok)
            /\ tileStore' = Put([t \in Drawn(features[next]) |-> id], tileStore)
            /\ failed' = (failed \/ ~ok)
  /\ UNCHANGED <<features, phase, borders, todo, home, db, strayed>>

\* Mutant: the deferred function commits all the same.
Panic_Commits ==
  /\ phase = "draw"
  /\ next \in DOMAIN features
  /\ features[next].code = Malformed
  /\ phase' = "seed"
  /\ db' = [db EXCEPT !.countries = Put(tx.countries, @)]
  /\ Forget
  /\ UNCHANGED <<features, serial, failed, strayed>>

\* The deferred function recovers and rolls back; GenerateWorld returns.
Panic ==
  /\ phase = "draw"
  /\ next \in DOMAIN features
  /\ features[next].code = Malformed
  /\ phase' = "seed"
  /\ Forget
  /\ UNCHANGED <<features, serial, db, failed, strayed>>

ToSlice ==
  /\ phase = "draw"
  /\ next \notin DOMAIN features
  /\ phase' = "borders"
  /\ todo' = DOMAIN tileStore
  /\ UNCHANGED <<features, next, tileStore, borders, tx, serial, home, db, failed, strayed>>

\* Mutants: left and top only; a neighbour need not exist.
Neighbours_Half(t) == {<<t[1] - 1, t[2]>>, <<t[1], t[2] - 1>>}
Neighbours(t) == {<<t[1] - 1, t[2]>>, <<t[1] + 1, t[2]>>, <<t[1], t[2] - 1>>, <<t[1], t[2] + 1>>}
Foreign_Beyond(t) ==
  {n \in Neighbours(t) : n \in DOMAIN tileStore => tileStore[n] # tileStore[t]}
Foreign(t) == {n \in Neighbours(t) \cap DOMAIN tileStore : tileStore[n] # tileStore[t]}

\* One turn of the border pass: marks foreign neighbours, and the tile itself
\* or not, whatever neighbours have written there.
CheckTile(t) ==
  /\ phase = "borders"
  /\ t \in todo
  /\ todo' = todo \ {t}
  /\ borders' = IF Foreign(t) # {} \/ Neighbours(t) \ DOMAIN tileStore # {}
                THEN borders \cup Foreign(t) \cup {t} ELSE borders \ {t}
  /\ UNCHANGED <<features, phase, next, tileStore, tx, serial, home, db, failed, strayed>>

\* CreateInBatches; log.Fatalf ends the process with the transaction open.
InsertTiles ==
  /\ phase = "borders"
  /\ todo = {}
  /\ \E ok \in BOOLEAN :
       /\ failed' = (failed \/ ~ok)
       /\ phase' = IF /\ ok
                      /\ ~tx.aborted
                      /\ \A t \in DOMAIN tileStore : \E c \in DOMAIN tx.countries :
                           tileStore[t] = tx.countries[c]
                   THEN "commit" ELSE "fatal"
  /\ UNCHANGED <<features, memory, serial, db, strayed>>

\* The deferred Commit, whose error nobody looks at.
Commit ==
  /\ phase = "commit"
  /\ phase' = "seed"
  /\ \E ok \in BOOLEAN :
       /\ failed' = (failed \/ ~ok)
       /\ db' = IF ok THEN [db EXCEPT !.countries = Put(tx.countries, @), !.tiles = tileStore,
                                      !.borders = borders]
                ELSE db
  /\ Forget
  /\ UNCHANGED <<features, serial, strayed>>

\* Mutant: the first tile of any country.
HomeTiles_Any(id) == DOMAIN db.tiles
HomeTiles(id) == {t \in DOMAIN db.tiles : db.tiles[t] = id}

\* Seed reads the country, and a tile of it, and looks at neither error: what
\* is not found, or not read, is left zero.
SeedReads ==
  /\ phase = "seed"
  /\ phase' = "players"
  /\ \E id \in {0} \cup {db.countries[c] : c \in {Home} \cap DOMAIN db.countries},
        ok \in BOOLEAN :
       LET found == IF ok THEN HomeTiles(id) ELSE {}
       IN  /\ \E t \in IF found = {} THEN {<<0, 0>>} ELSE found : home' = [country |-> id, tile |-> t]
           /\ strayed' = (strayed \cap DOMAIN db.players)
                           \cup (IF ok THEN {} ELSE Nickname \ DOMAIN db.players)
  /\ UNCHANGED <<features, next, tileStore, borders, todo, tx, serial, db, failed>>

\* FirstOrCreate; a country that does not exist is refused by the database,
\* and the error is not looked at.
SeedPlayer(n) ==
  /\ phase = "players"
  /\ n \notin DOMAIN db.players
  /\ \E c \in DOMAIN db.countries : db.countries[c] = home.country
  /\ db' = [db EXCEPT !.players = Put([m \in {n} |-> home], @)]
  /\ UNCHANGED <<features, phase, memory, serial, failed, strayed>>

\* StartServer loads the countries: identifiers beyond a uint8 are fatal.
Serve ==
  /\ phase = "players"
  /\ phase' = IF \E c \in DOMAIN db.countries : db.countries[c] > MaxID THEN "fatal" ELSE "serve"
  /\ UNCHANGED <<features, memory, serial, db, failed, strayed>>

Next ==
  \/ Crash \/ GenerateWorld \/ NoFile
  \/ DrawFeature \/ Panic \/ ToSlice \/ InsertTiles \/ Commit
  \/ SeedReads \/ Serve
  \/ \E t \in todo : CheckTile(t)
  \/ \E n \in Nickname : SeedPlayer(n)

Spec == Init /\ [][Next]_vars

-----------------------------------------------------------------------------
(* Properties. *)

TypeOK ==
  /\ features \in Worlds
  /\ phase \in {"down", "draw", "borders", "commit", "seed", "players", "serve", "fatal"}
  /\ next \in 1..Len(features) + 1
  /\ \A t \in DOMAIN tileStore : /\ t \in (0..TilemapWidth - 1) \X (0..TilemapHeight - 1)
                                 /\ tileStore[t] \in 0..MaxID
  /\ borders \subseteq DOMAIN tileStore
  /\ todo \subseteq DOMAIN tileStore
  /\ tx.aborted \in BOOLEAN
  /\ serial \in 0..MaxID + 1
  /\ DOMAIN db.players \subseteq Nickname
  /\ failed \in BOOLEAN
  /\ strayed \subseteq Nickname

\* A tile is a border iff the map ends beside it or another country begins
\* there, in whatever order the tiles were visited and marked their neighbours.
IsBorder(store, t) ==
  \E n \in {<<t[1] + d[1], t[2] + d[2]>> : d \in {<<1, 0>>, <<0, 1>>, <<-1, 0>>, <<0, -1>>}} :
    n \in DOMAIN store => store[n] # store[t]
BordersExact ==
  phase = "borders" /\ todo = {} => borders = {t \in DOMAIN tileStore : IsBorder(tileStore, t)}

\* Whenever the process crashed and whatever failed, what is committed leaves
\* no world in the database or the whole one: every country once, every tile, with the country
\* that draws it last, and exact borders.
Complete(d) ==
  LET drawn == {i \in DOMAIN features : features[i].code # Skipped}
      area == [i \in drawn |-> Drawn(features[i])]
  IN  /\ DOMAIN d.countries = {features[i].code : i \in drawn}
      /\ \A b, c \in DOMAIN d.countries :
           d.countries[b] = d.countries[c] => b = c \/ d.countries[b] > MaxID
      /\ DOMAIN d.tiles = UNION {area[i] : i \in drawn}
      /\ \A t \in DOMAIN d.tiles : \E i \in drawn :
           /\ t \in area[i]
           /\ \A j \in drawn : t \in area[j] => j <= i
           /\ d.tiles[t] = d.countries[features[i].code]
      /\ d.borders = {t \in DOMAIN d.tiles : IsBorder(d.tiles, t)}
NoWorld(d) == d.countries = Empty /\ d.tiles = Empty /\ d.borders = {}
WorldAllOrNothing == [][db' # db => NoWorld(db') \/ Complete(db')]_vars

\* Whatever failed before, a seeded player belongs to the home country, though
\* Seed does not look whether it has read it, and stands on one of its tiles -
\* at the origin if other countries have been drawn over all of them, or if the
\* query for a tile failed when he was created.
PlayersHaveHome ==
  \A n \in DOMAIN db.players :
    /\ Home \in DOMAIN db.countries
    /\ db.players[n].country = db.countries[Home]
    /\ IF n \notin strayed /\ \E t \in DOMAIN db.tiles : db.tiles[t] = db.countries[Home]
       THEN db.tiles[db.players[n].tile] = db.countries[Home]
       ELSE db.players[n].tile = <<0, 0>>

\* "get first tile of the country" (Seed): a player is created on a tile of the
\* home country if it has any.
CreatedAtHome ==
  \A n \in DOMAIN db.players :
    HomeTiles(db.players[n].country) # {} =>
      db.players[n].tile \in HomeTiles(db.players[n].country)

\* log.Fatalf is met only when the database fails or identifiers have run
\* out: a generation whose transaction is rolled back uses them up, so that
\* 176 countries can be tried once, and never again.
FatalHasCause == phase = "fatal" => failed \/ serial > MaxID
=============================================================================
