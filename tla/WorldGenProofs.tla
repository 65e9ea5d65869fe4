--------------------------- MODULE WorldGenProofs ---------------------------
(***************************************************************************)
(* Proofs about WorldGen, for any file that fits the assumptions, any      *)
(* order of tiles, any number of crashes and failing statements.           *)
(*                                                                         *)
(* Inv is the inductive invariant.  Drawing says what the transaction      *)
(* holds after some features, Bordering what the border pass has marked    *)
(* after some tiles, Home that what Seed has read is still true, Cause     *)
(* that without a failure there is nothing to fail on.                     *)
(***************************************************************************)
EXTENDS WorldGen, TLAPS

Map == (0..TilemapWidth - 1) \X (0..TilemapHeight - 1)
Phase == {"down", "draw", "borders", "commit", "seed", "players", "serve", "fatal"}

Typed ==
  /\ features \in Worlds
  /\ phase \in Phase
  /\ next \in 1..Len(features) + 1
  /\ \A t \in DOMAIN tileStore : t \in Map /\ tileStore[t] \in 0..MaxID
  /\ borders \subseteq DOMAIN tileStore
  /\ todo \subseteq DOMAIN tileStore
  /\ tx \in [countries : {tx.countries}, aborted : BOOLEAN]
  /\ serial \in 0..MaxID + 1
  /\ db \in [countries : {db.countries}, tiles : {db.tiles}, borders : {db.borders}, players : {db.players}]
  /\ DOMAIN db.players \subseteq Nickname
  /\ failed \in BOOLEAN
  /\ strayed \subseteq Nickname

\* Identifiers come from the sequence.
Numbered ==
  /\ \A c \in DOMAIN tx.countries : tx.countries[c] \in 1..serial
  /\ \A c \in DOMAIN db.countries : db.countries[c] \in 1..serial

\* The features that were drawn, and what Country.ID holds of an identifier.
Past == {i \in DOMAIN features : i < next /\ features[i].code # Skipped}
Fits(id) == IF id > MaxID THEN 0 ELSE id

Working == phase \in {"draw", "borders", "commit"}

LatestOwner(i, t) ==
  /\ i \in Past
  /\ t \in Drawn(features[i])
  /\ \A j \in Past : t \in Drawn(features[j]) => j <= i
  /\ tileStore[t] = Fits(tx.countries[features[i].code])

Drawing ==
  Working /\ ~tx.aborted =>
    /\ DOMAIN tx.countries = {features[i].code : i \in Past}
    /\ DOMAIN tx.countries \cap DOMAIN db.countries = {}
    /\ \A b, c \in DOMAIN tx.countries :
         tx.countries[b] = tx.countries[c] => b = c \/ tx.countries[b] > MaxID
    /\ DOMAIN tileStore = UNION {Drawn(features[i]) : i \in Past}
    /\ \A t \in DOMAIN tileStore : \E i \in Past : LatestOwner(i, t)

\* Codes drawn are codes of countries.
Named == Working => /\ \A i \in Past : features[i].code # Malformed
                    /\ phase # "draw" => next \notin DOMAIN features

\* Tiles whose turn has come are marked iff they are borders; the others
\* iff a foreign neighbour has had its turn.
Marked(t) ==
  IF t \in todo THEN \E n \in Foreign(t) : n \notin todo ELSE IsBorder(tileStore, t)
Bordering ==
  /\ phase = "draw" => borders = {}
  /\ phase \in {"borders", "commit"} => borders = {t \in DOMAIN tileStore : Marked(t)}
  /\ phase = "commit" => todo = {}

\* Only what the database will take is committed.
Acceptable ==
  phase = "commit" =>
    /\ ~tx.aborted
    /\ \A t \in DOMAIN tileStore : \E c \in DOMAIN tx.countries : tileStore[t] = tx.countries[c]

Stored == NoWorld(db) \/ Complete(db)

\* The country is read or not; the players still to be created are strayed iff
\* the query for the tile failed.
HomeRead ==
  phase = "players" =>
    /\ home.country = 0 \/ (Home \in DOMAIN db.countries /\ home.country = db.countries[Home])
    /\ \A n \in Nickname \ DOMAIN db.players :
         IF n \in strayed \/ HomeTiles(home.country) = {} THEN home.tile = <<0, 0>>
         ELSE home.tile \in HomeTiles(home.country)

Cause ==
  ~failed /\ serial <= MaxID =>
    /\ Working => ~tx.aborted /\ DOMAIN db.countries = {}
    /\ phase # "fatal"

Inv ==
  /\ Typed /\ Numbered /\ Named /\ Drawing /\ Bordering /\ Acceptable
  /\ Stored /\ HomeRead /\ PlayersHaveHome /\ Cause

LEMMA EmptyDomain == DOMAIN Empty = {}
  BY DEF Empty

LEMMA File ==
  ASSUME NEW w \in Worlds
  PROVE  /\ Len(w) \in Nat
         /\ DOMAIN w = 1..Len(w)
         /\ \A i, j \in DOMAIN w :
              w[i].code = w[j].code => i = j \/ w[i].code \in {Skipped, Malformed}
         /\ \A i \in DOMAIN w : Drawn(w[i]) \subseteq Map
  BY WorldsAssumption DEF Map

LEMMA InitInv == Init => Inv
<1> SUFFICES ASSUME Init
             PROVE  Inv
  OBVIOUS
<1>1. Typed
  <2>1. MaxID \in Nat /\ Len(features) \in Nat
    BY File, WorldGenAssumption DEF Init
  <2>2. next \in 1..Len(features) + 1 /\ serial \in 0..MaxID + 1
    BY <2>1 DEF Init
  <2> QED
    BY <2>2, EmptyDomain DEF Init, Typed, NoTx, Phase
<1>2. Numbered /\ Named /\ Drawing /\ Bordering /\ Acceptable /\ HomeRead /\ Cause
  BY EmptyDomain DEF Init, Numbered, Named, Drawing, Bordering, Acceptable, HomeRead, Cause, NoTx, Working
<1>3. Stored /\ PlayersHaveHome
  BY EmptyDomain DEF Init, Stored, NoWorld, PlayersHaveHome
<1> QED
  BY <1>1, <1>2, <1>3 DEF Inv

-----------------------------------------------------------------------------
(* Steps that leave the database alone. *)

LEMMA SameWorld ==
  ASSUME UNCHANGED features,
         UNCHANGED <<db.countries, db.tiles, db.borders>>
  PROVE  Stored => Stored'
<1>1. ASSUME NEW d, NEW e, d.countries = e.countries, d.tiles = e.tiles, d.borders = e.borders
      PROVE  Complete(d) => Complete(e)
  BY <1>1 DEF Complete
<1>2. Complete(db)' <=> Complete(db')
  BY DEF Complete
<1>3. Complete(db) => Complete(db)'
  BY <1>1, <1>2
<1>4. NoWorld(db) => NoWorld(db)'
  BY DEF NoWorld
<1> QED
  BY <1>3, <1>4 DEF Stored

\* What is said of the database and the players depends on nothing else.
LEMMA SameDatabase ==
  ASSUME Inv, UNCHANGED <<features, db, strayed>>
  PROVE  Stored' /\ PlayersHaveHome'
<1>1. Stored => Stored'
  BY SameWorld
<1>2. PlayersHaveHome => PlayersHaveHome'
  BY DEF PlayersHaveHome
<1> QED
  BY <1>1, <1>2 DEF Inv

\* A process begins, or ends, with nothing in memory.
LEMMA ForgetStep ==
  ASSUME Inv, Forget, UNCHANGED <<features, serial, db, strayed>>,
         phase' \in {"down", "draw", "seed"}, failed' \in BOOLEAN,
         phase' = "draw" => failed' \/ DOMAIN db.countries = {}
  PROVE  Inv'
<1> USE DEF Inv
<1>1. Typed'
  BY EmptyDomain, File DEF Typed, Forget, NoTx, Phase
<1>2. Past' = {}
  <2>1. DOMAIN features = 1..Len(features) /\ Len(features) \in Nat
    BY File DEF Typed
  <2> QED
    BY <2>1 DEF Past, Forget
<1>3. Numbered' /\ Named'
  BY <1>2, EmptyDomain DEF Numbered, Named, Working, Forget, NoTx
<1>4. Drawing' /\ Bordering' /\ Acceptable' /\ HomeRead'
  BY <1>2, EmptyDomain DEF Drawing, Bordering, Acceptable, HomeRead, Forget, NoTx
<1>5. Cause'
  BY DEF Cause, Working, Forget, NoTx
<1> QED
  BY <1>1, <1>3, <1>4, <1>5, SameDatabase

LEMMA CrashStep ==
  ASSUME Inv, Crash \/ Panic
  PROVE  Inv'
  BY ForgetStep DEF Crash, Panic, Inv, Typed

LEMMA GenerateStep ==
  ASSUME Inv, GenerateWorld \/ NoFile
  PROVE  Inv'
  BY ForgetStep DEF GenerateWorld, NoFile, Inv, Typed

LEMMA StutterStep ==
  ASSUME Inv, UNCHANGED vars
  PROVE  Inv'
<1> USE DEF Inv, vars
<1>1. Typed' /\ Numbered' /\ Named'
  BY DEF Typed, Numbered, Named, Working, Past
<1>2. Drawing' /\ Bordering' /\ Acceptable'
  BY DEF Drawing, Working, Past, LatestOwner, Bordering, Acceptable, Marked, Foreign, IsBorder
<1>3. HomeRead' /\ Cause'
  BY DEF HomeRead, HomeTiles, Cause, Working
<1> QED
  BY <1>1, <1>2, <1>3, SameDatabase
-----------------------------------------------------------------------------
(* The features. *)

\* A feature without a code is skipped.
LEMMA SkipStep ==
  ASSUME Inv, DrawFeature, features[next].code = Skipped
  PROVE  Inv'
<1> USE DEF Inv
<1>1. /\ phase = "draw" /\ next \in DOMAIN features /\ next' = next + 1
      /\ UNCHANGED <<features, phase, tileStore, borders, todo, tx, serial, home, db, failed, strayed>>
  BY DEF DrawFeature
<1>2. DOMAIN features = 1..Len(features) /\ Len(features) \in Nat
  BY File DEF Typed
<1>3. Past' = Past
  BY <1>1, <1>2 DEF Past
<1>4. Typed'
  BY <1>1, <1>2 DEF Typed
<1>5. Numbered' /\ Named' /\ Bordering' /\ Acceptable' /\ HomeRead' /\ Cause'
  BY <1>1, <1>3 DEF Numbered, Named, Working, Bordering, Acceptable, HomeRead, Cause
<1>6. Drawing'
  BY <1>1, <1>3 DEF Drawing, Working, LatestOwner
<1> QED
  BY <1>1, <1>4, <1>5, <1>6, SameDatabase

\* The statement that creates a country is refused or fails.
LEMMA AbortStep ==
  ASSUME Inv, DrawFeature, features[next].code # Skipped, tx'.aborted
  PROVE  Inv'
<1> USE DEF Inv
<1> DEFINE code == features[next].code
<1>1. /\ phase = "draw" /\ next \in DOMAIN features /\ next' = next + 1 /\ code # Malformed
      /\ UNCHANGED <<features, phase, borders, todo, home, db, strayed>>
  BY DEF DrawFeature
<1>2. PICK ok \in BOOLEAN, id \in 0..MaxID :
        /\ Create(code, id, ok)
        /\ tileStore' = Put([t \in Drawn(features[next]) |-> id], tileStore)
        /\ failed' = (failed \/ ~ok)
  BY DEF DrawFeature
<1>3. /\ tx.aborted \/ ~ok \/ code \in DOMAIN tx.countries \cup DOMAIN db.countries
      /\ id = 0 /\ tx' = [tx EXCEPT !.aborted = TRUE] /\ serial' = serial
  <2>1. CASE tx.aborted
    BY <1>2, <2>1 DEF Create
  <2>2. CASE ~tx.aborted
    <3>1. tx' # [tx EXCEPT !.countries = Put([c \in {code} |-> serial'], @)]
      BY <2>2 DEF Typed
    <3> QED
      BY <1>2, <3>1 DEF Create
  <2> QED
    BY <2>1, <2>2
<1>4. DOMAIN features = 1..Len(features) /\ Len(features) \in Nat
  BY File DEF Typed
<1>5. Past' = Past \cup {next}
  BY <1>1, <1>4 DEF Past
<1>6. Typed'
  <2>1. /\ DOMAIN tileStore' = Drawn(features[next]) \cup DOMAIN tileStore
        /\ \A t \in Drawn(features[next]) : tileStore'[t] = id
        /\ \A t \in DOMAIN tileStore \ Drawn(features[next]) : tileStore'[t] = tileStore[t]
    BY <1>2 DEF Put
  <2>2. \A t \in DOMAIN tileStore' : t \in Map /\ tileStore'[t] \in 0..MaxID
    BY <1>1, <2>1, File DEF Typed
  <2>3. next' \in 1..Len(features) + 1
    BY <1>1, <1>4
  <2>4. tx' \in [countries : {tx'.countries}, aborted : BOOLEAN]
    BY <1>3 DEF Typed
  <2> QED
    BY <1>1, <1>2, <1>3, <2>1, <2>2, <2>3, <2>4 DEF Typed
<1>7. Numbered' /\ Named' /\ Bordering' /\ Acceptable' /\ HomeRead'
  BY <1>1, <1>3, <1>5 DEF Numbered, Named, Working, Bordering, Acceptable, HomeRead, Typed
<1>8. Drawing'
  BY <1>3 DEF Drawing, Typed
<1>9. Cause'
  <2> SUFFICES ASSUME ~failed', serial' <= MaxID
               PROVE  FALSE
    BY DEF Cause
  <2>1. ok /\ ~failed /\ serial <= MaxID
    BY <1>2, <1>3
  <2>2. ~tx.aborted /\ DOMAIN db.countries = {}
    BY <1>1, <2>1 DEF Cause, Working
  <2>3. code \in DOMAIN tx.countries
    BY <1>3, <2>1, <2>2
  <2>4. PICK i \in Past : features[i].code = code
    BY <1>1, <2>2, <2>3 DEF Drawing, Working
  <2> QED
    BY <1>1, <1>4, <2>4, File DEF Past, Typed
<1> QED
  BY <1>1, <1>6, <1>7, <1>8, <1>9, SameDatabase

\* A country is created and drawn over what is there.
LEMMA CreateStep ==
  ASSUME Inv, DrawFeature, features[next].code # Skipped, ~tx'.aborted
  PROVE  Inv'
<1> USE DEF Inv
<1> DEFINE code == features[next].code
<1>1. /\ phase = "draw" /\ next \in DOMAIN features /\ next' = next + 1 /\ code # Malformed
      /\ UNCHANGED <<features, phase, borders, todo, home, db, strayed>>
  BY DEF DrawFeature
<1>2. PICK ok \in BOOLEAN, id \in 0..MaxID :
        /\ Create(code, id, ok)
        /\ tileStore' = Put([t \in Drawn(features[next]) |-> id], tileStore)
        /\ failed' = (failed \/ ~ok)
  BY DEF DrawFeature
<1>3. /\ ~tx.aborted /\ code \notin DOMAIN tx.countries /\ code \notin DOMAIN db.countries
      /\ serial' = Least(serial + 1, MaxID + 1)
      /\ id = Fits(serial')
      /\ tx' = [tx EXCEPT !.countries = Put([c \in {code} |-> serial'], @)]
      /\ ok
  <2>1. tx' # [tx EXCEPT !.aborted = TRUE]
    BY DEF Typed
  <2> QED
    BY <1>2, <2>1 DEF Create, Fits
<1>4. DOMAIN features = 1..Len(features) /\ Len(features) \in Nat
  BY File DEF Typed
<1>5. Past' = Past \cup {next}
  BY <1>1, <1>3, <1>4 DEF Past
<1>6. /\ MaxID \in Nat /\ serial \in 0..MaxID + 1
      /\ serial' \in 1..MaxID + 1 /\ serial <= serial'
      /\ serial' <= serial => serial' > MaxID
  BY <1>3, WorldGenAssumption DEF Typed, Least
<1>7. /\ DOMAIN tileStore' = Drawn(features[next]) \cup DOMAIN tileStore
      /\ \A t \in Drawn(features[next]) : tileStore'[t] = id
      /\ \A t \in DOMAIN tileStore \ Drawn(features[next]) : tileStore'[t] = tileStore[t]
  BY <1>2 DEF Put
<1>8. /\ DOMAIN tx'.countries = {code} \cup DOMAIN tx.countries
      /\ tx'.countries[code] = serial'
      /\ \A c \in DOMAIN tx.countries : tx'.countries[c] = tx.countries[c]
  <2>1. tx'.countries = Put([c \in {code} |-> serial'], tx.countries)
    BY <1>3 DEF Typed
  <2> HIDE DEF code
  <2> QED
    BY <1>3, <2>1 DEF Put
<1>9. Typed'
  <2>1. \A t \in DOMAIN tileStore' : t \in Map /\ tileStore'[t] \in 0..MaxID
    BY <1>1, <1>2, <1>7, File DEF Typed
  <2>2. next' \in 1..Len(features) + 1
    BY <1>1, <1>4
  <2>3. tx' \in [countries : {tx'.countries}, aborted : BOOLEAN]
    BY <1>3 DEF Typed
  <2> QED
    BY <1>1, <1>2, <1>6, <1>7, <2>1, <2>2, <2>3 DEF Typed
<1>10. Numbered'
  BY <1>1, <1>6, <1>8 DEF Numbered
<1>11. Named' /\ Bordering' /\ Acceptable' /\ HomeRead'
  BY <1>1, <1>5 DEF Named, Working, Bordering, Acceptable, HomeRead
<1>12. Drawing'
  <2>1. Working
    BY <1>1 DEF Working
  <2>2. DOMAIN tx'.countries = {features[i].code : i \in Past'}
    BY <1>3, <1>5, <1>8, <2>1 DEF Drawing
  <2>3. DOMAIN tx'.countries \cap DOMAIN db.countries = {}
    BY <1>3, <1>8, <2>1 DEF Drawing
  <2>4. \A b, c \in DOMAIN tx'.countries :
          tx'.countries[b] = tx'.countries[c] => b = c \/ tx'.countries[b] > MaxID
    <3>1. \A c \in DOMAIN tx.countries : tx.countries[c] = serial' => serial' > MaxID
      BY <1>6 DEF Numbered
    <3>2. \A b, c \in DOMAIN tx.countries :
            tx.countries[b] = tx.countries[c] => b = c \/ tx.countries[b] > MaxID
      BY <1>3, <2>1 DEF Drawing
    <3> QED
      BY <1>8, <3>1, <3>2
  <2>5. DOMAIN tileStore' = UNION {Drawn(features[i]) : i \in Past'}
    BY <1>3, <1>5, <1>7, <2>1 DEF Drawing
  <2>6. ASSUME NEW t \in DOMAIN tileStore'
        PROVE  \E i \in Past' : LatestOwner(i, t)'
    <3>1. CASE t \in Drawn(features[next])
      <4>1. PICK i \in Past' : i = next
        BY <1>5
      <4>2. \A j \in Past' : j <= i
        BY <1>4, <1>5, <4>1 DEF Past, Typed
      <4>3. tileStore'[t] = Fits(tx'.countries[features'[i].code])
        BY <1>1, <1>3, <1>7, <1>8, <3>1, <4>1
      <4>4. t \in Drawn(features'[i])
        BY <1>1, <3>1, <4>1
      <4>5. LatestOwner(i, t)'
        BY <4>2, <4>3, <4>4 DEF LatestOwner, Fits
      <4> QED
        BY <4>5
    <3>2. CASE t \notin Drawn(features[next])
      <4>1. t \in DOMAIN tileStore /\ tileStore'[t] = tileStore[t]
        BY <1>7, <3>2
      <4>2. PICK i \in Past : LatestOwner(i, t)
        BY <1>3, <2>1, <4>1 DEF Drawing
      <4>5. i \in Past' /\ features' = features
        BY <1>1, <1>5
      <4>3. features[i].code \in DOMAIN tx.countries
        BY <1>3, <2>1 DEF Drawing
      <4>4. LatestOwner(i, t)'
        BY <1>5, <1>8, <3>2, <4>1, <4>2, <4>3, <4>5 DEF LatestOwner, Fits
      <4> QED
        BY <1>5, <4>4
    <3> QED
      BY <3>1, <3>2
  <2>7. features' = features /\ db' = db /\ Past' = {i \in DOMAIN features' : i < next' /\ features'[i].code # Skipped}
    BY <1>1 DEF Past
  <2> QED
    BY <2>2, <2>3, <2>4, <2>5, <2>6, <2>7 DEF Drawing
<1>13. Cause'
  <2> SUFFICES ASSUME ~failed', serial' <= MaxID
               PROVE  DOMAIN db.countries = {}
    BY <1>1 DEF Cause
  <2>1. ~failed
    BY <1>2
  <2>2. serial <= MaxID
    BY <1>6
  <2> QED
    BY <1>1, <2>1, <2>2 DEF Cause, Working
<1> QED
  BY <1>1, <1>9, <1>10, <1>11, <1>12, <1>13, SameDatabase

LEMMA ToSliceStep ==
  ASSUME Inv, ToSlice
  PROVE  Inv'
<1> USE DEF Inv
<1>1. Typed' /\ Numbered' /\ Named' /\ Acceptable' /\ HomeRead' /\ Cause'
  BY DEF ToSlice, Typed, Phase, Numbered, Named, Working, Past, Acceptable, HomeRead, Cause
<1>2. Drawing'
  BY DEF ToSlice, Drawing, Working, Past, LatestOwner
<1>3. Bordering'
  <2>1. todo' = DOMAIN tileStore /\ tileStore' = tileStore /\ borders' = {} /\ phase' = "borders"
    BY DEF ToSlice, Bordering
  <2>2. \A t \in DOMAIN tileStore : ~Marked(t)'
    BY <2>1 DEF Marked, Foreign
  <2> QED
    BY <2>1, <2>2 DEF Bordering
<1> QED
  BY <1>1, <1>2, <1>3, SameDatabase DEF ToSlice

-----------------------------------------------------------------------------
(* The border pass. *)

\* Foreign neighbours are foreign neighbours of each other.
LEMMA ForeignSymmetric ==
  ASSUME Typed, NEW t \in DOMAIN tileStore, NEW n \in Foreign(t)
  PROVE  n \in DOMAIN tileStore /\ t \in Foreign(n) /\ n # t
<1>1. t \in Int \X Int
  BY RasterAssumption DEF Typed, Map
<1>2. n \in DOMAIN tileStore /\ tileStore[n] # tileStore[t]
  BY DEF Foreign
<1>3. n \in Neighbours(t)
  BY DEF Foreign
<1>4. t \in Neighbours(n)
  BY <1>1, <1>3 DEF Neighbours
<1> QED
  BY <1>2, <1>4 DEF Foreign

\* What CheckTile looks for is a border.
LEMMA BorderTest ==
  ASSUME Typed, NEW t \in DOMAIN tileStore
  PROVE  IsBorder(tileStore, t) <=> Foreign(t) # {} \/ Neighbours(t) \ DOMAIN tileStore # {}
<1>1. t[1] \in Int /\ t[2] \in Int
  BY RasterAssumption DEF Typed, Map
<1>2. {<<t[1] + d[1], t[2] + d[2]>> : d \in {<<1, 0>>, <<0, 1>>, <<-1, 0>>, <<0, -1>>}} = Neighbours(t)
  BY <1>1 DEF Neighbours
<1>3. IsBorder(tileStore, t) <=> \E n \in Neighbours(t) : n \in DOMAIN tileStore => tileStore[n] # tileStore[t]
  BY <1>2 DEF IsBorder
<1> QED
  BY <1>3 DEF Foreign

LEMMA CheckTileStep ==
  ASSUME Inv, NEW t \in todo, CheckTile(t)
  PROVE  Inv'
<1> USE DEF Inv
<1>1. /\ phase = "borders" /\ todo' = todo \ {t} /\ t \in DOMAIN tileStore
      /\ borders' = IF Foreign(t) # {} \/ Neighbours(t) \ DOMAIN tileStore # {}
                    THEN borders \cup Foreign(t) \cup {t} ELSE borders \ {t}
      /\ UNCHANGED <<features, phase, next, tileStore, tx, serial, home, db, failed, strayed>>
  BY DEF CheckTile, Typed
<1>2. Typed'
  BY <1>1 DEF Typed, Foreign
<1>3. Numbered' /\ Named' /\ Acceptable' /\ HomeRead' /\ Cause'
  BY <1>1 DEF Numbered, Named, Working, Past, Acceptable, HomeRead, Cause
<1>4. Drawing'
  BY <1>1 DEF Drawing, Working, Past, LatestOwner
<1>5. \A u : u \in borders <=> u \in DOMAIN tileStore /\ Marked(u)
  BY <1>1 DEF Bordering
<1>6. ASSUME NEW u \in DOMAIN tileStore
      PROVE  u \in borders' <=> Marked(u)'
  <2>1. /\ Foreign(u)' = Foreign(u)
        /\ IsBorder(tileStore, u)' = IsBorder(tileStore, u)
    BY <1>1 DEF Foreign, IsBorder
  <2>2. Marked(u)' <=> IF u \in todo' THEN \E n \in Foreign(u) : n \notin todo' ELSE IsBorder(tileStore, u)
    BY <1>1, <2>1 DEF Marked
  <2>3. Marked(u) <=> IF u \in todo THEN \E n \in Foreign(u) : n \notin todo ELSE IsBorder(tileStore, u)
    BY DEF Marked
  <2>4. CASE u = t
    BY <1>1, <2>2, <2>4, BorderTest
  <2>5. CASE u # t /\ u \in Foreign(t)
    <3>1. t \in Foreign(u)
      BY <1>1, <2>5, ForeignSymmetric
    <3>2. u \in borders'
      BY <1>1, <2>5
    <3>3. IsBorder(tileStore, u)
      BY <3>1, BorderTest
    <3> QED
      BY <1>1, <2>2, <3>1, <3>2, <3>3
  <2>6. CASE u # t /\ u \notin Foreign(t)
    <3>1. t \notin Foreign(u)
      BY <1>1, <2>6, ForeignSymmetric
    <3>2. u \in borders' <=> u \in borders
      BY <1>1, <2>6
    <3> QED
      BY <1>1, <1>5, <2>2, <2>3, <2>6, <3>1, <3>2
  <2> QED
    BY <2>4, <2>5, <2>6
<1>7. Bordering'
  BY <1>1, <1>2, <1>6 DEF Bordering, Typed
<1> QED
  BY <1>1, <1>2, <1>3, <1>4, <1>7, SameDatabase

-----------------------------------------------------------------------------
(* The transaction ends. *)

LEMMA InsertTilesStep ==
  ASSUME Inv, InsertTiles
  PROVE  Inv'
<1> USE DEF Inv
<1>1. PICK ok \in BOOLEAN :
        /\ failed' = (failed \/ ~ok)
        /\ phase' = IF /\ ok
                       /\ ~tx.aborted
                       /\ \A t \in DOMAIN tileStore : \E c \in DOMAIN tx.countries :
                            tileStore[t] = tx.countries[c]
                    THEN "commit" ELSE "fatal"
  BY DEF InsertTiles
<1>2. /\ phase = "borders" /\ todo = {}
      /\ UNCHANGED <<features, next, tileStore, borders, todo, tx, home, serial, db, strayed>>
  BY DEF InsertTiles, memory
<1>3. Typed' /\ Numbered' /\ Named' /\ HomeRead'
  BY <1>1, <1>2 DEF Typed, Phase, Numbered, Named, Working, Past, HomeRead
<1>4. Drawing'
  BY <1>1, <1>2 DEF Drawing, Working, Past, LatestOwner
<1>5. Bordering'
  BY <1>1, <1>2 DEF Bordering, Marked, Foreign, IsBorder
<1>6. Acceptable'
  BY <1>1, <1>2 DEF Acceptable
<1>7. Cause'
  <2> SUFFICES ASSUME ~failed, serial <= MaxID, ok
               PROVE  /\ phase' = "commit" /\ ~tx.aborted
                      /\ DOMAIN db.countries = {}
    BY <1>1, <1>2 DEF Cause
  <2>1. Working /\ ~tx.aborted /\ DOMAIN db.countries = {}
    BY <1>2 DEF Cause, Working
  <2>2. ASSUME NEW t \in DOMAIN tileStore
        PROVE  \E c \in DOMAIN tx.countries : tileStore[t] = tx.countries[c]
    <3>1. PICK i \in Past : LatestOwner(i, t)
      BY <2>1 DEF Drawing
    <3>2. features[i].code \in DOMAIN tx.countries
      BY <2>1 DEF Drawing
    <3>3. tx.countries[features[i].code] \in 1..serial
      BY <3>2 DEF Numbered
    <3>4. tileStore[t] = tx.countries[features[i].code]
      BY <3>1, <3>3, WorldGenAssumption DEF LatestOwner, Fits, Typed
    <3> QED
      BY <3>2, <3>4
  <2> QED
    BY <1>1, <2>1, <2>2
<1> QED
  BY <1>2, <1>3, <1>4, <1>5, <1>6, <1>7, SameDatabase

\* What is committed is a whole world.
LEMMA CommitComplete ==
  ASSUME Inv, phase = "commit", DOMAIN db.countries = {}, UNCHANGED features,
         db' = [db EXCEPT !.countries = Put(tx.countries, @), !.tiles = tileStore, !.borders = borders]
  PROVE  /\ Complete(db)'
         /\ DOMAIN db'.countries = DOMAIN tx.countries
         /\ \A c \in DOMAIN db'.countries : db'.countries[c] = tx.countries[c]
<1> USE DEF Inv
<1>1. /\ db'.tiles = tileStore /\ db'.borders = borders
      /\ db'.countries = Put(tx.countries, db.countries)
  BY DEF Typed
<1>2. /\ DOMAIN db'.countries = DOMAIN tx.countries
      /\ \A c \in DOMAIN db'.countries : db'.countries[c] = tx.countries[c]
  BY <1>1 DEF Put
<1>3. Working /\ ~tx.aborted /\ todo = {} /\ next \notin DOMAIN features
  BY DEF Working, Acceptable, Bordering, Named
<1>4. Past = {i \in DOMAIN features : features[i].code # Skipped}
  <2>1. DOMAIN features = 1..Len(features) /\ Len(features) \in Nat
    BY File DEF Typed
  <2> QED
    BY <1>3, <2>1 DEF Past, Typed
<1>5. DOMAIN db'.countries = {features[i].code : i \in Past}
  BY <1>2, <1>3 DEF Drawing
<1>6. \A b, c \in DOMAIN db'.countries :
        db'.countries[b] = db'.countries[c] => b = c \/ db'.countries[b] > MaxID
  BY <1>2, <1>3 DEF Drawing
<1>7. DOMAIN db'.tiles = UNION {Drawn(features[i]) : i \in Past}
  BY <1>1, <1>3 DEF Drawing
<1>8. ASSUME NEW t \in DOMAIN db'.tiles
      PROVE  \E i \in Past : /\ t \in Drawn(features[i])
                            /\ \A j \in Past : t \in Drawn(features[j]) => j <= i
                            /\ db'.tiles[t] = db'.countries[features[i].code]
  <2>1. PICK i \in Past : LatestOwner(i, t)
    BY <1>1, <1>3 DEF Drawing
  <2>2. features[i].code \in DOMAIN tx.countries
    BY <1>3 DEF Drawing
  <2>3. PICK c \in DOMAIN tx.countries : tileStore[t] = tx.countries[c]
    BY <1>1 DEF Acceptable
  <2>4. tx.countries[c] \in 1..serial /\ tx.countries[features[i].code] \in 1..serial
    BY <2>2, <2>3 DEF Numbered
  <2>5. tileStore[t] = tx.countries[features[i].code]
    BY <2>1, <2>3, <2>4, WorldGenAssumption DEF LatestOwner, Fits, Typed
  <2> QED
    BY <1>1, <1>2, <2>1, <2>2, <2>5 DEF LatestOwner
<1>9. db'.borders = {t \in DOMAIN db'.tiles : IsBorder(db'.tiles, t)}
  BY <1>1, <1>3 DEF Bordering, Marked
<1>10. Complete(db')
  <2> DEFINE drawn == {i \in DOMAIN features : features[i].code # Skipped}
             area == [i \in drawn |-> Drawn(features[i])]
  <2>1. \A i \in drawn : area[i] = Drawn(features[i])
    OBVIOUS
  <2>2. Past = drawn
    BY <1>4
  <2> HIDE DEF drawn, area
  <2>3. DOMAIN db'.countries = {features[i].code : i \in drawn}
    BY <1>5, <2>2
  <2>4. DOMAIN db'.tiles = UNION {area[i] : i \in drawn}
    BY <1>7, <2>1, <2>2
  <2>5. \A t \in DOMAIN db'.tiles : \E i \in drawn :
          /\ t \in area[i]
          /\ \A j \in drawn : t \in area[j] => j <= i
          /\ db'.tiles[t] = db'.countries[features[i].code]
    BY <1>8, <2>1, <2>2
  <2> QED
    BY <1>6, <1>9, <2>3, <2>4, <2>5, Zenon DEF Complete, drawn, area
<1>11. Complete(db)' <=> Complete(db')
  BY DEF Complete
<1> QED
  BY <1>2, <1>10, <1>11

LEMMA CommitStep ==
  ASSUME Inv, Commit
  PROVE  Inv'
<1> USE DEF Inv
<1>1. PICK ok \in BOOLEAN :
        /\ failed' = (failed \/ ~ok)
        /\ db' = IF ok THEN [db EXCEPT !.countries = Put(tx.countries, @), !.tiles = tileStore,
                                       !.borders = borders]
                 ELSE db
  BY DEF Commit
<1>2. phase = "commit" /\ phase' = "seed" /\ Forget /\ UNCHANGED <<features, serial, strayed>>
  BY DEF Commit
<1>3. CASE ~ok
  BY <1>1, <1>2, <1>3, ForgetStep DEF Typed
<1>4. CASE ok
  <2>1. DOMAIN db.countries = {}
    <3>1. CASE NoWorld(db)
      BY <3>1, EmptyDomain DEF NoWorld
    <3>2. CASE Complete(db)
      <4>1. DOMAIN features = 1..Len(features) /\ Len(features) \in Nat
        BY File DEF Typed
      <4>2. Past = {i \in DOMAIN features : features[i].code # Skipped}
        BY <1>2, <4>1 DEF Past, Typed, Named, Working
      <4>3. DOMAIN db.countries = {features[i].code : i \in Past}
        BY <3>2, <4>2 DEF Complete
      <4>4. DOMAIN tx.countries = {features[i].code : i \in Past} /\ DOMAIN tx.countries \cap DOMAIN db.countries = {}
        BY <1>2 DEF Drawing, Working, Acceptable
      <4> QED
        BY <4>3, <4>4
    <3> QED
      BY <3>1, <3>2 DEF Stored
  <2>2. /\ Complete(db)'
        /\ DOMAIN db'.countries = DOMAIN tx.countries
        /\ \A c \in DOMAIN db'.countries : db'.countries[c] = tx.countries[c]
    BY <1>1, <1>2, <1>4, <2>1, CommitComplete
  <2>3. db'.players = db.players
    BY <1>1, <1>4 DEF Typed
  <2>4. DOMAIN db.players = {}
    BY <2>1 DEF PlayersHaveHome
  <2>5. Typed'
    <3>1. db' \in [countries : {db'.countries}, tiles : {db'.tiles}, borders : {db'.borders}, players : {db'.players}]
      BY <1>1, <1>4 DEF Typed
    <3>2. next' \in 1..Len(features') + 1
      BY <1>2, File DEF Typed, Forget
    <3>3. failed' \in BOOLEAN
      BY <1>1
    <3> QED
      BY <1>2, <2>3, <3>1, <3>2, <3>3, EmptyDomain DEF Typed, Forget, NoTx, Phase
  <2>6. Numbered'
    BY <1>2, <2>2, EmptyDomain DEF Numbered, Forget, NoTx
  <2>7. Named' /\ Drawing' /\ Bordering' /\ Acceptable' /\ HomeRead' /\ Cause'
    BY <1>2 DEF Named, Drawing, Bordering, Acceptable, HomeRead, Cause, Working
  <2>8. PlayersHaveHome'
    BY <2>3, <2>4 DEF PlayersHaveHome
  <2> QED
    BY <2>2, <2>5, <2>6, <2>7, <2>8 DEF Stored
<1> QED
  BY <1>3, <1>4

-----------------------------------------------------------------------------
(* The players are seeded. *)

LEMMA SeedReadsStep ==
  ASSUME Inv, SeedReads
  PROVE  Inv'
<1> USE DEF Inv
<1>1. /\ phase = "seed" /\ phase' = "players"
      /\ UNCHANGED <<features, next, tileStore, borders, todo, tx, serial, db, failed>>
  BY DEF SeedReads
<1>2. PICK id \in {0} \cup {db.countries[c] : c \in {Home} \cap DOMAIN db.countries},
           ok \in BOOLEAN :
        /\ \E t \in IF (IF ok THEN HomeTiles(id) ELSE {}) = {} THEN {<<0, 0>>}
                    ELSE (IF ok THEN HomeTiles(id) ELSE {}) :
             home' = [country |-> id, tile |-> t]
        /\ strayed' = (strayed \cap DOMAIN db.players)
                        \cup (IF ok THEN {} ELSE Nickname \ DOMAIN db.players)
  BY DEF SeedReads
<1>3. Typed' /\ Numbered' /\ Named' /\ Drawing' /\ Bordering' /\ Acceptable' /\ Cause'
  BY <1>1, <1>2 DEF Typed, Phase, Numbered, Named, Drawing, Bordering, Acceptable, Cause, Working
<1>4. HomeRead'
  <2>1. /\ home'.country = id
        /\ IF ok /\ HomeTiles(id) # {} THEN home'.tile \in HomeTiles(id) ELSE home'.tile = <<0, 0>>
    BY <1>2
  <2>2. HomeTiles(home.country)' = HomeTiles(id)
    BY <1>1, <2>1 DEF HomeTiles
  <2>3. \A n \in Nickname \ DOMAIN db.players : n \in strayed' <=> ~ok
    BY <1>2
  <2>4. id = 0 \/ (Home \in DOMAIN db.countries /\ id = db.countries[Home])
    BY <1>2
  <2> QED
    BY <1>1, <2>1, <2>2, <2>3, <2>4 DEF HomeRead
<1>5. PlayersHaveHome'
  <2>1. \A n \in DOMAIN db.players : n \in strayed' <=> n \in strayed
    BY <1>2 DEF Typed
  <2> QED
    BY <1>1, <2>1 DEF PlayersHaveHome
<1>6. Stored'
  BY <1>1, SameWorld
<1> QED
  BY <1>3, <1>4, <1>5, <1>6

LEMMA SeedPlayerStep ==
  ASSUME Inv, NEW n \in Nickname, SeedPlayer(n)
  PROVE  Inv'
<1> USE DEF Inv
<1>1. /\ phase = "players"
      /\ db' = [db EXCEPT !.players = Put([m \in {n} |-> home], @)]
      /\ UNCHANGED <<features, phase, next, tileStore, borders, todo, tx, home, serial, failed, strayed>>
  BY DEF SeedPlayer, memory
<1>2. /\ db'.countries = db.countries /\ db'.tiles = db.tiles /\ db'.borders = db.borders
      /\ db'.players = Put([m \in {n} |-> home], db.players)
      /\ db' \in [countries : {db'.countries}, tiles : {db'.tiles}, borders : {db'.borders}, players : {db'.players}]
  BY <1>1 DEF Typed
<1>3. /\ DOMAIN db'.players = {n} \cup DOMAIN db.players
      /\ db'.players[n] = home
      /\ \A m \in DOMAIN db.players : m # n => db'.players[m] = db.players[m]
  BY <1>2 DEF Put
<1>4. Typed' /\ Numbered' /\ Named' /\ Cause'
  BY <1>1, <1>2, <1>3 DEF Typed, Numbered, Named, Working, Cause
<1>5. Drawing' /\ Bordering' /\ Acceptable'
  BY <1>1 DEF Drawing, Working, Bordering, Acceptable
<1>6. HomeRead'
  BY <1>1, <1>2, <1>3 DEF HomeRead, HomeTiles
<1>7. Stored'
  BY <1>1, <1>2, SameWorld
<1>8. PlayersHaveHome'
  <2>1. PICK c \in DOMAIN db.countries : db.countries[c] = home.country
    BY DEF SeedPlayer
  <2>2. home.country # 0
    BY <2>1 DEF Numbered, Typed
  <2>3. Home \in DOMAIN db.countries /\ home.country = db.countries[Home]
    BY <1>1, <2>2 DEF HomeRead
  <2>4. IF n \notin strayed /\ \E t \in DOMAIN db.tiles : db.tiles[t] = db.countries[Home]
        THEN db.tiles[home.tile] = db.countries[Home]
        ELSE home.tile = <<0, 0>>
    <3>1. n \notin DOMAIN db.players
      BY DEF SeedPlayer
    <3> QED
      BY <1>1, <2>3, <3>1 DEF HomeRead, HomeTiles
  <2> QED
    BY <1>1, <1>2, <1>3, <2>3, <2>4 DEF PlayersHaveHome
<1> QED
  BY <1>4, <1>5, <1>6, <1>7, <1>8

LEMMA ServeStep ==
  ASSUME Inv, Serve
  PROVE  Inv'
<1> USE DEF Inv
<1>1. /\ phase = "players" /\ phase' \in {"fatal", "serve"}
      /\ phase' = "fatal" => \E c \in DOMAIN db.countries : db.countries[c] > MaxID
      /\ UNCHANGED <<features, next, tileStore, borders, todo, tx, home, serial, db, failed, strayed>>
  BY DEF Serve, memory
<1>2. Typed' /\ Numbered' /\ Named' /\ Drawing' /\ Bordering' /\ Acceptable' /\ HomeRead'
  BY <1>1 DEF Typed, Phase, Numbered, Named, Drawing, Bordering, Acceptable, HomeRead, Working
<1>3. phase' = "fatal" => serial > MaxID
  BY <1>1, WorldGenAssumption DEF Numbered, Typed
<1>4. Cause'
  BY <1>1, <1>3, WorldGenAssumption DEF Cause, Working, Typed
<1> QED
  BY <1>1, <1>2, <1>4, SameDatabase

LEMMA NextInv ==
  ASSUME Inv, [Next]_vars
  PROVE  Inv'
<1>1. CASE Crash \/ Panic
  BY <1>1, CrashStep
<1>2. CASE GenerateWorld \/ NoFile
  BY <1>2, GenerateStep
<1>3. CASE DrawFeature
  BY <1>3, SkipStep, AbortStep, CreateStep
<1>4. CASE ToSlice
  BY <1>4, ToSliceStep
<1>5. CASE InsertTiles
  BY <1>5, InsertTilesStep
<1>6. CASE Commit
  BY <1>6, CommitStep
<1>7. CASE SeedReads
  BY <1>7, SeedReadsStep
<1>8. CASE Serve
  BY <1>8, ServeStep
<1>9. ASSUME NEW t \in todo, CheckTile(t)
      PROVE  Inv'
  BY <1>9, CheckTileStep
<1>10. ASSUME NEW n \in Nickname, SeedPlayer(n)
       PROVE  Inv'
  BY <1>10, SeedPlayerStep
<1>11. CASE UNCHANGED vars
  BY <1>11, StutterStep
<1> QED
  BY <1>1, <1>2, <1>3, <1>4, <1>5, <1>6, <1>7, <1>8, <1>9, <1>10, <1>11 DEF Next

-----------------------------------------------------------------------------
(* The theorems. *)

\* Inv holds in every state, for every file that fits the assumptions.
THEOREM Invariance == Spec => []Inv
<1>1. Init => Inv
  BY InitInv
<1>2. Inv /\ [Next]_vars => Inv'
  BY NextInv
<1> QED
  BY <1>1, <1>2, PTL DEF Spec

\* Every variable keeps its type; tiles and owners stay within their widths.
THEOREM TypeCorrectness == Spec => []TypeOK
<1>1. Inv => TypeOK
  <2> SUFFICES ASSUME Inv
               PROVE  TypeOK
    OBVIOUS
  <2>1. tx.aborted \in BOOLEAN
    BY DEF Inv, Typed
  <2> QED
    BY <2>1 DEF Inv, Typed, TypeOK, Map, Phase
<1> QED
  BY <1>1, Invariance, PTL

\* The border pass marks exactly the borders, in whatever order it visits
\* the tiles, although each tile writes over what its neighbours wrote.
THEOREM ExactBorders == Spec => []BordersExact
<1>1. Inv => BordersExact
  BY DEF Inv, Bordering, Marked, BordersExact
<1> QED
  BY <1>1, Invariance, PTL

\* Whatever fails, and however often the process is started again, a seeded
\* player belongs to the home country and stands on its ground, unless the
\* query for a tile of it failed when he was created (or it has none).
THEOREM SeededPlayersHaveHome == Spec => []PlayersHaveHome
<1>1. Inv => PlayersHaveHome
  BY DEF Inv
<1> QED
  BY <1>1, Invariance, PTL

\* The process dies of log.Fatalf only when the database has failed or the
\* identifiers have run out.
THEOREM FatalEndsHaveCauses == Spec => []FatalHasCause
<1>1. Inv => FatalHasCause
  BY WorldGenAssumption DEF Inv, Typed, Cause, FatalHasCause
<1> QED
  BY <1>1, Invariance, PTL

\* Whatever fails and whenever the process crashes, what is committed is no
\* world or the whole one.
THEOREM AllOrNothing == Spec => WorldAllOrNothing
<1>1. Inv' /\ [Next]_vars => [db' # db => NoWorld(db') \/ Complete(db')]_vars
  <2> SUFFICES ASSUME Inv', Next
               PROVE  NoWorld(db') \/ Complete(db')
    OBVIOUS
  <2>1. features' = features
    BY DEF Next, Crash, GenerateWorld, NoFile, DrawFeature, Panic, ToSlice, InsertTiles, Commit,
           SeedReads, Serve, CheckTile, SeedPlayer
  <2>2. NoWorld(db)' \/ Complete(db)'
    BY DEF Inv, Stored
  <2> QED
    BY <2>1, <2>2 DEF NoWorld, Complete
<1> QED
  BY <1>1, Invariance, PTL DEF Spec, WorldAllOrNothing
=============================================================================
