----------------------------- MODULE Persistence -----------------------------
(***************************************************************************)
(* Rows of players in memory and in the database: who loads them, who      *)
(* saves them and when.  A row object is the models.Player a login fills;  *)
(* handlers, savers and the sweep share pointers to it and none of them    *)
(* holds a lock while a row is written to the database.                    *)
(*                                                                         *)
(* A row's contents are a version, which grows with whatever is done to    *)
(* the row in memory.  A session is "open" (in GameServer.connections),    *)
(* "left" (removed by a Disconnect message or by the sweep, while its TCP  *)
(* loop runs on), "late" (the TCP loop has ended, but handlers of          *)
(* datagrams that had found the connection before still run) or "ended".   *)
(* Module Sessions has the same life in finer steps; here a login checks   *)
(* and looks up in one step, so that no race between two logins is needed  *)
(* for what goes wrong below.                                              *)
(***************************************************************************)
EXTENDS Naturals

CONSTANTS
  Conn,       \* connections that can exist at once (their slots are used again)
  Player,     \* primary keys of the seeded players
  Row,        \* row objects that can be in use at once (bound)
  MaxVersion, \* bound on the versions of a row
  NoRow       \* a nil *models.Player

NoPlayer == 0

ASSUME PersistenceAssumption ==
  /\ Player \subseteq Nat \ {NoPlayer}
  /\ MaxVersion \in Nat \ {0}
  /\ NoRow \notin Row

VARIABLES
  process, \* "down", "seeding", "up" or "stopped"
  session, \* the session of each connection
  row,     \* GameConnection.player
  heap,    \* the row objects: whose row, and its version
  stale,   \* connectionsToRemove of cleanupInactiveConnections
  saver,   \* the two callers of Save: autoSaveRoutine and main
  db,      \* table players: the version of each row, 0 if there is none
  forked,  \* history: players two row objects of which could be saved at once
  owed     \* history: the version of each connected player when the signal came

vars == <<process, session, row, heap, stale, saver, db, forked, owed>>

Saver == {"auto", "exit"}
Version == 0..MaxVersion
Blank == [player |-> NoPlayer, version |-> 0]
NotSaving == [phase |-> "idle", conns |-> {}, rows |-> {}]

TypeOK ==
  /\ process \in {"down", "seeding", "up", "stopped"}
  /\ session \in [Conn -> {"open", "left", "late", "ended"}]
  /\ row \in [Conn -> Row \cup {NoRow}]
  /\ heap \in [Row -> [player : Player \cup {NoPlayer}, version : Version]]
  /\ stale \in SUBSET Conn
  /\ saver \in [Saver -> [phase : {"idle", "called", "saving"},
                          conns : SUBSET Conn, rows : SUBSET Row]]
  /\ db \in [Player -> Version]
  /\ forked \in SUBSET Player
  /\ owed \in [Player -> Version]

Open == {c \in Conn : session[c] = "open"}
Alive == {c \in Conn : session[c] # "ended"}

\* Connections some goroutine may still run a handler of, disconnect or save,
\* and the rows that may still be saved: those of such connections, and those
\* Save has collected.  movingPlayers and a /tp under way hold rows for longer;
\* nobody saves a row from there or gives it to a connection, so that what they
\* do to a row which is not reachable otherwise is lost and disturbs nobody.
InUse == Alive \cup stale \cup UNION {saver[s].conns : s \in Saver}
Reachable == ({row[c] : c \in InUse} \cup UNION {saver[s].rows : s \in Saver}) \ {NoRow}

RowsOf(p) == {o \in Reachable : heap[o].player = p}
Latest(p) == IF RowsOf(p) = {} THEN db[p] ELSE heap[CHOOSE o \in RowsOf(p) : TRUE].version
Connected(p) == \E c \in Open : row[c] # NoRow /\ heap[row[c]].player = p
PlayersOf(R) == {heap[o].player : o \in R}

\* The last conjunct of a step: row objects become h, what nobody can reach
\* is collected, forks are remembered and what was owed to the players of
\* Excused is forgotten.
Memory(h, Excused) ==
  /\ heap' = [o \in Row |-> IF o \in Reachable' THEN h[o] ELSE Blank]
  /\ forked' = forked \cup {p \in Player : \E o1, o2 \in RowsOf(p)' : o1 # o2}
  /\ owed' = [p \in Player |-> IF p \in Excused \cup forked' THEN 0 ELSE owed[p]]

Init ==
  /\ process = "down"
  /\ session = [c \in Conn |-> "ended"]
  /\ row = [c \in Conn |-> NoRow]
  /\ heap = [o \in Row |-> Blank]
  /\ stale = {}
  /\ saver = [s \in Saver |-> NotSaving]
  /\ db = [p \in Player |-> 0]
  /\ forked = {}
  /\ owed = [p \in Player |-> 0]

-----------------------------------------------------------------------------
(* The process. *)

Start ==
  /\ process \in {"down", "stopped"}
  /\ process' = "seeding"
  /\ owed' = [p \in Player |-> 0]
  /\ UNCHANGED <<session, row, heap, stale, saver, db, forked>>

\* Mutant: a player who exists is written again.
Seed_Overwrite(p) ==
  /\ process = "seeding"
  /\ db' = [db EXCEPT ![p] = 1]
  /\ UNCHANGED <<process, session, row, heap, stale, saver, forked, owed>>

\* One FirstOrCreate of Seed: creates a player who does not exist.
Seed(p) ==
  /\ process = "seeding"
  /\ db[p] = 0
  /\ db' = [db EXCEPT ![p] = 1]
  /\ UNCHANGED <<process, session, row, heap, stale, saver, forked, owed>>

\* Migrate returns and StartServer is called.  Errors of FirstOrCreate are
\* not looked at: a player may be missing.
Serve ==
  /\ process = "seeding"
  /\ process' = "up"
  /\ UNCHANGED <<session, row, heap, stale, saver, db, forked, owed>>

\* What lives in memory when the process ends: nothing.
Forget ==
  /\ session' = [c \in Conn |-> "ended"]
  /\ row' = [c \in Conn |-> NoRow]
  /\ heap' = [o \in Row |-> Blank]
  /\ stale' = {}
  /\ saver' = [s \in Saver |-> NotSaving]
  /\ forked' = {}

\* A panic, a kill, or a signal before main waits for one.
Crash ==
  /\ process \in {"seeding", "up"}
  /\ process' = "down"
  /\ Forget
  /\ owed' = [p \in Player |-> 0]
  /\ UNCHANGED db

\* SIGINT or SIGTERM: main calls Save.
Signal ==
  /\ process = "up"
  /\ saver["exit"].phase = "idle"
  /\ saver' = [saver EXCEPT !["exit"].phase = "called"]
  /\ owed' = [p \in Player |-> IF Connected(p) /\ p \notin forked THEN Latest(p) ELSE 0]
  /\ UNCHANGED <<process, session, row, heap, stale, db, forked>>

-----------------------------------------------------------------------------
(* Sessions. *)

\* A connection is registered in a slot nobody refers to any more.
Accept(c) ==
  /\ process = "up"
  /\ c \notin InUse
  /\ session' = [session EXCEPT ![c] = "open"]
  /\ row' = [row EXCEPT ![c] = NoRow]
  /\ UNCHANGED <<process, stale, saver, db>>
  /\ Memory(heap, {})

\* The handler of a login that is not refused.
MayLogin(c, p) ==
  /\ process = "up"
  /\ c \in Alive
  /\ ~Connected(p)

Drops(c) == IF row[c] = NoRow THEN {} ELSE {heap[row[c]].player}

\* What First fills: a new object when gc.player is nil, or the object it
\* points to when that is p's (gorm adds its primary key to the query).
Unused == Row \ Reachable
RowFor(c, p) ==
  IF row[c] # NoRow THEN {row[c]} \cap RowsOf(p)
  ELSE IF Unused = {} THEN {} ELSE {CHOOSE o \in Unused : TRUE}

\* Mutant: the row is not read from the database when the process has it.
LoadRow_Cached(c, p) ==
  /\ MayLogin(c, p)
  /\ db[p] # 0
  /\ \E o \in RowFor(c, p) :
       /\ row' = [row EXCEPT ![c] = o]
       /\ UNCHANGED <<process, session, stale, saver, db>>
       /\ Memory([heap EXCEPT ![o] = [player |-> p, version |-> 1]], {})

\* First(&gc.player) finds p and reads the row from the database.
LoadRow(c, p) ==
  /\ MayLogin(c, p)
  /\ db[p] # 0
  /\ \E o \in RowFor(c, p) :
       /\ row' = [row EXCEPT ![c] = o]
       /\ UNCHANGED <<process, session, stale, saver, db>>
       /\ Memory([heap EXCEPT ![o] = [player |-> p, version |-> db[p]]], Drops(c))

\* First fails: nobody has the nickname, the player it belongs to is not the
\* one that gc.player points to, or the database does not answer.
LoadNothing(c) ==
  /\ process = "up"
  /\ c \in Alive
  /\ row' = [row EXCEPT ![c] = NoRow]
  /\ UNCHANGED <<process, session, stale, saver, db>>
  /\ Memory(heap, Drops(c))

\* Anything that changes a row in memory: movement of the connection, /tp of
\* any other, and tickLoop, whose movingPlayers keeps the row after the
\* connection has ended - while a Save that has collected it is under way.
Play(o) ==
  /\ process = "up"
  /\ o \in Reachable
  /\ heap[o].version < MaxVersion
  /\ UNCHANGED <<process, session, row, stale, saver, db>>
  /\ Memory([heap EXCEPT ![o].version = @ + 1], {})

\* handleDisconnect saves the rows of the connections of S one after another;
\* those of Kept are stored, the other saves fail.
SaveRows(S, Kept) ==
  /\ db' \in [Player -> Version]
  /\ \A p \in Player :
       LET written == {heap[o].version : o \in {row[c] : c \in Kept} \cap RowsOf(p)}
       IN  IF written = {} THEN db'[p] = db[p] ELSE db'[p] \in written
  /\ Memory(heap, PlayersOf({row[c] : c \in S \ Kept} \ {NoRow}))

Holding(S) == {c \in S : row[c] # NoRow}

\* A Disconnect message: out of the table, but the TCP loop goes on reading.
\* In a datagram it may be handled after that loop has ended.
DisconnectMessage(c) ==
  /\ process = "up"
  /\ c \in Alive
  /\ session' = [session EXCEPT ![c] = IF @ = "late" THEN @ ELSE "left"]
  /\ UNCHANGED <<process, row, stale, saver>>
  /\ \E Kept \in SUBSET Holding({c}) : SaveRows({c}, Kept)

\* The TCP loop ends; a row is saved again if the connection has left before.
\* Handlers of datagrams may be under way.
EndOfStream(c) ==
  /\ process = "up"
  /\ session[c] \in {"open", "left"}
  /\ \E end \in {"late", "ended"} : session' = [session EXCEPT ![c] = end]
  /\ UNCHANGED <<process, row, stale, saver>>
  /\ \E Kept \in SUBSET Holding({c}) : SaveRows({c}, Kept)

\* The last handler of a datagram of the connection returns.
HandlersEnd(c) ==
  /\ process = "up"
  /\ session[c] = "late"
  /\ session' = [session EXCEPT ![c] = "ended"]
  /\ UNCHANGED <<process, row, stale, saver, db>>
  /\ Memory(heap, {})

\* The sweep finds some connections of the table silent ...
SweepScan ==
  /\ process = "up"
  /\ stale = {}
  /\ stale' \in (SUBSET Open) \ {{}}
  /\ UNCHANGED <<process, session, row, saver, db>>
  /\ Memory(heap, {})

\* ... and disconnects them later, ended or not.
SweepRemove ==
  /\ process = "up"
  /\ stale # {}
  /\ stale' = {}
  /\ session' = [c \in Conn |-> IF c \in stale /\ session[c] = "open" THEN "left" ELSE session[c]]
  /\ UNCHANGED <<process, row, saver>>
  /\ \E Kept \in SUBSET Holding(stale) : SaveRows(stale, Kept)

-----------------------------------------------------------------------------
(* Save, called by autoSaveRoutine every minute and by main at the end. *)

\* The connections are copied.
SaveCopy(s) ==
  /\ process = "up"
  /\ saver[s].phase = IF s = "auto" THEN "idle" ELSE "called"
  /\ saver' = [saver EXCEPT ![s] = [phase |-> "saving", conns |-> Open, rows |-> {}]]
  /\ UNCHANGED <<process, session, row, stale, db>>
  /\ Memory(heap, {})

\* Mutant: connections without a player are not skipped.
Collected_Nil(c) == {row[c]}
Collected(c) == {row[c]} \ {NoRow}

\* The pointer to the row of one connection of the copy is collected.
SaveCollect(s, c) ==
  /\ process = "up"
  /\ c \in saver[s].conns
  /\ saver' = [saver EXCEPT ![s].conns = @ \ {c}, ![s].rows = @ \cup Collected(c)]
  /\ UNCHANGED <<process, session, row, stale, db>>
  /\ Memory(heap, {})

\* Save returns; main returns after it.
SaveReturn(s, Excused) ==
  IF s = "exit"
  THEN /\ process' = "stopped"
       /\ Forget
       /\ owed' = [p \in Player |-> IF p \in Excused THEN 0 ELSE owed[p]]
  ELSE /\ saver' = [saver EXCEPT ![s] = NotSaving]
       /\ UNCHANGED <<process, session, row, stale>>
       /\ Memory(heap, Excused)

AtCommit(s) == process = "up" /\ saver[s].phase = "saving" /\ saver[s].conns = {}

\* Nobody is logged in, or, as UpdateTile has no caller, no tile was updated.
\* Mutant: Save returns if there are no players or no tiles.
NothingToSave_Or(s) == TRUE
NothingToSave(s) == saver[s].rows = {}

SkipSave(s) ==
  /\ AtCommit(s)
  /\ NothingToSave(s)
  /\ UNCHANGED db
  /\ SaveReturn(s, {})

\* Mutant: the statement is started and not waited for.
StoreBatch_Async(s) ==
  /\ AtCommit(s)
  /\ ~NothingToSave(s)
  /\ UNCHANGED db
  /\ SaveReturn(s, {})

\* One INSERT ... ON CONFLICT DO UPDATE of all rows, with the versions they
\* have now.  PostgreSQL refuses the whole statement if a row is in it twice.
StoreBatch(s) ==
  /\ AtCommit(s)
  /\ ~NothingToSave(s)
  /\ \A o1, o2 \in saver[s].rows : heap[o1].player = heap[o2].player => o1 = o2
  /\ db' = [p \in Player |-> IF p \in PlayersOf(saver[s].rows)
                             THEN heap[CHOOSE o \in saver[s].rows : heap[o].player = p].version
                             ELSE db[p]]
  /\ SaveReturn(s, {})

\* The statement fails, for that reason or another; the error is logged.
LoseBatch(s) ==
  /\ AtCommit(s)
  /\ ~NothingToSave(s)
  /\ UNCHANGED db
  /\ SaveReturn(s, PlayersOf(saver[s].rows))

-----------------------------------------------------------------------------
Next ==
  \/ Start \/ Serve \/ Crash \/ Signal \/ SweepScan \/ SweepRemove
  \/ \E p \in Player : Seed(p)
  \/ \E o \in Row : Play(o)
  \/ \E c \in Conn : \/ Accept(c) \/ LoadNothing(c) \/ HandlersEnd(c)
                     \/ DisconnectMessage(c) \/ EndOfStream(c)
                     \/ \E p \in Player : LoadRow(c, p)
  \/ \E s \in Saver : \/ SaveCopy(s) \/ SkipSave(s) \/ StoreBatch(s) \/ LoseBatch(s)
                      \/ \E c \in Conn : SaveCollect(s, c)

Spec == Init /\ [][Next]_vars

AutoSave == \/ SaveCopy("auto") \/ SkipSave("auto") \/ StoreBatch("auto") \/ LoseBatch("auto")
            \/ \E c \in Conn : SaveCollect("auto", c)

\* The ticker of autoSaveRoutine fires again and again and Save returns; a
\* statement that can succeed again and again does not fail for ever.
SaveFairness == WF_vars(AutoSave) /\ SF_vars(StoreBatch("auto"))

FairSpec == Spec /\ SaveFairness

-----------------------------------------------------------------------------
(* Properties. *)

\* The refinement mapping: a player's latest version is that of the one row
\* object of his that may still be saved, or else the stored one.
Store == INSTANCE PlayerStore WITH
  latest <- [p \in Player |-> IF p \in forked THEN 0 ELSE Latest(p)],
  stored <- [p \in Player |-> IF p \in forked THEN 0 ELSE db[p]],
  shared <- forked

\* As long as one copy of a player's row may be saved, whoever saves it, in a
\* batch or alone, after a disconnect, or in a datagram handled after the end of
\* the stream, stores his latest version, and a login continues from it (Save,
\* handleDisconnect and handleLogin share pointers).
StoreSpec == Store!Spec

\* A row of the database goes back to an older version only when two copies
\* of it could be saved: by a second handleDisconnect after another login, in a
\* datagram handled after the end of the stream included, or by a late batch.
NeverGoesBack == [][\A p \in Player \ forked : db'[p] >= db[p]]_vars

\* "Save any necessary data before exiting": after a graceful stop nothing
\* from before the signal is missing for a player who was connected then,
\* while connections go on, leave and are swept during the Save - but for
\* those whose save failed, who logged in again, or whose row is in use twice.
ExitSaves == process = "stopped" => \A p \in Player : db[p] >= owed[p]

\* A player who stays connected and does nothing more is stored in the end,
\* if no row is in use twice and statements do not fail for ever, through
\* whatever others do (autoSaveRoutine, Save).
Quiet(p, v) ==
  /\ forked = {}
  /\ \E c \in Open : row[c] # NoRow /\ heap[row[c]] = [player |-> p, version |-> v]
QuietIsSaved ==
  \A p \in Player, v \in Version \ {0} : <>[]Quiet(p, v) => <>[](db[p] = v)
=============================================================================
