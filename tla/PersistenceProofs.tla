-------------------------- MODULE PersistenceProofs --------------------------
(***************************************************************************)
(* Proofs about Persistence, for any connections, players and row objects. *)
(*                                                                         *)
(* Inv is the inductive invariant.  As long as a player is not forked, one *)
(* object at most is in use for his row (Single) and the database is not   *)
(* ahead of it (Ahead); what is owed to a player at the exit is in an      *)
(* object that the exit's Save has yet to store (OwedKept).                *)
(***************************************************************************)
EXTENDS Persistence, TLAPS

\* Nothing is in memory when the process does not run.
Down ==
  process # "up" =>
    /\ session = [c \in Conn |-> "ended"]
    /\ row = [c \in Conn |-> NoRow]
    /\ stale = {}
    /\ saver = [s \in Saver |-> NotSaving]
    /\ forked = {}

Idle == \A s \in Saver : saver[s].phase # "saving" => saver[s].conns = {} /\ saver[s].rows = {}

Collectable == \A o \in Row \ Reachable : heap[o] = Blank
Owned == \A o \in Reachable : heap[o].player \in Player

Single == \A p \in Player \ forked : \A o1, o2 \in RowsOf(p) : o1 = o2
Ahead == \A p \in Player \ forked : \A o \in RowsOf(p) : db[p] <= heap[o].version

\* The exit's Save will still store o.
Pending(o) ==
  \/ /\ saver["exit"].phase = "called"
     /\ \E c \in Open : row[c] = o
  \/ /\ saver["exit"].phase = "saving"
     /\ \/ o \in saver["exit"].rows
        \/ \E c \in Open : c \in saver["exit"].conns /\ row[c] = o

OwedKept ==
  /\ \A p \in forked : owed[p] = 0
  /\ \A p \in Player : owed[p] > db[p] =>
       /\ process = "up"
       /\ p \notin forked
       /\ \E o \in RowsOf(p) : owed[p] <= heap[o].version /\ Pending(o)

Inv == /\ TypeOK /\ Down /\ Idle /\ Collectable /\ Owned
       /\ Single /\ Ahead /\ OwedKept

-----------------------------------------------------------------------------
(* What is reachable. *)

LEMMA InUseIff ==
  \A c : c \in InUse <=> c \in Alive \/ c \in stale \/ \E s \in Saver : c \in saver[s].conns
  BY DEF InUse

LEMMA InUseIffNext ==
  \A c : c \in InUse' <=> c \in Alive' \/ c \in stale' \/ \E s \in Saver : c \in saver'[s].conns
  BY DEF InUse

LEMMA ReachableIff ==
  \A o : o \in Reachable <=>
    o # NoRow /\ ((\E c \in InUse : row[c] = o) \/ \E s \in Saver : o \in saver[s].rows)
  BY DEF Reachable

LEMMA ReachableIffNext ==
  \A o : o \in Reachable' <=>
    o # NoRow /\ ((\E c \in InUse' : row'[c] = o) \/ \E s \in Saver : o \in saver'[s].rows)
  BY DEF Reachable

\* Nothing is reachable when nothing is in memory.
LEMMA NothingReachable ==
  ASSUME session = [c \in Conn |-> "ended"], stale = {}, saver = [s \in Saver |-> NotSaving]
  PROVE  Reachable = {}
<1>1. \A s \in Saver : saver[s].conns = {} /\ saver[s].rows = {}
  BY DEF NotSaving
<1>2. \A c : c \notin InUse
  BY <1>1, InUseIff DEF Alive
<1> QED
  BY <1>1, <1>2, ReachableIff

LEMMA NothingReachableNext ==
  ASSUME session' = [c \in Conn |-> "ended"], stale' = {}, saver' = [s \in Saver |-> NotSaving]
  PROVE  Reachable' = {}
<1>1. \A s \in Saver : saver'[s].conns = {} /\ saver'[s].rows = {}
  BY DEF NotSaving
<1>2. \A c : c \notin InUse'
  BY <1>1, InUseIffNext DEF Alive
<1> QED
  BY <1>1, <1>2, ReachableIffNext

LEMMA ReachableRows ==
  ASSUME Inv
  PROVE  /\ Reachable \subseteq Row
         /\ \A c \in Conn : (row[c] \in Row /\ c \in InUse) => row[c] \in Reachable
         /\ InUse \subseteq Conn
<1>1. InUse \subseteq Conn
  BY InUseIff DEF Inv, TypeOK, Alive
<1> QED
  BY <1>1, ReachableIff, PersistenceAssumption DEF Inv, TypeOK

\* The latest version is that of the one object in use, or the stored one.
LEMMA LatestIs ==
  ASSUME Inv, NEW p \in Player \ forked
  PROVE  /\ RowsOf(p) = {} => Latest(p) = db[p]
         /\ \A o \in RowsOf(p) : Latest(p) = heap[o].version
<1>1. RowsOf(p) = {} => Latest(p) = db[p]
  BY DEF Latest
<1>2. ASSUME NEW o \in RowsOf(p)
      PROVE  Latest(p) = heap[o].version
  <2> DEFINE q == CHOOSE x \in RowsOf(p) : TRUE
  <2>1. q \in RowsOf(p)
    BY <1>2
  <2>2. q = o
    BY <1>2, <2>1 DEF Inv, Single
  <2>3. Latest(p) = heap[q].version
    BY <1>2 DEF Latest
  <2> QED
    BY <2>2, <2>3
<1> QED
  BY <1>1, <1>2

LEMMA LatestIsNext ==
  ASSUME NEW p \in Player, \A o1, o2 \in RowsOf(p)' : o1 = o2
  PROVE  /\ RowsOf(p)' = {} => Latest(p)' = db'[p]
         /\ \A o \in RowsOf(p)' : Latest(p)' = heap'[o].version
<1>1. RowsOf(p)' = {} => Latest(p)' = db'[p]
  BY DEF Latest
<1>2. ASSUME NEW o \in RowsOf(p)'
      PROVE  Latest(p)' = heap'[o].version
  <2> DEFINE q == CHOOSE x \in RowsOf(p)' : TRUE
  <2>1. q \in RowsOf(p)'
    BY <1>2
  <2>2. q = o
    BY <1>2, <2>1
  <2>3. Latest(p)' = heap'[q].version
    BY <1>2 DEF Latest
  <2> QED
    BY <2>2, <2>3
<1> QED
  BY <1>1, <1>2

LEMMA InitInv == Init => Inv
<1> SUFFICES ASSUME Init
             PROVE  Inv
  OBVIOUS
<1>1. TypeOK /\ Down /\ Idle
  BY PersistenceAssumption DEF Init, TypeOK, Version, Blank, NotSaving, Down, Idle, Saver
<1>2. Reachable = {}
  BY NothingReachable DEF Init
<1>3. Collectable /\ Owned /\ Single /\ Ahead /\ OwedKept
  BY <1>2 DEF Init, Collectable, Owned, Single, Ahead, OwedKept, RowsOf
<1> QED
  BY <1>1, <1>3 DEF Inv

-----------------------------------------------------------------------------
(* Steps that store rows and drop objects, and change none. *)

LEMMA MemorySame ==
  ASSUME Inv, NEW E, Memory(heap, E), Reachable' \subseteq Reachable
  PROVE  /\ heap' = [o \in Row |-> IF o \in Reachable' THEN heap[o] ELSE Blank]
         /\ \A o \in Reachable' : heap'[o] = heap[o]
         /\ \A p : RowsOf(p)' = RowsOf(p) \cap Reachable'
         /\ forked' = forked
         /\ owed' = [p \in Player |-> IF p \in E \cup forked THEN 0 ELSE owed[p]]
<1> USE DEF Inv
<1>1. heap' = [o \in Row |-> IF o \in Reachable' THEN heap[o] ELSE Blank]
  BY DEF Memory
<1>2. \A o \in Reachable' : heap'[o] = heap[o]
  BY <1>1, ReachableRows
<1>3. \A p : RowsOf(p)' = RowsOf(p) \cap Reachable'
  BY <1>2 DEF RowsOf
<1>4. forked' = forked
  BY <1>3 DEF Memory, Single, TypeOK
<1>5. owed' = [p \in Player |-> IF p \in E \cup forked THEN 0 ELSE owed[p]]
  BY <1>4 DEF Memory
<1> QED
  BY <1>1, <1>2, <1>3, <1>4, <1>5

\* What a player has at the end of such a step is his latest version or the
\* stored one.
LEMMA SettleStep ==
  ASSUME Inv, NEW E, Memory(heap, E), Reachable' \subseteq Reachable,
         process = "up", process' = "up",
         session' \in [Conn -> {"open", "left", "late", "ended"}],
         row' \in [Conn -> Row \cup {NoRow}],
         stale' \in SUBSET Conn,
         saver' \in [Saver -> [phase : {"idle", "called", "saving"},
                               conns : SUBSET Conn, rows : SUBSET Row]],
         Idle',
         db' \in [Player -> Version],
         \A p \in Player \ forked : db'[p] = db[p] \/ \E o \in RowsOf(p) : db'[p] = heap[o].version,
         \A p \in Player \ (forked \cup E) : \A o \in RowsOf(p) :
           Pending(o) => Pending(o)' \/ db'[p] = heap[o].version
  PROVE  /\ Inv'
         /\ \E S, L \in SUBSET Player : Store!Settle(S, L)
<1> USE DEF Inv
<1>1. /\ heap' = [o \in Row |-> IF o \in Reachable' THEN heap[o] ELSE Blank]
      /\ \A o \in Reachable' : heap'[o] = heap[o]
      /\ \A p : RowsOf(p)' = RowsOf(p) \cap Reachable'
      /\ forked' = forked
      /\ owed' = [p \in Player |-> IF p \in E \cup forked THEN 0 ELSE owed[p]]
  BY MemorySame
<1>2. Blank \in [player : Player \cup {NoPlayer}, version : Version] /\ 0 \in Version
  BY PersistenceAssumption DEF Blank, Version
<1>3. TypeOK'
  BY <1>1, <1>2 DEF TypeOK
<1>4. Down' /\ Collectable' /\ Owned' /\ Single'
  BY <1>1 DEF Down, Collectable, Owned, Single
<1>5. \A p \in Player : db[p] \in Nat /\ db'[p] \in Nat
  BY DEF TypeOK, Version
<1>6. \A o \in Row : heap[o].version \in Nat
  BY DEF TypeOK, Version
<1>7. \A p : RowsOf(p) \subseteq Row
  BY ReachableRows DEF RowsOf
<1>8. Ahead'
  <2> SUFFICES ASSUME NEW p \in Player \ forked, NEW o \in RowsOf(p), o \in Reachable'
               PROVE  db'[p] <= heap[o].version
    BY <1>1 DEF Ahead
  <2>1. db[p] <= heap[o].version
    BY DEF Ahead
  <2>2. CASE db'[p] = db[p]
    BY <2>1, <2>2
  <2>3. ASSUME NEW q \in RowsOf(p), db'[p] = heap[q].version
        PROVE  db'[p] <= heap[o].version
    <3>1. q = o
      BY DEF Single
    <3> QED
      BY <1>6, <1>7, <2>3, <3>1
  <2> QED
    BY <2>2, <2>3
<1>9. OwedKept'
  <2> SUFFICES ASSUME NEW p \in Player, owed'[p] > db'[p]
               PROVE  /\ p \notin forked
                      /\ \E o \in RowsOf(p)' : owed'[p] <= heap'[o].version /\ Pending(o)'
    BY <1>1 DEF OwedKept, TypeOK
  <2>1. p \notin E \cup forked /\ owed'[p] = owed[p]
    BY <1>1, <1>5
  <2>2. owed[p] \in Nat
    BY DEF TypeOK, Version
  <2>3. db'[p] >= db[p]
    <3>1. CASE db'[p] = db[p]
      BY <1>5, <3>1
    <3>2. ASSUME NEW q \in RowsOf(p), db'[p] = heap[q].version
          PROVE  db'[p] >= db[p]
      BY <1>5, <2>1, <3>2 DEF Ahead
    <3> QED
      BY <2>1, <3>1, <3>2
  <2>4. owed[p] > db[p]
    BY <1>5, <2>1, <2>2, <2>3
  <2>5. PICK o \in RowsOf(p) : owed[p] <= heap[o].version /\ Pending(o)
    BY <2>4 DEF OwedKept
  <2>6. db'[p] # heap[o].version
    BY <1>5, <1>6, <1>7, <2>1, <2>2, <2>5
  <2>7. Pending(o)'
    BY <2>1, <2>5, <2>6
  <2>8. o \in Reachable'
    <3>1. o # NoRow
      BY <1>7, PersistenceAssumption
    <3>2. ASSUME NEW c \in Open', row'[c] = o
          PROVE  o \in Reachable'
      BY <3>1, <3>2, InUseIffNext, ReachableIffNext DEF Open, Alive
    <3>3. o \in saver'["exit"].rows => o \in Reachable'
      BY <3>1, ReachableIffNext DEF Saver
    <3> QED
      BY <2>7, <3>2, <3>3 DEF Pending
  <2> QED
    BY <1>1, <2>1, <2>5, <2>7, <2>8
<1>10. Inv'
  BY <1>3, <1>4, <1>8, <1>9
<1>11. \E S, L \in SUBSET Player : Store!Settle(S, L)
  <2>1. PICK S \in SUBSET Player : S = {p \in Player \ forked : db'[p] = Latest(p)}
    OBVIOUS
  <2>3. PICK L \in SUBSET Player : L = {p \in Player \ forked : p \notin S /\ RowsOf(p)' = {}}
    OBVIOUS
  <2>2. ASSUME NEW p \in Player \ forked
        PROVE  /\ db'[p] = IF p \in S THEN Latest(p) ELSE db[p]
               /\ Latest(p)' = IF p \in L THEN db[p] ELSE Latest(p)
    <3>1. db'[p] = IF p \in S THEN Latest(p) ELSE db[p]
      BY <2>1, LatestIs
    <3>2. CASE RowsOf(p)' = {}
      <4>1. Latest(p)' = db'[p]
        BY <3>2 DEF Latest
      <4> QED
        BY <2>3, <3>1, <3>2, <4>1
    <3>3. CASE RowsOf(p)' # {}
      <4>1. PICK o \in RowsOf(p)' : TRUE
        BY <3>3
      <4>2. \A o1, o2 \in RowsOf(p)' : o1 = o2
        BY <1>1 DEF Single
      <4>3. Latest(p)' = heap'[o].version
        BY <4>1, <4>2, LatestIsNext
      <4>4. Latest(p) = heap[o].version
        BY <1>1, <4>1, LatestIs
      <4>5. heap'[o] = heap[o]
        BY <1>1, <4>1
      <4>6. p \notin L
        BY <2>3, <3>3
      <4> QED
        BY <3>1, <4>3, <4>4, <4>5, <4>6
    <3> QED
      BY <3>1, <3>2, <3>3
  <2>4. S \cap L = {} /\ S \cap forked = {} /\ L \cap forked = {}
    BY <2>1, <2>3
  <2>5. Store!Settle(S, L)
    BY <1>1, <2>2, <2>4 DEF Store!Settle
  <2> QED
    BY <2>5
<1> QED
  BY <1>10, <1>11

-----------------------------------------------------------------------------
(* What is shown of every step. *)

Forward == \A p \in Player \ forked : db'[p] >= db[p]
Sound == Inv' /\ (Store!Next \/ UNCHANGED Store!storeVars) /\ Forward

\* Whatever is stored of players who are not forked is not older.
LEMMA StoredForward ==
  ASSUME Inv, db' \in [Player -> Version],
         \A p \in Player \ forked : db'[p] = db[p] \/ \E o \in RowsOf(p) : db'[p] = heap[o].version
  PROVE  Forward
<1> SUFFICES ASSUME NEW p \in Player \ forked
             PROVE  db'[p] >= db[p]
  BY DEF Forward
<1>1. db[p] \in Nat /\ db'[p] \in Nat
  BY DEF Inv, TypeOK, Version
<1>2. ASSUME NEW o \in RowsOf(p), db'[p] = heap[o].version
      PROVE  db'[p] >= db[p]
  BY <1>1, <1>2 DEF Inv, Ahead
<1> QED
  BY <1>1, <1>2

LEMMA SettleSound ==
  ASSUME Inv, NEW E, Memory(heap, E), Reachable' \subseteq Reachable,
         process = "up", process' = "up",
         session' \in [Conn -> {"open", "left", "late", "ended"}],
         row' \in [Conn -> Row \cup {NoRow}],
         stale' \in SUBSET Conn,
         saver' \in [Saver -> [phase : {"idle", "called", "saving"},
                               conns : SUBSET Conn, rows : SUBSET Row]],
         Idle',
         db' \in [Player -> Version],
         \A p \in Player \ forked : db'[p] = db[p] \/ \E o \in RowsOf(p) : db'[p] = heap[o].version,
         \A p \in Player \ (forked \cup E) : \A o \in RowsOf(p) :
           Pending(o) => Pending(o)' \/ db'[p] = heap[o].version
  PROVE  Sound
<1>1. Inv' /\ \E S, L \in SUBSET Player : Store!Settle(S, L)
  BY SettleStep
<1>2. Forward
  BY StoredForward
<1>3. PICK S, L \in SUBSET Player : Store!Settle(S, L)
  BY <1>1
<1>4. Store!Next
  BY <1>3, Zenon DEF Store!Next
<1> QED
  BY <1>1, <1>2, <1>4 DEF Sound

\* Steps that leave memory alone.
LEMMA SameMemory ==
  ASSUME Inv, UNCHANGED <<session, row, heap, stale, forked>>, Reachable' = Reachable,
         process' \in {"down", "seeding", "up", "stopped"},
         saver' \in [Saver -> [phase : {"idle", "called", "saving"},
                               conns : SUBSET Conn, rows : SUBSET Row]],
         Down', Idle',
         db' \in [Player -> Version],
         \A p \in Player \ forked : \A o \in RowsOf(p) : db'[p] = db[p],
         owed' \in [Player -> Version], OwedKept'
  PROVE  /\ Inv'
         /\ \A p \in Player \ forked : Latest(p)' = IF RowsOf(p) = {} THEN db'[p] ELSE Latest(p)
<1> USE DEF Inv
<1>2. \A p : RowsOf(p)' = RowsOf(p)
  BY DEF RowsOf
<1>3. TypeOK'
  BY DEF TypeOK
<1>4. Collectable' /\ Owned' /\ Single'
  BY <1>2 DEF Collectable, Owned, Single
<1>5. Ahead'
  BY <1>2 DEF Ahead
<1>6. ASSUME NEW p \in Player \ forked
      PROVE  Latest(p)' = IF RowsOf(p) = {} THEN db'[p] ELSE Latest(p)
  <2>1. CASE RowsOf(p) = {}
    BY <1>2, <2>1 DEF Latest
  <2>2. CASE RowsOf(p) # {}
    <3>1. PICK o \in RowsOf(p) : TRUE
      BY <2>2
    <3>2. Latest(p) = heap[o].version
      BY <3>1, LatestIs
    <3>3. Latest(p)' = heap'[o].version
      BY <1>2, <3>1, LatestIsNext DEF Single
    <3> QED
      BY <2>2, <3>2, <3>3
  <2> QED
    BY <2>1, <2>2
<1> QED
  BY <1>3, <1>4, <1>5, <1>6

LEMMA QuietStep ==
  ASSUME Inv, Start \/ Serve \/ Signal \/ UNCHANGED vars
  PROVE  Sound
<1> USE DEF Inv
<1>0. 0 \in Version
  BY PersistenceAssumption DEF Version
<1>1. /\ UNCHANGED <<session, row, heap, stale, db, forked>>
      /\ db' \in [Player -> Version]
  BY DEF Start, Serve, Signal, vars, TypeOK
<1>2. \A p \in Player : db[p] \in Nat /\ owed[p] \in Nat
  BY DEF TypeOK, Version
<1>3. Inv' /\ \A p \in Player \ forked : Latest(p)' = Latest(p)
  <2>1. CASE Start \/ Serve \/ UNCHANGED vars
    <3>1. Reachable' = Reachable
      BY <2>1 DEF Start, Serve, vars, Reachable, InUse, Alive
    <3>2. Down' /\ Idle'
      BY <2>1 DEF Start, Serve, vars, Down, Idle
    <3>3. owed' \in [Player -> Version]
      BY <1>0, <2>1 DEF Start, Serve, vars, TypeOK
    <3>4. OwedKept'
      <4>1. CASE Start \/ Serve
        BY <1>1, <1>2, <4>1 DEF Start, Serve, OwedKept, TypeOK
      <4>2. CASE UNCHANGED vars
        BY <3>1, <4>2 DEF vars, OwedKept, RowsOf, Pending, Open
      <4> QED
        BY <2>1, <4>1, <4>2
    <3>5. process' \in {"down", "seeding", "up", "stopped"}
      BY <2>1 DEF Start, Serve, vars, TypeOK
    <3>6. saver' = saver
      BY <2>1 DEF Start, Serve, vars
    <3> QED
      BY <1>1, <3>1, <3>2, <3>3, <3>4, <3>5, <3>6, SameMemory, LatestIs DEF TypeOK
  <2>2. CASE Signal
    <3>1. /\ process = "up" /\ process' = "up" /\ saver["exit"].phase = "idle"
          /\ saver' = [saver EXCEPT !["exit"].phase = "called"]
          /\ owed' = [p \in Player |-> IF Connected(p) /\ p \notin forked THEN Latest(p) ELSE 0]
      BY <2>2 DEF Signal
    <3>2. \A s \in Saver : /\ saver'[s].conns = saver[s].conns /\ saver'[s].rows = saver[s].rows
                           /\ saver'[s].phase = IF s = "exit" THEN "called" ELSE saver[s].phase
      BY <3>1 DEF TypeOK, Saver
    <3>3. saver' \in [Saver -> [phase : {"idle", "called", "saving"},
                                conns : SUBSET Conn, rows : SUBSET Row]]
      BY <3>1 DEF TypeOK, Saver
    <3>4. Reachable' = Reachable
      <4>1. \A c : c \in InUse' <=> c \in InUse
        BY <1>1, <3>2, InUseIff, InUseIffNext DEF Alive
      <4>2. \A o : o \in Reachable' <=> o \in Reachable
        BY <1>1, <3>2, <4>1, ReachableIff, ReachableIffNext
      <4> QED
        BY <4>2
    <3>5. Down' /\ Idle'
      BY <3>1, <3>2 DEF Down, Idle
    <3>6. ASSUME NEW p \in Player \ forked, Connected(p)
          PROVE  \E o \in RowsOf(p) : /\ owed'[p] = heap[o].version
                                     /\ \E c \in Open : row[c] = o
      <4>1. PICK c \in Open : row[c] # NoRow /\ heap[row[c]].player = p
        BY <3>6 DEF Connected
      <4>2. row[c] \in RowsOf(p)
        BY <4>1, InUseIff, ReachableIff DEF RowsOf, Open, Alive
      <4> QED
        BY <3>1, <3>6, <4>1, <4>2, LatestIs
    <3>7. ASSUME NEW p \in Player
          PROVE  owed'[p] \in Version
      <4>1. CASE Connected(p) /\ p \notin forked
        <5>1. PICK o \in RowsOf(p) : owed'[p] = heap[o].version
          BY <3>6, <4>1
        <5> QED
          BY <5>1, ReachableRows DEF RowsOf, TypeOK
      <4> QED
        BY <1>0, <3>1, <4>1
    <3>8. owed' \in [Player -> Version]
      BY <3>1, <3>7
    <3>9. OwedKept'
      <4> SUFFICES ASSUME NEW p \in Player, owed'[p] > db'[p]
                   PROVE  /\ p \notin forked
                          /\ \E o \in RowsOf(p)' : owed'[p] <= heap'[o].version /\ Pending(o)'
        BY <1>1, <3>1 DEF OwedKept, TypeOK
      <4>1. Connected(p) /\ p \notin forked
        BY <1>1, <1>2, <3>1
      <4>2. PICK o \in RowsOf(p) : owed'[p] = heap[o].version /\ \E c \in Open : row[c] = o
        BY <3>6, <4>1
      <4>3. o \in RowsOf(p)'
        BY <1>1, <3>4, <4>2 DEF RowsOf
      <4>4. Pending(o)'
        BY <1>1, <3>2, <4>2 DEF Pending, Open, Saver
      <4>5. owed'[p] \in Nat
        BY <3>7 DEF Version
      <4> QED
        BY <1>1, <4>1, <4>2, <4>3, <4>4, <4>5
    <3> QED
      BY <1>1, <3>1, <3>3, <3>4, <3>5, <3>8, <3>9, SameMemory, LatestIs
  <2> QED
    BY <2>1, <2>2
<1>4. Forward
  BY <1>1, <1>2 DEF Forward
<1>5. UNCHANGED Store!storeVars
  BY <1>1, <1>3 DEF Store!storeVars
<1> QED
  BY <1>3, <1>4, <1>5 DEF Sound

LEMMA SeedStep ==
  ASSUME Inv, NEW p \in Player, Seed(p)
  PROVE  Sound
<1> USE DEF Inv
<1>1. /\ process = "seeding" /\ db[p] = 0 /\ db' = [db EXCEPT ![p] = 1]
      /\ UNCHANGED <<process, session, row, heap, stale, saver, forked, owed>>
  BY DEF Seed
<1>2. Reachable = {} /\ forked = {}
  BY <1>1, NothingReachable DEF Down
<1>3. \A q : RowsOf(q) = {}
  BY <1>2 DEF RowsOf
<1>4. 1 \in Version
  BY PersistenceAssumption DEF Version
<1>5. db' \in [Player -> Version]
  BY <1>1, <1>4 DEF TypeOK
<1>6. \A q \in Player : db[q] \in Nat /\ db'[q] \in Nat /\ db'[q] >= db[q] /\ owed[q] \in Nat
  BY <1>1, <1>4 DEF TypeOK, Version
<1>7. Reachable' = Reachable
  BY <1>1 DEF Reachable, InUse, Alive
<1>8. Down' /\ Idle' /\ OwedKept'
  BY <1>1, <1>6 DEF Down, Idle, OwedKept
<1>9. Inv' /\ \A q \in Player : Latest(q)' = db'[q] /\ Latest(q) = db[q]
  <2>1. Inv' /\ \A q \in Player \ forked : Latest(q)' = IF RowsOf(q) = {} THEN db'[q] ELSE Latest(q)
    BY <1>1, <1>3, <1>5, <1>7, <1>8, SameMemory DEF TypeOK
  <2> QED
    BY <1>2, <1>3, <2>1, LatestIs
<1>10. Store!Create(p)
  BY <1>1, <1>2, <1>9 DEF Store!Create, TypeOK
<1>11. Store!Next
  BY <1>10, Zenon DEF Store!Next
<1> QED
  BY <1>6, <1>9, <1>11 DEF Sound, Forward

-----------------------------------------------------------------------------
(* The process ends, or a Save does. *)

LEMMA EndStep ==
  ASSUME Inv, Forget, process' \in {"down", "stopped"},
         db' \in [Player -> Version],
         \A p \in Player \ forked : db'[p] = db[p] \/ \E o \in RowsOf(p) : db'[p] = heap[o].version,
         owed' \in [Player -> Version],
         \A p \in Player : owed'[p] <= db'[p]
  PROVE  Sound
<1> USE DEF Inv
<1>1. Reachable' = {}
  BY NothingReachableNext DEF Forget
<1>2. \A p : RowsOf(p)' = {}
  BY <1>1 DEF RowsOf
<1>3. \A p : Latest(p)' = db'[p]
  BY <1>2 DEF Latest
<1>4. TypeOK'
  BY PersistenceAssumption DEF TypeOK, Forget, NotSaving, Blank, Version
<1>5. Down' /\ Idle'
  BY DEF Down, Idle, Forget, NotSaving
<1>6. Collectable' /\ Owned' /\ Single' /\ Ahead'
  BY <1>1, <1>2 DEF Collectable, Owned, Single, Ahead, Forget
<1>7. OwedKept'
  <2>1. \A p \in Player : owed'[p] \in Nat /\ db'[p] \in Nat
    BY DEF Version
  <2> QED
    BY <2>1 DEF OwedKept, Forget
<1>8. Forward
  BY StoredForward
<1>9. PICK S \in SUBSET Player : S = {p \in Player \ forked : db'[p] = Latest(p)}
  OBVIOUS
<1>10. ASSUME NEW p \in Player \ forked
       PROVE  db'[p] = IF p \in S THEN Latest(p) ELSE db[p]
  BY <1>9, LatestIs
<1>11. forked' = {}
  BY DEF Forget
<1>12. Store!End(S)
  BY <1>3, <1>10, <1>11 DEF Store!End
<1>13. Store!Next
  BY <1>12, Zenon DEF Store!Next
<1> QED
  BY <1>4, <1>5, <1>6, <1>7, <1>8, <1>13 DEF Sound

LEMMA CrashStep ==
  ASSUME Inv, Crash
  PROVE  Sound
<1> USE DEF Inv
<1>1. owed' = [p \in Player |-> 0] /\ db' = db /\ db \in [Player -> Version]
  BY DEF Crash, TypeOK
<1>2. owed' \in [Player -> Version] /\ \A p \in Player : owed'[p] <= db'[p]
  BY <1>1, PersistenceAssumption DEF Version
<1> QED
  BY <1>1, <1>2, EndStep DEF Crash

LEMMA ReturnStep ==
  ASSUME Inv, NEW s \in Saver, AtCommit(s), NEW X, SaveReturn(s, X),
         db' \in [Player -> Version],
         \A p \in Player \ forked : db'[p] = db[p] \/ \E o \in RowsOf(p) : db'[p] = heap[o].version,
         \A p \in Player \ (forked \cup X) : \A o \in RowsOf(p) :
           o \in saver[s].rows => db'[p] = heap[o].version
  PROVE  Sound
<1> USE DEF Inv
<1>1. process = "up" /\ saver[s].phase = "saving" /\ saver[s].conns = {}
  BY DEF AtCommit
<1>2. CASE s = "exit"
  <2>1. /\ process' = "stopped" /\ Forget
        /\ owed' = [p \in Player |-> IF p \in X THEN 0 ELSE owed[p]]
    BY <1>2 DEF SaveReturn
  <2>2. \A p \in Player : owed[p] \in Nat /\ db[p] \in Nat /\ db'[p] \in Nat
    BY DEF TypeOK, Version
  <2>3. owed' \in [Player -> Version]
    BY <2>1, PersistenceAssumption DEF TypeOK, Version
  <2>4. ASSUME NEW p \in Player
        PROVE  owed'[p] <= db'[p]
    <3>1. CASE p \in X
      BY <2>1, <2>2, <3>1
    <3>2. CASE p \notin X /\ owed[p] > db[p]
      <4>1. p \notin forked
        BY <3>2 DEF OwedKept
      <4>2. PICK o \in RowsOf(p) : owed[p] <= heap[o].version /\ Pending(o)
        BY <3>2 DEF OwedKept
      <4>3. o \in saver[s].rows
        BY <1>1, <1>2, <4>2 DEF Pending
      <4>4. db'[p] = heap[o].version
        BY <3>2, <4>1, <4>3
      <4> QED
        BY <2>1, <3>2, <4>2, <4>4
    <3>3. CASE p \notin X /\ ~(owed[p] > db[p])
      <4>1. owed'[p] = owed[p] /\ owed[p] <= db[p]
        BY <2>1, <2>2, <3>3
      <4>2. CASE p \notin forked
        <5>1. Forward
          BY StoredForward
        <5> QED
          BY <2>2, <4>1, <4>2, <5>1 DEF Forward
      <4>3. CASE p \in forked
        <5>1. owed[p] = 0
          BY <4>3 DEF OwedKept
        <5> QED
          BY <2>2, <4>1, <5>1
      <4> QED
        BY <4>2, <4>3
    <3> QED
      BY <3>1, <3>2, <3>3
  <2> QED
    BY <2>1, <2>3, <2>4, EndStep
<1>3. CASE s # "exit"
  <2>1. /\ saver' = [saver EXCEPT ![s] = NotSaving]
        /\ UNCHANGED <<process, session, row, stale>>
        /\ Memory(heap, X)
    BY <1>3 DEF SaveReturn
  <2>2. /\ saver'[s].phase = "idle" /\ saver'[s].conns = {} /\ saver'[s].rows = {}
        /\ \A r \in Saver : r # s => saver'[r] = saver[r]
    BY <2>1 DEF TypeOK, NotSaving
  <2>3. saver' \in [Saver -> [phase : {"idle", "called", "saving"},
                              conns : SUBSET Conn, rows : SUBSET Row]]
    BY <2>1 DEF TypeOK, NotSaving
  <2>4. Reachable' \subseteq Reachable
    <3>1. \A c : c \in InUse' => c \in InUse
      BY <2>1, <2>2, InUseIff, InUseIffNext DEF Alive
    <3> QED
      BY <2>1, <2>2, <3>1, ReachableIff, ReachableIffNext
  <2>5. Idle'
    BY <2>2 DEF Idle
  <2>6. \A o : Pending(o) => Pending(o)'
    BY <1>3, <2>1, <2>2 DEF Pending, Open, Saver
  <2> QED
    BY <1>1, <2>1, <2>3, <2>4, <2>5, <2>6, SettleSound DEF TypeOK
<1> QED
  BY <1>2, <1>3

LEMMA SaverRows ==
  ASSUME Inv, NEW s \in Saver
  PROVE  /\ saver[s].rows \subseteq Reachable
         /\ \A o \in saver[s].rows : heap[o].player \in Player /\ o \in RowsOf(heap[o].player)
<1>1. saver[s].rows \subseteq Row
  BY DEF Inv, TypeOK
<1>2. saver[s].rows \subseteq Reachable
  BY <1>1, ReachableIff, PersistenceAssumption
<1> QED
  BY <1>2 DEF Inv, Owned, RowsOf

LEMMA SkipStep ==
  ASSUME Inv, NEW s \in Saver, SkipSave(s)
  PROVE  Sound
  BY ReturnStep DEF SkipSave, NothingToSave, Inv, TypeOK

LEMMA LoseStep ==
  ASSUME Inv, NEW s \in Saver, LoseBatch(s)
  PROVE  Sound
<1>1. \A p, o : o \in RowsOf(p) /\ o \in saver[s].rows => p \in PlayersOf(saver[s].rows)
  BY DEF RowsOf, PlayersOf
<1> QED
  BY <1>1, ReturnStep DEF LoseBatch, Inv, TypeOK

LEMMA StoreStep ==
  ASSUME Inv, NEW s \in Saver, StoreBatch(s)
  PROVE  Sound
<1> USE DEF Inv
<1> DEFINE R == saver[s].rows
           Chosen(p) == CHOOSE o \in R : heap[o].player = p
<1>1. /\ db' = [p \in Player |-> IF p \in PlayersOf(R) THEN heap[Chosen(p)].version ELSE db[p]]
      /\ \A o1, o2 \in R : heap[o1].player = heap[o2].player => o1 = o2
      /\ AtCommit(s) /\ SaveReturn(s, {})
  BY DEF StoreBatch
<1>2. ASSUME NEW p \in PlayersOf(R)
      PROVE  Chosen(p) \in R /\ heap[Chosen(p)].player = p
  <2>1. PICK o \in R : heap[o].player = p
    BY DEF PlayersOf
  <2> QED
    BY <2>1
<1> HIDE DEF Chosen
<1>3. ASSUME NEW p \in Player
      PROVE  db'[p] = IF p \in PlayersOf(R) THEN heap[Chosen(p)].version ELSE db[p]
  BY <1>1
<1>4. db' \in [Player -> Version]
  <2>1. \A p \in Player : db'[p] \in Version
    BY <1>2, <1>3, SaverRows, ReachableRows DEF TypeOK
  <2> QED
    BY <1>1, <2>1
<1>5. \A p \in Player \ forked : db'[p] = db[p] \/ \E o \in RowsOf(p) : db'[p] = heap[o].version
  BY <1>2, <1>3, SaverRows
<1>6. ASSUME NEW p \in Player \ forked, NEW o \in RowsOf(p), o \in R
      PROVE  db'[p] = heap[o].version
  <2>1. p \in PlayersOf(R)
    BY <1>6 DEF PlayersOf, RowsOf
  <2>2. Chosen(p) = o
    BY <1>1, <1>2, <1>6, <2>1 DEF RowsOf
  <2> QED
    BY <1>3, <2>1, <2>2
<1> QED
  BY <1>1, <1>4, <1>5, <1>6, ReturnStep

LEMMA SaveCopyStep ==
  ASSUME Inv, NEW s \in Saver, SaveCopy(s)
  PROVE  Sound
<1> USE DEF Inv
<1>1. /\ process = "up"
      /\ saver[s].phase = IF s = "auto" THEN "idle" ELSE "called"
      /\ saver' = [saver EXCEPT ![s] = [phase |-> "saving", conns |-> Open, rows |-> {}]]
      /\ UNCHANGED <<process, session, row, stale, db>>
      /\ Memory(heap, {})
  BY DEF SaveCopy
<1>2. /\ saver'[s].phase = "saving" /\ saver'[s].conns = Open /\ saver'[s].rows = {}
      /\ \A r \in Saver : r # s => saver'[r] = saver[r]
  BY <1>1 DEF TypeOK
<1>3. saver' \in [Saver -> [phase : {"idle", "called", "saving"},
                            conns : SUBSET Conn, rows : SUBSET Row]]
  BY <1>1 DEF TypeOK, Open
<1>4. Reachable' \subseteq Reachable
  <2>1. \A c : c \in InUse' => c \in InUse
    BY <1>1, <1>2, InUseIff, InUseIffNext DEF Alive, Open
  <2> QED
    BY <1>1, <1>2, <2>1, ReachableIff, ReachableIffNext
<1>5. Idle'
  BY <1>2 DEF Idle
<1>6. \A o : Pending(o) => Pending(o)'
  BY <1>1, <1>2 DEF Pending, Open, Saver
<1> QED
  BY <1>1, <1>3, <1>4, <1>5, <1>6, SettleSound DEF TypeOK

LEMMA SaveCollectStep ==
  ASSUME Inv, NEW s \in Saver, NEW c \in Conn, SaveCollect(s, c)
  PROVE  Sound
<1> USE DEF Inv
<1>1. /\ process = "up"
      /\ c \in saver[s].conns
      /\ saver' = [saver EXCEPT ![s].conns = @ \ {c}, ![s].rows = @ \cup Collected(c)]
      /\ UNCHANGED <<process, session, row, stale, db>>
      /\ Memory(heap, {})
  BY DEF SaveCollect
<1>2. /\ saver'[s].phase = saver[s].phase
      /\ saver'[s].conns = saver[s].conns \ {c}
      /\ saver'[s].rows = saver[s].rows \cup ({row[c]} \ {NoRow})
      /\ \A r \in Saver : r # s => saver'[r] = saver[r]
  BY <1>1 DEF TypeOK, Collected
<1>3. saver' \in [Saver -> [phase : {"idle", "called", "saving"},
                            conns : SUBSET Conn, rows : SUBSET Row]]
  <2>1. /\ saver[s].conns \ {c} \in SUBSET Conn
        /\ saver[s].rows \cup Collected(c) \in SUBSET Row
    BY DEF TypeOK, Collected
  <2> HIDE DEF Inv
  <2>2. saver \in [Saver -> [phase : {"idle", "called", "saving"},
                             conns : SUBSET Conn, rows : SUBSET Row]]
    BY DEF Inv, TypeOK
  <2> QED
    BY <1>1, <2>1, <2>2
<1>4. c \in InUse
  BY <1>1, InUseIff
<1>5. Reachable' \subseteq Reachable
  <2>1. \A d : d \in InUse' => d \in InUse
    BY <1>1, <1>2, InUseIff, InUseIffNext DEF Alive
  <2>2. \A r \in Saver : \A o : o \in saver'[r].rows => o \in saver[r].rows \/ (o = row[c] /\ o # NoRow)
    BY <1>2
  <2> QED
    BY <1>1, <1>4, <2>1, <2>2, ReachableIff, ReachableIffNext
<1>6. Idle'
  BY <1>1, <1>2 DEF Idle
<1>7. ASSUME NEW p \in Player, NEW o \in RowsOf(p), Pending(o)
      PROVE  Pending(o)'
  <2>1. o # NoRow
    BY ReachableIff DEF RowsOf
  <2> QED
    BY <1>1, <1>2, <1>7, <2>1 DEF Pending, Open, Saver
<1> QED
  BY <1>1, <1>3, <1>5, <1>6, <1>7, SettleSound DEF TypeOK

-----------------------------------------------------------------------------
(* Sessions. *)

LEMMA AcceptStep ==
  ASSUME Inv, NEW c \in Conn, Accept(c)
  PROVE  Sound
<1> USE DEF Inv
<1>1. /\ process = "up" /\ c \notin InUse
      /\ session' = [session EXCEPT ![c] = "open"]
      /\ row' = [row EXCEPT ![c] = NoRow]
      /\ UNCHANGED <<process, stale, saver, db>>
      /\ Memory(heap, {})
  BY DEF Accept
<1>2. /\ row'[c] = NoRow
      /\ \A d \in Conn : d # c => session'[d] = session[d] /\ row'[d] = row[d]
  BY <1>1 DEF TypeOK
<1>3. Reachable' \subseteq Reachable
  <2>1. \A d : d \in InUse' => d \in Conn /\ (d = c \/ d \in InUse)
    BY <1>1, <1>2, InUseIff, InUseIffNext DEF Alive, TypeOK
  <2> QED
    BY <1>1, <1>2, <2>1, ReachableIff, ReachableIffNext
<1>4. \A o : Pending(o) => Pending(o)'
  BY <1>1, <1>2, InUseIff DEF Pending, Open, Alive
<1> QED
  BY <1>1, <1>3, <1>4, SettleSound DEF TypeOK, Idle

LEMMA SweepScanStep ==
  ASSUME Inv, SweepScan
  PROVE  Sound
<1> USE DEF Inv
<1>1. /\ process = "up"
      /\ stale' \subseteq Open
      /\ UNCHANGED <<process, session, row, saver, db>>
      /\ Memory(heap, {})
  BY DEF SweepScan
<1>2. Reachable' \subseteq Reachable
  <2>1. \A c : c \in InUse' => c \in InUse
    BY <1>1, InUseIff, InUseIffNext DEF Alive, Open
  <2> QED
    BY <1>1, <2>1, ReachableIff, ReachableIffNext
<1>3. \A o : Pending(o) => Pending(o)'
  BY <1>1 DEF Pending, Open
<1> QED
  BY <1>1, <1>2, <1>3, SettleSound DEF TypeOK, Idle, Open

\* Connections leave and their rows are saved, or excused.
LEMMA LeaveStep ==
  ASSUME Inv, process = "up", NEW S \in SUBSET InUse,
         NEW Kept \in SUBSET Holding(S), SaveRows(S, Kept),
         UNCHANGED <<process, row, saver>>,
         session' \in [Conn -> {"open", "left", "late", "ended"}],
         stale' \subseteq stale,
         \A c \in Conn : session'[c] = session[c] \/ (c \in S /\ session[c] # "ended")
  PROVE  Sound
<1> USE DEF Inv
<1> DEFINE E == PlayersOf({row[c] : c \in S \ Kept} \ {NoRow})
           Written(p) == {heap[o].version : o \in {row[c] : c \in Kept} \cap RowsOf(p)}
<1>1. /\ db' \in [Player -> Version]
      /\ \A p \in Player : IF Written(p) = {} THEN db'[p] = db[p] ELSE db'[p] \in Written(p)
      /\ Memory(heap, E)
  BY DEF SaveRows
<1>2. Reachable' \subseteq Reachable
  <2>1. \A c : c \in InUse' => c \in InUse
    BY InUseIff, InUseIffNext, ReachableRows DEF Alive
  <2> QED
    BY <2>1, ReachableIff, ReachableIffNext
<1>3. \A p \in Player \ forked : db'[p] = db[p] \/ \E o \in RowsOf(p) : db'[p] = heap[o].version
  BY <1>1
<1>4. ASSUME NEW p \in Player \ (forked \cup E), NEW o \in RowsOf(p), Pending(o)
      PROVE  Pending(o)' \/ db'[p] = heap[o].version
  <2>1. o # NoRow /\ heap[o].player = p
    BY ReachableIff DEF RowsOf
  <2>2. CASE \E c \in S : row[c] = o
    <3>1. PICK c \in S : row[c] = o
      BY <2>2
    <3>2. c \in Kept
      BY <2>1, <3>1 DEF PlayersOf
    <3>3. heap[o].version \in Written(p)
      BY <3>1, <3>2
    <3>4. \A v \in Written(p) : v = heap[o].version
      BY DEF Single
    <3> QED
      BY <1>1, <3>3, <3>4
  <2>3. CASE \A c \in S : row[c] # o
    BY <1>4, <2>3 DEF Pending, Open
  <2> QED
    BY <2>2, <2>3
<1> HIDE DEF E
<1> QED
  BY <1>1, <1>2, <1>3, <1>4, SettleSound DEF TypeOK, Idle

LEMMA DisconnectStep ==
  ASSUME Inv, NEW c \in Conn, DisconnectMessage(c) \/ EndOfStream(c)
  PROVE  Sound
<1> USE DEF Inv
<1>1. {c} \in SUBSET InUse
  BY InUseIff DEF DisconnectMessage, EndOfStream, Alive
<1>2. PICK Kept \in SUBSET Holding({c}) : SaveRows({c}, Kept)
  BY DEF DisconnectMessage, EndOfStream
<1>3. /\ process = "up" /\ UNCHANGED <<process, row, saver, stale>>
      /\ session' \in [Conn -> {"open", "left", "late", "ended"}]
      /\ \A d \in Conn : session'[d] = session[d] \/ (d \in {c} /\ session[d] # "ended")
  BY DEF DisconnectMessage, EndOfStream, TypeOK, Alive
<1> QED
  BY <1>1, <1>2, <1>3, LeaveStep

LEMMA SweepRemoveStep ==
  ASSUME Inv, SweepRemove
  PROVE  Sound
<1> USE DEF Inv
<1>1. stale \in SUBSET InUse /\ stale \subseteq Conn
  BY InUseIff DEF TypeOK
<1>2. PICK Kept \in SUBSET Holding(stale) : SaveRows(stale, Kept)
  BY DEF SweepRemove
<1>3. /\ process = "up" /\ UNCHANGED <<process, row, saver>> /\ stale' = {}
      /\ session' = [c \in Conn |-> IF c \in stale /\ session[c] = "open" THEN "left" ELSE session[c]]
  BY DEF SweepRemove
<1>4. /\ session' \in [Conn -> {"open", "left", "late", "ended"}]
      /\ \A d \in Conn : session'[d] = session[d] \/ (d \in stale /\ session[d] # "ended")
  BY <1>3 DEF TypeOK
<1> QED
  BY <1>1, <1>2, <1>3, <1>4, LeaveStep

LEMMA HandlersEndStep ==
  ASSUME Inv, NEW c \in Conn, HandlersEnd(c)
  PROVE  Sound
<1> USE DEF Inv
<1>1. /\ process = "up" /\ session[c] = "late"
      /\ session' = [session EXCEPT ![c] = "ended"]
      /\ UNCHANGED <<process, row, stale, saver, db>>
      /\ Memory(heap, {})
  BY DEF HandlersEnd
<1>2. session'[c] = "ended" /\ \A d \in Conn : d # c => session'[d] = session[d]
  BY <1>1 DEF TypeOK
<1>3. Reachable' \subseteq Reachable
  <2>1. \A d : d \in InUse' => d \in InUse
    BY <1>1, <1>2, InUseIff, InUseIffNext DEF Alive
  <2> QED
    BY <1>1, <2>1, ReachableIff, ReachableIffNext
<1>4. \A o : Pending(o) => Pending(o)'
  BY <1>1, <1>2 DEF Pending, Open
<1> QED
  BY <1>1, <1>3, <1>4, SettleSound DEF TypeOK, Idle

LEMMA LoadNothingStep ==
  ASSUME Inv, NEW c \in Conn, LoadNothing(c)
  PROVE  Sound
<1> USE DEF Inv
<1>1. /\ process = "up" /\ c \in Alive
      /\ row' = [row EXCEPT ![c] = NoRow]
      /\ UNCHANGED <<process, session, stale, saver, db>>
      /\ Memory(heap, Drops(c))
  BY DEF LoadNothing
<1>2. row'[c] = NoRow /\ \A d \in Conn : d # c => row'[d] = row[d]
  BY <1>1 DEF TypeOK
<1>3. Reachable' \subseteq Reachable
  <2>1. \A d : d \in InUse' => d \in Conn /\ d \in InUse
    BY <1>1, InUseIff, InUseIffNext, ReachableRows DEF Alive
  <2> QED
    BY <1>1, <1>2, <2>1, ReachableIff, ReachableIffNext
<1>4. ASSUME NEW p \in Player \ (forked \cup Drops(c)), NEW o \in RowsOf(p), Pending(o)
      PROVE  Pending(o)'
  <2>1. o # NoRow /\ heap[o].player = p
    BY ReachableIff DEF RowsOf
  <2>2. row[c] # o
    BY <2>1 DEF Drops
  <2> QED
    BY <1>1, <1>2, <1>4, <2>2 DEF Pending, Open
<1> QED
  BY <1>1, <1>3, <1>4, SettleSound DEF TypeOK, Idle

LEMMA PlayStep ==
  ASSUME Inv, NEW o \in Row, Play(o)
  PROVE  Sound
<1> USE DEF Inv
<1> DEFINE p == heap[o].player
           h == [heap EXCEPT ![o].version = @ + 1]
<1>1. /\ process = "up" /\ o \in Reachable /\ heap[o].version < MaxVersion
      /\ UNCHANGED <<process, session, row, stale, saver, db>>
      /\ Memory(h, {})
  BY DEF Play
<1>2. o \in Reachable /\ o \in Row /\ p \in Player
  BY <1>1 DEF Owned
<1>3. Reachable' = Reachable
  BY <1>1 DEF Reachable, InUse, Alive
<1>4. /\ h \in [Row -> [player : Player \cup {NoPlayer}, version : Version]]
      /\ h[o].version = heap[o].version + 1 /\ h[o].player = p
      /\ \A x \in Row : x # o => h[x] = heap[x]
  <2>1. heap[o].version + 1 \in Version
    BY <1>1, <1>2, PersistenceAssumption DEF TypeOK, Version
  <2> QED
    BY <1>2, <2>1 DEF TypeOK
<1> HIDE DEF h
<1>5. /\ heap' = h
      /\ \A x \in Reachable : heap'[x] = h[x]
  <2>1. heap' = [x \in Row |-> IF x \in Reachable THEN h[x] ELSE Blank]
    BY <1>1, <1>3 DEF Memory
  <2>2. \A x \in Row : heap'[x] = h[x]
    BY <1>2, <1>4, <2>1 DEF Collectable
  <2> QED
    BY <1>4, <2>1, <2>2, ReachableRows
<1>6. \A x \in Reachable : heap'[x].player = heap[x].player /\ heap'[x].version >= heap[x].version
  BY <1>2, <1>4, <1>5, ReachableRows DEF TypeOK, Version
<1>7. \A q : RowsOf(q)' = RowsOf(q)
  BY <1>3, <1>6 DEF RowsOf
<1>8. forked' = forked
  BY <1>1, <1>7 DEF Memory, Single, TypeOK
<1>9. owed' = [q \in Player |-> IF q \in forked THEN 0 ELSE owed[q]]
  BY <1>1, <1>8 DEF Memory
<1>10. owed' = owed
  BY <1>9 DEF OwedKept, TypeOK
<1>11. TypeOK' /\ Down' /\ Idle'
  BY <1>1, <1>4, <1>5, <1>8, <1>10 DEF TypeOK, Down, Idle
<1>12. Collectable' /\ Owned' /\ Single'
  <2>1. Collectable'
    BY <1>2, <1>3, <1>4, <1>5 DEF Collectable
  <2> QED
    BY <1>3, <1>6, <1>7, <1>8, <2>1 DEF Owned, Single
<1>13. \A q \in Player : \A x \in RowsOf(q) :
         x \in Reachable /\ x \in Row /\ heap[x].version \in Nat /\ heap'[x].version \in Nat
  BY <1>4, <1>5, ReachableRows DEF RowsOf, TypeOK, Version
<1>14. \A q \in Player : db[q] \in Nat /\ owed[q] \in Nat
  BY DEF TypeOK, Version
<1>15. Ahead'
  <2> SUFFICES ASSUME NEW q \in Player \ forked, NEW x \in RowsOf(q)
               PROVE  db[q] <= heap'[x].version
    BY <1>1, <1>7, <1>8 DEF Ahead
  <2>1. db[q] <= heap[x].version
    BY DEF Ahead
  <2>2. heap'[x].version >= heap[x].version
    BY <1>6, <1>13
  <2> QED
    BY <1>13, <1>14, <2>1, <2>2
<1>16. OwedKept'
  <2>1. \A x : Pending(x) => Pending(x)'
    BY <1>1 DEF Pending, Open
  <2> SUFFICES ASSUME NEW q \in Player, owed[q] > db[q]
               PROVE  /\ q \notin forked
                      /\ \E x \in RowsOf(q) : owed[q] <= heap'[x].version /\ Pending(x)'
    BY <1>1, <1>7, <1>8, <1>10 DEF OwedKept
  <2>2. PICK x \in RowsOf(q) : owed[q] <= heap[x].version /\ Pending(x)
    BY DEF OwedKept
  <2>3. heap'[x].version >= heap[x].version
    BY <1>6, <1>13
  <2>4. owed[q] <= heap'[x].version
    BY <1>13, <1>14, <2>2, <2>3
  <2> QED
    BY <2>1, <2>2, <2>4 DEF OwedKept
<1>17. ASSUME NEW q \in Player \ forked
       PROVE  Latest(q)' = IF q = p THEN Latest(q) + 1 ELSE Latest(q)
  <2>1. CASE RowsOf(q) = {}
    <3>1. q # p
      BY <1>2, <2>1 DEF RowsOf
    <3> QED
      BY <1>1, <1>7, <2>1, <3>1 DEF Latest
  <2>2. CASE RowsOf(q) # {}
    <3>1. PICK x \in RowsOf(q) : TRUE
      BY <2>2
    <3>2. Latest(q) = heap[x].version
      BY <3>1, LatestIs
    <3>3. Latest(q)' = heap'[x].version
      BY <1>7, <3>1, LatestIsNext DEF Single
    <3>4. CASE q = p
      <4>1. o \in RowsOf(q)
        BY <1>2, <3>4 DEF RowsOf
      <4>2. x = o
        BY <3>1, <4>1 DEF Single
      <4> QED
        BY <1>4, <1>5, <3>2, <3>3, <3>4, <4>2, <1>2
    <3>5. CASE q # p
      <4>1. x # o
        BY <3>1, <3>5 DEF RowsOf
      <4> QED
        BY <1>4, <1>5, <1>13, <3>1, <3>2, <3>3, <3>5, <4>1
    <3> QED
      BY <3>4, <3>5
  <2> QED
    BY <2>1, <2>2
<1>18. Store!Next \/ UNCHANGED Store!storeVars
  <2>1. CASE p \in forked
    <3>1. UNCHANGED Store!storeVars
      BY <1>1, <1>8, <1>17, <2>1 DEF Store!storeVars
    <3> QED
      BY <3>1
  <2>2. CASE p \notin forked
    <3>1. PICK q \in Player : q = p
      BY <1>2
    <3>2. Store!Progress(q)
      BY <1>1, <1>8, <1>17, <2>2, <3>1 DEF Store!Progress
    <3> QED
      BY <3>2, Zenon DEF Store!Next
  <2> QED
    BY <2>1, <2>2
<1>19. Forward
  BY <1>1, <1>14 DEF Forward
<1> QED
  BY <1>11, <1>12, <1>15, <1>16, <1>18, <1>19 DEF Sound

\* A login of a connection to the player it has: his row is read again, into
\* the same object.
LEMMA ReloadStep ==
  ASSUME Inv, NEW c \in Conn, NEW p \in Player, row[c] \in RowsOf(p),
         process = "up", c \in Alive,
         UNCHANGED <<process, session, row, stale, saver, db>>,
         Memory([heap EXCEPT ![row[c]] = [player |-> p, version |-> db[p]]], Drops(c))
  PROVE  Sound
<1> USE DEF Inv
<1> DEFINE o == row[c]
           h == [heap EXCEPT ![o] = [player |-> p, version |-> db[p]]]
<1>1. o \in Reachable /\ o \in Row /\ heap[o].player = p /\ Drops(c) = {p}
  BY ReachableIff, ReachableRows DEF RowsOf, Drops
<1>2. Reachable' = Reachable
  BY DEF Reachable, InUse, Alive
<1>3. /\ h \in [Row -> [player : Player \cup {NoPlayer}, version : Version]]
      /\ h[o].version = db[p] /\ h[o].player = p
      /\ \A x \in Row : x # o => h[x] = heap[x]
  BY <1>1 DEF TypeOK
<1>4. Memory(h, {p})
  BY <1>1
<1> HIDE DEF h
<1>5. heap' = h /\ \A x \in Reachable : heap'[x] = h[x]
  <2>1. heap' = [x \in Row |-> IF x \in Reachable THEN h[x] ELSE Blank]
    BY <1>2, <1>4 DEF Memory
  <2>2. \A x \in Row : heap'[x] = h[x]
    BY <1>1, <1>3, <2>1 DEF Collectable
  <2> QED
    BY <1>3, <2>1, <2>2, ReachableRows
<1>6. \A x \in Reachable : heap'[x].player = heap[x].player
  BY <1>1, <1>3, <1>5, ReachableRows
<1>7. \A q : RowsOf(q)' = RowsOf(q)
  BY <1>2, <1>6 DEF RowsOf
<1>8. forked' = forked
  BY <1>4, <1>7 DEF Memory, Single, TypeOK
<1>9. owed' = [q \in Player |-> IF q \in {p} \cup forked THEN 0 ELSE owed[q]]
  BY <1>4, <1>8 DEF Memory
<1>10. TypeOK' /\ Down' /\ Idle'
  <2>1. owed' \in [Player -> Version]
    BY <1>9, PersistenceAssumption DEF TypeOK, Version
  <2> QED
    BY <1>3, <1>5, <1>8, <2>1 DEF TypeOK, Down, Idle
<1>11. Collectable' /\ Owned' /\ Single'
  <2>1. Collectable'
    BY <1>1, <1>2, <1>3, <1>5 DEF Collectable
  <2> QED
    BY <1>2, <1>6, <1>7, <1>8, <2>1 DEF Owned, Single
<1>12. ASSUME NEW q \in Player \ forked, NEW x \in RowsOf(q)
       PROVE  heap'[x].version = IF q = p THEN db[p] ELSE heap[x].version
  <2>1. CASE q = p
    <3>1. x = o
      BY <2>1 DEF Single
    <3> QED
      BY <1>3, <1>5, <2>1, <3>1
  <2>2. CASE q # p
    <3>1. x # o /\ x \in Reachable /\ x \in Row
      BY <1>1, <2>2, ReachableRows DEF RowsOf
    <3> QED
      BY <1>3, <1>5, <2>2, <3>1
  <2> QED
    BY <2>1, <2>2
<1>13. \A q \in Player : db[q] \in Nat /\ owed[q] \in Nat
  BY DEF TypeOK, Version
<1>14. Ahead'
  <2> SUFFICES ASSUME NEW q \in Player \ forked, NEW x \in RowsOf(q)
               PROVE  db[q] <= heap'[x].version
    BY <1>7, <1>8 DEF Ahead
  <2>1. CASE q = p
    BY <1>12, <1>13, <2>1
  <2>2. CASE q # p
    BY <1>12, <2>2 DEF Ahead
  <2> QED
    BY <2>1, <2>2
<1>15. OwedKept'
  <2>1. \A x : Pending(x) => Pending(x)'
    BY DEF Pending, Open
  <2>2. ASSUME NEW q \in Player, owed'[q] > db[q]
        PROVE  /\ q \notin forked
               /\ \E x \in RowsOf(q) : owed'[q] <= heap'[x].version /\ Pending(x)'
    <3>1. q # p /\ q \notin forked /\ owed'[q] = owed[q]
      BY <1>9, <1>13, <2>2
    <3>2. PICK x \in RowsOf(q) : owed[q] <= heap[x].version /\ Pending(x)
      BY <2>2, <3>1 DEF OwedKept
    <3> QED
      BY <1>12, <2>1, <3>1, <3>2
  <2> QED
    BY <1>7, <1>8, <1>9, <2>2 DEF OwedKept, TypeOK
<1>16. ASSUME NEW q \in Player \ forked
       PROVE  Latest(q)' = IF q = p THEN db[p] ELSE Latest(q)
  <2>1. CASE RowsOf(q) = {}
    BY <1>7, <2>1 DEF Latest
  <2>2. CASE RowsOf(q) # {}
    <3>1. PICK x \in RowsOf(q) : TRUE
      BY <2>2
    <3>2. Latest(q) = heap[x].version
      BY <3>1, LatestIs
    <3>3. Latest(q)' = heap'[x].version
      BY <1>7, <3>1, LatestIsNext DEF Single
    <3> QED
      BY <1>12, <3>1, <3>2, <3>3
  <2> QED
    BY <2>1, <2>2
<1>17. PICK S, L \in SUBSET Player : S = {} /\ L = {p} \ forked
  OBVIOUS
<1>18. Store!Next
  <2>1. ASSUME NEW q \in Player \ forked
        PROVE  Latest(q)' = IF q \in L THEN db[q] ELSE Latest(q)
    BY <1>16, <1>17
  <2>2. Store!Settle(S, L)
    BY <1>8, <1>17, <2>1 DEF Store!Settle
  <2> QED
    BY <2>2, Zenon DEF Store!Next
<1>19. Forward
  BY <1>13 DEF Forward
<1> QED
  BY <1>10, <1>11, <1>14, <1>15, <1>18, <1>19 DEF Sound

\* A login that fills a new object: the player is forked if he has one.
LEMMA FreshStep ==
  ASSUME Inv, NEW c \in Conn, NEW p \in Player, NEW o \in Row \ Reachable,
         row[c] = NoRow, process = "up", c \in Alive,
         row' = [row EXCEPT ![c] = o],
         UNCHANGED <<process, session, stale, saver, db>>,
         Memory([heap EXCEPT ![o] = [player |-> p, version |-> db[p]]], {})
  PROVE  Sound
<1> USE DEF Inv
<1> DEFINE h == [heap EXCEPT ![o] = [player |-> p, version |-> db[p]]]
<1>1. row'[c] = o /\ \A d \in Conn : d # c => row'[d] = row[d]
  BY DEF TypeOK
<1>2. Reachable' = Reachable \cup {o}
  <2>1. \A d : d \in InUse' <=> d \in Conn /\ d \in InUse
    BY InUseIff, InUseIffNext, ReachableRows DEF Alive
  <2>2. c \in InUse'
    BY InUseIffNext DEF Alive
  <2>3. o # NoRow
    BY PersistenceAssumption
  <2>4. \A x : x \in Reachable' <=> x \in Reachable \/ x = o
    BY <1>1, <2>1, <2>2, <2>3, ReachableIff, ReachableIffNext, ReachableRows
  <2> QED
    BY <2>4
<1>3. /\ h \in [Row -> [player : Player \cup {NoPlayer}, version : Version]]
      /\ h[o].version = db[p] /\ h[o].player = p
      /\ \A x \in Row : x # o => h[x] = heap[x]
  BY DEF TypeOK
<1>4. Memory(h, {})
  OBVIOUS
<1> HIDE DEF h
<1>5. heap' = h
  <2>1. heap' = [x \in Row |-> IF x \in Reachable' THEN h[x] ELSE Blank]
    BY <1>4 DEF Memory
  <2>2. \A x \in Row : heap'[x] = h[x]
    BY <1>2, <1>3, <2>1 DEF Collectable
  <2> QED
    BY <1>3, <2>1, <2>2
<1>6. heap'[o].player = p /\ heap'[o].version = db[p] /\ \A x \in Reachable : heap'[x] = heap[x]
  BY <1>3, <1>5, ReachableRows
<1>7. \A q : RowsOf(q)' = IF q = p THEN RowsOf(q) \cup {o} ELSE RowsOf(q)
  BY <1>2, <1>6 DEF RowsOf
<1>8. forked' = IF RowsOf(p) = {} THEN forked ELSE forked \cup {p}
  <2>1. forked' = forked \cup {q \in Player : \E o1, o2 \in RowsOf(q)' : o1 # o2}
    BY <1>4 DEF Memory
  <2>2. \A q \in Player \ forked : q # p => ~\E o1, o2 \in RowsOf(q)' : o1 # o2
    BY <1>7 DEF Single
  <2>3. (\E o1, o2 \in RowsOf(p)' : o1 # o2) <=> RowsOf(p) # {}
    <3>1. o \notin RowsOf(p)
      BY DEF RowsOf
    <3> QED
      BY <1>7, <3>1
  <2>4. \A q : q \in forked' <=> q \in forked \/ (q = p /\ RowsOf(p) # {})
    BY <2>1, <2>2, <2>3 DEF TypeOK
  <2> QED
    BY <2>4
<1>9. owed' = [q \in Player |-> IF q \in forked' THEN 0 ELSE owed[q]]
  BY <1>4 DEF Memory
<1>10. TypeOK' /\ Down' /\ Idle'
  <2>1. owed' \in [Player -> Version]
    BY <1>9, PersistenceAssumption DEF TypeOK, Version
  <2> QED
    BY <1>3, <1>5, <1>8, <2>1 DEF TypeOK, Down, Idle
<1>11. Collectable' /\ Owned' /\ Single'
  <2>1. Collectable'
    BY <1>2, <1>3, <1>5 DEF Collectable
  <2>2. Single'
    BY <1>7, <1>8 DEF Single
  <2> QED
    BY <1>2, <1>6, <2>1, <2>2 DEF Owned
<1>12. \A q \in Player : db[q] \in Nat /\ owed[q] \in Nat
  BY DEF TypeOK, Version
<1>13. Ahead'
  <2> SUFFICES ASSUME NEW q \in Player \ forked', NEW x \in RowsOf(q)'
               PROVE  db[q] <= heap'[x].version
    BY DEF Ahead
  <2>1. CASE x = o
    <3>1. q = p
      BY <1>7, <2>1 DEF RowsOf
    <3> QED
      BY <1>6, <1>12, <2>1, <3>1
  <2>2. CASE x # o
    <3>1. x \in RowsOf(q) /\ x \in Reachable /\ q \notin forked
      BY <1>7, <1>8, <2>2 DEF RowsOf
    <3> QED
      BY <1>6, <3>1 DEF Ahead
  <2> QED
    BY <2>1, <2>2
<1>14. OwedKept'
  <2>1. \A x : x # NoRow /\ Pending(x) => Pending(x)'
    BY <1>1 DEF Pending, Open
  <2>2. ASSUME NEW q \in Player, owed'[q] > db[q]
        PROVE  /\ q \notin forked'
               /\ \E x \in RowsOf(q)' : owed'[q] <= heap'[x].version /\ Pending(x)'
    <3>1. q \notin forked' /\ owed'[q] = owed[q]
      BY <1>9, <1>12, <2>2
    <3>2. PICK x \in RowsOf(q) : owed[q] <= heap[x].version /\ Pending(x)
      BY <2>2, <3>1 DEF OwedKept
    <3>3. x \in Reachable /\ x # NoRow /\ x \in RowsOf(q)'
      BY <1>7, ReachableIff DEF RowsOf
    <3> QED
      BY <1>6, <2>1, <3>1, <3>2, <3>3
  <2>3. \A q \in forked' : owed'[q] = 0
    BY <1>8, <1>9 DEF TypeOK
  <2> QED
    BY <2>2, <2>3 DEF OwedKept
<1>15. ASSUME NEW q \in Player \ forked'
       PROVE  Latest(q)' = Latest(q)
  <2>1. q \notin forked
    BY <1>8
  <2>2. \A o1, o2 \in RowsOf(q)' : o1 = o2
    BY <1>11 DEF Single
  <2>3. CASE q = p
    <3>1. RowsOf(q) = {} /\ RowsOf(q)' = {o}
      BY <1>7, <1>8, <2>3
    <3>2. Latest(q)' = db[p] /\ Latest(q) = db[p]
      BY <1>6, <2>1, <2>2, <2>3, <3>1, LatestIs, LatestIsNext
    <3> QED
      BY <3>2
  <2>4. CASE q # p /\ RowsOf(q) = {}
    BY <1>7, <2>4 DEF Latest
  <2>5. CASE q # p /\ RowsOf(q) # {}
    <3>1. PICK x \in RowsOf(q) : TRUE
      BY <2>5
    <3>2. x \in RowsOf(q)' /\ x \in Reachable
      BY <1>7, <2>5, <3>1 DEF RowsOf
    <3>3. Latest(q) = heap[x].version
      BY <2>1, <3>1, LatestIs
    <3>4. Latest(q)' = heap'[x].version
      BY <2>2, <3>2, LatestIsNext
    <3> QED
      BY <1>6, <3>2, <3>3, <3>4
  <2> QED
    BY <2>3, <2>4, <2>5
<1>16. Store!Next \/ UNCHANGED Store!storeVars
  <2>1. CASE forked' = forked
    <3>1. UNCHANGED Store!storeVars
      BY <1>15, <2>1 DEF Store!storeVars
    <3> QED
      BY <3>1
  <2>2. CASE forked' # forked
    <3>1. forked' = forked \cup {p} /\ p \notin forked
      BY <1>8, <2>2
    <3>2. Store!Share(p)
      BY <1>15, <3>1 DEF Store!Share
    <3> QED
      BY <3>2, Zenon DEF Store!Next
  <2> QED
    BY <2>1, <2>2
<1>17. Forward
  BY <1>12 DEF Forward
<1> QED
  BY <1>10, <1>11, <1>13, <1>14, <1>16, <1>17 DEF Sound

LEMMA LoadRowStep ==
  ASSUME Inv, NEW c \in Conn, NEW p \in Player, LoadRow(c, p)
  PROVE  Sound
<1> USE DEF Inv
<1>1. PICK o \in RowFor(c, p) :
        /\ row' = [row EXCEPT ![c] = o]
        /\ UNCHANGED <<process, session, stale, saver, db>>
        /\ Memory([heap EXCEPT ![o] = [player |-> p, version |-> db[p]]], Drops(c))
  BY DEF LoadRow
<1>2. process = "up" /\ c \in Alive
  BY DEF LoadRow, MayLogin
<1>3. CASE row[c] # NoRow
  <2>1. o = row[c] /\ o \in RowsOf(p)
    BY <1>1, <1>3 DEF RowFor
  <2>2. row' = row
    BY <1>1, <2>1 DEF TypeOK
  <2> QED
    BY <1>1, <1>2, <2>1, <2>2, ReloadStep
<1>4. CASE row[c] = NoRow
  <2>1. o \in Row \ Reachable
    <3>1. Unused # {} /\ o = CHOOSE x \in Unused : TRUE
      BY <1>1, <1>4 DEF RowFor
    <3> QED
      BY <3>1 DEF Unused
  <2>2. Drops(c) = {}
    BY <1>4 DEF Drops
  <2> QED
    BY <1>1, <1>2, <1>4, <2>1, <2>2, FreshStep
<1> QED
  BY <1>3, <1>4

-----------------------------------------------------------------------------
(* The theorems. *)

LEMMA NextSound ==
  ASSUME Inv, [Next]_vars
  PROVE  Sound
<1>1. CASE Start \/ Serve \/ Signal \/ UNCHANGED vars
  BY <1>1, QuietStep
<1>2. CASE Crash
  BY <1>2, CrashStep
<1>3. CASE SweepScan
  BY <1>3, SweepScanStep
<1>4. CASE SweepRemove
  BY <1>4, SweepRemoveStep
<1>5. ASSUME NEW p \in Player, Seed(p)
      PROVE  Sound
  BY <1>5, SeedStep
<1>6. ASSUME NEW c \in Conn,
             \/ Accept(c) \/ LoadNothing(c) \/ HandlersEnd(c)
             \/ DisconnectMessage(c) \/ EndOfStream(c)
             \/ \E p \in Player : LoadRow(c, p)
      PROVE  Sound
  BY <1>6, AcceptStep, LoadNothingStep, HandlersEndStep, DisconnectStep, LoadRowStep
<1>7. ASSUME NEW s \in Saver,
             \/ SaveCopy(s) \/ SkipSave(s) \/ StoreBatch(s) \/ LoseBatch(s)
             \/ \E c \in Conn : SaveCollect(s, c)
      PROVE  Sound
  BY <1>7, SaveCopyStep, SkipStep, StoreStep, LoseStep, SaveCollectStep
<1>8. ASSUME NEW o \in Row, Play(o)
      PROVE  Sound
  BY <1>8, PlayStep
<1> QED
  BY <1>1, <1>2, <1>3, <1>4, <1>5, <1>6, <1>7, <1>8 DEF Next

\* Inv holds in every state.
THEOREM Invariance == Spec => []Inv
<1>1. Init => Inv
  BY InitInv
<1>2. Inv /\ [Next]_vars => Inv'
  BY NextSound DEF Sound
<1> QED
  BY <1>1, <1>2, PTL DEF Spec

\* Every variable keeps its type.
THEOREM TypeCorrectness == Spec => []TypeOK
<1>1. Inv => TypeOK
  BY DEF Inv
<1> QED
  BY <1>1, Invariance, PTL

\* As long as one copy of a player's row is in use, whatever is stored is his
\* latest version, and a login continues from it.
THEOREM StoreRefinement == Spec => StoreSpec
<1>1. Init => Store!Init
  <2> SUFFICES ASSUME Init
               PROVE  Store!Init
    OBVIOUS
  <2>1. Inv /\ Reachable = {}
    BY InitInv, NothingReachable DEF Init
  <2>2. \A p \in Player : Latest(p) = 0
    BY <2>1 DEF Latest, RowsOf, Init
  <2> QED
    BY <2>2 DEF Init, Store!Init
<1>2. Inv /\ [Next]_vars => [Store!Next]_(Store!storeVars)
  BY NextSound DEF Sound
<1> QED
  BY <1>1, <1>2, Invariance, PTL DEF Spec, StoreSpec, Store!Spec

\* A row of the database goes back only when two copies of it were in use.
THEOREM StoredNeverGoesBack == Spec => NeverGoesBack
<1>1. Inv /\ [Next]_vars => [\A p \in Player \ forked : db'[p] >= db[p]]_vars
  BY NextSound DEF Sound, Forward
<1> QED
  BY <1>1, Invariance, PTL DEF Spec, NeverGoesBack

\* After a graceful stop nothing from before the signal is missing for a
\* player who was connected then, but for the exceptions ExitSaves names.
THEOREM ExitSavesAll == Spec => []ExitSaves
<1>1. Inv => ExitSaves
  BY DEF Inv, OwedKept, TypeOK, Version, ExitSaves
<1> QED
  BY <1>1, Invariance, PTL
=============================================================================
