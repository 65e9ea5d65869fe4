--------------------------- MODULE SessionsProofs ---------------------------
(***************************************************************************)
(* Proofs about Sessions, for any number of connections, identifiers,      *)
(* datagrams, players and nicknames.                                       *)
(*                                                                         *)
(* Inv is the inductive invariant.  Beside the properties themselves it    *)
(* says that a connection which has not entered its TCP loop is untouched: *)
(* no datagram is handled for it, no sweep looks at it, nobody is logged   *)
(* in on it.  Without that a sweep could record the departure of a         *)
(* connection which has not been registered yet.                           *)
(***************************************************************************)
EXTENDS Sessions, FiniteSetTheorems, WellFoundedInduction, TLAPS

-----------------------------------------------------------------------------
(* The row First returns. *)

LessThan == {ss \in Nat \X Nat : ss[1] < ss[2]}

\* The order of the natural numbers is well-founded.
LEMMA LessThanWellFounded == IsWellFoundedOn(LessThan, Nat)
  BY NatLessThanWellFounded DEF OpToRel, LessThan

\* First, the ORDER BY primary key of gorm, returns one of the rows selected.
LEMMA FirstIsARow ==
  ASSUME NEW rows \in SUBSET Nat, rows # {}
  PROVE  First(rows) \in rows
<1>1. PICK p \in rows : \A q \in rows : <<q, p>> \notin LessThan
  BY LessThanWellFounded, WFMin
<1>2. ASSUME NEW q \in rows
      PROVE  p <= q
  <2>1. p \in Nat /\ q \in Nat
    OBVIOUS
  <2>2. q < p => <<q, p>> \in LessThan
    BY <2>1 DEF LessThan
  <2>3. ~(q < p)
    BY <1>1, <2>2
  <2> QED
    BY <2>1, <2>3
<1> QED
  BY <1>2 DEF First

-----------------------------------------------------------------------------
(* The inductive invariant. *)

\* Before the TCP loop a connection is untouched.
Untouched ==
  \A c \in Conn : ~Served(c) =>
    /\ c \notin departed
    /\ c \notin sweep.todo \cup sweep.stale
    /\ player[c] = NoPlayer
    /\ \A u \in Udp : pc[<<c, u>>] = "idle"

\* The identifier is drawn once, when the connection is accepted.
Drawn == \A c \in Conn : pc[<<c, "tcp">>] = "accept" <=> connID[c] = NoID

\* A login under way is for a nickname.
Requested == \A w \in Worker : pc[w] \in {"check", "lookup"} => nick[w] \in Nick

Inv == TypeOK /\ Untouched /\ Drawn /\ Requested /\ NoGhostEntry /\ LostOnlyByCollision

\* The server starts in the invariant.
LEMMA InitInv == Init => Inv
<1> SUFFICES ASSUME Init PROVE Inv
  OBVIOUS
<1> USE ConstantsAssumption DEF Init
<1>1. TypeOK
  BY DEF TypeOK, Worker, Channel, Phase, SweepIdle, NoPlayer
<1>2. \A c \in Conn : pc[<<c, "tcp">>] = "accept"
  BY DEF Worker, Channel
<1>3. \A c \in Conn : \A u \in Udp : pc[<<c, u>>] = "idle"
  BY DEF Worker, Channel
<1>4. Untouched
  BY <1>3 DEF Untouched, SweepIdle
<1>5. Drawn
  BY <1>2 DEF Drawn
<1>6. Requested
  BY DEF Requested
<1>7. NoGhostEntry
  BY DEF NoGhostEntry
<1>8. LostOnlyByCollision
  BY <1>2 DEF LostOnlyByCollision, Served
<1> QED
  BY <1>1, <1>4, <1>5, <1>6, <1>7, <1>8 DEF Inv

\* What Goto does to each worker.
LEMMA GotoEffect ==
  ASSUME TypeOK, NEW w \in Worker, NEW phase \in Phase, Goto(w, phase)
  PROVE  /\ pc' \in [Worker -> Phase]
         /\ pc'[w] = phase
         /\ \A v \in Worker : v # w => pc'[v] = pc[v]
  BY DEF TypeOK, Goto

\* The two halves of a connection's workers.
LEMMA Workers ==
  ASSUME NEW c \in Conn
  PROVE  /\ <<c, "tcp">> \in Worker
         /\ \A u \in Udp : <<c, u>> \in Worker /\ <<c, u>> # <<c, "tcp">>
         /\ \A w \in Worker : w[1] = c => w = <<c, "tcp">> \/ \E u \in Udp : w = <<c, u>>
  BY ConstantsAssumption DEF Worker, Channel

\* A worker that is doing something belongs to a connection that is served.
LEMMA BusyIsServed ==
  ASSUME TypeOK, Untouched, NEW w \in Worker,
         pc[w] \notin {"accept", "drawn", "refused", "idle"}
  PROVE  w[1] \in Conn /\ Served(w[1])
<1>1. w[1] \in Conn /\ w = <<w[1], w[2]>>
  BY DEF Worker
<1>2. w = <<w[1], "tcp">> \/ \E u \in Udp : w = <<w[1], u>>
  BY <1>1, Workers
<1> QED
  BY <1>1, <1>2 DEF Untouched, Served

-----------------------------------------------------------------------------
(* Every step preserves the invariant. *)

\* A step in which only the TCP loops of S may end: the same connections are
\* served, the same have not drawn an identifier, and the datagrams of those
\* not served stay where they are.
OnlyEnds(S) ==
  \A c \in Conn :
    /\ Served(c)' <=> Served(c)
    /\ pc'[<<c, "tcp">>] = "done" => pc[<<c, "tcp">>] = "done" \/ c \in S
    /\ pc'[<<c, "tcp">>] = "accept" <=> pc[<<c, "tcp">>] = "accept"
    /\ ~Served(c) => \A u \in Udp : pc'[<<c, u>>] = pc[<<c, u>>]

\* A worker inside a handler stays inside the life of its connection.
LEMMA InsideHandler ==
  ASSUME TypeOK, Untouched, NEW w \in Worker,
         pc[w] \notin {"accept", "drawn", "refused", "idle", "done"},
         NEW phase \in Phase \ {"accept", "drawn", "refused", "done"},
         Goto(w, phase)
  PROVE  OnlyEnds({})
<1> SUFFICES ASSUME NEW c \in Conn
             PROVE  /\ Served(c)' <=> Served(c)
                    /\ pc'[<<c, "tcp">>] = "done" => pc[<<c, "tcp">>] = "done" \/ c \in {}
                    /\ pc'[<<c, "tcp">>] = "accept" <=> pc[<<c, "tcp">>] = "accept"
                    /\ ~Served(c) => \A u \in Udp : pc'[<<c, u>>] = pc[<<c, u>>]
  BY DEF OnlyEnds
<1>1. /\ pc'[w] = phase
      /\ \A v \in Worker : v # w => pc'[v] = pc[v]
  BY GotoEffect
<1>2. w[1] \in Conn /\ Served(w[1])
  BY BusyIsServed
<1>3. CASE w = <<c, "tcp">>
  BY <1>1, <1>2, <1>3 DEF Served
<1>4. CASE w # <<c, "tcp">>
  <2>1. pc'[<<c, "tcp">>] = pc[<<c, "tcp">>]
    BY <1>1, <1>4, Workers
  <2>2. ASSUME ~Served(c), NEW u \in Udp
        PROVE  pc'[<<c, u>>] = pc[<<c, u>>]
    <3>1. <<c, u>> # w
      BY <1>2, <2>2
    <3> QED
      BY <1>1, <3>1, Workers
  <2> QED
    BY <2>1, <2>2 DEF Served
<1> QED
  BY <1>3, <1>4

\* What the table and the identifiers say survives such a step.
LEMMA SameTable ==
  ASSUME Inv, OnlyEnds({}), UNCHANGED <<connections, connID, departed>>
  PROVE  Drawn' /\ NoGhostEntry' /\ LostOnlyByCollision'
<1>1. Drawn'
  BY DEF Inv, Drawn, OnlyEnds
<1>2. NoGhostEntry'
  <2> SUFFICES ASSUME NEW i \in ConnID, NEW d, d = connections[i], d # NoConn
               PROVE  connID[d] = i /\ Served(d)' /\ pc'[<<d, "tcp">>] # "done" /\ d \notin departed
    BY DEF NoGhostEntry
  <2>1. d \in Conn
    BY DEF Inv, TypeOK
  <2> QED
    BY <2>1 DEF Inv, NoGhostEntry, OnlyEnds
<1>3. LostOnlyByCollision'
  BY DEF Inv, LostOnlyByCollision, OnlyEnds, Registered
<1> QED
  BY <1>1, <1>2, <1>3

\* NewGameConnection.
LEMMA NewGameConnectionInv ==
  ASSUME Inv, NEW c \in Conn, NewGameConnection(c), UNCHANGED crashed, doubtful' \in SUBSET Player
  PROVE  Inv'
<1> DEFINE w == <<c, "tcp">>
<1>1. PICK id \in ConnID : connID' = [connID EXCEPT ![c] = id]
  BY DEF NewGameConnection
<1>2. /\ pc' \in [Worker -> Phase]
      /\ pc'[w] = "drawn"
      /\ \A v \in Worker : v # w => pc'[v] = pc[v]
  BY GotoEffect, Workers DEF NewGameConnection, Inv, Phase
<1>3. /\ pc[w] = "accept" /\ connID[c] = NoID
      /\ UNCHANGED <<connections, player, fresh, nick, sweep, departed>>
  BY DEF NewGameConnection, Inv, Drawn
<1>4. /\ \A d \in Conn : d # c => connID'[d] = connID[d] /\ pc'[<<d, "tcp">>] = pc[<<d, "tcp">>]
      /\ \A d \in Conn, u \in Udp : pc'[<<d, u>>] = pc[<<d, u>>]
      /\ connID'[c] = id
  BY <1>1, <1>2, Workers DEF Inv, TypeOK
<1>5. TypeOK'
  BY <1>1, <1>2, <1>3 DEF Inv, TypeOK
<1>6. \A d \in Conn : Served(d)' <=> Served(d)
  BY <1>2, <1>3, <1>4 DEF Served
<1>7. Untouched'
  BY <1>3, <1>4, <1>6 DEF Inv, Untouched
<1>8. Drawn'
  BY <1>2, <1>4, ConstantsAssumption DEF Inv, Drawn
<1>9. Requested'
  BY <1>2, <1>3 DEF Inv, Requested
<1>10. NoGhostEntry'
  <2> SUFFICES ASSUME NEW i \in ConnID, NEW d, d = connections[i], d # NoConn
               PROVE  connID'[d] = i /\ Served(d)' /\ pc'[<<d, "tcp">>] # "done" /\ d \notin departed
    BY <1>3 DEF NoGhostEntry
  <2>1. d \in Conn /\ d # c
    BY <1>3, ConstantsAssumption DEF Inv, TypeOK, NoGhostEntry
  <2> QED
    BY <1>4, <1>6, <2>1 DEF Inv, NoGhostEntry
<1>11. LostOnlyByCollision'
  <2> SUFFICES ASSUME NEW d \in Conn \ departed, Served(d)', d \notin Registered'
               PROVE  \E e \in Conn \ {d} : connID'[e] = connID'[d]
    BY <1>3 DEF LostOnlyByCollision
  <2>1. d # c /\ Served(d) /\ d \notin Registered
    BY <1>2, <1>3, <1>6 DEF Served, Registered
  <2>2. PICK e \in Conn \ {d} : connID[e] = connID[d]
    BY <2>1 DEF Inv, LostOnlyByCollision
  <2>3. connID[d] # NoID
    BY <2>1 DEF Inv, Drawn, Served
  <2>4. e # c
    BY <1>3, <2>2, <2>3
  <2> QED
    BY <1>4, <2>1, <2>2, <2>4
<1> QED
  BY <1>5, <1>7, <1>8, <1>9, <1>10, <1>11 DEF Inv

\* Register.
LEMMA RegisterInv ==
  ASSUME Inv, NEW c \in Conn, Register(c), UNCHANGED crashed, doubtful' \in SUBSET Player
  PROVE  Inv'
<1> DEFINE w == <<c, "tcp">>
<1>1. /\ pc[w] = "drawn" /\ connID[c] \in ConnID
      /\ UNCHANGED <<connID, player, fresh, nick, sweep, departed>>
  BY DEF Register, Inv, Drawn, TypeOK
<1>2. /\ pc' \in [Worker -> Phase]
      /\ pc'[w] \in {"refused", "read"}
      /\ \A v \in Worker : v # w => pc'[v] = pc[v]
  <2>1. \/ Goto(w, "refused")
        \/ Goto(w, "read")
    BY DEF Register
  <2> QED
    BY <2>1, GotoEffect, Workers DEF Inv, Phase
<1>3. /\ \A d \in Conn : d # c => pc'[<<d, "tcp">>] = pc[<<d, "tcp">>]
      /\ \A d \in Conn, u \in Udp : pc'[<<d, u>>] = pc[<<d, u>>]
  BY <1>2, Workers
<1>4. ~Served(c) /\ \A d \in Conn : d # c => (Served(d)' <=> Served(d))
  BY <1>1, <1>3 DEF Served
<1>5. connections' = connections \/ connections' = [connections EXCEPT ![connID[c]] = c]
  BY DEF Register
<1>6. TypeOK'
  BY <1>1, <1>2, <1>5 DEF Inv, TypeOK
<1>7. Untouched'
  BY <1>1, <1>3, <1>4 DEF Inv, Untouched
<1>8. Drawn'
  BY <1>1, <1>2, <1>3 DEF Inv, Drawn
<1>9. Requested'
  BY <1>1, <1>2 DEF Inv, Requested
<1>10. c \notin departed
  BY <1>4 DEF Inv, Untouched
<1>11. NoGhostEntry' /\ LostOnlyByCollision'
  <2>1. CASE pc'[w] = "refused" /\ connections' = connections
    <3>1. NoGhostEntry'
      <4> SUFFICES ASSUME NEW i \in ConnID, NEW d, d = connections[i], d # NoConn
                   PROVE  connID[d] = i /\ Served(d)' /\ pc'[<<d, "tcp">>] # "done" /\ d \notin departed
        BY <1>1, <2>1 DEF NoGhostEntry
      <4>1. d \in Conn /\ d # c
        BY <1>4 DEF Inv, TypeOK, NoGhostEntry
      <4> QED
        BY <1>3, <1>4, <4>1 DEF Inv, NoGhostEntry
    <3>2. LostOnlyByCollision'
      BY <1>1, <1>4, <2>1 DEF Inv, LostOnlyByCollision, Registered, Served
    <3> QED
      BY <3>1, <3>2
  <2>2. CASE pc'[w] = "read" /\ connections' = [connections EXCEPT ![connID[c]] = c]
    <3>1. /\ connections'[connID[c]] = c
          /\ \A i \in ConnID \ {connID[c]} : connections'[i] = connections[i]
      BY <1>1, <2>2 DEF Inv, TypeOK
    <3>2. NoGhostEntry'
      <4> SUFFICES ASSUME NEW i \in ConnID, NEW d, d = connections'[i], d # NoConn
                   PROVE  connID[d] = i /\ Served(d)' /\ pc'[<<d, "tcp">>] # "done" /\ d \notin departed
        BY <1>1 DEF NoGhostEntry
      <4>1. CASE i = connID[c]
        BY <1>10, <2>2, <3>1, <4>1 DEF Served
      <4>2. CASE i # connID[c]
        <5>1. connections'[i] = connections[i]
          BY <3>1, <4>2
        <5>2. d \in Conn /\ d # c
          BY <1>4, <5>1, ZenonT(30) DEF Inv, TypeOK, NoGhostEntry
        <5> QED
          BY <1>3, <1>4, <5>1, <5>2 DEF Inv, NoGhostEntry
      <4> QED
        BY <4>1, <4>2
    <3>3. LostOnlyByCollision'
      <4> SUFFICES ASSUME NEW d \in Conn \ departed, Served(d)', d \notin Registered'
                   PROVE  \E e \in Conn \ {d} : connID[e] = connID[d]
        BY <1>1 DEF LostOnlyByCollision
      <4>1. d # c
        <5>1. c \in Registered'
          BY <1>1, <3>1, ConstantsAssumption DEF Registered
        <5> QED
          BY <5>1
      <4>2. Served(d)
        BY <1>4, <4>1
      <4>3. CASE d \in Registered
        <5>1. PICK i \in ConnID : connections[i] = d
          BY <4>3 DEF Registered
        <5>2. i = connID[c]
          BY <3>1, <5>1, ConstantsAssumption DEF Registered
        <5>3. connID[d] = i
          BY <5>1, ConstantsAssumption DEF Inv, NoGhostEntry
        <5> QED
          BY <4>1, <5>2, <5>3
      <4>4. CASE d \notin Registered
        BY <4>2, <4>4 DEF Inv, LostOnlyByCollision
      <4> QED
        BY <4>3, <4>4
    <3> QED
      BY <3>2, <3>3
  <2> QED
    <3>1. \/ Goto(w, "refused") /\ connections' = connections
          \/ Goto(w, "read") /\ connections' = [connections EXCEPT ![connID[c]] = c]
      BY DEF Register
    <3>2. \A phase \in Phase : Goto(w, phase) => pc'[w] = phase
      BY GotoEffect, Workers DEF Inv
    <3> QED
      BY <2>1, <2>2, <3>1, <3>2 DEF Phase
<1> QED
  BY <1>6, <1>7, <1>8, <1>9, <1>11 DEF Inv

\* handleDisconnect, whoever calls it, for connections that are served.
LEMMA HandleDisconnectTable ==
  ASSUME Inv, NEW S \in SUBSET Conn, \A c \in S : Served(c), OnlyEnds(S),
         HandleDisconnect(S), UNCHANGED connID
  PROVE  /\ connections' \in [ConnID -> Conn \cup {NoConn}]
         /\ departed' \in SUBSET Conn
         /\ Drawn' /\ NoGhostEntry' /\ LostOnlyByCollision'
<1>1. /\ connections' \in [ConnID -> Conn \cup {NoConn}]
      /\ departed' \in SUBSET Conn
      /\ departed' = departed \cup S
  BY DEF HandleDisconnect, Inv, TypeOK
<1>2. \A i \in ConnID :
        connections'[i] = IF \E c \in S : connID[c] = i THEN NoConn ELSE connections[i]
  BY DEF HandleDisconnect
<1>3. Drawn'
  BY DEF Inv, Drawn, OnlyEnds
<1>4. NoGhostEntry'
  <2> SUFFICES ASSUME NEW i \in ConnID, NEW d, d = connections'[i], d # NoConn
               PROVE  connID[d] = i /\ Served(d)' /\ pc'[<<d, "tcp">>] # "done" /\ d \notin departed'
    BY DEF NoGhostEntry
  <2>1. d = connections[i] /\ d \in Conn
    BY <1>1, <1>2
  <2>2. connID[d] = i /\ Served(d) /\ pc[<<d, "tcp">>] # "done" /\ d \notin departed
    BY <2>1 DEF Inv, NoGhostEntry
  <2>3. d \notin S
    BY <1>2, <2>2
  <2> QED
    BY <1>1, <2>1, <2>2, <2>3 DEF OnlyEnds
<1>5. LostOnlyByCollision'
  <2> SUFFICES ASSUME NEW d \in Conn \ departed', Served(d)', d \notin Registered'
               PROVE  \E e \in Conn \ {d} : connID[e] = connID[d]
    BY DEF LostOnlyByCollision
  <2>1. Served(d) /\ d \notin S /\ d \notin departed
    BY <1>1 DEF OnlyEnds
  <2>2. CASE d \in Registered
    <3>1. PICK i \in ConnID : connections[i] = d
      BY <2>2 DEF Registered
    <3>2. connID[d] = i
      BY <3>1, ConstantsAssumption DEF Inv, NoGhostEntry
    <3>3. PICK c \in S : connID[c] = i
      BY <1>2, <2>1, <3>1, ConstantsAssumption DEF Registered
    <3> QED
      BY <2>1, <3>2, <3>3
  <2>3. CASE d \notin Registered
    BY <2>1, <2>3 DEF Inv, LostOnlyByCollision
  <2> QED
    BY <2>2, <2>3
<1> QED
  BY <1>1, <1>3, <1>4, <1>5

\* EndOfStream.
LEMMA EndOfStreamInv ==
  ASSUME Inv, NEW c \in Conn, EndOfStream(c), UNCHANGED crashed, doubtful' \in SUBSET Player
  PROVE  Inv'
<1> DEFINE w == <<c, "tcp">>
<1>1. /\ pc[w] = "read" /\ HandleDisconnect({c})
      /\ UNCHANGED <<connID, player, fresh, nick, sweep>>
  BY DEF EndOfStream
<1>2. /\ pc' \in [Worker -> Phase]
      /\ pc'[w] = "done"
      /\ \A v \in Worker : v # w => pc'[v] = pc[v]
  BY GotoEffect, Workers DEF EndOfStream, Inv, Phase
<1>3. Served(c) /\ OnlyEnds({c})
  BY <1>1, <1>2, Workers DEF OnlyEnds, Served
<1>4. /\ connections' \in [ConnID -> Conn \cup {NoConn}]
      /\ departed' \in SUBSET Conn
      /\ Drawn' /\ NoGhostEntry' /\ LostOnlyByCollision'
  BY <1>1, <1>3, HandleDisconnectTable
<1>5. TypeOK'
  BY <1>1, <1>2, <1>4 DEF Inv, TypeOK
<1>6. Untouched'
  BY <1>1, <1>3 DEF Inv, Untouched, OnlyEnds, HandleDisconnect
<1>7. Requested'
  BY <1>1, <1>2 DEF Inv, Requested
<1> QED
  BY <1>4, <1>5, <1>6, <1>7 DEF Inv

\* DisconnectMessage.
LEMMA DisconnectMessageInv ==
  ASSUME Inv, NEW w \in Worker, DisconnectMessage(w), UNCHANGED crashed, doubtful' \in SUBSET Player
  PROVE  Inv'
<1>1. /\ pc[w] = "leave" /\ HandleDisconnect({w[1]})
      /\ UNCHANGED <<connID, player, fresh, nick, sweep>>
  BY DEF DisconnectMessage
<1>2. Home(w) \in Phase /\ Home(w) \in {"read", "idle"}
  BY DEF Home, Phase
<1>3. /\ pc' \in [Worker -> Phase]
      /\ pc'[w] = Home(w)
      /\ \A v \in Worker : v # w => pc'[v] = pc[v]
  BY <1>2, GotoEffect DEF DisconnectMessage, Inv
<1>4. w[1] \in Conn /\ Served(w[1])
  BY <1>1, BusyIsServed DEF Inv
<1>5. OnlyEnds({})
  BY <1>1, <1>2, InsideHandler DEF DisconnectMessage, Inv
<1>6. OnlyEnds({w[1]})
  BY <1>5 DEF OnlyEnds
<1>7. /\ connections' \in [ConnID -> Conn \cup {NoConn}]
      /\ departed' \in SUBSET Conn
      /\ Drawn' /\ NoGhostEntry' /\ LostOnlyByCollision'
  <2>1. {w[1]} \in SUBSET Conn
    BY <1>4
  <2> QED
    BY <1>1, <1>4, <1>6, <2>1, HandleDisconnectTable
<1>8. TypeOK'
  BY <1>1, <1>3, <1>7 DEF Inv, TypeOK
<1>9. Untouched'
  BY <1>1, <1>4, <1>5 DEF Inv, Untouched, OnlyEnds, HandleDisconnect
<1>10. Requested'
  BY <1>1, <1>2, <1>3 DEF Inv, Requested
<1> QED
  BY <1>7, <1>8, <1>9, <1>10 DEF Inv

\* FindConnection.
LEMMA FindConnectionInv ==
  ASSUME Inv, NEW c \in Conn, NEW u \in Udp, FindConnection(c, u), UNCHANGED crashed, doubtful' \in SUBSET Player
  PROVE  Inv'
<1> DEFINE w == <<c, u>>
<1>1. /\ pc[w] = "idle" /\ c \in Registered
      /\ UNCHANGED <<connections, connID, player, fresh, nick, sweep, departed>>
  BY DEF FindConnection
<1>2. w \in Worker
  BY Workers
<1>3. /\ pc' \in [Worker -> Phase]
      /\ pc'[w] = "found"
      /\ \A v \in Worker : v # w => pc'[v] = pc[v]
  BY <1>2, GotoEffect DEF FindConnection, Inv, Phase
<1>4. Served(c)
  BY <1>1, ConstantsAssumption DEF Inv, NoGhostEntry, Registered
<1>5. OnlyEnds({})
  <2>1. \A d \in Conn : pc'[<<d, "tcp">>] = pc[<<d, "tcp">>]
    BY <1>3, Workers
  <2>2. \A d \in Conn, v \in Udp : d # c => pc'[<<d, v>>] = pc[<<d, v>>]
    BY <1>3, Workers
  <2> QED
    BY <1>4, <2>1, <2>2 DEF OnlyEnds, Served
<1>6. Drawn' /\ NoGhostEntry' /\ LostOnlyByCollision'
  BY <1>1, <1>5, SameTable
<1>7. TypeOK'
  BY <1>1, <1>3 DEF Inv, TypeOK
<1>8. Untouched'
  BY <1>1, <1>5 DEF Inv, Untouched, OnlyEnds
<1>9. Requested'
  BY <1>1, <1>3 DEF Inv, Requested
<1> QED
  BY <1>6, <1>7, <1>8, <1>9 DEF Inv

\* HandleMessage.
LEMMA HandleMessageInv ==
  ASSUME Inv, NEW w \in Worker, HandleMessage(w), UNCHANGED crashed, doubtful' \in SUBSET Player
  PROVE  Inv'
<1>1. /\ pc[w] \in {"read", "found"}
      /\ fresh' = [fresh EXCEPT ![w[1]] = TRUE]
      /\ UNCHANGED <<connections, connID, player, sweep, departed>>
  BY DEF HandleMessage
<1>2. PICK phase \in {"check", "leave", "read", "idle"} :
        /\ Goto(w, phase)
        /\ \/ \E n \in Nick : nick' = [nick EXCEPT ![w] = n]
           \/ phase # "check" /\ UNCHANGED nick
  BY DEF HandleMessage, Home
<1>3. /\ pc' \in [Worker -> Phase]
      /\ pc'[w] = phase
      /\ \A v \in Worker : v # w => pc'[v] = pc[v]
  BY <1>2, GotoEffect DEF Inv, Phase
<1>4. OnlyEnds({})
  BY <1>1, <1>2, InsideHandler DEF Inv, Phase
<1>5. Drawn' /\ NoGhostEntry' /\ LostOnlyByCollision'
  BY <1>1, <1>4, SameTable
<1>6. TypeOK'
  BY <1>1, <1>2, <1>3 DEF Inv, TypeOK
<1>7. Untouched'
  BY <1>1, <1>4 DEF Inv, Untouched, OnlyEnds
<1>8. Requested'
  BY <1>2, <1>3 DEF Inv, Requested, TypeOK
<1> QED
  BY <1>5, <1>6, <1>7, <1>8 DEF Inv

\* CheckNickname.
LEMMA CheckNicknameInv ==
  ASSUME Inv, NEW w \in Worker, CheckNickname(w), UNCHANGED crashed, doubtful' \in SUBSET Player
  PROVE  Inv'
<1>1. /\ pc[w] = "check"
      /\ UNCHANGED <<connections, connID, player, fresh, sweep, departed>>
  BY DEF CheckNickname
<1>2. PICK phase \in {"lookup", "read", "idle"} :
        /\ Goto(w, phase)
        /\ \/ phase # "lookup" /\ nick' = [nick EXCEPT ![w] = NoNick]
           \/ UNCHANGED nick
  BY DEF CheckNickname, Home, Forget
<1>3. /\ pc' \in [Worker -> Phase]
      /\ pc'[w] = phase
      /\ \A v \in Worker : v # w => pc'[v] = pc[v]
  BY <1>2, GotoEffect DEF Inv, Phase
<1>4. OnlyEnds({})
  BY <1>1, <1>2, InsideHandler DEF Inv, Phase
<1>5. Drawn' /\ NoGhostEntry' /\ LostOnlyByCollision'
  BY <1>1, <1>4, SameTable
<1>6. TypeOK'
  BY <1>1, <1>2, <1>3 DEF Inv, TypeOK
<1>7. Untouched'
  BY <1>1, <1>4 DEF Inv, Untouched, OnlyEnds
<1>8. Requested'
  BY <1>1, <1>2, <1>3 DEF Inv, Requested, TypeOK
<1> QED
  BY <1>5, <1>6, <1>7, <1>8 DEF Inv

\* The rows a lookup selects are rows of the table.
LEMMA MatchesType ==
  ASSUME TypeOK, NEW c \in Conn, NEW n \in Nick
  PROVE  Matches(c, n) \in SUBSET Nat /\ Matches(c, n) \subseteq ILike[n] /\ ILike[n] \subseteq Player
  BY ConstantsAssumption DEF TypeOK, Matches

\* LookUpPlayer.
LEMMA LookUpPlayerInv ==
  ASSUME Inv, NEW w \in Worker, LookUpPlayer(w), UNCHANGED crashed, doubtful' \in SUBSET Player
  PROVE  Inv'
<1> DEFINE rows == Matches(w[1], nick[w])
<1>1. /\ pc[w] = "lookup"
      /\ Forget(w)
      /\ UNCHANGED <<connections, connID, fresh, sweep, departed>>
  BY DEF LookUpPlayer
<1>2. w[1] \in Conn /\ Served(w[1])
  BY <1>1, BusyIsServed DEF Inv
<1>3. rows \in SUBSET Nat /\ rows \subseteq Player
  BY <1>1, <1>2, MatchesType DEF Inv, Requested
<1>4. PICK phase \in {"reply", "read", "idle"} : Goto(w, phase)
  BY DEF LookUpPlayer, Home
<1>5. PICK p \in Player \cup {NoPlayer} : player' = [player EXCEPT ![w[1]] = p]
  <2>1. CASE rows = {}
    BY <2>1 DEF LookUpPlayer
  <2>2. CASE rows # {}
    <3>1. First(rows) \in rows
      BY <1>3, <2>2, FirstIsARow
    <3> QED
      BY <1>3, <2>2, <3>1 DEF LookUpPlayer
  <2> QED
    BY <2>1, <2>2
<1>6. /\ pc' \in [Worker -> Phase]
      /\ pc'[w] = phase
      /\ \A v \in Worker : v # w => pc'[v] = pc[v]
  BY <1>4, GotoEffect DEF Inv, Phase
<1>7. OnlyEnds({})
  BY <1>1, <1>4, InsideHandler DEF Inv, Phase
<1>8. Drawn' /\ NoGhostEntry' /\ LostOnlyByCollision'
  BY <1>1, <1>7, SameTable
<1>9. TypeOK'
  BY <1>1, <1>5, <1>6 DEF Inv, TypeOK, Forget
<1>10. Untouched'
  <2>1. \A c \in Conn : ~Served(c) => player'[c] = player[c]
    BY <1>2, <1>5 DEF Inv, TypeOK
  <2> QED
    BY <1>1, <1>7, <2>1 DEF Inv, Untouched, OnlyEnds
<1>11. Requested'
  BY <1>1, <1>6 DEF Inv, Requested, TypeOK, Forget
<1> QED
  BY <1>8, <1>9, <1>10, <1>11 DEF Inv

\* ReplyLogin and AnnounceLogin.
LEMMA AnswerInv ==
  ASSUME Inv, NEW w \in Worker, ReplyLogin(w) \/ AnnounceLogin(w), UNCHANGED crashed, doubtful' \in SUBSET Player
  PROVE  Inv'
<1>1. /\ pc[w] \in {"reply", "announce"}
      /\ UNCHANGED <<connections, connID, player, fresh, nick, sweep, departed>>
  BY DEF ReplyLogin, AnnounceLogin
<1>2. PICK phase \in {"announce", "read", "idle"} : Goto(w, phase)
  BY DEF ReplyLogin, AnnounceLogin, Home
<1>3. /\ pc' \in [Worker -> Phase]
      /\ pc'[w] = phase
      /\ \A v \in Worker : v # w => pc'[v] = pc[v]
  BY <1>2, GotoEffect DEF Inv, Phase
<1>4. OnlyEnds({})
  BY <1>1, <1>2, InsideHandler DEF Inv, Phase
<1>5. Drawn' /\ NoGhostEntry' /\ LostOnlyByCollision'
  BY <1>1, <1>4, SameTable
<1>6. TypeOK'
  BY <1>1, <1>3 DEF Inv, TypeOK
<1>7. Untouched'
  BY <1>1, <1>4 DEF Inv, Untouched, OnlyEnds
<1>8. Requested'
  BY <1>1, <1>2, <1>3 DEF Inv, Requested
<1> QED
  BY <1>5, <1>6, <1>7, <1>8 DEF Inv

\* What is in the table is served.
LEMMA RegisteredServed ==
  ASSUME Inv
  PROVE  Registered \subseteq {c \in Conn : Served(c)}
<1> SUFFICES ASSUME NEW d \in Registered
             PROVE  d \in Conn /\ Served(d)
  OBVIOUS
<1>1. PICK i \in ConnID : connections[i] = d /\ d # NoConn
  BY DEF Registered
<1> QED
  BY <1>1 DEF Inv, TypeOK, NoGhostEntry

\* Lapse, NilDereference, the steps of the sweep: no worker moves.
LEMMA ClockAndSweepInv ==
  ASSUME Inv,
         \/ /\ UNCHANGED crashed /\ doubtful' \in SUBSET Player
            /\ \/ \E c \in Conn : Lapse(c) \/ SweepScan(c)
               \/ SweepCopy
               \/ SweepRemove
         \/ \E w \in Worker : NilDereference(w)
         \/ UNCHANGED vars
  PROVE  Inv'
<1>1. UNCHANGED <<connID, player, pc, nick>>
  BY DEF Lapse, SweepScan, SweepCopy, SweepRemove, NilDereference, vars
<1>2. \A S : OnlyEnds(S)
  BY <1>1 DEF OnlyEnds, Served
<1>3. Registered \subseteq {c \in Conn : Served(c)}
  BY RegisteredServed
<1>4. /\ connections' \in [ConnID -> Conn \cup {NoConn}]
      /\ departed' \in SUBSET Conn
      /\ Drawn' /\ NoGhostEntry' /\ LostOnlyByCollision'
      /\ departed' \subseteq departed \cup {c \in Conn : Served(c)}
  <2>1. CASE UNCHANGED <<connections, departed>>
    BY <1>1, <1>2, <2>1, SameTable DEF Inv, TypeOK
  <2>2. CASE SweepRemove
    <3>1. sweep.stale \in SUBSET Conn /\ \A c \in sweep.stale : Served(c)
      BY DEF Inv, TypeOK, Untouched
    <3>2. HandleDisconnect(sweep.stale)
      BY <2>2 DEF SweepRemove
    <3> QED
      BY <1>1, <1>2, <3>1, <3>2, HandleDisconnectTable DEF HandleDisconnect
  <2> QED
    BY <2>1, <2>2 DEF Lapse, SweepScan, SweepCopy, NilDereference, vars
<1>5. /\ sweep' \in [on : BOOLEAN, todo : SUBSET Conn, stale : SUBSET Conn]
      /\ sweep'.todo \cup sweep'.stale \subseteq sweep.todo \cup sweep.stale \cup Registered
  <2> USE DEF Inv, TypeOK
  <2>1. ASSUME NEW c \in Conn, SweepScan(c)
        PROVE  /\ sweep' = [on |-> sweep.on, todo |-> sweep'.todo, stale |-> sweep'.stale]
               /\ sweep'.todo = sweep.todo \ {c}
               /\ sweep'.stale = sweep.stale \/ sweep'.stale = sweep.stale \cup {c}
               /\ c \in sweep.todo
    BY <2>1 DEF SweepScan
  <2>2. CASE \E c \in Conn : SweepScan(c)
    BY <2>1, <2>2
  <2>3. CASE SweepCopy
    BY <2>3 DEF SweepCopy, SweepTargets, Registered
  <2>4. CASE SweepRemove
    BY <2>4 DEF SweepRemove, SweepIdle
  <2>5. CASE UNCHANGED sweep
    BY <2>5
  <2> QED
    BY <2>2, <2>3, <2>4, <2>5 DEF Lapse, NilDereference, vars
<1>6. TypeOK'
  <2>1. fresh' \in [Conn -> BOOLEAN] /\ crashed' \in BOOLEAN /\ doubtful' \in SUBSET Player
    BY DEF Lapse, SweepScan, SweepCopy, SweepRemove, NilDereference, vars, Inv, TypeOK
  <2> QED
    BY <1>1, <1>4, <1>5, <2>1 DEF Inv, TypeOK
<1>7. Untouched'
  BY <1>1, <1>3, <1>4, <1>5 DEF Inv, Untouched, Served
<1>8. Requested'
  BY <1>1 DEF Inv, Requested
<1> QED
  BY <1>4, <1>6, <1>7, <1>8 DEF Inv

\* Inv is inductive.
LEMMA StepInv == Inv /\ [Next]_vars => Inv'
<1> SUFFICES ASSUME Inv, [Next]_vars PROVE Inv'
  OBVIOUS
<1>1. CASE UNCHANGED vars \/ \E w \in Worker : NilDereference(w)
  BY <1>1, ClockAndSweepInv
<1>2. CASE Step
  <2>1. UNCHANGED crashed /\ doubtful' \in SUBSET Player
    BY <1>2 DEF Step, Doubt, Inv, TypeOK
  <2>2. ASSUME NEW c \in Conn,
               \/ NewGameConnection(c) \/ Register(c) \/ EndOfStream(c)
               \/ Lapse(c) \/ SweepScan(c)
               \/ \E u \in Udp : FindConnection(c, u)
        PROVE  Inv'
    BY <2>1, <2>2, NewGameConnectionInv, RegisterInv, EndOfStreamInv, ClockAndSweepInv,
       FindConnectionInv
  <2>3. ASSUME NEW w \in Worker, HandleMessage(w) \/ HandleLogin(w) \/ DisconnectMessage(w)
        PROVE  Inv'
    BY <2>1, <2>3, HandleMessageInv, CheckNicknameInv, LookUpPlayerInv, AnswerInv,
       DisconnectMessageInv DEF HandleLogin
  <2>4. CASE SweepCopy \/ SweepRemove
    BY <2>1, <2>4, ClockAndSweepInv
  <2> QED
    BY <1>2, <2>2, <2>3, <2>4 DEF Step
<1> QED
  BY <1>1, <1>2 DEF Next

\* Every state of the server is in the invariant.
THEOREM Invariance == Spec => []Inv
  BY InitInv, StepInv, PTL DEF Spec

\* The variables keep their types, whatever the interleaving of handlers.
THEOREM TypeCorrectness == Spec => []TypeOK
<1>1. Inv => TypeOK
  BY DEF Inv
<1> QED
  BY <1>1, Invariance, PTL

\* No entry of the table outlives its connection, even when handleDisconnect
\* runs twice for it or its identifier is drawn again.
THEOREM NoGhosts == Spec => []NoGhostEntry
<1>1. Inv => NoGhostEntry
  BY DEF Inv
<1> QED
  BY <1>1, Invariance, PTL

\* A live connection leaves the table only through a shared identifier.
THEOREM LossesAreCollisions == Spec => []LostOnlyByCollision
<1>1. Inv => LostOnlyByCollision
  BY DEF Inv
<1> QED
  BY <1>1, Invariance, PTL

-----------------------------------------------------------------------------
(* How the table changes. *)

\* The sets a step adds to and takes from the table.
LEMMA TableSteps ==
  ASSUME Inv, [Next]_vars
  PROVE  \/ \E c \in Conn : Register(c) /\ ~ServerFull
         \/ \E S \in SUBSET Conn : HandleDisconnect(S)
         \/ UNCHANGED connections
<1>1. CASE UNCHANGED vars \/ \E w \in Worker : NilDereference(w)
  BY <1>1 DEF NilDereference, vars
<1>2. CASE Step
  <2>1. ASSUME NEW c \in Conn, Register(c)
        PROVE  (Register(c) /\ ~ServerFull) \/ UNCHANGED connections
    BY <2>1 DEF Register
  <2>2. ASSUME NEW c \in Conn, EndOfStream(c)
        PROVE  \E S \in SUBSET Conn : HandleDisconnect(S)
    BY <2>2 DEF EndOfStream
  <2>3. ASSUME NEW w \in Worker, DisconnectMessage(w)
        PROVE  \E S \in SUBSET Conn : HandleDisconnect(S)
    <3>1. w[1] \in Conn
      BY DEF Worker
    <3> QED
      BY <2>3, <3>1 DEF DisconnectMessage
  <2>4. CASE SweepRemove
    BY <2>4 DEF SweepRemove, Inv, TypeOK
  <2>5. ASSUME NEW c \in Conn,
               \/ NewGameConnection(c) \/ Lapse(c) \/ SweepScan(c)
               \/ \E u \in Udp : FindConnection(c, u)
        PROVE  UNCHANGED connections
    BY <2>5 DEF NewGameConnection, Lapse, SweepScan, FindConnection
  <2>6. ASSUME NEW w \in Worker, HandleMessage(w) \/ HandleLogin(w)
        PROVE  UNCHANGED connections
    BY <2>6 DEF HandleMessage, HandleLogin, CheckNickname, LookUpPlayer, ReplyLogin, AnnounceLogin
  <2>7. CASE SweepCopy
    BY <2>7 DEF SweepCopy
  <2> QED
    BY <1>2, <2>1, <2>2, <2>3, <2>4, <2>5, <2>6, <2>7 DEF Step
<1> QED
  BY <1>1, <1>2 DEF Next

-----------------------------------------------------------------------------
(* The limit. *)

\* The entries of the table, which is what len(server.connections) counts.
Bounded == Cardinality(Occupied) <= MaxPlayers

\* The connections in the table are at most its entries.
LEMMA RegisteredFinite ==
  ASSUME TypeOK
  PROVE  /\ IsFiniteSet(Occupied) /\ Cardinality(Occupied) \in Nat
         /\ IsFiniteSet(Registered) /\ Cardinality(Registered) \in Nat
         /\ Cardinality(Registered) <= Cardinality(Occupied)
<1>1. IsFiniteSet(Occupied)
  BY ConstantsAssumption, FS_Subset DEF Occupied
<1> DEFINE f == [id \in Occupied |-> connections[id]]
<1>2. f \in Surjection(Occupied, Registered)
  BY ConstantsAssumption DEF Surjection, Occupied, Registered, TypeOK
<1>3. IsFiniteSet(Registered) /\ Cardinality(Registered) <= Cardinality(Occupied)
  BY <1>1, <1>2, FS_Surjection
<1> QED
  BY <1>1, <1>3, FS_CardinalityType

\* The check of tcp_handler.go:22-31 and the entry it guards are one critical
\* section, so the bound is kept.
LEMMA StepBounded == Inv /\ Inv' /\ Bounded /\ [Next]_vars => Bounded'
<1> SUFFICES ASSUME Inv, Inv', Bounded, [Next]_vars PROVE Bounded'
  OBVIOUS
<1>1. /\ IsFiniteSet(Occupied) /\ Cardinality(Occupied) \in Nat
      /\ Cardinality(Occupied') \in Nat /\ MaxPlayers \in Nat
  <2>1. IsFiniteSet(Occupied')
    BY ConstantsAssumption, FS_Subset DEF Occupied
  <2> QED
    BY <2>1, RegisteredFinite, FS_CardinalityType, ConstantsAssumption DEF Inv
<1>2. ASSUME NEW c \in Conn, Register(c), ~ServerFull
      PROVE  Bounded'
  <2>1. connections' = [connections EXCEPT ![connID[c]] = c]
    BY <1>2 DEF Register
  <2>2. Occupied' \subseteq Occupied \cup {connID[c]}
    BY <2>1 DEF Occupied, Inv, TypeOK
  <2>3. /\ IsFiniteSet(Occupied \cup {connID[c]})
        /\ Cardinality(Occupied \cup {connID[c]}) <= Cardinality(Occupied) + 1
        /\ Cardinality(Occupied \cup {connID[c]}) \in Nat
    <3>1. /\ IsFiniteSet(Occupied \cup {connID[c]})
          /\ Cardinality(Occupied \cup {connID[c]}) =
               IF connID[c] \in Occupied THEN Cardinality(Occupied) ELSE Cardinality(Occupied) + 1
      BY <1>1, FS_AddElement, Zenon
    <3> QED
      BY <1>1, <3>1
  <2>4. Cardinality(Occupied') <= Cardinality(Occupied \cup {connID[c]})
    BY <2>2, <2>3, FS_Subset
  <2>5. Cardinality(Occupied) < MaxPlayers
    BY <1>1, <1>2 DEF ServerFull
  <2> QED
    BY <1>1, <2>3, <2>4, <2>5 DEF Bounded
<1>3. ASSUME NEW S \in SUBSET Conn, HandleDisconnect(S)
      PROVE  Bounded'
  <2>1. Occupied' \subseteq Occupied
    BY <1>3 DEF Occupied, HandleDisconnect
  <2>2. Cardinality(Occupied') <= Cardinality(Occupied)
    BY <1>1, <2>1, FS_Subset
  <2> QED
    BY <1>1, <2>2 DEF Bounded
<1>4. CASE UNCHANGED connections
  BY <1>4 DEF Bounded, Occupied
<1> QED
  BY <1>2, <1>3, <1>4, TableSteps

\* There are never more connections in the table than MaxPlayers.
THEOREM CapacityRespected == Spec => []Capacity
<1>1. Init => Bounded
  <2> SUFFICES ASSUME Init PROVE Bounded
    OBVIOUS
  <2>1. Occupied = {}
    BY DEF Init, Occupied
  <2> QED
    BY <2>1, FS_EmptySet, ConstantsAssumption DEF Bounded
<1>2. Inv /\ Bounded => Capacity
  BY RegisteredFinite, ConstantsAssumption DEF Inv, Bounded, Capacity
<1> QED
  BY <1>1, <1>2, Invariance, StepBounded, PTL DEF Spec

-----------------------------------------------------------------------------
(* Refinement. *)

\* The connections that were in the table and left it.
Gone == {c \in Conn : Served(c)} \ Registered

\* The cardinality of Membership is the one proved about here.
LEMMA TableCardinality ==
  ASSUME NEW S
  PROVE  Table!Cardinality(S) = Cardinality(S)
  BY DEF Table!Cardinality, Cardinality, Table!IsFiniteSet, IsFiniteSet

\* Registering is joining, in the place of whoever has the same identifier.
LEMMA RegisterJoins ==
  ASSUME Inv, Inv', NEW c \in Conn, Register(c), ~ServerFull
  PROVE  \E displaced \in SUBSET Registered : Table!Join(c, displaced)
<1> DEFINE id == connID[c]
           displaced == {connections[id]} \ {NoConn}
<1>1. /\ pc[<<c, "tcp">>] = "drawn" /\ id \in ConnID
      /\ connections' = [connections EXCEPT ![id] = c]
      /\ Goto(<<c, "tcp">>, "read")
  BY DEF Register, Inv, TypeOK, Drawn
<1>2. /\ connections'[id] = c
      /\ \A i \in ConnID \ {id} : connections'[i] = connections[i]
  BY <1>1 DEF Inv, TypeOK
<1>3. /\ Served(c)'
      /\ ~Served(c)
      /\ \A d \in Conn : d # c => (Served(d)' <=> Served(d))
  BY <1>1, GotoEffect, Workers DEF Inv, Phase, Served
<1>4. c \notin Registered
  BY <1>3, RegisteredServed
<1>5. displaced \in SUBSET Registered /\ Cardinality(displaced) <= 1
  <2>1. displaced \subseteq Registered
    BY <1>1 DEF Registered, Inv, TypeOK
  <2>2. displaced = {} \/ displaced = {connections[id]}
    OBVIOUS
  <2>3. CASE displaced = {}
    <3>1. Cardinality(displaced) = 0
      BY <2>3, FS_EmptySet
    <3> QED
      BY <2>1, <3>1
  <2>4. CASE displaced = {connections[id]}
    <3>1. Cardinality(displaced) = 1
      BY <2>4, FS_Singleton
    <3> QED
      BY <2>1, <3>1
  <2> QED
    BY <2>2, <2>3, <2>4
<1>6. Registered' = (Registered \ displaced) \cup {c}
  <2>1. ASSUME NEW d \in Registered \ displaced
        PROVE  d \in Registered'
    <3>1. PICK i \in ConnID : connections[i] = d
      BY <2>1 DEF Registered
    <3>2. i # id
      BY <2>1, <3>1, ConstantsAssumption DEF Registered
    <3> QED
      BY <1>2, <3>1, <3>2, <2>1 DEF Registered
  <2>2. c \in Registered'
    BY <1>1, <1>2, ConstantsAssumption DEF Registered
  <2>3. ASSUME NEW d \in Registered', d # c
        PROVE  d \in Registered \ displaced
    <3>1. PICK i \in ConnID : connections'[i] = d
      BY <2>3 DEF Registered
    <3>2. i # id /\ connections[i] = d
      BY <1>2, <2>3, <3>1
    <3>3. d \in Conn /\ d # NoConn
      BY <2>3, <3>1, ConstantsAssumption DEF Registered, Inv, TypeOK
    <3>4. connID[d] = i
      BY <3>2, <3>3 DEF Inv, NoGhostEntry
    <3>5. connections[id] = d => connID[d] = id
      BY <1>1, <3>3, ZenonT(30) DEF Inv, NoGhostEntry
    <3> QED
      BY <3>2, <3>3, <3>4, <3>5 DEF Registered
  <2> QED
    BY <2>1, <2>2, <2>3
<1>7. Gone' = Gone \cup displaced
  <2>1. \A d \in displaced : d \in Conn /\ Served(d) /\ d # c
    BY <1>4, <1>5, RegisteredServed
  <2>2. \A d \in Conn : d \in Gone' <=> d \in Gone \cup displaced
    BY <1>3, <1>4, <1>6, <2>1 DEF Gone
  <2> QED
    BY <2>1, <2>2 DEF Gone
<1>8. Cardinality(Registered) < MaxPlayers
  <2>1. Cardinality(Occupied) < MaxPlayers
    BY RegisteredFinite, ConstantsAssumption DEF Inv, ServerFull
  <2> QED
    BY <2>1, RegisteredFinite, ConstantsAssumption DEF Inv
<1>9. c \notin Gone
  BY <1>3 DEF Gone
<1>10. c \notin Registered \cup Gone
  BY <1>4, <1>9
<1>11. Table!Join(c, displaced)
  <2> HIDE DEF displaced
  <2> QED
    BY <1>5, <1>6, <1>7, <1>8, <1>10, TableCardinality DEF Table!Join, Gone
<1> QED
  BY <1>5, <1>11

\* handleDisconnect makes members leave, or nobody.
LEMMA DisconnectLeaves ==
  ASSUME Inv, Inv', NEW S \in SUBSET Conn, HandleDisconnect(S),
         \A c \in Conn : Served(c)' <=> Served(c)
  PROVE  \/ \E X \in (SUBSET Registered) \ {{}} : Table!Leave(X)
         \/ UNCHANGED <<Registered, Gone>>
<1> DEFINE X == Registered \ Registered'
<1>1. Registered' \subseteq Registered
  BY ConstantsAssumption DEF HandleDisconnect, Registered
<1>2. Registered' = Registered \ X
  BY <1>1
<1>3. X \subseteq {c \in Conn : Served(c)}
  BY RegisteredServed
<1>4. Gone' = Gone \cup X
  <2>1. {c \in Conn : Served(c)'} = {c \in Conn : Served(c)}
    OBVIOUS
  <2>2. Gone' = {c \in Conn : Served(c)} \ Registered'
    BY <2>1 DEF Gone
  <2> QED
    BY <1>1, <1>3, <2>2 DEF Gone
<1>5. CASE X = {}
  BY <1>2, <1>4, <1>5
<1>6. CASE X # {}
  <2>1. Table!Leave(X)
    <3> HIDE DEF X
    <3> QED
      BY <1>2, <1>4 DEF Table!Leave, Gone
  <2> QED
    BY <1>6, <2>1
<1> QED
  BY <1>5, <1>6

\* Who is served changes only when a connection is entered in the table.
LEMMA ServedSteps ==
  ASSUME Inv, [Next]_vars,
         ~ \E c \in Conn : Register(c) /\ ~ServerFull
  PROVE  \A c \in Conn : Served(c)' <=> Served(c)
<1>1. CASE UNCHANGED pc
  BY <1>1 DEF Served
<1>2. ASSUME NEW w \in Worker, NEW phase \in Phase \ {"accept", "drawn", "refused"},
             Goto(w, phase),
             pc[w] \notin {"accept", "drawn", "refused", "idle"}
      PROVE  \A c \in Conn : Served(c)' <=> Served(c)
  BY <1>2, GotoEffect, BusyIsServed, Workers DEF Inv, Served
<1>3. ASSUME NEW w \in Worker, HandleMessage(w) \/ HandleLogin(w) \/ DisconnectMessage(w)
      PROVE  \A c \in Conn : Served(c)' <=> Served(c)
  <2>1. PICK phase \in {"check", "leave", "read", "idle", "lookup", "reply", "announce"} :
          Goto(w, phase)
    BY <1>3 DEF HandleMessage, HandleLogin, CheckNickname, LookUpPlayer, ReplyLogin,
                AnnounceLogin, DisconnectMessage, Home
  <2>2. pc[w] \notin {"accept", "drawn", "refused", "idle"}
    BY <1>3 DEF HandleMessage, HandleLogin, CheckNickname, LookUpPlayer, ReplyLogin,
                AnnounceLogin, DisconnectMessage
  <2> QED
    BY <1>2, <2>1, <2>2 DEF Phase
<1>4. ASSUME NEW c \in Conn, EndOfStream(c)
      PROVE  \A d \in Conn : Served(d)' <=> Served(d)
  BY <1>2, <1>4, Workers DEF EndOfStream, Phase
<1>5. ASSUME NEW c \in Conn, NEW u \in Udp, FindConnection(c, u)
      PROVE  \A d \in Conn : Served(d)' <=> Served(d)
  BY <1>5, GotoEffect, Workers DEF FindConnection, Inv, Phase, Served
<1>6. ASSUME NEW c \in Conn, NewGameConnection(c) \/ (Register(c) /\ ServerFull)
      PROVE  \A d \in Conn : Served(d)' <=> Served(d)
  <2>1. pc[<<c, "tcp">>] \in {"accept", "drawn"}
    BY <1>6 DEF NewGameConnection, Register
  <2>2. Goto(<<c, "tcp">>, "drawn") \/ Goto(<<c, "tcp">>, "refused")
    BY <1>6 DEF NewGameConnection, Register
  <2> QED
    BY <2>1, <2>2, GotoEffect, Workers DEF Inv, Phase, Served
<1> QED
  BY <1>1, <1>3, <1>4, <1>5, <1>6
  DEF Next, Step, vars, Lapse, SweepScan, SweepCopy, SweepRemove, NilDereference

\* The connection table is a bounded membership that nobody enters twice: the
\* table and its history implement Membership, step by step.
THEOREM TableRefinement == Spec => TableSpec
<1>1. Init => Table!Init
  <2> SUFFICES ASSUME Init PROVE Table!Init
    OBVIOUS
  <2>1. Registered = {}
    BY ConstantsAssumption DEF Init, Registered
  <2>2. \A c \in Conn : ~Served(c)
    BY Workers DEF Init, Served
  <2> QED
    BY <2>1, <2>2 DEF Table!Init
<1>2. Inv /\ Inv' /\ [Next]_vars => [Table!Next]_(Table!memberVars)
  <2> SUFFICES ASSUME Inv, Inv', [Next]_vars
               PROVE  Table!Next \/ UNCHANGED <<Registered, Gone>>
    BY DEF Table!memberVars, Gone
  <2>1. CASE \E c \in Conn : Register(c) /\ ~ServerFull
    BY <2>1, RegisterJoins DEF Table!Next, Table!Join
  <2>2. CASE ~ \E c \in Conn : Register(c) /\ ~ServerFull
    <3>1. \A c \in Conn : Served(c)' <=> Served(c)
      BY <2>2, ServedSteps
    <3>2. CASE \E S \in SUBSET Conn : HandleDisconnect(S)
      BY <3>1, <3>2, DisconnectLeaves DEF Table!Next
    <3>3. CASE UNCHANGED connections
      <4>1. Registered' = Registered
        BY <3>3 DEF Registered
      <4>2. {c \in Conn : Served(c)'} = {c \in Conn : Served(c)}
        BY <3>1
      <4> QED
        BY <4>1, <4>2 DEF Gone
    <3> QED
      BY <2>2, <3>2, <3>3, TableSteps
  <2> QED
    BY <2>1, <2>2
<1> QED
  BY <1>1, <1>2, Invariance, PTL DEF Spec, TableSpec, Table!Spec

-----------------------------------------------------------------------------
(* One session per player. *)

\* Nobody in the table holds a row under the nickname of a login that has
\* passed the check, unless the row is doubtful.
Unheld ==
  \A w \in Worker : pc[w] = "lookup" =>
    \A d \in Registered :
      player[d] # NoPlayer /\ NickOf[player[d]] = nick[w] => player[d] \in doubtful

\* Doubts about a row last as long as it has a session.
Remembered == \A p \in doubtful : Held(p)' => p \in doubtful'

\* A step which logs nobody in and lets no login past the check.
LEMMA NobodyLogsIn ==
  ASSUME OneSession, Unheld, UNCHANGED player, Remembered,
         \A d \in Registered' : d \in Registered \/ player[d] = NoPlayer,
         \A w \in Worker : pc'[w] = "lookup" => pc[w] = "lookup" /\ nick'[w] = nick[w]
  PROVE  OneSession' /\ Unheld'
<1>1. OneSession'
  BY DEF OneSession, Remembered, Held
<1>2. Unheld'
  BY DEF Unheld, Remembered, Held
<1> QED
  BY <1>1, <1>2

\* Nobody is logged in on a connection that is being entered in the table.
LEMMA RegisterOneSession ==
  ASSUME Inv, OneSession, Unheld, Remembered, NEW c \in Conn, Register(c)
  PROVE  OneSession' /\ Unheld'
<1>1. /\ UNCHANGED <<player, nick>>
      /\ pc[<<c, "tcp">>] = "drawn"
      /\ Goto(<<c, "tcp">>, "refused") \/ Goto(<<c, "tcp">>, "read")
      /\ connections' = connections \/ connections' = [connections EXCEPT ![connID[c]] = c]
  BY DEF Register
<1>2. player[c] = NoPlayer
  BY <1>1 DEF Inv, Untouched, Served
<1>3. Registered' \subseteq Registered \cup {c}
  BY <1>1 DEF Registered, Inv, TypeOK
<1>4. \A w \in Worker : pc'[w] = "lookup" => pc[w] = "lookup"
  BY <1>1, GotoEffect, Workers DEF Inv, Phase
<1> QED
  BY <1>1, <1>2, <1>3, <1>4, NobodyLogsIn

\* A lookup loads a row nobody in the table holds, or a doubtful one.
LEMMA LookUpOneSession ==
  ASSUME Inv, OneSession, Unheld, Doubt, NEW w \in Worker, LookUpPlayer(w)
  PROVE  OneSession' /\ Unheld'
<1> DEFINE c == w[1]
           rows == Matches(c, nick[w])
<1>1. /\ pc[w] = "lookup" /\ c \in Conn /\ nick[w] \in Nick
      /\ UNCHANGED connections /\ nick' = [nick EXCEPT ![w] = NoNick]
      /\ Registered' = Registered
  BY DEF LookUpPlayer, Forget, Inv, Requested, Worker, Registered
<1>2. \A v \in Worker : pc'[v] = "lookup" => v # w /\ pc[v] = "lookup" /\ nick'[v] = nick[v]
  <2>1. PICK phase \in {"reply", "read", "idle"} : Goto(w, phase)
    BY DEF LookUpPlayer, Home
  <2>2. pc'[w] = phase /\ \A v \in Worker : v # w => pc'[v] = pc[v]
    BY <2>1, GotoEffect DEF Inv, Phase
  <2> QED
    BY <1>1, <2>2 DEF Inv, TypeOK
<1>3. PICK p \in Player \cup {NoPlayer} :
        /\ player' = [player EXCEPT ![c] = p]
        /\ p # NoPlayer => pc'[w] = "reply"
  <2>1. CASE rows = {}
    BY <2>1 DEF LookUpPlayer
  <2>2. CASE rows # {}
    <3>1. rows \in SUBSET Nat /\ rows \subseteq Player
      BY <1>1, MatchesType DEF Inv
    <3>2. First(rows) \in Player
      BY <2>2, <3>1, FirstIsARow
    <3>3. player' = [player EXCEPT ![c] = First(rows)] /\ Goto(w, "reply")
      BY <2>2 DEF LookUpPlayer
    <3>4. pc'[w] = "reply"
      BY <3>3, GotoEffect DEF Inv, Phase
    <3> QED
      BY <3>2, <3>3, <3>4
  <2> QED
    BY <2>1, <2>2
<1>4. /\ player'[c] = p
      /\ \A d \in Conn : d # c => player'[d] = player[d]
  BY <1>1, <1>3 DEF Inv, TypeOK
<1>5. \A q \in Player, d \in Registered :
        player'[d] = q =>
          /\ q \in doubtful => q \in doubtful'
          /\ q = p /\ nick[w] # NickOf[p] => q \in doubtful'
          /\ \A v \in Worker : q = p /\ v # w /\ pc[v] = "lookup" /\ nick[v] = NickOf[p]
                               => q \in doubtful'
  <2> SUFFICES ASSUME NEW q \in Player, NEW d \in Registered, player'[d] = q
               PROVE  /\ q \in doubtful => q \in doubtful'
                      /\ Missed(w, q) => q \in doubtful'
                      /\ q = p => player'[c] = q /\ pc[w] = "lookup" /\ pc'[w] = "reply"
    BY <1>1, <1>3, <1>4, ConstantsAssumption DEF Missed, NoPlayer
  <2>1. Held(q)'
    BY <1>1 DEF Held
  <2> QED
    BY <1>1, <1>3, <1>4, <2>1, ConstantsAssumption DEF Doubt, NoPlayer
<1>6. /\ Registered \subseteq Conn
      /\ \A d \in Registered : player'[d] \in Player \cup {NoPlayer}
  BY <1>1, <1>3, <1>4 DEF Registered, Inv, TypeOK
<1>7. OneSession'
  <2>1. ASSUME NEW e \in Registered, e # c, player[e] = p, p # NoPlayer
        PROVE  p \in doubtful'
    <3>1. player'[e] = p /\ p \in Player
      BY <1>4, <1>6, <2>1
    <3>2. p \in doubtful \/ nick[w] # NickOf[p]
      BY <1>1, <2>1 DEF Unheld
    <3> QED
      BY <1>5, <2>1, <3>1, <3>2
  <2> SUFFICES ASSUME NEW d \in Registered, NEW e \in Registered, player'[d] = player'[e],
                      player'[d] \notin doubtful' \cup {NoPlayer}
               PROVE  d = e
    BY <1>1 DEF OneSession
  <2>2. CASE d # c /\ e # c
    BY <1>4, <1>5, <1>6, <2>2 DEF OneSession
  <2>3. CASE d = c \/ e = c
    BY <1>4, <1>6, <2>1, <2>3
  <2> QED
    BY <2>2, <2>3
<1>8. Unheld'
  <2> SUFFICES ASSUME NEW v \in Worker, pc'[v] = "lookup", NEW d \in Registered,
                      player'[d] # NoPlayer, NickOf[player'[d]] = nick'[v]
               PROVE  player'[d] \in doubtful'
    BY <1>1 DEF Unheld
  <2>1. v # w /\ pc[v] = "lookup" /\ nick'[v] = nick[v]
    BY <1>2
  <2>2. CASE d = c
    BY <1>4, <1>5, <2>1, <2>2
  <2>3. CASE d # c
    BY <1>4, <1>5, <1>6, <2>1, <2>3 DEF Unheld
  <2> QED
    BY <2>2, <2>3
<1> QED
  BY <1>7, <1>8

\* The check lets a login pass whose nickname nobody in the table has.
LEMMA CheckOneSession ==
  ASSUME Inv, OneSession, Unheld, Remembered, NEW w \in Worker, CheckNickname(w)
  PROVE  OneSession' /\ Unheld'
<1>1. UNCHANGED <<connections, player>> /\ Registered' = Registered
  BY DEF CheckNickname, Registered
<1>2. \/ /\ nick[w] \notin ConnectedNicknames
         /\ Goto(w, "lookup") /\ UNCHANGED nick
      \/ /\ nick' = [nick EXCEPT ![w] = NoNick]
         /\ Goto(w, "read") \/ Goto(w, "idle")
  BY DEF CheckNickname, Forget, Home
<1>3. \A v \in Worker : v # w => pc'[v] = pc[v] /\ nick'[v] = nick[v]
  BY <1>2, GotoEffect DEF Inv, TypeOK, Phase
<1>4. pc'[w] = "lookup" => nick'[w] \notin ConnectedNicknames
  BY <1>2, GotoEffect DEF Inv, Phase
<1>5. OneSession'
  BY <1>1 DEF OneSession, Remembered, Held
<1>6. Unheld'
  <2> SUFFICES ASSUME NEW v \in Worker, pc'[v] = "lookup", NEW d \in Registered,
                      player[d] # NoPlayer, NickOf[player[d]] = nick'[v]
               PROVE  player[d] \in doubtful'
    BY <1>1 DEF Unheld
  <2>3. player[d] \in doubtful => player[d] \in doubtful'
    BY <1>1 DEF Remembered, Held
  <2>1. CASE v = w
    <3>1. d \in Conn
      BY DEF Registered, Inv, TypeOK
    <3> QED
      BY <1>4, <2>1, <3>1 DEF ConnectedNicknames
  <2>2. CASE v # w
    BY <1>3, <2>2, <2>3 DEF Unheld
  <2> QED
    BY <2>1, <2>2
<1> QED
  BY <1>5, <1>6

\* The other steps log nobody in.
LEMMA OtherOneSession ==
  ASSUME Inv, OneSession, Unheld, Remembered, [Next]_vars,
         ~ \E c \in Conn : Register(c),
         ~ \E w \in Worker : LookUpPlayer(w) \/ CheckNickname(w)
  PROVE  OneSession' /\ Unheld'
<1>1. UNCHANGED player
  BY DEF Next, Step, HandleLogin, NewGameConnection, EndOfStream, DisconnectMessage,
         FindConnection, HandleMessage, Lapse, ReplyLogin, AnnounceLogin, NilDereference,
         SweepCopy, SweepScan, SweepRemove, vars
<1>2. Registered' \subseteq Registered
  <2>1. CASE \E S \in SUBSET Conn : HandleDisconnect(S)
    BY <2>1, ConstantsAssumption DEF HandleDisconnect, Registered
  <2>2. CASE UNCHANGED connections
    BY <2>2 DEF Registered
  <2> QED
    BY <2>1, <2>2, TableSteps
<1>3. \A w \in Worker : pc'[w] = "lookup" => pc[w] = "lookup" /\ nick'[w] = nick[w]
  <2>1. CASE UNCHANGED <<pc, nick>>
    BY <2>1
  <2>2. ASSUME NEW w \in Worker, NEW phase \in Phase \ {"lookup"}, Goto(w, phase),
               UNCHANGED nick \/ \E n \in Nick : nick' = [nick EXCEPT ![w] = n]
        PROVE  \A v \in Worker : pc'[v] = "lookup" => pc[v] = "lookup" /\ nick'[v] = nick[v]
    BY <2>2, GotoEffect DEF Inv, TypeOK
  <2>3. ASSUME NEW c \in Conn, NewGameConnection(c) \/ EndOfStream(c)
        PROVE  \E w \in Worker, phase \in Phase \ {"lookup"} : Goto(w, phase) /\ UNCHANGED nick
    BY <2>3, Workers DEF NewGameConnection, EndOfStream, Phase
  <2>4. ASSUME NEW c \in Conn, NEW u \in Udp, FindConnection(c, u)
        PROVE  \E w \in Worker, phase \in Phase \ {"lookup"} : Goto(w, phase) /\ UNCHANGED nick
    BY <2>4, Workers DEF FindConnection, Phase
  <2>5. ASSUME NEW w \in Worker, ReplyLogin(w) \/ AnnounceLogin(w) \/ DisconnectMessage(w)
        PROVE  \E phase \in Phase \ {"lookup"} : Goto(w, phase) /\ UNCHANGED nick
    BY <2>5 DEF ReplyLogin, AnnounceLogin, DisconnectMessage, Home, Phase
  <2>6. ASSUME NEW w \in Worker, HandleMessage(w)
        PROVE  \E phase \in Phase \ {"lookup"} :
                 /\ Goto(w, phase)
                 /\ UNCHANGED nick \/ \E n \in Nick : nick' = [nick EXCEPT ![w] = n]
    BY <2>6 DEF HandleMessage, Home, Phase
  <2>7. CASE \E c \in Conn : Lapse(c) \/ SweepScan(c)
    BY <2>1, <2>7 DEF Lapse, SweepScan
  <2>8. CASE SweepCopy \/ SweepRemove \/ (\E w \in Worker : NilDereference(w)) \/ UNCHANGED vars
    BY <2>1, <2>8 DEF SweepCopy, SweepRemove, NilDereference, vars
  <2> QED
    BY <2>2, <2>3, <2>4, <2>5, <2>6, <2>7, <2>8 DEF Next, Step, HandleLogin
<1> QED
  BY <1>1, <1>2, <1>3, NobodyLogsIn

\* A row of which every session was loaded under its own nickname, with no
\* other login past the check at the time, has one connection of the table at
\* most - for any number of connections and rows, any patterns, datagrams at
\* the same time, disconnects, sweeps and collisions.
THEOREM OneSessionPerPlayer == Spec => []OneSession
<1>1. Init => OneSession /\ Unheld
  BY DEF Init, OneSession, Unheld, Registered
<1>2. Inv /\ OneSession /\ Unheld /\ [Next]_vars => OneSession' /\ Unheld'
  <2> SUFFICES ASSUME Inv, OneSession, Unheld, [Next]_vars PROVE OneSession' /\ Unheld'
    OBVIOUS
  <2>1. Remembered
    <3>1. CASE Doubt
      BY <3>1 DEF Doubt, Remembered, Inv, TypeOK
    <3>2. CASE UNCHANGED doubtful
      BY <3>2 DEF Remembered
    <3> QED
      BY <3>1, <3>2 DEF Next, Step, NilDereference, vars
  <2>2. ASSUME NEW w \in Worker, LookUpPlayer(w)
        PROVE  OneSession' /\ Unheld'
    <3>1. pc' # pc
      BY <2>2, GotoEffect DEF LookUpPlayer, Home, Inv, Phase
    <3>2. Doubt
      BY <3>1 DEF Next, Step, NilDereference, vars
    <3> QED
      BY <2>2, <3>2, LookUpOneSession
  <2> QED
    BY <2>1, <2>2, RegisterOneSession, CheckOneSession, OtherOneSession
<1> QED
  BY <1>1, <1>2, InitInv, StepInv, PTL DEF Spec

-----------------------------------------------------------------------------
\* A login on a connection that has a player selects that player or nobody.
LEMMA LookUpKeepsPlayer ==
  ASSUME Inv, NEW w \in Worker, LookUpPlayer(w), NEW c \in Conn,
         player[c] # NoPlayer, player'[c] # player[c]
  PROVE  /\ player'[c] = NoPlayer
         /\ w[1] = c /\ pc[w] = "lookup" /\ player[c] \notin ILike[nick[w]]
<1>1. pc[w] = "lookup" /\ w[1] \in Conn /\ nick[w] \in Nick
  BY DEF LookUpPlayer, Inv, Requested, Worker
<1>2. w[1] = c
  BY <1>1 DEF LookUpPlayer, Inv, TypeOK
<1>3. Matches(w[1], nick[w]) = ILike[nick[w]] \cap {player[c]}
  BY <1>2 DEF Matches
<1>4. CASE player[c] \in ILike[nick[w]]
  <2>1. Matches(w[1], nick[w]) = {player[c]}
    <3>1. ILike[nick[w]] \cap {player[c]} = {player[c]}
      BY <1>4
    <3> QED
      BY <1>3, <3>1
  <2>2. player[c] \in Nat
    BY ConstantsAssumption DEF Inv, TypeOK
  <2>3. First({player[c]}) = player[c]
    BY <2>2 DEF First
  <2>4. player'[c] = First({player[c]})
    BY <1>1, <1>2, <2>1 DEF LookUpPlayer, Inv, TypeOK
  <2> QED
    BY <2>3, <2>4
<1>5. CASE player[c] \notin ILike[nick[w]]
  <2>1. Matches(w[1], nick[w]) = {}
    BY <1>3, <1>5
  <2> QED
    BY <1>1, <1>2, <1>5, <2>1 DEF LookUpPlayer, Inv, TypeOK
<1> QED
  BY <1>4, <1>5

\* Nothing but a login on the same connection which finds nobody takes a
\* player away from a connection - for any number of connections, rows and
\* datagrams, and whatever nicknames select.
THEOREM PlayersAreKept == Spec => PlayerKept
<1>1. Inv /\ [Next]_vars =>
        [\A c \in Conn :
           player[c] # NoPlayer /\ player'[c] # player[c] =>
             /\ player'[c] = NoPlayer
             /\ \E w \in Worker : /\ w[1] = c /\ pc[w] = "lookup"
                                 /\ player[c] \notin ILike[nick[w]]]_vars
  <2> SUFFICES ASSUME Inv, [Next]_vars, NEW c \in Conn,
                      player[c] # NoPlayer, player'[c] # player[c]
               PROVE  /\ player'[c] = NoPlayer
                      /\ \E w \in Worker : /\ w[1] = c /\ pc[w] = "lookup"
                                          /\ player[c] \notin ILike[nick[w]]
    OBVIOUS
  <2>1. PICK w \in Worker : LookUpPlayer(w)
    BY DEF Next, Step, HandleLogin, NewGameConnection, Register, EndOfStream,
           DisconnectMessage, FindConnection, HandleMessage, Lapse, CheckNickname,
           ReplyLogin, AnnounceLogin, NilDereference, SweepCopy, SweepScan, SweepRemove, vars
  <2> QED
    BY <2>1, LookUpKeepsPlayer
<1> QED
  BY <1>1, InitInv, StepInv, PTL DEF Spec, PlayerKept

=============================================================================
