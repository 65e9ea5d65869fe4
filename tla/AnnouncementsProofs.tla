------------------------- MODULE AnnouncementsProofs -------------------------
(***************************************************************************)
(* Proofs about Announcements, for any number of connections, players and  *)
(* places and any bounds.  Introduced and Farewell speak of clients that   *)
(* have been told; what every step preserves is that they have been, or    *)
(* that something is under way that will tell them.                        *)
(***************************************************************************)
EXTENDS Announcements, TLAPS

\* A part of handleLogin after the player is loaded.
LoggingIn == {"reply", "announce", "sync", "copy", "collect"}

\* A player has a place, a login a player, and what it has read of its own
\* position is right until the player moves.
Positions ==
  \A c \in Conn :
    /\ player[c] \in Player => place[c] \in Place
    /\ pc[c] = "out" => player[c] = NoPlayer
    /\ pc[c] \in LoggingIn => player[c] \in Player
    /\ pc[c] \in {"announce", "copy", "collect"} =>
         at[c] \in Place /\ (c \in moved \/ at[c] = place[c])

\* The client of c has been told of the player of d, or will be, or has got a
\* SyncState with him that it could not read.
Coming(c, d) ==
  \/ <<d, player[d]>> \in told[c] \cup spoilt[c]
  \/ Waiting("joined", c, d)
  \/ pc[d] \in {"reply", "announce"}
  \/ pc[c] \in {"reply", "announce", "sync", "copy"}
  \/ pc[c] = "collect" /\ (d \in todo[c] \/ <<d, player[d]>> \in seen[c])

Sociable(c, d) ==
  /\ InSight(c, d)
  /\ d \in connections
  /\ player[c] # player[d]
  /\ {player[c], player[d]} \cap Unsendable = {}

Acquainted == \A c, d \in Conn : Sociable(c, d) => Coming(c, d)

\* The client of c has been told that the player of d has left, or will be.
Parting(c, d) == <<d, player[d]>> \in bid[c] \/ Waiting("left", c, d)

Noticed ==
  \A c, d \in Conn : InSight(c, d) /\ d \in left \ before[c] => Parting(c, d)

Inv == TypeOK /\ Positions /\ Acquainted /\ Noticed

-----------------------------------------------------------------------------
(* Broadcasts. *)

\* The goroutines that wait, wait on, and for each connection of the table
\* there is one with the message.
LEMMA BroadcastReaches ==
  ASSUME NEW kind \in {"joined", "left"}, NEW by \in Conn, NEW id \in Player,
         NEW centre \in Place, connections \subseteq Conn, inflight \subseteq Message,
         BroadcastInRange(kind, by, id, centre)
  PROVE  /\ inflight \subseteq inflight'
         /\ inflight' \subseteq Message
         /\ \A c \in connections : \E m \in inflight' :
              m.kind = kind /\ m.by = by /\ m.id = id /\ m.at = centre /\ m.to = c
<1>1. PICK n \in 1..MaxCopies :
        inflight' = inflight \cup [kind : {kind}, by : {by}, id : {id}, at : {centre},
                                   to : connections, no : {n}]
  BY DEF BroadcastInRange
<1>2. [kind : {kind}, by : {by}, id : {id}, at : {centre}, to : connections, no : {n}]
        \subseteq Message
  BY DEF Message
<1>3. ASSUME NEW c \in connections
      PROVE  \E m \in inflight' :
               m.kind = kind /\ m.by = by /\ m.id = id /\ m.at = centre /\ m.to = c
  <2> DEFINE m == [kind |-> kind, by |-> by, id |-> id, at |-> centre, to |-> c, no |-> n]
  <2>1. m \in inflight'
    BY <1>1
  <2> QED
    BY <2>1
<1> QED
  BY <1>1, <1>2, <1>3

\* Where nobody's player or place changes and no goroutine runs, what waits
\* goes on waiting.
LEMMA WaitingStays ==
  ASSUME NEW kind, NEW c, NEW d, inflight \subseteq inflight',
         player'[d] = player[d], place'[c] = place[c], Waiting(kind, c, d)
  PROVE  Waiting(kind, c, d)'
BY DEF Waiting

\* handleDisconnect leaves everybody with what he had coming.
LEMMA DisconnectStep ==
  ASSUME Inv, NEW x \in Conn, HandleDisconnect(x),
         \/ UNCHANGED pc
         \/ pc[x] = "lobby" /\ pc' = [pc EXCEPT ![x] = "over"],
         inputs' \in Nat,
         UNCHANGED <<player, place, nick, at, todo, seen, told, spoilt, bid, moved, before>>
  PROVE  Inv'
<1>1. /\ connections' = connections \ {x}
      /\ inflight \subseteq inflight' /\ inflight' \subseteq Message
      /\ left' = left \/ left' = left \cup {x}
      /\ player[x] # NoPlayer => \A c \in connections : \E m \in inflight' :
           m.kind = "left" /\ m.by = x /\ m.id = player[x] /\ m.at = place[x] /\ m.to = c
  <2>1. CASE player[x] = NoPlayer
    BY <2>1 DEF HandleDisconnect, Inv, TypeOK
  <2>2. CASE player[x] # NoPlayer
    <3>1. player[x] \in Player /\ place[x] \in Place
      BY <2>2 DEF Inv, TypeOK, Positions
    <3>2. BroadcastInRange("left", x, player[x], place[x])
      BY <2>2 DEF HandleDisconnect
    <3>3. /\ inflight \subseteq inflight' /\ inflight' \subseteq Message
          /\ \A c \in connections : \E m \in inflight' :
               m.kind = "left" /\ m.by = x /\ m.id = player[x] /\ m.at = place[x] /\ m.to = c
      BY <3>1, <3>2, BroadcastReaches DEF Inv, TypeOK
    <3> QED
      BY <2>2, <3>3 DEF HandleDisconnect
  <2> QED
    BY <2>1, <2>2
<1>2. TypeOK'
  BY <1>1 DEF Inv, TypeOK, Phase
<1>3. Positions'
  BY DEF Inv, TypeOK, Positions, LoggingIn
<1>4. ASSUME NEW c \in Conn, NEW d \in Conn, InSight(c, d)'
      PROVE  InSight(c, d)
  BY <1>1, <1>4 DEF InSight
<1>5. ASSUME NEW c \in Conn, NEW d \in Conn, Sociable(c, d)'
      PROVE  Coming(c, d)'
  <2>1. Coming(c, d)
    BY <1>1, <1>4, <1>5 DEF Inv, Acquainted, Sociable
  <2>2. Waiting("joined", c, d) => Waiting("joined", c, d)'
    BY <1>1, WaitingStays
  <2> QED
    BY <2>1, <2>2 DEF Coming, Inv, TypeOK
<1>6. ASSUME NEW c \in Conn, NEW d \in Conn, InSight(c, d)', d \in (left \ before[c])'
      PROVE  Parting(c, d)'
  <2>1. InSight(c, d)
    BY <1>4, <1>6
  <2>2. CASE d \in left \ before[c]
    <3>1. Parting(c, d)
      BY <2>1, <2>2 DEF Inv, Noticed
    <3>2. Waiting("left", c, d) => Waiting("left", c, d)'
      BY <1>1, WaitingStays
    <3> QED
      BY <3>1, <3>2 DEF Parting
  <2>3. CASE d = x
    <3>1. player[x] # NoPlayer /\ c \in connections
      BY <2>1, <2>3, AnnouncementsAssumption DEF InSight
    <3>2. PICK m \in inflight' :
            m.kind = "left" /\ m.by = x /\ m.id = player[x] /\ m.at = place[x] /\ m.to = c
      BY <1>1, <3>1
    <3>3. Waiting("left", c, d)'
      BY <2>1, <2>3, <3>2 DEF Waiting, InSight
    <3> QED
      BY <3>3 DEF Parting
  <2> QED
    BY <1>1, <1>6, <2>2, <2>3
<1> QED
  BY <1>2, <1>3, <1>5, <1>6 DEF Inv, Acquainted, Noticed

LEMMA DeliverStep ==
  ASSUME Inv, NEW m \in inflight, Deliver(m)
  PROVE  Inv'
<1> USE DEF sessionVars, loginVars
<1>1. m \in Message
  BY DEF Inv, TypeOK
<1>2. m.to \in Conn /\ m.by \in Conn /\ m.id \in Player
  BY <1>1 DEF Message
<1>3. TypeOK'
  BY <1>2 DEF Inv, TypeOK, Deliver
<1>4. Positions'
  BY DEF Inv, Positions, Deliver
<1>5. \A c \in Conn : told[c] \subseteq told'[c] /\ bid[c] \subseteq bid'[c]
  BY <1>2 DEF Inv, TypeOK, Deliver
<1>6. ASSUME NEW c \in Conn, NEW d \in Conn, NEW kind \in {"joined", "left"},
             InSight(c, d), Waiting(kind, c, d)
      PROVE  \/ Waiting(kind, c, d)'
             \/ kind = "joined" /\ <<d, player[d]>> \in told'[c]
             \/ kind = "left" /\ <<d, player[d]>> \in bid'[c]
  <2>1. PICK n \in inflight : /\ n.kind = kind /\ n.to = c /\ n.by = d /\ n.id = player[d]
                              /\ InRange(place[c], n.at)
    BY <1>6 DEF Waiting
  <2>2. CASE n # m
    BY <2>1, <2>2 DEF Waiting, Deliver
  <2>3. CASE n = m
    <3>1. player[m.to] # NoPlayer /\ InRange(place[m.to], m.at)
      BY <1>6, <2>1, <2>3, AnnouncementsAssumption DEF InSight
    <3>2. CASE kind = "joined"
      <4>1. told' = [told EXCEPT ![m.to] = @ \cup {<<m.by, m.id>>}]
        BY <2>1, <2>3, <3>1, <3>2 DEF Deliver
      <4> QED
        BY <1>2, <2>1, <2>3, <3>2, <4>1 DEF Inv, TypeOK
    <3>3. CASE kind = "left"
      <4>1. bid' = [bid EXCEPT ![m.to] = @ \cup {<<m.by, m.id>>}]
        BY <2>1, <2>3, <3>1, <3>3 DEF Deliver
      <4> QED
        BY <1>2, <2>1, <2>3, <3>3, <4>1 DEF Inv, TypeOK
    <3> QED
      BY <3>2, <3>3
  <2> QED
    BY <2>2, <2>3
<1>7. ASSUME NEW c \in Conn, NEW d \in Conn, Sociable(c, d)'
      PROVE  Coming(c, d)'
  <2>1. Sociable(c, d) /\ InSight(c, d)
    BY <1>7 DEF Sociable, InSight, Deliver
  <2>2. Coming(c, d)
    BY <2>1 DEF Inv, Acquainted
  <2>3. CASE Waiting("joined", c, d)
    BY <1>6, <2>1, <2>3 DEF Coming, Deliver
  <2>4. CASE ~Waiting("joined", c, d)
    BY <1>5, <2>2, <2>4 DEF Coming, Deliver
  <2> QED
    BY <2>3, <2>4
<1>8. ASSUME NEW c \in Conn, NEW d \in Conn, InSight(c, d)', d \in (left \ before[c])'
      PROVE  Parting(c, d)'
  <2>1. InSight(c, d) /\ d \in left \ before[c]
    BY <1>8 DEF InSight, Deliver
  <2>2. Parting(c, d)
    BY <2>1 DEF Inv, Noticed
  <2>3. CASE Waiting("left", c, d)
    BY <1>6, <2>1, <2>3 DEF Parting, Deliver
  <2>4. CASE ~Waiting("left", c, d)
    BY <1>5, <2>2, <2>4 DEF Parting, Deliver
  <2> QED
    BY <2>3, <2>4
<1> QED
  BY <1>3, <1>4, <1>7, <1>8 DEF Inv, Acquainted, Noticed

-----------------------------------------------------------------------------
(* Connections. *)

\* Steps that change neither goroutines nor what was told, and put nobody in
\* sight of another: what counts is what they do to Coming.
LEMMA QuietStep ==
  ASSUME Inv, TypeOK', Positions',
         UNCHANGED <<inflight, told, spoilt, bid, left, before>>,
         \A c, d \in Conn : InSight(c, d)' => /\ InSight(c, d)
                                              /\ player'[c] = player[c] /\ place'[c] = place[c]
                                              /\ player'[d] = player[d],
         \A c, d \in Conn : Sociable(c, d)' => Sociable(c, d),
         \A c, d \in Conn : /\ Sociable(c, d) /\ Sociable(c, d)'
                            /\ Coming(c, d)
                            /\ <<d, player[d]>> \notin told[c] \cup spoilt[c] /\ ~Waiting("joined", c, d)
                            => Coming(c, d)'
  PROVE  Inv'
<1>1. ASSUME NEW c \in Conn, NEW d \in Conn, Sociable(c, d)'
      PROVE  Coming(c, d)'
  <2>1. Sociable(c, d) /\ Coming(c, d)
    BY <1>1 DEF Inv, Acquainted
  <2>2. player'[d] = player[d] /\ place'[c] = place[c]
    BY <1>1 DEF Sociable
  <2>3. CASE <<d, player[d]>> \in told[c] \cup spoilt[c]
    BY <2>2, <2>3 DEF Coming
  <2>4. CASE Waiting("joined", c, d)
    BY <2>2, <2>4, WaitingStays DEF Coming
  <2> QED
    BY <1>1, <2>1, <2>3, <2>4
<1>2. ASSUME NEW c \in Conn, NEW d \in Conn, InSight(c, d)', d \in (left \ before[c])'
      PROVE  Parting(c, d)'
  <2>1. Parting(c, d) /\ player'[d] = player[d] /\ place'[c] = place[c]
    BY <1>2 DEF Inv, Noticed
  <2> QED
    BY <2>1, WaitingStays DEF Parting
<1> QED
  BY <1>1, <1>2 DEF Inv, Acquainted, Noticed

LEMMA AcceptStep ==
  ASSUME Inv, NEW x \in Conn, Accept(x)
  PROVE  Inv'
<1> USE DEF history
<1>1. TypeOK'
  BY DEF Inv, TypeOK, Accept, Goto, Phase
<1>2. Positions'
  BY DEF Inv, TypeOK, Positions, Accept, Goto, LoggingIn
<1>3. player[x] \notin Player
  BY AnnouncementsAssumption DEF Inv, Positions, Accept
<1>4. ASSUME NEW c \in Conn, NEW d \in Conn, InSight(c, d)'
      PROVE  c # x /\ d # x /\ InSight(c, d)
  BY <1>3, <1>4 DEF Accept, InSight
<1>5. ASSUME NEW c \in Conn, NEW d \in Conn, Sociable(c, d)'
      PROVE  Sociable(c, d) /\ c # x /\ d # x
  BY <1>4, <1>5 DEF Accept, Sociable
<1>6. \A c \in Conn \ {x} : pc'[c] = pc[c]
  BY DEF Accept, Goto, Inv, TypeOK
<1>7. ASSUME NEW c \in Conn, NEW d \in Conn, Sociable(c, d)', Coming(c, d),
             ~Waiting("joined", c, d)
      PROVE  Coming(c, d)'
  BY <1>5, <1>6, <1>7 DEF Coming, Accept
<1> QED
  BY <1>1, <1>2, <1>4, <1>5, <1>7, QuietStep DEF Accept

LEMMA MoveStep ==
  ASSUME Inv, NEW x \in Conn, Move(x)
  PROVE  Inv'
<1> USE DEF loginVars
<1>1. player[x] \in Player
  BY DEF Inv, TypeOK, Move
<1>2. TypeOK'
  BY DEF Inv, TypeOK, Move, Input
<1>3. Positions'
  BY DEF Inv, TypeOK, Positions, Move
<1>4. ASSUME NEW c \in Conn, NEW d \in Conn, InSight(c, d)'
      PROVE  /\ c # x /\ d # x /\ InSight(c, d)
             /\ place'[c] = place[c]
  <2>1. c # x /\ d # x
    BY <1>4 DEF Move, InSight
  <2>2. place'[c] = place[c] /\ place'[d] = place[d]
    BY <2>1 DEF Move, Inv, TypeOK
  <2> QED
    BY <1>4, <2>1, <2>2 DEF InSight, Move
<1>5. ASSUME NEW c \in Conn, NEW d \in Conn, Sociable(c, d)'
      PROVE  Sociable(c, d)
  BY <1>4, <1>5 DEF Sociable, Move
<1>6. ASSUME NEW c \in Conn, NEW d \in Conn, Coming(c, d), ~Waiting("joined", c, d)
      PROVE  Coming(c, d)'
  BY <1>6 DEF Coming, Move
<1> QED
  BY <1>2, <1>3, <1>4, <1>5, <1>6, QuietStep DEF Move

-----------------------------------------------------------------------------
(* Logging in. *)

\* A part of the login of x that is seen only in its own variables.
LEMMA LoginStep ==
  ASSUME Inv, TypeOK', Positions', NEW x \in Conn,
         UNCHANGED <<sessionVars, inflight, told, spoilt, bid, moved, left, before>>,
         \A c \in Conn \ {x} : pc'[c] = pc[c] /\ todo'[c] = todo[c] /\ seen'[c] = seen[c],
         \A d \in Conn : Sociable(x, d) /\ Coming(x, d)
                         /\ <<d, player[d]>> \notin told[x] \cup spoilt[x] /\ ~Waiting("joined", x, d)
                         => Coming(x, d)',
         (pc[x] \in {"reply", "announce"} /\ player[x] \notin Unsendable)
           => pc'[x] \in {"reply", "announce"}
  PROVE  Inv'
<1> USE DEF sessionVars
<1>1. ASSUME NEW c \in Conn, NEW d \in Conn
      PROVE  (InSight(c, d)' <=> InSight(c, d)) /\ (Sociable(c, d)' <=> Sociable(c, d))
  BY DEF InSight, Sociable
<1>2. ASSUME NEW c \in Conn, NEW d \in Conn, Sociable(c, d), Coming(c, d),
             <<d, player[d]>> \notin told[c] \cup spoilt[c], ~Waiting("joined", c, d)
      PROVE  Coming(c, d)'
  <2>1. CASE c = x
    BY <1>2, <2>1
  <2>2. CASE c # x /\ pc[d] \in {"reply", "announce"}
    <3>1. player[d] \notin Unsendable
      BY <1>2 DEF Sociable
    <3> QED
      BY <2>2, <3>1 DEF Coming
  <2>3. CASE c # x /\ pc[d] \notin {"reply", "announce"}
    BY <1>2, <2>3 DEF Coming
  <2> QED
    BY <2>1, <2>2, <2>3
<1> QED
  BY <1>1, <1>2, QuietStep

LEMMA CheckStep ==
  ASSUME Inv, NEW x \in Conn, CheckNickname(x)
  PROVE  Inv'
<1> USE DEF sessionVars, history
<1>1. TypeOK'
  BY DEF Inv, TypeOK, CheckNickname, Goto, Phase, Input
<1>2. Positions'
  BY DEF Inv, TypeOK, Positions, CheckNickname, Goto, LoggingIn
<1>3. pc[x] = "lobby" /\ \A c \in Conn \ {x} : pc'[c] = pc[c]
  BY DEF CheckNickname, Goto, Inv, TypeOK
<1>4. ASSUME NEW d \in Conn, Sociable(x, d), Coming(x, d),
             <<d, player[d]>> \notin told[x] \cup spoilt[x], ~Waiting("joined", x, d)
      PROVE  Coming(x, d)'
  <2>1. d # x
    BY <1>4 DEF Sociable, InSight
  <2> QED
    BY <1>3, <1>4, <2>1 DEF Coming, CheckNickname
<1> QED
  BY <1>1, <1>2, <1>3, <1>4, LoginStep DEF CheckNickname

\* With the player of x everything about x starts anew.
LEMMA LookUpStep ==
  ASSUME Inv, NEW x \in Conn, LookUpPlayer(x)
  PROVE  Inv'
<1>1. /\ \A c \in Conn \ {x} : /\ player'[c] = player[c] /\ place'[c] = place[c]
                               /\ pc'[c] = pc[c]
      /\ \/ player'[x] = NoPlayer /\ place'[x] = NoPlace /\ pc'[x] = "lobby"
         \/ player'[x] \in Player /\ place'[x] \in Place /\ pc'[x] = "reply"
      /\ UNCHANGED <<connections, at, todo, seen, inflight, inputs>>
  <2>1. CASE ~Found(x)
    BY <2>1 DEF LookUpPlayer, Goto, Inv, TypeOK
  <2>2. CASE Found(x)
    BY <2>2, AnnouncementsAssumption DEF LookUpPlayer, Goto, Found, Inv, TypeOK
  <2> QED
    BY <2>1, <2>2
<1>2. /\ told' = [d \in Conn |-> IF d = x THEN {} ELSE {s \in told[d] : s[1] # x}]
      /\ bid' = [d \in Conn |-> IF d = x THEN {} ELSE {s \in bid[d] : s[1] # x}]
      /\ moved' = moved \ {x} /\ left' = left \ {x}
      /\ before' = [d \in Conn |-> IF d = x THEN left ELSE before[d] \ {x}]
      /\ spoilt' = [d \in Conn |-> IF d = x THEN {} ELSE {s \in spoilt[d] : s[1] # x}]
  BY DEF LookUpPlayer, Forget
<1>3. TypeOK'
  <2>1. player' \in [Conn -> Player \cup {NoPlayer}] /\ place' \in [Conn -> Place \cup {NoPlace}]
        /\ pc' \in [Conn -> Phase] /\ nick' \in [Conn -> Player \cup {Unknown}]
    <3>1. CASE ~Found(x)
      BY <3>1 DEF LookUpPlayer, Goto, Inv, TypeOK, Phase
    <3>2. CASE Found(x)
      BY <3>2, AnnouncementsAssumption DEF LookUpPlayer, Goto, Found, Inv, TypeOK, Phase
    <3> QED
      BY <3>1, <3>2
  <2>2. /\ told' \in [Conn -> SUBSET (Conn \X Player)]
        /\ spoilt' \in [Conn -> SUBSET (Conn \X Player)]
        /\ bid' \in [Conn -> SUBSET (Conn \X Player)]
    BY <1>2 DEF Inv, TypeOK
  <2>3. before' \in [Conn -> SUBSET Conn]
    BY <1>2 DEF Inv, TypeOK
  <2> QED
    BY <1>1, <1>2, <2>1, <2>2, <2>3 DEF Inv, TypeOK
<1>4. Positions'
  BY <1>1, <1>2, AnnouncementsAssumption DEF Inv, TypeOK, Positions, LoggingIn
<1>5. ASSUME NEW c \in Conn, NEW d \in Conn, c # x, d # x
      PROVE  /\ InSight(c, d)' => InSight(c, d)
             /\ Sociable(c, d)' => Sociable(c, d)
             /\ \A kind : Waiting(kind, c, d) => Waiting(kind, c, d)'
             /\ <<d, player[d]>> \in told[c] \cup spoilt[c]
                  => <<d, player'[d]>> \in told'[c] \cup spoilt'[c]
             /\ <<d, player[d]>> \in bid[c] => <<d, player'[d]>> \in bid'[c]
  <2>1. InSight(c, d)' => InSight(c, d)
    BY <1>1, <1>2, <1>5 DEF InSight
  <2>2. Sociable(c, d)' => Sociable(c, d)
    BY <1>1, <1>5, <2>1 DEF Sociable
  <2>3. \A kind : Waiting(kind, c, d) => Waiting(kind, c, d)'
    BY <1>1, <1>5, WaitingStays
  <2>4. <<d, player[d]>>[1] # x
    BY <1>5
  <2> QED
    BY <1>1, <1>2, <1>5, <2>1, <2>2, <2>3, <2>4
<1>6. ASSUME NEW c \in Conn, NEW d \in Conn, Sociable(c, d)'
      PROVE  Coming(c, d)'
  <2>1. CASE c = x \/ d = x
    <3>1. player'[x] # NoPlayer
      BY <1>6, <2>1, AnnouncementsAssumption DEF Sociable, InSight
    <3> QED
      BY <1>1, <2>1, <3>1 DEF Coming
  <2>2. CASE c # x /\ d # x
    <3>1. Coming(c, d)
      BY <1>5, <1>6, <2>2 DEF Inv, Acquainted
    <3>2. <<d, player[d]>> = <<d, player'[d]>>
      BY <1>1, <2>2
    <3> QED
      BY <1>1, <1>2, <1>5, <2>2, <3>1, <3>2 DEF Coming
  <2> QED
    BY <2>1, <2>2
<1>7. ASSUME NEW c \in Conn, NEW d \in Conn, InSight(c, d)', d \in (left \ before[c])'
      PROVE  Parting(c, d)'
  <2>1. c # x /\ d # x /\ d \in left \ before[c]
    BY <1>2, <1>7
  <2>2. Parting(c, d)
    BY <1>5, <1>7, <2>1 DEF Inv, Noticed
  <2> QED
    BY <1>5, <2>1, <2>2 DEF Parting
<1> QED
  BY <1>3, <1>4, <1>6, <1>7 DEF Inv, Acquainted, Noticed

LEMMA ReplyStep ==
  ASSUME Inv, NEW x \in Conn, ReplyLogin(x)
  PROVE  Inv'
<1> USE DEF sessionVars, history
<1>1. player[x] \in Player /\ place[x] \in Place
  BY DEF Inv, Positions, ReplyLogin, LoggingIn
<1>2. /\ pc[x] = "reply"
      /\ player[x] \notin Unsendable => pc'[x] = "announce"
      /\ \A c \in Conn \ {x} : pc'[c] = pc[c] /\ at'[c] = at[c]
      /\ pc'[x] = "lobby" \/ (pc'[x] = "announce" /\ at'[x] = place[x])
  <2>1. CASE player[x] \in Unsendable
    BY <2>1 DEF ReplyLogin, Goto, Inv, TypeOK
  <2>2. CASE player[x] \notin Unsendable
    BY <2>2 DEF ReplyLogin, Goto, Inv, TypeOK
  <2> QED
    BY <2>1, <2>2
<1>3. TypeOK'
  BY <1>1 DEF Inv, TypeOK, ReplyLogin, Goto, Phase
<1>4. Positions'
  BY <1>1, <1>2 DEF Inv, Positions, ReplyLogin, LoggingIn
<1>5. ASSUME NEW d \in Conn, Sociable(x, d)
      PROVE  Coming(x, d)'
  BY <1>2, <1>5 DEF Coming, Sociable
<1> QED
  BY <1>2, <1>3, <1>4, <1>5, LoginStep DEF ReplyLogin

\* Everybody in the table gets a goroutine, and x has its SyncState before it.
LEMMA AnnounceStep ==
  ASSUME Inv, NEW x \in Conn, AnnounceLogin(x)
  PROVE  Inv'
<1> USE DEF sessionVars, history
<1>1. player[x] \in Player /\ at[x] \in Place /\ (x \in moved \/ at[x] = place[x])
  BY DEF Inv, Positions, AnnounceLogin, LoggingIn
<1>2. /\ inflight \subseteq inflight' /\ inflight' \subseteq Message
      /\ \A c \in connections : \E m \in inflight' :
           m.kind = "joined" /\ m.by = x /\ m.id = player[x] /\ m.at = at[x] /\ m.to = c
  BY <1>1, BroadcastReaches DEF AnnounceLogin, Inv, TypeOK
<1>3. /\ pc'[x] = "sync"
      /\ \A c \in Conn \ {x} : pc'[c] = pc[c] /\ at'[c] = at[c]
  BY DEF AnnounceLogin, Goto, Inv, TypeOK
<1>4. TypeOK'
  BY <1>2 DEF Inv, TypeOK, AnnounceLogin, Goto, Phase
<1>5. Positions'
  BY <1>1, <1>3 DEF Inv, Positions, AnnounceLogin, LoggingIn
<1>6. ASSUME NEW c \in Conn, NEW d \in Conn, Sociable(c, d)'
      PROVE  Coming(c, d)'
  <2>1. Sociable(c, d) /\ Coming(c, d)
    BY <1>6 DEF AnnounceLogin, Sociable, InSight, Inv, Acquainted
  <2>2. CASE c = x
    BY <1>3, <2>2 DEF Coming
  <2>3. CASE d = x
    <3>1. PICK m \in inflight' :
            m.kind = "joined" /\ m.by = x /\ m.id = player[x] /\ m.at = at[x] /\ m.to = c
      BY <1>2, <2>1 DEF Sociable, InSight
    <3>2. at[x] = place[x]
      BY <1>1, <2>1, <2>3 DEF Sociable, InSight
    <3>3. Waiting("joined", c, d)'
      BY <2>1, <2>3, <3>1, <3>2 DEF Waiting, Sociable, InSight, AnnounceLogin
    <3> QED
      BY <3>3 DEF Coming
  <2>4. CASE c # x /\ d # x
    <3>1. Waiting("joined", c, d) => Waiting("joined", c, d)'
      BY <1>2, WaitingStays DEF AnnounceLogin
    <3> QED
      BY <1>3, <2>1, <2>4, <3>1 DEF Coming, AnnounceLogin
  <2> QED
    BY <2>2, <2>3, <2>4
<1>7. ASSUME NEW c \in Conn, NEW d \in Conn, InSight(c, d)', d \in (left \ before[c])'
      PROVE  Parting(c, d)'
  <2>1. Parting(c, d)
    BY <1>7 DEF AnnounceLogin, InSight, Inv, Noticed
  <2>2. Waiting("left", c, d) => Waiting("left", c, d)'
    BY <1>2, WaitingStays DEF AnnounceLogin
  <2> QED
    BY <2>1, <2>2 DEF Parting, AnnounceLogin
<1> QED
  BY <1>4, <1>5, <1>6, <1>7 DEF Inv, Acquainted, Noticed

LEMMA SyncPositionStep ==
  ASSUME Inv, NEW x \in Conn, SyncPosition(x)
  PROVE  Inv'
<1> USE DEF sessionVars, history
<1>1. player[x] \in Player /\ place[x] \in Place
  BY DEF Inv, Positions, SyncPosition, LoggingIn
<1>2. /\ pc[x] = "sync" /\ pc'[x] = "copy" /\ at'[x] = place[x]
      /\ \A c \in Conn \ {x} : pc'[c] = pc[c] /\ at'[c] = at[c]
  BY DEF SyncPosition, Goto, Inv, TypeOK
<1>3. TypeOK'
  BY <1>1 DEF Inv, TypeOK, SyncPosition, Goto, Phase
<1>4. Positions'
  BY <1>1, <1>2 DEF Inv, Positions, SyncPosition, LoggingIn
<1>5. \A d \in Conn : Coming(x, d)'
  BY <1>2 DEF Coming
<1> QED
  BY <1>2, <1>3, <1>4, <1>5, LoginStep DEF SyncPosition

LEMMA SyncCopyStep ==
  ASSUME Inv, NEW x \in Conn, SyncCopy(x)
  PROVE  Inv'
<1> USE DEF sessionVars, history
<1>1. /\ pc[x] = "copy" /\ pc'[x] = "collect" /\ todo'[x] = connections
      /\ \A c \in Conn \ {x} : pc'[c] = pc[c] /\ todo'[c] = todo[c]
  BY DEF SyncCopy, Goto, Inv, TypeOK
<1>2. TypeOK'
  BY DEF Inv, TypeOK, SyncCopy, Goto, Phase
<1>3. Positions'
  BY <1>1 DEF Inv, Positions, SyncCopy, LoggingIn
<1>4. ASSUME NEW d \in Conn, Sociable(x, d)
      PROVE  Coming(x, d)'
  BY <1>1, <1>4 DEF Coming, Sociable
<1> QED
  BY <1>1, <1>2, <1>3, <1>4, LoginStep DEF SyncCopy

LEMMA SyncCollectStep ==
  ASSUME Inv, NEW x \in Conn, NEW e \in Conn, SyncCollect(x, e)
  PROVE  Inv'
<1> USE DEF sessionVars, history
<1>1. /\ pc[x] = "collect" /\ pc' = pc
      /\ todo'[x] = todo[x] \ {e}
      /\ \A c \in Conn \ {x} : todo'[c] = todo[c] /\ seen'[c] = seen[c]
      /\ seen[x] \subseteq seen'[x]
      /\ player[e] \notin {NoPlayer, player[x]} /\ InRange(place[e], at[x])
           => <<e, player[e]>> \in seen'[x]
  BY DEF SyncCollect, Inv, TypeOK
<1>2. TypeOK'
  <2>1. todo' \in [Conn -> SUBSET Conn]
    BY DEF Inv, TypeOK, SyncCollect
  <2>2. seen' \in [Conn -> SUBSET (Conn \X Player)]
    <3>1. CASE player[e] \notin {NoPlayer, player[x]} /\ InRange(place[e], at[x])
      <4>1. <<e, player[e]>> \in Conn \X Player
        BY <3>1 DEF Inv, TypeOK
      <4>2. seen' = [seen EXCEPT ![x] = @ \cup {<<e, player[e]>>}]
        BY <3>1 DEF SyncCollect
      <4> QED
        BY <4>1, <4>2 DEF Inv, TypeOK
    <3>2. CASE ~(player[e] \notin {NoPlayer, player[x]} /\ InRange(place[e], at[x]))
      BY <3>2 DEF SyncCollect, Inv, TypeOK
    <3> QED
      BY <3>1, <3>2
  <2> QED
    BY <2>1, <2>2 DEF Inv, TypeOK, SyncCollect
<1>3. Positions'
  BY DEF Inv, Positions, SyncCollect
<1>4. ASSUME NEW d \in Conn, Sociable(x, d), Coming(x, d),
             <<d, player[d]>> \notin told[x] \cup spoilt[x], ~Waiting("joined", x, d)
      PROVE  Coming(x, d)'
  <2>1. CASE d = e
    <3>1. x \notin moved /\ InRange(place[x], place[d])
          /\ player[d] \in Player /\ player[x] \in Player /\ player[x] # player[d]
      BY <1>4 DEF Sociable, InSight
    <3>2. at[x] = place[x] /\ place[x] \in Place /\ place[d] \in Place
      BY <1>1, <3>1 DEF Inv, Positions
    <3>3. InRange(place[d], at[x])
      BY <3>1, <3>2, AnnouncementsAssumption DEF InRange
    <3>4. <<d, player[d]>> \in seen'[x]
      BY <1>1, <2>1, <3>1, <3>3, AnnouncementsAssumption
    <3> QED
      BY <1>1, <3>4 DEF Coming, SyncCollect
  <2>2. CASE d # e
    BY <1>1, <1>4, <2>2 DEF Coming, SyncCollect
  <2> QED
    BY <2>1, <2>2
<1> QED
  BY <1>1, <1>2, <1>3, <1>4, LoginStep DEF SyncCollect

LEMMA SyncSendStep ==
  ASSUME Inv, NEW x \in Conn, SyncSend(x)
  PROVE  Inv'
<1> USE DEF sessionVars
<1>1. /\ pc[x] = "collect" /\ pc'[x] = "lobby" /\ todo[x] = {}
      /\ \A c \in Conn \ {x} : /\ pc'[c] = pc[c] /\ seen'[c] = seen[c]
                               /\ at'[c] = at[c]
                               /\ told'[c] = told[c] /\ spoilt'[c] = spoilt[c]
      /\ told'[x] \cup spoilt'[x] = told[x] \cup spoilt[x] \cup seen[x]
  BY DEF SyncSend, Goto, Inv, TypeOK
<1>2. TypeOK'
  BY DEF SyncSend, Goto, Inv, TypeOK, Phase
<1>3. Positions'
  BY <1>1 DEF Inv, Positions, SyncSend, LoggingIn
<1>4. ASSUME NEW c \in Conn, NEW d \in Conn, Sociable(c, d)'
      PROVE  Coming(c, d)'
  <2>1. Sociable(c, d) /\ c # d
    BY <1>4 DEF SyncSend, Sociable, InSight
  <2>2. Coming(c, d)
    BY <2>1 DEF Inv, Acquainted
  <2>3. Waiting("joined", c, d) => Waiting("joined", c, d)'
    BY WaitingStays DEF SyncSend
  <2>4. CASE c = x
    BY <1>1, <2>1, <2>2, <2>3, <2>4 DEF Coming, SyncSend
  <2>5. CASE c # x
    BY <1>1, <2>2, <2>3, <2>5 DEF Coming, SyncSend
  <2> QED
    BY <2>4, <2>5
<1>5. ASSUME NEW c \in Conn, NEW d \in Conn, InSight(c, d)', d \in (left \ before[c])'
      PROVE  Parting(c, d)'
  <2>1. Parting(c, d)
    BY <1>5 DEF SyncSend, InSight, Inv, Noticed
  <2> QED
    BY <2>1, WaitingStays DEF Parting, SyncSend
<1> QED
  BY <1>2, <1>3, <1>4, <1>5 DEF Inv, Acquainted, Noticed

-----------------------------------------------------------------------------
(* The theorems. *)

\* The invariant holds at the start and no step of any handler, nor any
\* goroutine of a broadcast, breaks it.
THEOREM Invariant == Spec => []Inv
<1>1. Init => Inv
  <2> SUFFICES ASSUME Init PROVE Inv
    OBVIOUS
  <2>1. TypeOK
    BY AnnouncementsAssumption DEF Init, TypeOK, Phase
  <2>2. Positions
    BY AnnouncementsAssumption DEF Init, Positions, LoggingIn
  <2>3. \A c, d \in Conn : ~InSight(c, d)
    BY DEF Init, InSight
  <2> QED
    BY <2>1, <2>2, <2>3 DEF Inv, Acquainted, Noticed, Sociable
<1>2. Inv /\ [Next]_vars => Inv'
  <2> SUFFICES ASSUME Inv, [Next]_vars PROVE Inv'
    OBVIOUS
  <2>1. ASSUME NEW c \in Conn, Accept(c) PROVE Inv'
    BY <2>1, AcceptStep
  <2>2. ASSUME NEW c \in Conn, EndOfStream(c) PROVE Inv'
    <3>1. inputs' \in Nat
      BY <2>2 DEF EndOfStream, Input, Inv, TypeOK
    <3>2. pc[c] = "lobby" /\ pc' = [pc EXCEPT ![c] = "over"] /\ HandleDisconnect(c)
      BY <2>2 DEF EndOfStream, Goto
    <3>3. UNCHANGED <<player, place, nick, at, todo, seen, told, spoilt, bid, moved, before>>
      BY <2>2 DEF EndOfStream
    <3> QED
      BY <3>1, <3>2, <3>3, DisconnectStep
  <2>3. ASSUME NEW c \in Conn, Removed(c) PROVE Inv'
    BY <2>3, DisconnectStep DEF Removed, loginVars, Input, Inv, TypeOK
  <2>4. ASSUME NEW c \in Conn, Move(c) PROVE Inv'
    BY <2>4, MoveStep
  <2>5. ASSUME NEW c \in Conn, HandleLogin(c) PROVE Inv'
    BY <2>5, CheckStep, LookUpStep, ReplyStep, AnnounceStep, SyncPositionStep,
       SyncCopyStep, SyncCollectStep, SyncSendStep DEF HandleLogin
  <2>6. ASSUME NEW m \in inflight, Deliver(m) PROVE Inv'
    BY <2>6, DeliverStep
  <2>7. CASE UNCHANGED vars
    <3> USE <2>7 DEF vars, sessionVars, loginVars, history
    <3>1. TypeOK' /\ Positions'
      BY DEF Inv, TypeOK, Positions
    <3>2. Acquainted'
      BY DEF Inv, Acquainted, Sociable, InSight, Coming, Waiting
    <3>3. Noticed'
      BY DEF Inv, Noticed, InSight, Parting, Waiting
    <3> QED
      BY <3>1, <3>2, <3>3 DEF Inv
  <2> QED
    BY <2>1, <2>2, <2>3, <2>4, <2>5, <2>6, <2>7 DEF Next
<1> QED
  BY <1>1, <1>2, PTL DEF Spec

\* Every variable has its type.
THEOREM TypeCorrect == Spec => []TypeOK
<1>1. Inv => TypeOK
  BY DEF Inv
<1> QED
  BY <1>1, Invariant, PTL

\* Two clients in the game and in sight of each other know of each other as
\* soon as their logins and the goroutines for them are done, unless one of
\* them was in a SyncState that the other could not read (handleLogin,
\* BroadcastInRange and sendSyncState against each other).
THEOREM EverybodyIntroduced == Spec => []Introduced
<1>1. Inv => Introduced
  BY DEF Inv, Acquainted, Introduced, Settled, Sociable, Coming
<1> QED
  BY <1>1, Invariant, PTL

\* A client in the game gets the PlayerLeft of whoever leaves in its sight,
\* once the goroutine for it is done (handleDisconnect against the rest).
THEOREM NobodyLeavesUnnoticed == Spec => []Farewell
<1>1. Inv => Farewell
  BY DEF Inv, Noticed, Farewell, Parting
<1> QED
  BY <1>1, Invariant, PTL
=============================================================================
