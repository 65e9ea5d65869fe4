--------------------------- MODULE MCAnnouncements ---------------------------
(* An instance of Announcements for TLC. *)
EXTENDS Announcements, TLC

CONSTANTS c1, c2, c3, p1, p2, p3, here, away

TwoConns == {c1, c2}
ThreeConns == {c1, c2, c3}
ThreePlayers == {p1, p2, p3}
LongNamed == {p3}
TwoPlaces == {here, away}
OnePlace == {here}

\* Away is out of sight of here.
SamePlace == {<<p, p>> : p \in Place}

\* Connections are interchangeable, and players with nicknames that fit.
Symmetry == Permutations(Conn) \cup Permutations(Player \ Unsendable)
=============================================================================
