----------------------------- MODULE MCSessions -----------------------------
(* Instances of Sessions for TLC. *)
EXTENDS Sessions, TLC

CONSTANTS c1, c2, c3, i1, i2, i3

OneConn == {c1}
TwoConns == {c1, c2}
ThreeConns == {c1, c2, c3}
OneID == {i1}
TwoIDs == {i1, i2}
ThreeIDs == {i1, i2, i3}
OneUdp == {"udp"}
NoUdp == {}

\* Nicknames that stand for themselves: of one row; of one row and of nobody.
OnePlayer == {1}
OneNick == {"ann"}
TwoNicks == {"ann", "cem"}
OneNickOf == 1 :> "ann"
OneILike == "ann" :> {1}
TwoILike == "ann" :> {1} @@ "cem" :> {}

\* A nickname with a wildcard: in ILIKE "a_n" stands for any three letters a?n.
PatternNicks == {"ann", "a_n"}
PatternILike == [n \in PatternNicks |-> {1}]

\* Connections and identifiers are interchangeable.
Symmetry == Permutations(Conn) \cup Permutations(ConnID)
=============================================================================
