--------------------------- MODULE MCCalculations ---------------------------
(* The inputs of Calculations for TLC: all of small domains. *)
EXTENDS Calculations

CONSTANTS Grid, Span, TextLength, MaxExp

Square2(n) == (0..n) \X (0..n)
Texts(n) == BoundedSeq(Byte, n)

Segments == Square2(Span) \X Square2(Span)

\* Quadrangles from two vertices: a ring may be turned and moved.
Triangles == Square2(Grid) \X Square2(Grid) \X Square2(Grid)
Quads == {<<0, 0>>, <<1, 0>>} \X Square2(Grid) \X Square2(Grid) \X Square2(Grid)
Rings == Triangles \cup Quads

Messages == [type : {1}, data : Texts(2), error : Texts(1)]
Bodies == [msg : {m \in Messages : Len(m.data) < 2}, cut : BOOLEAN]
Streams == BoundedSeq(Bodies, 2) \X (0..26)

\* Nicknames: one of them too long for a length byte.
Nicknames == Texts(TextLength) \cup {[i \in 1..Base |-> Slash]}
Chats == Nicknames \X Texts(TextLength + 1)
People == [id : {1}, nickname : Nicknames]
Codes == [id : {2}, code : BoundedSeq({1, 2}, 2)]
Syncs == BoundedSeq(People, 2) \X BoundedSeq(Codes, 2)

\* Chunks around a player's and around those at multiples of 256, and beyond
\* the coordinates of tiles: the last before they wrap, and the first after it.
Offsets == -6..6 \cup {k * 256 + i : k \in {-1, 1}, i \in -6..6}
Requests ==
  {<<{tile}, {<<c[1] + d[1], c[2] + d[2]>>}>> :
     <<tile, c, d>> \in {<<t, GetChunkCoord(t), e>> : t \in {<<0, 0>>, <<8191, 4095>>, <<4100, 70>>},
                                                     e \in Offsets \X Offsets}}
Chunks == {r \in Requests : r[2] \subseteq Nat \X Nat}
            \cup {<<{<<4080, 70>>}, {<<4095, 4>>}>>, <<{<<0, 0>>}, {<<4096, 0>>}>>}
            \cup {<<{}, {<<0, 0>>}>>, <<{}, {}>>, <<{<<0, 0>>}, {}>>}

Experience == 0..MaxExp

Nothing == {}
=============================================================================
