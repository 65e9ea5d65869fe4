------------------------------ MODULE ChunkView ------------------------------
(***************************************************************************)
(* handleChunkRequest: which chunks a player is sent, and what is in them. *)
(* Chunk numbers and tile coordinates are uint16: distance and bounds are  *)
(* computed modulo Word.                                                   *)
(***************************************************************************)
EXTENDS Integers, Sequences

CONSTANTS
  Word,                 \* 2^16
  ChunkSize,            \* config.ChunkSize
  MaxChunkViewDistance, \* config.MaxChunkViewDistance
  MapWidth, MapHeight,  \* the tiles that exist: all of a rectangle
  PacketTiles           \* 256, the length of ChunkPacket.Tiles

ASSUME ChunkViewAssumption ==
  {Word, ChunkSize, MaxChunkViewDistance, MapWidth, MapHeight, PacketTiles} \subseteq Nat \ {0}

\* A packet has room for a chunk, and what is seen from the map has numbers.
ASSUME PacketAssumption ==
  /\ ChunkSize * ChunkSize = PacketTiles
  /\ {MapWidth, MapHeight} \subseteq 1..Word - (2 * MaxChunkViewDistance + 1) * ChunkSize

\* The square of a uint16, as a uint16.  (Squared as the number between
\* -Word/2 and Word/2 that it is congruent to, which gives the same.)
Square(n) ==
  LET m == n % Word
      s == IF 2 * m >= Word THEN Word - m ELSE m
  IN  (s * s) % Word

\* Player.GetChunkCoord for a position on the map.
GetChunkCoord(tile) == <<tile[1] \div ChunkSize, tile[2] \div ChunkSize>>

\* sqrt(d) <= hypot(v, v); the comparison of squares is exact for d < 2^16.
\* Mutant: the distance on one axis.
InView_Axis(chunk, own) == Square(chunk[1] - own[1]) <= 2 * MaxChunkViewDistance * MaxChunkViewDistance
InView(chunk, own) ==
  (Square(chunk[1] - own[1]) + Square(chunk[2] - own[2])) % Word
    <= 2 * MaxChunkViewDistance * MaxChunkViewDistance

Start(n) == (n * ChunkSize) % Word
End(n) == (Start(n) + ChunkSize) % Word

\* A tile of the answer: what the map has there, or water.
TileAt(x, y) == IF x < MapWidth /\ y < MapHeight THEN <<x, y>> ELSE "water"

\* The loops run from start to end, both modulo Word: empty if they wrap.
Columns(chunk) == Start(chunk[1])..End(chunk[1]) - 1
Lines(chunk) == Start(chunk[2])..End(chunk[2]) - 1
Count(interval) == IF interval = {} THEN 0 ELSE ChunkSize
ChunkTiles(chunk) ==
  [k \in 1..Count(Columns(chunk)) * Count(Lines(chunk)) |->
     TileAt(Start(chunk[1]) + (k - 1) \div ChunkSize, Start(chunk[2]) + ((k - 1) % ChunkSize))]

\* What is sent: an error, the packet, or nothing.  position holds the tile of
\* a player who is logged in, request the chunk that DecodeChunkRequest finds.
NoAnswer == <<>>
HandleChunkRequest(position, request) ==
  LET tile == CHOOSE t \in position : TRUE
      chunk == CHOOSE c \in request : TRUE
  IN  IF position = {} THEN <<[error |-> "login.required"]>>
      ELSE IF request = {} THEN <<[error |-> "invalid.request"]>>
      ELSE IF ~InView(chunk, GetChunkCoord(tile)) \/ Len(ChunkTiles(chunk)) # PacketTiles THEN NoAnswer
      ELSE <<[chunk |-> chunk, tiles |-> ChunkTiles(chunk)]>>
=============================================================================
