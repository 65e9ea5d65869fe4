---------------------------- MODULE Calculations ----------------------------
(***************************************************************************)
(* The functions of Raster, Wire, ChunkView and Levels against reference   *)
(* definitions: an input is chosen, the function of its kind is called     *)
(* once.                                                                   *)
(***************************************************************************)
EXTENDS Raster, Wire, ChunkView, Levels

CONSTANTS
  LineInputs,     \* pairs of tiles
  PolygonInputs,  \* rings of tiles
  StreamInputs,   \* what a peer writes, message by message, and where it ends
  DatagramInputs, \* messages
  ChatInputs,     \* nicknames and payloads
  SyncInputs,     \* players and countries
  ChunkInputs,    \* positions and requested chunks: at most one of each
  LevelInputs     \* experience

\* Inputs are what the code can be called with: lengths fit in the integers
\* they are encoded in, a position is on the map, a chunk number is a uint16;
\* MaxLevel is a bound on experience.
ASSUME LineInputsAssumption == LineInputs \subseteq (Int \X Int) \X (Int \X Int)
ASSUME PolygonInputsAssumption == PolygonInputs \subseteq Seq(Int \X Int)
ASSUME StreamInputsAssumption ==
  \A s \in StreamInputs :
    /\ s[1] \in Seq([msg : Message, cut : BOOLEAN]) /\ s[2] \in Nat
    /\ \A i \in DOMAIN s[1] : Len(EncodeRawMessage(s[1][i].msg)) < Base * Base * Base * Base
ASSUME DatagramInputsAssumption == DatagramInputs \subseteq Message
ASSUME ChatInputsAssumption == ChatInputs \subseteq Seq(Byte) \X Seq(Byte)
ASSUME SyncInputsAssumption ==
  SyncInputs \subseteq Seq([id : Byte, nickname : Seq(Byte)]) \X Seq([id : Byte, code : Seq(Byte)])
ASSUME ChunkInputsAssumption ==
  \A r \in ChunkInputs :
    /\ r[1] \subseteq (0..MapWidth - 1) \X (0..MapHeight - 1) /\ \A t, u \in r[1] : t = u
    /\ r[2] \subseteq (0..Word - 1) \X (0..Word - 1) /\ \A b, c \in r[2] : b = c
ASSUME LevelInputsAssumption ==
  \A exp \in LevelInputs : exp \in Nat /\ ~AtLeast(exp, MaxLevel + 1)

VARIABLES kind, input, output

vars == <<kind, input, output>>

None == <<>>

Init ==
  /\ output = None
  /\ \/ kind = "line" /\ input \in LineInputs
     \/ kind = "polygon" /\ input \in PolygonInputs
     \/ kind = "stream" /\ input \in StreamInputs
     \/ kind = "datagram" /\ input \in DatagramInputs
     \/ kind = "chat" /\ input \in ChatInputs
     \/ kind = "sync" /\ input \in SyncInputs
     \/ kind = "chunk" /\ input \in ChunkInputs
     \/ kind = "level" /\ input \in LevelInputs

\* What a peer puts into a frame: a message, or one without its last byte.
Raw(body) ==
  LET raw == EncodeRawMessage(body.msg) IN IF body.cut THEN First(raw, Len(raw) - 1) ELSE raw

Call(k, result) ==
  /\ kind = k
  /\ output = None
  /\ output' = <<result>>
  /\ UNCHANGED <<kind, input>>

\* The bytes of a stream up to a cut.
Stream(sent, end) ==
  LET bytes == FlattenSeq([i \in DOMAIN sent |-> Frame(Raw(sent[i]))])
  IN  First(bytes, IF Len(bytes) < end THEN Len(bytes) ELSE end)

Next ==
  \/ Call("line", drawLine(input[1], input[2]))
  \/ Call("polygon", drawPolygon(input))
  \/ Call("stream", ReadFrames(Stream(input[1], input[2])))
  \/ Call("datagram", ReadDatagram(Datagram(1, input)))
  \/ Call("chat", HandleChat(input[1], input[2]))
  \/ Call("sync", EncodeSyncStateData(input[1], input[2], 1))
  \/ Call("chunk", HandleChunkRequest(input[1], input[2]))
  \/ Call("level", GetLevel(input))

Spec == Init /\ [][Next]_vars

Called(k) == kind = k /\ output # None
Result == output[1]

-----------------------------------------------------------------------------
\* drawLine connects two tiles: both ends, one tile per unit of the longer
\* axis, no gap, nowhere more than half a tile off.
LinesAreDrawn == Called("line") => IsLine(Result, input[1], input[2])

\* drawPolygon draws all that is inside a ring, self-intersecting or not, and
\* nothing that is farther than half a tile from it: rows at a vertex, at a
\* horizontal edge, and rounded crossings that fall together included.
PolygonsAreFilled == Called("polygon") => IsPolygon(Result, input)

\* A stream that ends anywhere yields exactly the messages that are complete
\* in it, and a frame that cannot be decoded does not cost the others
\* (handleTCPConnection's loop).
StreamRoundTrip ==
  Called("stream") =>
    LET sent == input[1]
        frames == [i \in DOMAIN sent |-> Frame(Raw(sent[i]))]
        received == [i \in DOMAIN sent |-> IF sent[i].cut THEN <<>> ELSE <<sent[i].msg>>]
        end(n) == Len(FlattenSeq(First(frames, n)))
    IN  \E n \in 0..Len(sent) :
          /\ end(n) <= input[2]
          /\ n = Len(sent) \/ end(n + 1) > input[2]
          /\ Result = FlattenSeq(First(received, n))

\* A datagram longer than the buffer is refused, never misread.
DatagramWholeOrNothing ==
  Called("datagram") =>
    Result = IF Len(Datagram(1, input)) <= UdpBuffer THEN {input} ELSE {}

\* A chat message is sent to the others as it came, less the spaces around
\* it, or the sender is told why not; whatever handleChat can decode it can
\* encode, unless the sender's nickname is too long.
ChatArrives ==
  Called("chat") =>
    LET nickname == input[1]
        data == input[2]
        text == TrimSpace(First(After(data, 1), data[1]))
    IN  /\ Result.kind = "failed" => Len(nickname) >= Base
        /\ Result.kind = "invalid" <=> Len(data) < 2 \/ data[1] > Len(data) - 1
        /\ Result.kind = "broadcast" =>
             Result.data = <<General, Len(nickname)>> \o nickname \o <<Len(text)>> \o text

\* The state sendSyncState sends after a login can be read back - if no
\* nickname is too long, since players that are left out are counted, and if
\* counters and lengths fit in their one and two bytes.
SyncStateReadable ==
  Called("sync") =>
    LET players == input[1]
        countries == input[2]
    IN  /\ Len(players) < Base /\ Len(PlayerBytes(players)) < Base * Base
        /\ Len(countries) < Base /\ Len(CountryBytes(countries)) < Base * Base
        /\ \A i \in DOMAIN players : Len(players[i].nickname) < Base
        /\ \A i \in DOMAIN countries : Len(countries[i].code) < Base
        => ReadSyncState(Result) =
             {[players   |-> [i \in DOMAIN players |-> [id |-> players[i].id, text |-> players[i].nickname]],
               countries |-> [i \in DOMAIN countries |-> [id |-> countries[i].id, text |-> countries[i].code]],
               online    |-> <<1>>]}

\* A request of a player for a chunk in view is answered, with the tiles of
\* that chunk in order; one for a chunk out of view is not, unless its squared
\* distance is that of a chunk in view modulo 2^16.  Then it is answered too,
\* with the tiles that are at its coordinates modulo 2^16 - or not, if they
\* wrap around within the chunk.
Distance2(a, b) == (a[1] - b[1]) * (a[1] - b[1]) + (a[2] - b[2]) * (a[2] - b[2])
Far == 2 * MaxChunkViewDistance * MaxChunkViewDistance
Origin(n) == (ChunkSize * n) % Word
Packet(chunk, x, y) ==
  <<[chunk |-> chunk,
     tiles |-> [k \in 1..PacketTiles |->
                  TileAt(x + (k - 1) \div ChunkSize, y + ((k - 1) % ChunkSize))]]>>
ChunkAnswers ==
  Called("chunk") =>
    /\ (input[1] = {} \/ input[2] = {}) <=> Result # NoAnswer /\ "error" \in DOMAIN Result[1]
    /\ \A tile \in input[1], chunk \in input[2] :
         LET own == <<tile[1] \div ChunkSize, tile[2] \div ChunkSize>>
             d == Distance2(chunk, own)
             x == Origin(chunk[1])
             y == Origin(chunk[2])
         IN  Result = IF d <= Far THEN Packet(chunk, ChunkSize * chunk[1], ChunkSize * chunk[2])
                      ELSE IF d % Word <= Far /\ x + ChunkSize < Word /\ y + ChunkSize < Word
                      THEN Packet(chunk, x, y)
                      ELSE NoAnswer

\* "Check if requested chunk is within MaxViewChunkDistance" (socket.go:550):
\* no other chunk is sent.
SentAreInView ==
  Called("chunk") =>
    \A tile \in input[1], chunk \in input[2] :
      Result # NoAnswer =>
        Distance2(chunk, <<tile[1] \div ChunkSize, tile[2] \div ChunkSize>>) <= Far

\* "ExpForLevel returns required EXP for a specific level": a player has at
\* least the experience his level asks for, and not what the next one asks
\* for (but for the fraction that is cut off) - if he has none, or 667.  With
\* less he has the lowest level, or one of the last before 2^64.
LevelsAgree ==
  Called("level") =>
    /\ Result # {}
    /\ \A l \in Result :
         IF input = 0 \/ AboveMinusOne(input)
         THEN ExpForNextLevel(l) <= input /\ input <= ExpForNextLevel(l + 1)
         ELSE l = 1 \/ (Uint - MaxPower < l /\ l < Uint)

\* "Ensure minimum level is 1" (player.go:70): that is the level of whoever has
\* less than the base experience, for whom the formula gives less than 1.
LowestIsOne == Called("level") /\ input < BaseExp => Result = {1}
=============================================================================
