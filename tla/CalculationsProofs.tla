------------------------- MODULE CalculationsProofs -------------------------
(***************************************************************************)
(* What the functions of ChunkView, Wire and Levels return, for every      *)
(* input and every value of the constants.  A result is there after one    *)
(* step, so that each property follows from what its function returns; for *)
(* lines and polygons RasterProofs says what that is.                      *)
(***************************************************************************)
EXTENDS Calculations, RasterProofs

-----------------------------------------------------------------------------
(* Chunks. *)

\* Multiples of the modulus do not count.
LEMMA ModuloAdds ==
  ASSUME NEW a \in Int, NEW k \in Int
  PROVE  (a + Word * k) % Word = a % Word
<1> DEFINE q == a \div Word
           r == a % Word
<1>0. Word \in Nat \ {0}
  BY ChunkViewAssumption
<1>1. q \in Int /\ r \in 0..Word - 1 /\ a = Word * q + r
  BY <1>0, Quotient, Zenon
<1> HIDE DEF q, r
<1>2. a + Word * k = Word * (q + k) + r /\ q + k \in Int
  BY <1>0, <1>1
<1>3. (a + Word * k) % Word = r
  BY <1>0, <1>1, <1>2, Division
<1> QED
  BY <1>3 DEF r

\* The square of a uint16 is that of the number, but for multiples of Word.
LEMMA SquareModulo ==
  ASSUME NEW n \in Int
  PROVE  Square(n) \in Int /\ \E k \in Int : Square(n) = n * n + Word * k
<1> DEFINE q == n \div Word
           m == n % Word
           s == IF 2 * m >= Word THEN Word - m ELSE m
           d == (s * s) \div Word
<1>0. Word \in Nat \ {0}
  BY ChunkViewAssumption
<1>1. q \in Int /\ m \in 0..Word - 1 /\ n = Word * q + m
  BY <1>0, Quotient, Zenon
<1>2. Square(n) = (s * s) % Word
  BY DEF Square
<1> HIDE DEF q, m
<1>3. s \in Int
  BY <1>0, <1>1
<1>4. PICK j \in Int : s * s = m * m + Word * j
  <2>1. CASE 2 * m >= Word
    <3> DEFINE i == Word - 2 * m
    <3>1. s * s = m * m + Word * i /\ i \in Int
      BY <1>0, <1>1, <2>1
    <3> HIDE DEF s, i
    <3> QED
      BY <3>1
  <2>2. CASE ~(2 * m >= Word)
    <3>1. s * s = m * m + Word * 0
      BY <1>0, <1>1, <2>2
    <3> HIDE DEF s
    <3> QED
      BY <3>1
  <2> QED
    BY <2>1, <2>2
<1> HIDE DEF s
<1>5. d \in Int /\ (s * s) % Word \in Int /\ s * s = Word * d + ((s * s) % Word)
  <2> DEFINE t == s * s
  <2>1. t \in Int
    BY <1>3
  <2>2. d = t \div Word /\ (s * s) % Word = t % Word
    OBVIOUS
  <2> HIDE DEF t, d
  <2>3. t \div Word \in Int /\ t % Word \in 0..Word - 1 /\ t = Word * (t \div Word) + (t % Word)
    BY <1>0, <2>1, Quotient
  <2> QED
    BY <1>0, <2>2, <2>3 DEF t
<1> HIDE DEF d
<1>6. m * m = n * n + Word * ((Word * q) * q - 2 * (n * q))
  <2>1. m = n - Word * q
    BY <1>0, <1>1
  <2>2. (n - Word * q) * (n - Word * q) = n * n + Word * ((Word * q) * q - 2 * (n * q))
    BY <1>0, <1>1
  <2> QED
    BY <2>1, <2>2
<1> DEFINE k == ((Word * q) * q - 2 * (n * q)) + (j - d)
<1>7. k \in Int
  BY <1>0, <1>1, <1>4, <1>5
<1>8. Square(n) = n * n + Word * k
  <2> DEFINE e == (Word * q) * q - 2 * (n * q)
             sq == (s * s) % Word
  <2>1. e \in Int /\ sq \in Int
    BY <1>0, <1>1, <1>5
  <2>2. m * m = n * n + Word * e /\ s * s = m * m + Word * j /\ s * s = Word * d + sq
    BY <1>4, <1>5, <1>6
  <2> HIDE DEF e, sq
  <2>3. n * n \in Int
    OBVIOUS
  <2>4. sq = n * n + Word * e + Word * j - Word * d
    BY <1>0, <1>4, <1>5, <2>1, <2>2, <2>3
  <2>5. Word * e + Word * j - Word * d = Word * (e + (j - d))
    BY <1>0, <1>4, <1>5, <2>1
  <2>6. sq = n * n + Word * (e + (j - d))
    BY <1>0, <1>4, <1>5, <2>1, <2>3, <2>4, <2>5
  <2> QED
    BY <1>2, <2>6 DEF e, sq
<1> HIDE DEF k
<1> QED
  BY <1>2, <1>5, <1>7, <1>8

\* What is compared is the squared distance modulo Word.
LEMMA InViewIsDistance ==
  ASSUME NEW a \in Int \X Int, NEW b \in Int \X Int
  PROVE  InView(a, b) <=> Distance2(a, b) % Word <= Far
<1> DEFINE x == a[1] - b[1]
           y == a[2] - b[2]
<1>0. Word \in Nat \ {0} /\ x \in Int /\ y \in Int
  BY ChunkViewAssumption
<1>1. Distance2(a, b) = x * x + y * y
  BY DEF Distance2
<1>2. InView(a, b) <=> (Square(x) + Square(y)) % Word <= Far
  BY DEF InView, Far
<1> HIDE DEF x, y
<1>3. PICK j \in Int : Square(x) = x * x + Word * j
  BY <1>0, SquareModulo
<1>4. PICK k \in Int : Square(y) = y * y + Word * k
  BY <1>0, SquareModulo
<1>5. Square(x) + Square(y) = (x * x + y * y) + Word * (j + k)
  <2>1. x * x \in Int /\ y * y \in Int /\ Word * j \in Int /\ Word * k \in Int
    BY <1>0
  <2>2. Word * (j + k) = Word * j + Word * k
    BY <1>0
  <2> QED
    BY <1>3, <1>4, <2>1, <2>2
<1>6. x * x + y * y \in Int /\ j + k \in Int
  BY <1>0
<1>7. (Square(x) + Square(y)) % Word = (x * x + y * y) % Word
  BY <1>5, <1>6, ModuloAdds
<1> QED
  BY <1>1, <1>2, <1>7

\* A chunk that is in view from the map: its tiles have numbers, in both
\* coordinates.
LEMMA InViewInBounds ==
  ASSUME NEW width \in {MapWidth, MapHeight}, NEW tile \in 0..width - 1, NEW c \in Nat,
         (c - (tile \div ChunkSize)) * (c - (tile \div ChunkSize))
           <= 2 * MaxChunkViewDistance * MaxChunkViewDistance
  PROVE  /\ Start(c) = c * ChunkSize
         /\ Count(Start(c)..End(c) - 1) = ChunkSize
<1> DEFINE own == tile \div ChunkSize
           v == MaxChunkViewDistance
<1>0. /\ ChunkSize \in Nat \ {0} /\ v \in Nat \ {0} /\ Word \in Nat \ {0}
      /\ width \in Nat \ {0} /\ width <= Word - (2 * v + 1) * ChunkSize
  BY ChunkViewAssumption, PacketAssumption
<1>1. own \in Nat /\ own * ChunkSize <= tile /\ tile \in Nat /\ tile < width
  <2>1. tile \in Nat /\ tile < width
    BY <1>0
  <2> QED
    BY <1>0, <2>1, NatQuotient
<1>2. (c - own) * (c - own) <= 2 * v * v
  OBVIOUS
<1> HIDE DEF own, v
<1>3. c <= own + 2 * v
  <2> SUFFICES ASSUME c - own > 2 * v PROVE FALSE
    BY <1>0, <1>1
  <2> DEFINE n == c - own
  <2>1. n \in Int /\ n > 2 * v /\ n * n <= 2 * v * v
    BY <1>1, <1>2
  <2> HIDE DEF n
  <2>2. n * n >= (2 * v) * n
    BY <1>0, <2>1
  <2>3. (2 * v) * n >= (2 * v) * (2 * v)
    BY <1>0, <2>1
  <2>4. v * v > 0 /\ (2 * v) * (2 * v) = 4 * (v * v) /\ 2 * v * v = 2 * (v * v)
    BY <1>0
  <2> QED
    BY <1>0, <2>1, <2>2, <2>3, <2>4
<1>4. c * ChunkSize + ChunkSize <= tile + (2 * v + 1) * ChunkSize
  <2>1. c * ChunkSize <= (own + 2 * v) * ChunkSize
    BY <1>0, <1>1, <1>3
  <2>2. (own + 2 * v) * ChunkSize = own * ChunkSize + (2 * v) * ChunkSize
    BY <1>0, <1>1
  <2>3. (2 * v + 1) * ChunkSize = (2 * v) * ChunkSize + ChunkSize
    BY <1>0
  <2> QED
    BY <1>0, <1>1, <2>1, <2>2, <2>3
<1>5. c * ChunkSize \in Nat /\ c * ChunkSize + ChunkSize < Word
  BY <1>0, <1>1, <1>4
<1>6. Start(c) = c * ChunkSize
  <2> DEFINE s == c * ChunkSize
  <2>1. s \in 0..Word - 1
    BY <1>0, <1>5
  <2>2. s % Word = s
    <3> HIDE DEF s
    <3> QED
      BY <1>0, <2>1, NothingToDivide
  <2> QED
    BY <2>2 DEF Start
<1>7. End(c) = c * ChunkSize + ChunkSize
  <2> DEFINE e == c * ChunkSize + ChunkSize
  <2>1. e \in 0..Word - 1
    BY <1>0, <1>5
  <2>2. e % Word = e
    <3> HIDE DEF e
    <3> QED
      BY <1>0, <2>1, NothingToDivide
  <2> QED
    BY <1>6, <2>2 DEF End
<1>8. Start(c) \in Start(c)..End(c) - 1
  BY <1>0, <1>5, <1>6, <1>7
<1> QED
  BY <1>6, <1>8 DEF Count

\* The tiles of a chunk, one coordinate at a time: there are none if they wrap.
LEMMA Wrapping ==
  ASSUME NEW n \in Nat
  PROVE  /\ Start(n) = Origin(n) /\ Start(n) \in 0..Word - 1
         /\ Count(Start(n)..End(n) - 1) = IF Origin(n) + ChunkSize < Word THEN ChunkSize ELSE 0
<1>0. /\ Word \in Nat \ {0} /\ ChunkSize \in Nat \ {0} /\ ChunkSize < Word
  <2> DEFINE v == MaxChunkViewDistance
  <2>1. /\ Word \in Nat \ {0} /\ ChunkSize \in Nat \ {0} /\ v \in Nat \ {0}
        /\ 1 <= Word - (2 * v + 1) * ChunkSize
    BY ChunkViewAssumption, PacketAssumption
  <2> HIDE DEF v
  <2>2. (2 * v + 1) * ChunkSize = 2 * (v * ChunkSize) + ChunkSize /\ v * ChunkSize \in Nat
    BY <2>1
  <2> QED
    BY <2>1, <2>2
<1> DEFINE s == Start(n)
<1>1. s = Origin(n)
  <2>1. n * ChunkSize = ChunkSize * n
    BY <1>0
  <2> QED
    BY <2>1 DEF Start, Origin
<1>2. s \in 0..Word - 1
  <2>1. n * ChunkSize \in Int
    BY <1>0
  <2> QED
    BY <1>0, <2>1, Quotient DEF Start
<1>3. End(n) = (s + ChunkSize) % Word
  BY DEF End
<1> HIDE DEF s
<1>4. CASE s + ChunkSize < Word
  <2>1. s + ChunkSize \in 0..Word - 1
    BY <1>0, <1>2, <1>4
  <2>2. End(n) = s + ChunkSize
    BY <1>0, <1>3, <2>1, NothingToDivide
  <2>3. s \in s..End(n) - 1
    BY <1>0, <1>2, <2>2
  <2> QED
    BY <1>1, <1>2, <1>4, <2>3 DEF Count, s
<1>5. CASE ~(s + ChunkSize < Word)
  <2> DEFINE e == s + ChunkSize - Word
  <2>1. e \in 0..Word - 1 /\ e < s /\ s + ChunkSize = Word * 1 + e
    BY <1>0, <1>2, <1>5
  <2>2. End(n) = e
    <3> DEFINE a == s + ChunkSize
    <3>1. a = Word * 1 + e /\ 1 \in Int
      BY <2>1
    <3>2. End(n) = a % Word
      BY <1>3
    <3> HIDE DEF e, a
    <3>3. Word \in Nat \ {0} /\ e \in 0..Word - 1
      BY <1>0, <2>1
    <3>4. a % Word = e
      BY <3>1, <3>3, Division
    <3> QED
      BY <3>2, <3>4
  <2>3. s..End(n) - 1 = {}
    BY <1>0, <1>2, <2>1, <2>2
  <2> QED
    BY <1>1, <1>2, <1>5, <2>3 DEF Count, s
<1> QED
  BY <1>4, <1>5

\* HandleChunkRequest without its choices.
LEMMA ChunkIsAnswered ==
  ASSUME NEW tile \in (0..MapWidth - 1) \X (0..MapHeight - 1),
         NEW chunk \in (0..Word - 1) \X (0..Word - 1),
         NEW d, d = Distance2(chunk, GetChunkCoord(tile)),
         NEW x, x = Origin(chunk[1]), NEW y, y = Origin(chunk[2])
  PROVE  HandleChunkRequest({tile}, {chunk}) =
           IF d <= Far THEN Packet(chunk, ChunkSize * chunk[1], ChunkSize * chunk[2])
           ELSE IF d % Word <= Far /\ x + ChunkSize < Word /\ y + ChunkSize < Word
           THEN Packet(chunk, x, y)
           ELSE NoAnswer
<1> DEFINE own == GetChunkCoord(tile)
           answer == <<[chunk |-> chunk, tiles |-> ChunkTiles(chunk)]>>
           fits == x + ChunkSize < Word /\ y + ChunkSize < Word
           dx == chunk[1] - own[1]
           dy == chunk[2] - own[2]
<1>0. /\ ChunkSize \in Nat \ {0} /\ MaxChunkViewDistance \in Nat /\ Word \in Nat \ {0}
      /\ MapWidth \in Nat /\ MapHeight \in Nat /\ ChunkSize * ChunkSize = PacketTiles
      /\ PacketTiles \in Nat \ {0} /\ Far \in Nat
  BY ChunkViewAssumption, PacketAssumption DEF Far
<1>1. /\ tile[1] \in 0..MapWidth - 1 /\ tile[2] \in 0..MapHeight - 1
      /\ chunk[1] \in Nat /\ chunk[2] \in Nat /\ chunk \in Int \X Int
  BY <1>0
<1>2. /\ own[1] = tile[1] \div ChunkSize /\ own[2] = tile[2] \div ChunkSize
      /\ own = <<tile[1] \div ChunkSize, tile[2] \div ChunkSize>>
  BY DEF GetChunkCoord
<1>3. tile[1] \div ChunkSize \in Int /\ tile[2] \div ChunkSize \in Int
  <2>1. tile[1] \in Int /\ tile[2] \in Int
    BY <1>0, <1>1
  <2> QED
    BY <1>0, <2>1, Quotient
<1>4. own \in Int \X Int /\ dx \in Int /\ dy \in Int /\ d = dx * dx + dy * dy
  BY <1>1, <1>2, <1>3 DEF Distance2
<1>5. (CHOOSE t \in {tile} : TRUE) = tile /\ (CHOOSE c \in {chunk} : TRUE) = chunk
  OBVIOUS
<1>6. HandleChunkRequest({tile}, {chunk}) =
        IF ~InView(chunk, own) \/ Len(ChunkTiles(chunk)) # PacketTiles THEN NoAnswer ELSE answer
  BY <1>5 DEF HandleChunkRequest
<1>7. InView(chunk, own) <=> d % Word <= Far
  BY <1>1, <1>4, InViewIsDistance
<1>8. /\ fits => answer = Packet(chunk, x, y) /\ Len(ChunkTiles(chunk)) = PacketTiles
      /\ ~fits => Len(ChunkTiles(chunk)) # PacketTiles
  <2>1. /\ Start(chunk[1]) = x /\ Start(chunk[2]) = y /\ x \in Int /\ y \in Int
        /\ Count(Columns(chunk)) = IF x + ChunkSize < Word THEN ChunkSize ELSE 0
        /\ Count(Lines(chunk)) = IF y + ChunkSize < Word THEN ChunkSize ELSE 0
    <3>1. /\ Start(chunk[1]) = x /\ x \in 0..Word - 1
          /\ Count(Columns(chunk)) = IF x + ChunkSize < Word THEN ChunkSize ELSE 0
      BY <1>1, Wrapping DEF Columns
    <3>2. /\ Start(chunk[2]) = y /\ y \in 0..Word - 1
          /\ Count(Lines(chunk)) = IF y + ChunkSize < Word THEN ChunkSize ELSE 0
      BY <1>1, Wrapping DEF Lines
    <3> QED
      BY <1>0, <3>1, <3>2
  <2>2. CASE fits
    <3>1. ChunkTiles(chunk) = [k \in 1..PacketTiles |->
            TileAt(x + (k - 1) \div ChunkSize, y + ((k - 1) % ChunkSize))]
      BY <1>0, <2>1, <2>2 DEF ChunkTiles
    <3> QED
      BY <1>0, <2>2, <3>1 DEF Packet
  <2>3. CASE ~fits
    <3>1. Count(Columns(chunk)) * Count(Lines(chunk)) = 0
      BY <1>0, <2>1, <2>3
    <3> DEFINE n == Count(Columns(chunk)) * Count(Lines(chunk))
               f == [k \in 1..n |->
                 TileAt(Start(chunk[1]) + (k - 1) \div ChunkSize, Start(chunk[2]) + ((k - 1) % ChunkSize))]
    <3>2. ChunkTiles(chunk) = f
      BY DEF ChunkTiles
    <3>3. n = 0
      BY <3>1
    <3> HIDE DEF n
    <3>4. Len(f) = 0
      BY <3>3
    <3> QED
      BY <1>0, <2>3, <3>2, <3>4
  <2> QED
    BY <2>2, <2>3
<1>9. ASSUME d <= Far
      PROVE  d % Word <= Far /\ fits /\ x = ChunkSize * chunk[1] /\ y = ChunkSize * chunk[2]
  <2> HIDE DEF dx, dy, fits
  <2>1. dx * dx \in Nat /\ dy * dy \in Nat
    BY <1>4
  <2>2. d \in Nat /\ dx * dx <= Far /\ dy * dy <= Far
    BY <1>0, <1>4, <1>9, <2>1
  <2>3. d % Word <= Far
    <3>1. /\ d \div Word \in Nat /\ d % Word \in 0..Word - 1
          /\ d = Word * (d \div Word) + (d % Word)
      BY <1>0, <2>2, NatQuotient
    <3> DEFINE q == d \div Word
               r == d % Word
    <3>2. r <= d
      <4>1. q \in Nat /\ r \in Nat /\ d = Word * q + r
        BY <1>0, <3>1
      <4> HIDE DEF q, r
      <4>2. Word * q \in Nat
        BY <1>0, <4>1
      <4> QED
        BY <2>2, <4>1, <4>2
    <3>3. r \in Nat
      BY <1>0, <3>1
    <3> HIDE DEF q, r
    <3>4. r <= Far
      BY <1>0, <1>9, <2>2, <3>2, <3>3
    <3> QED
      BY <3>4 DEF r
  <2>4. Start(chunk[1]) = chunk[1] * ChunkSize /\ Count(Columns(chunk)) = ChunkSize
    BY <1>1, <1>2, <2>2, InViewInBounds DEF Columns, dx, Far
  <2>5. Start(chunk[2]) = chunk[2] * ChunkSize /\ Count(Lines(chunk)) = ChunkSize
    BY <1>1, <1>2, <2>2, InViewInBounds DEF Lines, dy, Far
  <2>6. /\ Start(chunk[1]) = x /\ Start(chunk[2]) = y
        /\ Count(Columns(chunk)) = IF x + ChunkSize < Word THEN ChunkSize ELSE 0
        /\ Count(Lines(chunk)) = IF y + ChunkSize < Word THEN ChunkSize ELSE 0
    BY <1>1, Wrapping DEF Columns, Lines
  <2>7. chunk[1] * ChunkSize = ChunkSize * chunk[1] /\ chunk[2] * ChunkSize = ChunkSize * chunk[2]
    BY <1>0, <1>1
  <2>8. fits
    BY <1>0, <2>4, <2>5, <2>6 DEF fits
  <2> QED
    BY <2>3, <2>4, <2>5, <2>6, <2>7, <2>8
<1> HIDE DEF answer
<1> QED
  BY <1>6, <1>7, <1>8, <1>9

\* The parts of Calculations' result of a chunk request.
LEMMA ChunkResult ==
  ASSUME kind = "chunk", input \in ChunkInputs, output = <<HandleChunkRequest(input[1], input[2])>>
  PROVE  ChunkAnswers
<1> DEFINE p == input[1]
           q == input[2]
<1>1. /\ p \subseteq (0..MapWidth - 1) \X (0..MapHeight - 1) /\ \A t, u \in p : t = u
      /\ q \subseteq (0..Word - 1) \X (0..Word - 1) /\ \A b, c \in q : b = c
  BY ChunkInputsAssumption
<1>2. Result = HandleChunkRequest(p, q)
  BY DEF Result
<1> HIDE DEF p, q
<1>3. (p = {} \/ q = {}) <=> Result # NoAnswer /\ "error" \in DOMAIN Result[1]
  <2>1. CASE p = {}
    BY <1>2, <2>1 DEF HandleChunkRequest, NoAnswer
  <2>2. CASE p # {} /\ q = {}
    BY <1>2, <2>2 DEF HandleChunkRequest, NoAnswer
  <2>3. CASE p # {} /\ q # {}
    <3> DEFINE chunk == CHOOSE c \in q : TRUE
    <3>1. \/ Result = NoAnswer
          \/ Result = <<[chunk |-> chunk, tiles |-> ChunkTiles(chunk)]>>
      BY <1>2, <2>3 DEF HandleChunkRequest
    <3> HIDE DEF chunk
    <3> QED
      BY <2>3, <3>1 DEF NoAnswer
  <2> QED
    BY <2>1, <2>2, <2>3
<1>4. ASSUME NEW tile \in p, NEW chunk \in q,
             NEW d, d = Distance2(chunk, GetChunkCoord(tile)),
             NEW x, x = Origin(chunk[1]), NEW y, y = Origin(chunk[2])
      PROVE  Result = IF d <= Far THEN Packet(chunk, ChunkSize * chunk[1], ChunkSize * chunk[2])
                      ELSE IF d % Word <= Far /\ x + ChunkSize < Word /\ y + ChunkSize < Word
                      THEN Packet(chunk, x, y)
                      ELSE NoAnswer
  <2>1. p = {tile} /\ q = {chunk}
    BY <1>1, <1>4
  <2>2. /\ tile \in (0..MapWidth - 1) \X (0..MapHeight - 1)
        /\ chunk \in (0..Word - 1) \X (0..Word - 1)
    BY <1>1
  <2> QED
    BY <1>2, <1>4, <2>1, <2>2, ChunkIsAnswered
<1> QED
  BY <1>3, <1>4, Zenon DEF ChunkAnswers, p, q, GetChunkCoord

-----------------------------------------------------------------------------
(* Bytes. *)

\* Two pairs are four.
LEMMA Join ==
  ASSUME NEW a, NEW b, NEW c, NEW d
  PROVE  <<a, b>> \o <<c, d>> = <<a, b, c, d>>
<1> DEFINE S == {a, b, c, d}
           s == <<a, b>>
           t == <<c, d>>
           u == <<a, b, c, d>>
<1>1. /\ s \in Seq(S) /\ Len(s) = 2 /\ t \in Seq(S) /\ Len(t) = 2
      /\ u \in Seq(S) /\ Len(u) = 4
      /\ u[1] = s[1] /\ u[2] = s[2] /\ u[3] = t[1] /\ u[4] = t[2]
  OBVIOUS
<1> HIDE DEF S, s, t, u
<1>2. /\ s \o t \in Seq(S) /\ Len(s \o t) = Len(s) + Len(t)
      /\ \A i \in 1..Len(s) + Len(t) :
           (s \o t)[i] = IF i <= Len(s) THEN s[i] ELSE t[i - Len(s)]
  BY <1>1, ConcatProperties, Zenon
<1>3. \A i \in 1..4 : (s \o t)[i] = u[i]
  BY <1>1, <1>2
<1>4. s \o t = u
  <2>1. Len(s \o t) = Len(u) /\ \A i \in 1..Len(s \o t) : (s \o t)[i] = u[i]
    BY <1>1, <1>2, <1>3
  <2> QED
    BY <1>1, <1>2, <2>1, SeqEqual, Zenon
<1> QED
  BY <1>4 DEF s, t, u

\* The integers of two and of four bytes.
LEMMA Value16 ==
  ASSUME NEW n \in Nat, n < Base * Base
  PROVE  Uint16(n) \in Seq(Byte) /\ Len(Uint16(n)) = 2 /\ Value(Uint16(n)) = n
<1> DEFINE q == n \div Base
<1>0. Base \in Nat \ {0}
  BY WireAssumption
<1>1. q \in Nat /\ n % Base \in 0..Base - 1 /\ n = Base * q + (n % Base)
  BY <1>0, NatQuotient, Zenon
<1> HIDE DEF q
<1>2. q < Base
  <2> SUFFICES ASSUME q >= Base PROVE FALSE
    BY <1>0, <1>1
  <2>1. Base * q >= Base * Base
    BY <1>0, <1>1
  <2>2. Base * q \in Nat /\ Base * Base \in Nat
    BY <1>0, <1>1
  <2> QED
    BY <1>0, <1>1, <2>1, <2>2
<1>3. q % Base = q
  BY <1>0, <1>1, <1>2
<1>4. Uint16(n) = <<n % Base, q>>
  BY <1>3 DEF Uint16, q
<1>5. Value(Uint16(n)) = (n % Base) + Base * (q + Base * (0 + Base * 0))
  BY <1>4 DEF Value
<1>6. q + Base * (0 + Base * 0) = q
  BY <1>0, <1>1
<1>7. Value(Uint16(n)) = n
  BY <1>0, <1>1, <1>5, <1>6
<1> QED
  BY <1>0, <1>1, <1>2, <1>4, <1>7 DEF Byte

\* The integer of four bytes.
LEMMA Value32 ==
  ASSUME NEW n \in Nat, n < Base * Base * Base * Base
  PROVE  Uint32(n) \in Seq(Byte) /\ Len(Uint32(n)) = 4 /\ Value(Uint32(n)) = n
<1> DEFINE a == n \div Base
           b == a \div Base
           c == b \div Base
           n0 == n % Base
           n1 == a % Base
           n2 == b % Base
<1>0. Base \in Nat \ {0}
  BY WireAssumption
<1>1. a \in Nat /\ n0 \in 0..Base - 1 /\ n = Base * a + n0
  BY <1>0, NatQuotient, Zenon
<1>2. b \in Nat /\ n1 \in 0..Base - 1 /\ a = Base * b + n1
  <2> HIDE DEF a
  <2> QED
    BY <1>0, <1>1, NatQuotient, Zenon
<1>3. c \in Nat /\ n2 \in 0..Base - 1 /\ b = Base * c + n2
  <2> HIDE DEF b
  <2> QED
    BY <1>0, <1>2, NatQuotient, Zenon
<1>4. Uint32(n) = <<n0, n1, n2, c % Base>>
  BY Join DEF Uint32, Uint16
<1> HIDE DEF a, b, c, n0, n1, n2
<1>5. c < Base
  <2> SUFFICES ASSUME c >= Base PROVE FALSE
    BY <1>0, <1>3
  <2>1. Base * c >= Base * Base /\ Base * Base \in Nat /\ Base * c \in Nat
    BY <1>0, <1>3
  <2>2. b >= Base * Base
    BY <1>0, <1>3, <2>1
  <2>3. Base * b >= Base * (Base * Base) /\ Base * (Base * Base) \in Nat /\ Base * b \in Nat
    BY <1>0, <1>2, <2>1, <2>2
  <2>4. a >= Base * (Base * Base)
    BY <1>0, <1>2, <2>3
  <2>5. Base * a >= Base * (Base * (Base * Base)) /\ Base * (Base * (Base * Base)) \in Nat /\ Base * a \in Nat
    BY <1>0, <1>1, <2>3, <2>4
  <2>6. Base * (Base * (Base * Base)) = Base * Base * Base * Base
    BY <1>0
  <2> QED
    BY <1>0, <1>1, <2>5, <2>6
<1>6. c % Base = c
  BY <1>0, <1>3, <1>5
<1>7. Value(Uint32(n)) = n0 + Base * (n1 + Base * (n2 + Base * c))
  BY <1>4, <1>6 DEF Value
<1>8. Value(Uint32(n)) = n
  <2>1. n2 + Base * c = b
    BY <1>0, <1>3
  <2>2. n1 + Base * b = a
    BY <1>0, <1>2
  <2>3. n0 + Base * a = n
    BY <1>0, <1>1
  <2> QED
    BY <1>7, <2>1, <2>2, <2>3
<1>9. {n0, n1, n2, c} \subseteq Byte
  BY <1>0, <1>1, <1>2, <1>3, <1>5 DEF Byte
<1>10. Uint32(n) = <<n0, n1, n2, c>>
  BY <1>4, <1>6
<1> QED
  BY <1>8, <1>9, <1>10

\* What is in front of a sequence of bytes, and what is behind it.
LEMMA Behind ==
  ASSUME NEW S, NEW s \in Seq(S), NEW t \in Seq(S), NEW n \in Len(s)..Len(s) + Len(t)
  PROVE  /\ First(s \o t, n) \in Seq(S) /\ Len(First(s \o t, n)) = n
         /\ First(First(s \o t, n), Len(s)) = s
         /\ After(First(s \o t, n), Len(s)) = First(t, n - Len(s))
<1> DEFINE k == Len(s)
           u == s \o t
           f == First(u, n)
<1>1. /\ k \in Nat /\ Len(t) \in Nat /\ n \in Nat /\ n - k \in 0..Len(t) /\ k <= n
      /\ s \in [1..k -> S] /\ t \in [1..Len(t) -> S]
  BY LenProperties
<1>2. /\ u \in Seq(S) /\ Len(u) = k + Len(t)
      /\ \A i \in 1..k + Len(t) : u[i] = IF i <= k THEN s[i] ELSE t[i - k]
  BY ConcatProperties
<1>3. /\ f \in Seq(S) /\ Len(f) = n
      /\ \A i \in 1..n : f[i] = u[i]
  <2>1. \A i \in 1..n : u[i] \in S
    BY <1>1, <1>2, ElementOfSeq
  <2> HIDE DEF u, k
  <2> QED
    BY <1>1, <2>1, SubSeqProperties DEF First
<1> HIDE DEF k, u, f
<1>4. First(f, k) = s
  <2>1. \A i \in 1..k : f[i] \in S /\ f[i] = s[i]
    BY <1>1, <1>2, <1>3
  <2>2. /\ First(f, k) \in Seq(S) /\ Len(First(f, k)) = k
        /\ \A i \in 1..k : First(f, k)[i] = s[i]
    BY <1>1, <2>1, SubSeqProperties DEF First
  <2> QED
    BY <2>2, SeqEqual DEF k
<1>5. After(f, k) = First(t, n - k)
  <2>1. \A i \in k + 1..n : f[i] \in S /\ f[i] = t[i - k]
    BY <1>1, <1>2, <1>3
  <2>2. /\ After(f, k) \in Seq(S) /\ Len(After(f, k)) = n - k
        /\ \A i \in 1..n - k : After(f, k)[i] = f[k + i]
    <3>1. k + 1 \in Int /\ n \in Int /\ n - (k + 1) + 1 = n - k
      BY <1>1
    <3>2. /\ SubSeq(f, k + 1, n) \in Seq(S)
          /\ Len(SubSeq(f, k + 1, n)) = IF k + 1 <= n THEN n - (k + 1) + 1 ELSE 0
          /\ \A i \in 1..n - (k + 1) + 1 : SubSeq(f, k + 1, n)[i] = f[(k + 1) + i - 1]
      BY <2>1, <3>1, SubSeqProperties
    <3>3. After(f, k) = SubSeq(f, k + 1, n)
      BY <1>3 DEF After
    <3>4. ASSUME NEW i \in 1..n - k
          PROVE  (k + 1) + i - 1 = k + i
      BY <1>1
    <3> QED
      BY <1>1, <3>1, <3>2, <3>3, <3>4, SMTT(30)
  <2>3. /\ First(t, n - k) \in Seq(S) /\ Len(First(t, n - k)) = n - k
        /\ \A i \in 1..n - k : First(t, n - k)[i] = t[i]
    <3>1. \A i \in 1..n - k : t[i] \in S
      BY <1>1
    <3> QED
      BY <1>1, <3>1, SubSeqProperties DEF First
  <2>4. ASSUME NEW i \in 1..n - k
        PROVE  After(f, k)[i] = First(t, n - k)[i]
    <3>1. k + i \in k + 1..n /\ (k + i) - k = i
      BY <1>1
    <3> QED
      BY <2>1, <2>2, <2>3, <3>1
  <2> QED
    BY <2>2, <2>3, <2>4, SeqEqual
<1> QED
  BY <1>3, <1>4, <1>5 DEF k, u, f

\* The first n elements of a sequence.
LEMMA InFront ==
  ASSUME NEW S, NEW s \in Seq(S), NEW n \in 0..Len(s)
  PROVE  /\ First(s, n) \in Seq(S) /\ Len(First(s, n)) = n
         /\ First(s, Len(s)) = s
         /\ After(s, n) \in Seq(S) /\ Len(After(s, n)) = Len(s) - n
<1>1. /\ Len(s) \in Nat /\ n \in Nat /\ n <= Len(s) /\ \A i \in 1..Len(s) : s[i] \in S
  BY LenProperties
<1>2. First(s, n) \in Seq(S) /\ Len(First(s, n)) = n
  <2>1. \A i \in 1..n : s[i] \in S
    BY <1>1
  <2> QED
    BY <1>1, <2>1, SubSeqProperties DEF First
<1>3. First(s, Len(s)) = s
  BY SubSeqFull DEF First
<1>4. After(s, n) \in Seq(S) /\ Len(After(s, n)) = Len(s) - n
  <2>1. \A i \in n + 1..Len(s) : s[i] \in S
    BY <1>1
  <2>2. n + 1 \in Int /\ Len(s) \in Int
    BY <1>1
  <2> QED
    BY <1>1, <2>1, <2>2, SubSeqProperties DEF After
<1> QED
  BY <1>2, <1>3, <1>4

\* A block is read iff it is there.
LEMMA BlockIsRead ==
  ASSUME NEW prefix \in Seq(Byte), NEW block \in Seq(Byte), NEW rest \in Seq(Byte),
         Value(prefix) = Len(block),
         NEW n \in 0..Len(prefix) + Len(block) + Len(rest)
  PROVE  ReadBlock(First(prefix \o (block \o rest), n), Len(prefix))
           = IF n < Len(prefix) + Len(block) THEN {} ELSE {block}
<1> DEFINE back == block \o rest
           all == prefix \o back
           k == Len(prefix)
           m == Len(block)
           bytes == First(all, n)
<1>1. /\ back \in Seq(Byte) /\ Len(back) = m + Len(rest)
      /\ k \in Nat /\ m \in Nat /\ Len(rest) \in Nat /\ n \in Nat
  BY ConcatProperties, LenProperties
<1>2. all \in Seq(Byte) /\ Len(all) = k + Len(back)
  <2> HIDE DEF back
  <2> QED
    BY <1>1, ConcatProperties
<1>3. Len(bytes) = n
  <2> HIDE DEF all, k, m, back
  <2>1. n \in 0..Len(all)
    BY <1>1, <1>2 DEF k, m
  <2> QED
    BY <1>2, <2>1, InFront
<1>4. CASE n < k
  BY <1>1, <1>3, <1>4 DEF ReadBlock, ReadFull
<1>5. CASE n >= k
  <2>1. First(bytes, k) = prefix /\ After(bytes, k) = First(back, n - k)
    <3> HIDE DEF back
    <3>1. n \in Len(prefix)..Len(prefix) + Len(back)
      BY <1>1, <1>5
    <3> QED
      BY <1>1, <3>1, Behind
  <2>2. n - k \in 0..Len(back)
    BY <1>1, <1>5
  <2>3. Len(First(back, n - k)) = n - k
    <3> HIDE DEF back, k
    <3> QED
      BY <1>1, <2>2, InFront
  <2>4. ReadBlock(bytes, k) = ReadFull(First(back, n - k), m)
    <3> HIDE DEF back
    <3>1. ReadFull(bytes, k) = {prefix}
      BY <1>1, <1>3, <1>5, <2>1 DEF ReadFull
    <3> QED
      BY <2>1, <3>1 DEF ReadBlock
  <2>5. ASSUME n - k >= m
        PROVE  First(First(back, n - k), m) = block
    <3> DEFINE r == n - k
    <3>1. r \in Len(block)..Len(block) + Len(rest)
      BY <1>1, <2>2, <2>5
    <3> HIDE DEF r
    <3>2. First(First(block \o rest, r), Len(block)) = block
      BY <3>1, Behind
    <3> QED
      BY <3>2 DEF r
  <2>6. First(back, n - k) \in Seq(Byte)
    <3> HIDE DEF back, k
    <3> QED
      BY <1>1, <2>2, InFront
  <2>7. n - k < m => ReadBlock(bytes, k) = {}
    <3> HIDE DEF bytes, back, k, m
    <3> QED
      BY <2>3, <2>4 DEF ReadFull
  <2>8. n - k >= m => ReadBlock(bytes, k) = {block}
    <3> HIDE DEF bytes, back, k
    <3> QED
      BY <1>1, <1>5, <2>3, <2>4, <2>5 DEF ReadFull
  <2>9. n - k < m <=> n < k + m
    BY <1>1
  <2> QED
    BY <1>1, <1>5, <2>7, <2>8, <2>9
<1> QED
  BY <1>1, <1>4, <1>5

\* Concatenation of bytes.
LEMMA Concat ==
  ASSUME NEW s \in Seq(Byte), NEW t \in Seq(Byte)
  PROVE  s \o t \in Seq(Byte) /\ Len(s \o t) = Len(s) + Len(t)
  BY ConcatProperties

\* Concatenation is associative.
LEMMA Regroup ==
  ASSUME NEW s \in Seq(Byte), NEW t \in Seq(Byte), NEW u \in Seq(Byte)
  PROVE  (s \o t) \o u = s \o (t \o u)
  BY ConcatAssociative

\* What is behind some bytes is bytes.
LEMMA BehindBytes ==
  ASSUME NEW s \in Seq(Byte), NEW t \in Seq(Byte), NEW n \in Len(s)..Len(s) + Len(t)
  PROVE  /\ First(First(s \o t, n), Len(s)) = s
         /\ After(First(s \o t, n), Len(s)) = First(t, n - Len(s))
  BY Behind

\* An encoded message is bytes.
LEMMA RawBytes ==
  ASSUME NEW msg \in Message
  PROVE  EncodeRawMessage(msg) \in Seq(Byte)
<1>1. /\ msg.data \in Seq(Byte) /\ msg.error \in Seq(Byte) /\ <<msg.type>> \in Seq(Byte)
      /\ Len(msg.data) \in Nat /\ Len(msg.data) < Base * Base * Base * Base
      /\ Len(msg.error) \in Nat /\ Len(msg.error) < Base * Base
  BY LenProperties DEF Message
<1>2. Uint32(Len(msg.data)) \in Seq(Byte)
  BY <1>1, Value32
<1>3. Uint16(Len(msg.error)) \in Seq(Byte)
  BY <1>1, Value16
<1>4. <<msg.type>> \o Uint32(Len(msg.data)) \in Seq(Byte)
  BY <1>1, <1>2, Concat, Zenon
<1>5. (<<msg.type>> \o Uint32(Len(msg.data))) \o msg.data \in Seq(Byte)
  BY <1>1, <1>4, Concat, Zenon
<1>6. ((<<msg.type>> \o Uint32(Len(msg.data))) \o msg.data) \o Uint16(Len(msg.error)) \in Seq(Byte)
  BY <1>3, <1>5, Concat, Zenon
<1>7. (((<<msg.type>> \o Uint32(Len(msg.data))) \o msg.data) \o Uint16(Len(msg.error))) \o msg.error
        \in Seq(Byte)
  BY <1>1, <1>6, Concat, Zenon
<1> QED
  BY <1>7, Zenon DEF EncodeRawMessage

\* A raw message is decoded from all of its bytes, and from no fewer.
LEMMA RawIsRead ==
  ASSUME NEW msg \in Message, NEW n \in 0..Len(EncodeRawMessage(msg))
  PROVE  DecodeRawMessage(First(EncodeRawMessage(msg), n))
           = IF n = Len(EncodeRawMessage(msg)) THEN {msg} ELSE {}
<1> DEFINE raw == EncodeRawMessage(msg)
           bytes == First(raw, n)
           data == msg.data
           error == msg.error
           type == <<msg.type>>
           l == Uint32(Len(data))
           e == Uint16(Len(error))
           last == e \o error
           mid == data \o last
           tail == l \o mid
           head == (type \o l) \o data
<1>1. /\ data \in Seq(Byte) /\ error \in Seq(Byte) /\ msg.type \in Byte
      /\ Len(data) < Base * Base * Base * Base /\ Len(error) < Base * Base
      /\ msg = [type |-> msg.type, data |-> data, error |-> error]
  BY DEF Message
<1>2. Len(data) \in Nat /\ Len(error) \in Nat
  BY <1>1, LenProperties
<1>3. /\ type \in Seq(Byte) /\ Len(type) = 1 /\ type[1] = msg.type
  BY <1>1
<1>4. l \in Seq(Byte) /\ Len(l) = 4 /\ Value(l) = Len(data)
  BY <1>1, <1>2, Value32
<1>5. e \in Seq(Byte) /\ Len(e) = 2 /\ Value(e) = Len(error)
  BY <1>1, <1>2, Value16
<1>6. raw = ((((type \o l) \o data) \o e) \o error)
  BY DEF EncodeRawMessage
<1> HIDE DEF raw, data, error, type, l, e
<1>7. last \in Seq(Byte) /\ Len(last) = Len(e) + Len(error)
  BY <1>1, <1>5, Concat, Zenon
<1> HIDE DEF last
<1>8. mid \in Seq(Byte) /\ Len(mid) = Len(data) + Len(last)
  BY <1>1, <1>7, Concat, Zenon
<1> HIDE DEF mid
<1>9. tail \in Seq(Byte) /\ Len(tail) = Len(l) + Len(mid)
  BY <1>4, <1>8, Concat, Zenon
<1>10. type \o l \in Seq(Byte) /\ Len(type \o l) = Len(type) + Len(l)
  BY <1>3, <1>4, Concat, Zenon
<1>11. head \in Seq(Byte) /\ Len(head) = Len(type \o l) + Len(data)
  BY <1>1, <1>10, Concat, Zenon
<1>12. raw = head \o last
  <2> HIDE DEF head
  <2>1. (head \o e) \o error = head \o (e \o error)
    BY <1>1, <1>5, <1>11, Regroup, Zenon
  <2> QED
    BY <1>6, <2>1 DEF last, head
<1>13. raw = type \o tail
  <2>1. head \o last = (type \o l) \o mid
    <3>1. ((type \o l) \o data) \o last = (type \o l) \o (data \o last)
      BY <1>1, <1>7, <1>10, Regroup, Zenon
    <3> QED
      BY <3>1 DEF head, mid
  <2>2. (type \o l) \o mid = type \o tail
    BY <1>3, <1>4, <1>8, Regroup, Zenon DEF tail
  <2> QED
    BY <1>12, <2>1, <2>2
<1> HIDE DEF head, tail
<1>14. raw \in Seq(Byte) /\ Len(raw) = 7 + Len(data) + Len(error)
  <2>1. raw \in Seq(Byte) /\ Len(raw) = Len(head) + Len(last)
    BY <1>7, <1>11, <1>12, Concat, Zenon
  <2> QED
    BY <1>2, <1>3, <1>4, <1>5, <1>7, <1>10, <1>11, <2>1
<1>15. n \in 0..Len(raw)
  BY DEF raw
<1>16. bytes \in Seq(Byte) /\ Len(bytes) = n
  BY <1>14, <1>15, InFront
<1> DEFINE datas == IF bytes = <<>> THEN {} ELSE ReadBlock(After(bytes, 1), 4)
           errors(d) == ReadBlock(After(bytes, 1 + 4 + Len(d)), 2)
<1>17. DecodeRawMessage(bytes) =
         UNION {{[type |-> bytes[1], data |-> d, error |-> x] : x \in errors(d)} : d \in datas}
  BY DEF DecodeRawMessage
<1>18. datas = IF n < 5 + Len(data) THEN {} ELSE {data}
  <2>1. CASE n = 0
    BY <1>2, <1>16, <2>1, EmptySeq
  <2>2. CASE n # 0
    <3>1. n \in Len(type)..Len(type) + Len(tail)
      BY <1>2, <1>3, <1>4, <1>5, <1>7, <1>8, <1>9, <1>14, <1>15, <2>2, SMTT(30)
    <3>2. After(bytes, 1) = First(tail, n - 1)
      <4>1. After(First(type \o tail, n), Len(type)) = First(tail, n - Len(type))
        BY <1>3, <1>9, <3>1, BehindBytes, Zenon
      <4> QED
        BY <1>3, <1>13, <4>1
    <3>3. n - 1 \in 0..Len(l) + Len(data) + Len(last)
      BY <1>2, <1>4, <1>5, <1>7, <1>14, <1>15, <2>2
    <3>4. ReadBlock(First(tail, n - 1), 4) = IF n - 1 < 4 + Len(data) THEN {} ELSE {data}
      <4> DEFINE r == n - 1
      <4> HIDE DEF r
      <4>1. r \in 0..Len(l) + Len(data) + Len(last) /\ Value(l) = Len(data)
        BY <1>4, <3>3 DEF r
      <4>2. ReadBlock(First(l \o (data \o last), r), Len(l))
              = IF r < Len(l) + Len(data) THEN {} ELSE {data}
        BY <1>1, <1>4, <1>7, <4>1, BlockIsRead, ZenonT(30)
      <4> QED
        BY <1>4, <4>2 DEF r, tail, mid
    <3>5. bytes # <<>>
      BY <1>16, <2>2, EmptySeq
    <3>6. n - 1 < 4 + Len(data) <=> n < 5 + Len(data)
      BY <1>2
    <3> QED
      BY <3>2, <3>4, <3>5, <3>6
  <2> QED
    BY <2>1, <2>2
<1>19. ASSUME n >= 5 + Len(data)
       PROVE  errors(data) = IF n < Len(raw) THEN {} ELSE {error}
  <2> DEFINE r == n - (1 + 4 + Len(data))
  <2>1. /\ n \in Len(head)..Len(head) + Len(last) /\ r = n - Len(head)
        /\ r \in 0..Len(e) + Len(error) + Len(<<>>)
        /\ (r < 2 + Len(error) <=> n < Len(raw))
    <3>1. Len(<<>>) = 0
      BY EmptySeq
    <3>2. Len(head) = 5 + Len(data) /\ Len(last) = 2 + Len(error)
      BY <1>2, <1>3, <1>4, <1>5, <1>7, <1>10, <1>11
    <3>3. n \in 5 + Len(data)..Len(raw) /\ Len(raw) = 7 + Len(data) + Len(error)
      BY <1>2, <1>14, <1>15, <1>19
    <3> QED
      BY <1>2, <1>5, <3>1, <3>2, <3>3
  <2> HIDE DEF r
  <2>2. After(bytes, 1 + 4 + Len(data)) = First(last, r)
    <3>1. After(First(head \o last, n), Len(head)) = First(last, n - Len(head))
      BY <1>7, <1>11, <2>1, BehindBytes, Zenon
    <3>2. Len(head) = 1 + 4 + Len(data)
      BY <1>3, <1>4, <1>10, <1>11
    <3> QED
      BY <1>12, <2>1, <3>1, <3>2
  <2>3. last = e \o (error \o <<>>)
    BY <1>1, ConcatEmptySeq DEF last
  <2>4. ReadBlock(First(e \o (error \o <<>>), r), Len(e))
          = IF r < Len(e) + Len(error) THEN {} ELSE {error}
    BY <1>1, <1>5, <2>1, BlockIsRead, EmptySeq, ZenonT(30)
  <2> QED
    BY <1>5, <2>1, <2>2, <2>3, <2>4
<1>20. n >= 1 => bytes[1] = msg.type
  <2>1. ASSUME n >= 1
        PROVE  First(bytes, 1) = type
    <3>1. n \in Len(type)..Len(type) + Len(tail)
      BY <1>2, <1>3, <1>4, <1>5, <1>7, <1>8, <1>9, <1>14, <1>15, <2>1
    <3>2. First(First(type \o tail, n), Len(type)) = type
      BY <1>3, <1>9, <3>1, BehindBytes, Zenon
    <3> QED
      BY <1>3, <1>13, <3>2
  <2>2. ASSUME n >= 1
        PROVE  First(bytes, 1)[1] = bytes[1]
    BY <1>16, <2>2, SubSeqProperties, ElementOfSeq DEF First
  <2> QED
    BY <1>3, <2>1, <2>2
<1> HIDE DEF bytes, datas
<1>21. CASE n < 5 + Len(data)
  <2>1. n # Len(raw) /\ datas = {}
    BY <1>2, <1>14, <1>15, <1>18, <1>21
  <2> QED
    BY <1>14, <1>17, <2>1 DEF raw, bytes
<1>22. CASE n >= 5 + Len(data)
  <2>1. datas = {data} /\ n >= 1
    BY <1>2, <1>15, <1>18, <1>22
  <2>2. DecodeRawMessage(bytes) = {[type |-> bytes[1], data |-> data, error |-> x] : x \in errors(data)}
    BY <1>17, <2>1
  <2>3. CASE n < Len(raw)
    <3>1. DecodeRawMessage(bytes) = {}
      BY <1>19, <1>22, <2>2, <2>3
    <3> QED
      BY <1>14, <1>15, <2>3, <3>1 DEF raw, bytes
  <2>4. CASE n = Len(raw)
    <3>1. DecodeRawMessage(bytes) = {[type |-> bytes[1], data |-> data, error |-> error]}
      BY <1>14, <1>15, <1>19, <1>22, <2>2, <2>4
    <3> QED
      BY <1>1, <1>14, <1>20, <2>1, <2>4, <3>1 DEF raw, bytes
  <2> QED
    BY <1>14, <1>15, <2>3, <2>4
<1> QED
  BY <1>2, <1>15, <1>21, <1>22

\* A datagram is read whole or not at all.
LEMMA DatagramIsRead ==
  ASSUME NEW msg \in Message
  PROVE  ReadDatagram(Datagram(1, msg)) = IF Len(Datagram(1, msg)) <= UdpBuffer THEN {msg} ELSE {}
<1> DEFINE raw == EncodeRawMessage(msg)
           id == Uint32(1)
           datagram == Datagram(1, msg)
           n == IF Len(datagram) < UdpBuffer THEN Len(datagram) ELSE UdpBuffer
           received == First(datagram, n)
<1>1. raw \in Seq(Byte)
  BY RawBytes
<1>2. id \in Seq(Byte) /\ Len(id) = 4
  <2>1. Base \in Nat /\ Base >= 2
    BY WireAssumption
  <2>2. Base * Base >= 4 /\ Base * Base \in Nat
    BY <2>1
  <2>3. Base * Base * Base >= 8 /\ Base * Base * Base \in Nat
    BY <2>1, <2>2
  <2>4. 1 < Base * Base * Base * Base
    BY <2>1, <2>3
  <2> QED
    BY <2>4, Value32
<1>3. datagram = id \o raw
  BY DEF Datagram
<1> HIDE DEF raw, id, datagram
<1>4. datagram \in Seq(Byte) /\ Len(datagram) = Len(id) + Len(raw)
  BY <1>1, <1>2, <1>3, Concat, Zenon
<1>5. /\ Len(raw) \in Nat /\ UdpBuffer \in Nat /\ Len(datagram) = 4 + Len(raw)
      /\ n \in 0..Len(datagram) /\ (n = Len(datagram) <=> Len(datagram) <= UdpBuffer)
  <2>1. Len(raw) \in Nat
    BY <1>1, LenProperties
  <2> QED
    BY <1>2, <1>4, <2>1, WireAssumption
<1>6. ReadDatagram(datagram) =
        IF Len(received) < 4 THEN {} ELSE DecodeRawMessage(After(received, 4))
  BY DEF ReadDatagram
<1> HIDE DEF n
<1>7. Len(received) = n
  BY <1>4, <1>5, InFront
<1>8. CASE n < 4
  BY <1>5, <1>6, <1>7, <1>8 DEF datagram
<1>9. CASE n >= 4
  <2>1. n \in Len(id)..Len(id) + Len(raw) /\ n - 4 \in 0..Len(raw)
    BY <1>2, <1>5, <1>9
  <2>2. After(received, 4) = First(raw, n - 4)
    <3>1. After(First(id \o raw, n), Len(id)) = First(raw, n - Len(id))
      BY <1>1, <1>2, <2>1, BehindBytes, Zenon
    <3> QED
      BY <1>2, <1>3, <3>1
  <2>3. DecodeRawMessage(First(raw, n - 4)) = IF n - 4 = Len(raw) THEN {msg} ELSE {}
    BY <2>1, RawIsRead, Zenon DEF raw
  <2>4. ReadDatagram(datagram) = IF n = Len(datagram) THEN {msg} ELSE {}
    BY <1>5, <1>6, <1>7, <1>9, <2>2, <2>3
  <2> QED
    BY <1>5, <2>4 DEF datagram
<1> QED
  BY <1>5, <1>8, <1>9

-----------------------------------------------------------------------------
(* Sequences of sequences. *)

\* f is the recursive function of FlattenSeq for the first m parts of ss.
Flattens(f, ss, m) == f = [i \in 1..m |-> IF i = 1 THEN ss[i] ELSE f[i - 1] \o ss[i]]

\* There is such a function for any number of parts.
LEMMA FlattenExists ==
  ASSUME NEW ss, NEW n \in Nat
  PROVE  \E f : Flattens(f, ss, n)
<1> DEFINE S == {m \in Nat : \E f : Flattens(f, ss, m)}
<1>1. 0 \in S
  <2>1. Flattens([i \in 1..0 |-> <<>>], ss, 0)
    BY DEF Flattens
  <2> QED BY <2>1
<1>2. ASSUME NEW m \in Nat, m \in S
      PROVE  m + 1 \in S
  <2>1. PICK f : Flattens(f, ss, m)
    BY <1>2
  <2> DEFINE last == IF m = 0 THEN ss[m + 1] ELSE f[m] \o ss[m + 1]
             g == [i \in 1..m + 1 |-> IF i = m + 1 THEN last ELSE f[i]]
  <2>2. ASSUME NEW i \in 1..m + 1
        PROVE  g[i] = IF i = 1 THEN ss[i] ELSE g[i - 1] \o ss[i]
    <3>1. CASE i = m + 1
      <4>1. i # 1 => g[i - 1] = f[m] /\ m # 0
        BY <3>1
      <4> QED
        BY <3>1, <4>1
    <3>2. CASE i # m + 1
      <4>1. i \in 1..m /\ g[i] = f[i] /\ (i # 1 => g[i - 1] = f[i - 1])
        BY <3>2
      <4> QED
        BY <2>1, <4>1 DEF Flattens
    <3> QED
      BY <3>1, <3>2
  <2>3. Flattens(g, ss, m + 1)
    <3>1. g = [i \in 1..m + 1 |-> g[i]]
      OBVIOUS
    <3> HIDE DEF g
    <3> QED BY <2>2, <3>1 DEF Flattens
  <2> HIDE DEF g
  <2>4. \E h : Flattens(h, ss, m + 1)
    BY <2>3
  <2> QED BY <2>4
<1>3. \A m \in Nat : m \in S => m + 1 \in S
  BY <1>2
<1> HIDE DEF S
<1>4. Nat \subseteq S
  BY <1>1, <1>3, Induction
<1> QED
  BY <1>4 DEF S

\* The concatenation of the first n parts, as FlattenSeq computes it.
LEMMA FlattenFirst ==
  ASSUME NEW S, NEW ss \in Seq(Seq(S)), NEW f, Flattens(f, ss, Len(ss)), NEW n \in 1..Len(ss)
  PROVE  FlattenSeq(First(ss, n)) = f[n]
<1> DEFINE s == First(ss, n)
<1>1. /\ Len(ss) \in Nat /\ s \in Seq(Seq(S)) /\ Len(s) = n
      /\ \A i \in 1..n : i \in 1..Len(ss) /\ s[i] = ss[i]
  <2>1. Len(ss) \in Nat
    OBVIOUS
  <2>2. s \in Seq(Seq(S)) /\ Len(s) = n
    <3>1. n \in 0..Len(ss)
      BY <2>1
    <3> QED
      BY <3>1, InFront
  <2>3. \A i \in 1..n : i \in 1..Len(ss) /\ s[i] = ss[i]
    BY <2>1 DEF First
  <2> QED
    BY <2>1, <2>2, <2>3
<1> HIDE DEF s
<1>0. \E g : Flattens(g, s, Len(s))
  <2>1. Len(s) \in Nat
    BY <1>1
  <2> QED
    BY <2>1, FlattenExists
<1> DEFINE flatten[i \in 1..Len(s)] == IF i = 1 THEN s[i] ELSE flatten[i - 1] \o s[i]
<1>2. Flattens(flatten, s, Len(s))
  BY <1>0 DEF Flattens
<1>3. FlattenSeq(s) = flatten[n]
  BY <1>1 DEF FlattenSeq
<1> HIDE DEF flatten
<1> DEFINE T == {k \in Nat : k + 1 <= n => flatten[k + 1] = f[k + 1]}
<1>4. \A i \in 1..n : /\ flatten[i] = IF i = 1 THEN ss[i] ELSE flatten[i - 1] \o ss[i]
                      /\ f[i] = IF i = 1 THEN ss[i] ELSE f[i - 1] \o ss[i]
  BY <1>1, <1>2 DEF Flattens
<1>5. 0 \in T
  BY <1>1, <1>4
<1>6. ASSUME NEW k \in Nat, k \in T
      PROVE  k + 1 \in T
  <2> SUFFICES ASSUME k + 2 <= n PROVE flatten[k + 2] = f[k + 2]
    OBVIOUS
  <2>1. flatten[k + 1] = f[k + 1]
    BY <1>1, <1>6
  <2>2. k + 2 \in 1..n /\ k + 2 # 1 /\ (k + 2) - 1 = k + 1
    BY <1>1
  <2> QED
    BY <1>4, <2>1, <2>2
<1>7. Nat \subseteq T
  <2>1. \A k \in Nat : k \in T => k + 1 \in T
    BY <1>6
  <2> HIDE DEF T
  <2> QED
    BY <1>5, <2>1, Induction
<1>8. n - 1 \in Nat /\ (n - 1) + 1 = n
  BY <1>1
<1>9. n - 1 \in T
  BY <1>7, <1>8
<1> QED
  BY <1>3, <1>8, <1>9 DEF s

\* One part more.
LEMMA FlattenStep ==
  ASSUME NEW S, NEW ss \in Seq(Seq(S))
  PROVE  /\ FlattenSeq(First(ss, 0)) = <<>>
         /\ FlattenSeq(First(ss, Len(ss))) = FlattenSeq(ss)
         /\ \A n \in 0..Len(ss) - 1 :
              FlattenSeq(First(ss, n + 1)) = FlattenSeq(First(ss, n)) \o ss[n + 1]
         /\ \A n \in 0..Len(ss) : FlattenSeq(First(ss, n)) \in Seq(S)
<1>1. Len(ss) \in Nat /\ \A i \in 1..Len(ss) : ss[i] \in Seq(S)
  OBVIOUS
<1>2. FlattenSeq(First(ss, 0)) = <<>>
  <2>1. First(ss, 0) \in Seq(Seq(S)) /\ Len(First(ss, 0)) = 0
    BY <1>1, InFront
  <2>2. First(ss, 0) = <<>>
    BY <2>1
  <2> QED
    BY <2>1, <2>2 DEF FlattenSeq
<1>3. FlattenSeq(First(ss, Len(ss))) = FlattenSeq(ss)
  BY SubSeqFull DEF First
<1>4. PICK f : Flattens(f, ss, Len(ss))
  BY <1>1, FlattenExists
<1>5. \A n \in 1..Len(ss) : FlattenSeq(First(ss, n)) = f[n]
  BY <1>4, FlattenFirst
<1>6. \A i \in 1..Len(ss) : f[i] = IF i = 1 THEN ss[i] ELSE f[i - 1] \o ss[i]
  BY <1>4 DEF Flattens
<1>7. ASSUME NEW n \in 0..Len(ss) - 1
      PROVE  FlattenSeq(First(ss, n + 1)) = FlattenSeq(First(ss, n)) \o ss[n + 1]
  <2>1. n + 1 \in 1..Len(ss) /\ (n + 1) - 1 = n /\ ss[n + 1] \in Seq(S)
    BY <1>1
  <2>2. CASE n = 0
    <3>1. FlattenSeq(First(ss, n + 1)) = ss[n + 1]
      BY <1>5, <1>6, <2>1, <2>2
    <3>2. <<>> \o ss[n + 1] = ss[n + 1]
      BY <2>1, ConcatEmptySeq
    <3> QED
      BY <1>2, <2>2, <3>1, <3>2
  <2>3. CASE n # 0
    <3>1. n \in 1..Len(ss) /\ n + 1 # 1
      BY <1>1, <2>3
    <3>2. f[n + 1] = f[n] \o ss[n + 1]
      BY <1>6, <2>1, <3>1
    <3> QED
      BY <1>5, <2>1, <3>1, <3>2
  <2> QED
    BY <2>2, <2>3
<1>8. \A n \in 0..Len(ss) : FlattenSeq(First(ss, n)) \in Seq(S)
  <2> DEFINE T == {n \in Nat : n <= Len(ss) => FlattenSeq(First(ss, n)) \in Seq(S)}
  <2>1. 0 \in T
    <3>1. <<>> \in Seq(S)
      OBVIOUS
    <3> QED
      BY <1>2, <3>1
  <2>2. ASSUME NEW n \in Nat, n \in T
        PROVE  n + 1 \in T
    <3> SUFFICES ASSUME n + 1 <= Len(ss) PROVE FlattenSeq(First(ss, n + 1)) \in Seq(S)
      OBVIOUS
    <3>1. n \in 0..Len(ss) - 1 /\ n + 1 \in 1..Len(ss) /\ FlattenSeq(First(ss, n)) \in Seq(S)
      BY <1>1, <2>2
    <3>2. ss[n + 1] \in Seq(S)
      BY <1>1, <3>1
    <3> QED
      BY <1>7, <3>1, <3>2, ConcatProperties
  <2>3. Nat \subseteq T
    <3>1. \A n \in Nat : n \in T => n + 1 \in T
      BY <2>2
    <3> HIDE DEF T
    <3> QED
      BY <2>1, <3>1, Induction
  <2> QED
    BY <1>1, <2>3
<1> QED
  BY <1>2, <1>3, <1>7, <1>8

\* a is s, then t.
Joined(a, s, t) == a = s \o t

\* What is joined to something joined.
LEMMA JoinedTwice ==
  ASSUME NEW S, NEW a, NEW s \in Seq(S), NEW t \in Seq(S), NEW u \in Seq(S)
  PROVE  /\ Joined(a, s \o t, u) <=> Joined(a, s, t \o u)
         /\ s \o t \in Seq(S)
<1>1. (s \o t) \o u = s \o (t \o u)
  BY ConcatAssociative
<1>2. s \o t \in Seq(S)
  BY ConcatProperties
<1> QED
  BY <1>1, <1>2, Zenon DEF Joined

\* a is s, then some elements of S.
Begins(a, s, S) == \E rest \in Seq(S) : Joined(a, s, rest)

\* A concatenation begins with its first n parts.
LEMMA FlattenBegins ==
  ASSUME NEW S, NEW ss \in Seq(Seq(S)), NEW n \in 0..Len(ss)
  PROVE  Begins(FlattenSeq(ss), FlattenSeq(First(ss, n)), S)
<1> DEFINE up == [k \in 0..Len(ss) |-> FlattenSeq(First(ss, k))]
           T == {m \in Nat : m <= Len(ss) => Begins(FlattenSeq(ss), up[Len(ss) - m], S)}
<1>0. Len(ss) \in Nat /\ \A i \in 1..Len(ss) : ss[i] \in Seq(S)
  OBVIOUS
<1>1. /\ up[Len(ss)] = FlattenSeq(ss)
      /\ \A k \in 0..Len(ss) - 1 : up[k + 1] = up[k] \o ss[k + 1]
      /\ \A k \in 0..Len(ss) : up[k] \in Seq(S)
  <2>1. \A k \in 0..Len(ss) : up[k] = FlattenSeq(First(ss, k))
    OBVIOUS
  <2> HIDE DEF up
  <2>2. Len(ss) \in 0..Len(ss) /\ \A k \in 0..Len(ss) - 1 : k \in 0..Len(ss) /\ k + 1 \in 0..Len(ss)
    BY <1>0
  <2> QED
    BY <2>1, <2>2, FlattenStep, Zenon
<1>2. 0 \in T
  <2>1. up[Len(ss) - 0] = FlattenSeq(ss) /\ FlattenSeq(ss) \in Seq(S)
    <3> HIDE DEF up
    <3>1. Len(ss) - 0 = Len(ss) /\ Len(ss) \in 0..Len(ss)
      BY <1>0
    <3> QED
      BY <1>1, <3>1
  <2>2. <<>> \in Seq(S) /\ Joined(FlattenSeq(ss), FlattenSeq(ss), <<>>)
    BY <2>1, ConcatEmptySeq DEF Joined
  <2>3. Begins(FlattenSeq(ss), up[Len(ss) - 0], S)
    BY <2>1, <2>2, Zenon DEF Begins
  <2> QED
    BY <2>3
<1> HIDE DEF up
<1>3. ASSUME NEW m \in Nat, m \in T
      PROVE  m + 1 \in T
  <2> SUFFICES ASSUME m + 1 <= Len(ss)
               PROVE  Begins(FlattenSeq(ss), up[Len(ss) - (m + 1)], S)
    OBVIOUS
  <2> DEFINE k == Len(ss) - (m + 1)
  <2>1. k \in 0..Len(ss) - 1 /\ k + 1 = Len(ss) - m /\ k + 1 \in 1..Len(ss) /\ k \in 0..Len(ss)
    BY <1>0
  <2>2. Begins(FlattenSeq(ss), up[k + 1], S)
    BY <1>0, <1>3, <2>1
  <2> HIDE DEF k
  <2>3. up[k + 1] = up[k] \o ss[k + 1] /\ up[k] \in Seq(S) /\ ss[k + 1] \in Seq(S)
    BY <1>0, <1>1, <2>1, Zenon
  <2>4. Begins(FlattenSeq(ss), up[k], S)
    <3>1. PICK rest \in Seq(S) : Joined(FlattenSeq(ss), up[k] \o ss[k + 1], rest)
      BY <2>2, <2>3, Zenon DEF Begins
    <3>2. Joined(FlattenSeq(ss), up[k], ss[k + 1] \o rest) /\ ss[k + 1] \o rest \in Seq(S)
      BY <2>3, <3>1, JoinedTwice, Zenon
    <3> QED
      BY <3>2, Zenon DEF Begins
  <2> QED
    BY <2>4 DEF k
<1>4. Nat \subseteq T
  <2>1. \A m \in Nat : m \in T => m + 1 \in T
    BY <1>3
  <2> HIDE DEF T
  <2> QED
    BY <1>2, <2>1, Induction
<1>5. Len(ss) - n \in Nat /\ Len(ss) - n <= Len(ss) /\ Len(ss) - (Len(ss) - n) = n
  BY <1>0
<1>6. Len(ss) - n \in T
  BY <1>4, <1>5
<1>7. Begins(FlattenSeq(ss), up[n], S)
  BY <1>5, <1>6
<1> QED
  BY <1>7 DEF up

\* What begins with the first of ms, then goes on with the second, and so on
\* to the n-th.
LEMMA Follows ==
  ASSUME NEW S, NEW ms \in Seq(Seq(S)), NEW n \in 0..Len(ms), NEW h,
         \A k \in 0..n - 1 : h[k] = ms[k + 1] \o h[k + 1],
         h[n] = <<>>
  PROVE  h[0] = FlattenSeq(First(ms, n))
<1> DEFINE up == [k \in 0..n |-> FlattenSeq(First(ms, k))]
           T == {m \in Nat : m <= n => h[n - m] \in Seq(S)}
           U == {m \in Nat : m <= n => Joined(h[0], up[m], h[m])}
<1>0. /\ Len(ms) \in Nat /\ n \in Nat /\ \A i \in 1..n : ms[i] \in Seq(S)
      /\ <<>> \in Seq(S)
  OBVIOUS
<1>1. /\ up[0] = <<>>
      /\ \A k \in 0..n - 1 : up[k + 1] = up[k] \o ms[k + 1]
      /\ \A k \in 0..n : up[k] \in Seq(S)
  <2>1. \A k \in 0..n : up[k] = FlattenSeq(First(ms, k))
    OBVIOUS
  <2> HIDE DEF up
  <2>2. /\ 0 \in 0..n /\ \A k \in 0..n : k \in 0..Len(ms)
        /\ \A k \in 0..n - 1 : k \in 0..Len(ms) - 1 /\ k \in 0..n /\ k + 1 \in 0..n
    BY <1>0
  <2> QED
    BY <2>1, <2>2, FlattenStep, Zenon
<1> HIDE DEF up
<1>2. 0 \in T
  <2>1. n - 0 = n
    BY <1>0
  <2> QED
    BY <1>0, <2>1
<1>3. ASSUME NEW m \in Nat, m \in T
      PROVE  m + 1 \in T
  <2> SUFFICES ASSUME m + 1 <= n PROVE h[n - (m + 1)] \in Seq(S)
    OBVIOUS
  <2> DEFINE k == n - (m + 1)
  <2>1. k \in 0..n - 1 /\ k + 1 = n - m /\ k + 1 \in 1..n
    BY <1>0
  <2>2. h[k + 1] \in Seq(S)
    BY <1>0, <1>3, <2>1
  <2> HIDE DEF k
  <2>3. ms[k + 1] \in Seq(S) /\ h[k] = ms[k + 1] \o h[k + 1]
    BY <1>0, <2>1
  <2>4. h[k] \in Seq(S)
    BY <2>2, <2>3, ConcatProperties
  <2> QED
    BY <2>4 DEF k
<1>4. Nat \subseteq T
  <2>1. \A m \in Nat : m \in T => m + 1 \in T
    BY <1>3
  <2> HIDE DEF T
  <2> QED
    BY <1>2, <2>1, Induction
<1>5. \A k \in 0..n : h[k] \in Seq(S)
  <2> SUFFICES ASSUME NEW k \in 0..n PROVE h[k] \in Seq(S)
    OBVIOUS
  <2>1. n - k \in Nat /\ n - k <= n /\ n - (n - k) = k
    BY <1>0
  <2>2. n - k \in T
    BY <1>4, <2>1
  <2> QED
    BY <2>1, <2>2
<1>6. 0 \in U
  <2>1. h[0] \in Seq(S)
    BY <1>0, <1>5
  <2>2. Joined(h[0], up[0], h[0])
    BY <1>1, <2>1, ConcatEmptySeq DEF Joined
  <2> QED
    BY <2>2
<1>7. ASSUME NEW m \in Nat, m \in U
      PROVE  m + 1 \in U
  <2> SUFFICES ASSUME m + 1 <= n PROVE Joined(h[0], up[m + 1], h[m + 1])
    OBVIOUS
  <2>1. m \in 0..n - 1 /\ m \in 0..n /\ m + 1 \in 0..n /\ m + 1 \in 1..n /\ m <= n
    BY <1>0
  <2>2. up[m] \in Seq(S) /\ ms[m + 1] \in Seq(S) /\ h[m + 1] \in Seq(S)
    BY <1>0, <1>1, <1>5, <2>1, Zenon
  <2>3. Joined(h[0], up[m], h[m])
    BY <1>7, <2>1
  <2>4. h[m] = ms[m + 1] \o h[m + 1] /\ up[m + 1] = up[m] \o ms[m + 1]
    BY <1>1, <2>1, Zenon
  <2>5. Joined(h[0], up[m], ms[m + 1] \o h[m + 1])
    BY <2>3, <2>4, Zenon
  <2>6. Joined(h[0], up[m] \o ms[m + 1], h[m + 1])
    BY <2>2, <2>5, JoinedTwice, Zenon
  <2> QED
    BY <2>4, <2>6, Zenon
<1>8. Nat \subseteq U
  <2>1. \A m \in Nat : m \in U => m + 1 \in U
    BY <1>7
  <2> HIDE DEF U
  <2> QED
    BY <1>6, <2>1, Induction
<1>9. Joined(h[0], up[n], <<>>)
  BY <1>0, <1>8
<1> QED
  <2>1. up[n] \in Seq(S)
    BY <1>0, <1>1
  <2>2. up[n] \o <<>> = up[n]
    BY <2>1, ConcatEmptySeq
  <2>3. h[0] = up[n]
    BY <1>9, <2>2, Zenon DEF Joined
  <2> QED
    BY <1>0, <2>3 DEF up

-----------------------------------------------------------------------------
(* Streams. *)

\* Sets of at most one element in a sequence.
LEMMA SmallSetToSeq ==
  /\ SetToSeq({}) = <<>>
  /\ \A x : SetToSeq({x}) = <<x>>
<1>1. SetToSeq({}) = <<>>
  <2>1. Cardinality({}) = 0
    BY FS_EmptySet
  <2>2. \E f \in [1..0 -> {}] : IsInjective(f)
    <3>1. <<>> \in [1..0 -> {}] /\ DOMAIN <<>> = {}
      OBVIOUS
    <3> QED
      BY <3>1 DEF IsInjective
  <2>3. \A f \in [1..0 -> {}] : f = <<>>
    OBVIOUS
  <2> QED
    BY <2>1, <2>2, <2>3 DEF SetToSeq
<1>2. ASSUME NEW x PROVE SetToSeq({x}) = <<x>>
  <2>1. Cardinality({x}) = 1
    BY FS_Singleton
  <2>2. \E f \in [1..1 -> {x}] : IsInjective(f)
    <3>1. <<x>> \in [1..1 -> {x}] /\ \A i, j \in DOMAIN <<x>> : i = j
      OBVIOUS
    <3> QED
      BY <3>1 DEF IsInjective
  <2>3. \A f \in [1..1 -> {x}] : f = <<x>>
    OBVIOUS
  <2> QED
    BY <2>1, <2>2, <2>3 DEF SetToSeq
<1> QED
  BY <1>1, <1>2

\* Lengths are numbers.
LEMMA ValueIsNat ==
  ASSUME NEW bytes \in Seq(Byte)
  PROVE  Value(bytes) \in Nat
<1> DEFINE digit(i) == IF i <= Len(bytes) THEN bytes[i] ELSE 0
<1>0. Base \in Nat /\ Len(bytes) \in Nat
  BY WireAssumption
<1>1. \A i \in Nat \ {0} : digit(i) \in Nat
  BY <1>0 DEF Byte
<1> HIDE DEF digit
<1>2. digit(1) \in Nat /\ digit(2) \in Nat /\ digit(3) \in Nat /\ digit(4) \in Nat
  BY <1>1
<1>3. \A a, b \in Nat : a + Base * b \in Nat
  BY <1>0
<1>5. digit(1) + Base * (digit(2) + Base * (digit(3) + Base * digit(4))) \in Nat
  BY <1>2, <1>3, Zenon
<1> QED
  BY <1>5 DEF Value, digit

\* The read loop after n bytes: there is no further frame, or this one.
Ends(stream, n) ==
  \/ Len(After(stream, n)) < 4
  \/ Len(After(stream, n)) < 4 + Size(First(After(stream, n), 4))
NextRaw(stream, n) == First(After(After(stream, n), 4), Size(First(After(stream, n), 4)))

\* A frame is in the stream.
LEMMA FrameFits ==
  ASSUME NEW stream \in Seq(Byte), NEW n \in 0..Len(stream), ~Ends(stream, n)
  PROVE  Len(NextRaw(stream, n)) \in Nat /\ n + 4 + Len(NextRaw(stream, n)) <= Len(stream)
<1> DEFINE rest == After(stream, n)
           size == Size(First(rest, 4))
<1>0. Len(stream) \in Nat /\ n \in Nat
  OBVIOUS
<1>1. rest \in Seq(Byte) /\ Len(rest) = Len(stream) - n
  BY InFront
<1>2. Len(rest) >= 4 /\ Len(rest) >= 4 + size
  <2> HIDE DEF rest
  <2>1. ~(Len(rest) < 4) /\ ~(Len(rest) < 4 + size)
    BY DEF Ends, rest
  <2>2. Len(rest) \in Nat
    BY <1>1
  <2>3. Len(rest) >= 4
    BY <2>1, <2>2
  <2>4. First(rest, 4) \in Seq(Byte)
    BY <1>1, <2>2, <2>3, InFront
  <2>5. size \in Nat
    BY <2>4, ValueIsNat DEF Size
  <2> QED
    BY <2>1, <2>2, <2>5
<1> HIDE DEF rest
<1>3. First(rest, 4) \in Seq(Byte) /\ After(rest, 4) \in Seq(Byte) /\ Len(After(rest, 4)) = Len(rest) - 4
  <2>1. 4 \in 0..Len(rest)
    BY <1>1, <1>2
  <2> QED
    BY <1>1, <2>1, InFront
<1>4. size \in Nat
  BY <1>3, ValueIsNat DEF Size
<1> HIDE DEF size
<1>5. Len(First(After(rest, 4), size)) = size
  <2>1. size \in 0..Len(After(rest, 4))
    BY <1>0, <1>1, <1>2, <1>3, <1>4
  <2> QED
    BY <1>3, <2>1, InFront
<1>6. Len(NextRaw(stream, n)) = size
  BY <1>5 DEF NextRaw, rest, size
<1>7. n + 4 + size <= Len(stream)
  BY <1>0, <1>1, <1>2, <1>4
<1> QED
  BY <1>4, <1>6, <1>7

\* What the loop reads from n on, given what it reads after the next frame.
ReadFrom(f, stream, n) ==
  IF Ends(stream, n) THEN <<>>
  ELSE SetToSeq(DecodeRawMessage(NextRaw(stream, n))) \o f[n + 4 + Len(NextRaw(stream, n))]
Reads(f, stream, m) == f = [n \in m..Len(stream) |-> ReadFrom(f, stream, n)]

\* There is such a function.
LEMMA ReadsExist ==
  ASSUME NEW stream \in Seq(Byte)
  PROVE  \E f : Reads(f, stream, 0)
<1> DEFINE S == {k \in Nat : k <= Len(stream) => \E f : Reads(f, stream, Len(stream) - k)}
<1>0. Len(stream) \in Nat
  OBVIOUS
\* One position more, in front of m.
<1>1. ASSUME NEW m \in 1..Len(stream) + 1, NEW f, Reads(f, stream, m)
      PROVE  \E g : Reads(g, stream, m - 1)
  <2> DEFINE L == Len(stream)
             g == [n \in m - 1..L |-> IF n = m - 1 THEN ReadFrom(f, stream, n) ELSE f[n]]
  <2>1. m \in Nat /\ m - 1 \in Nat /\ m - 1 <= L
    BY <1>0
  <2>2. \A n \in m..L : f[n] = ReadFrom(f, stream, n)
    BY <1>1 DEF Reads
  <2>3. \A n \in m..L : n \in m - 1..L /\ n # m - 1
    BY <2>1
  <2>4. \A n \in m..L : g[n] = f[n]
    BY <2>3
  <2>5. \A n \in m - 1..L : n = m - 1 \/ n \in m..L
    BY <2>1
  <2>6. m - 1 \in m - 1..L /\ g[m - 1] = ReadFrom(f, stream, m - 1)
    BY <2>1
  <2>7. g = [n \in m - 1..L |-> g[n]]
    OBVIOUS
  <2> HIDE DEF g
  <2>8. ASSUME NEW n \in m - 1..L
        PROVE  ReadFrom(g, stream, n) = ReadFrom(f, stream, n)
    <3>1. CASE Ends(stream, n)
      BY <3>1 DEF ReadFrom
    <3>2. CASE ~Ends(stream, n)
      <4>1. n \in 0..Len(stream) /\ n \in Nat
        BY <1>0, <2>1
      <4>2. Len(NextRaw(stream, n)) \in Nat /\ n + 4 + Len(NextRaw(stream, n)) <= L
        BY <3>2, <4>1, FrameFits
      <4>3. n + 4 + Len(NextRaw(stream, n)) \in m..L
        BY <1>0, <2>1, <4>1, <4>2
      <4>4. g[n + 4 + Len(NextRaw(stream, n))] = f[n + 4 + Len(NextRaw(stream, n))]
        BY <2>4, <4>3
      <4> QED
        BY <4>4 DEF ReadFrom
    <3> QED
      BY <3>1, <3>2
  <2>9. \A n \in m - 1..L : g[n] = ReadFrom(g, stream, n)
    BY <2>2, <2>4, <2>5, <2>6, <2>8
  <2>10. Reads(g, stream, m - 1)
    BY <2>7, <2>9 DEF Reads
  <2> QED
    BY <2>10
<1>2. 0 \in S
  <2>1. Reads([n \in Len(stream) + 1..Len(stream) |-> <<>>], stream, Len(stream) + 1)
    BY <1>0 DEF Reads
  <2>2. Len(stream) + 1 \in 1..Len(stream) + 1 /\ (Len(stream) + 1) - 1 = Len(stream) - 0
    BY <1>0
  <2>3. \E g : Reads(g, stream, Len(stream) - 0)
    BY <1>1, <2>1, <2>2
  <2> QED
    BY <2>3
<1>3. ASSUME NEW k \in Nat, k \in S
      PROVE  k + 1 \in S
  <2> SUFFICES ASSUME k + 1 <= Len(stream)
               PROVE  \E g : Reads(g, stream, Len(stream) - (k + 1))
    OBVIOUS
  <2>1. /\ Len(stream) - k \in 1..Len(stream) + 1 /\ k <= Len(stream)
        /\ (Len(stream) - k) - 1 = Len(stream) - (k + 1)
    BY <1>0
  <2>2. \E f : Reads(f, stream, Len(stream) - k)
    BY <1>3, <2>1
  <2> QED
    BY <1>1, <2>1, <2>2
<1>4. Nat \subseteq S
  <2>1. \A k \in Nat : k \in S => k + 1 \in S
    BY <1>3
  <2> HIDE DEF S
  <2> QED
    BY <1>2, <2>1, Induction
<1>5. Len(stream) \in S /\ Len(stream) - Len(stream) = 0
  BY <1>0, <1>4
<1> QED
  BY <1>0, <1>5

\* ReadFrames is what such a function says of the first byte.
LEMMA ReadFramesReads ==
  ASSUME NEW stream \in Seq(Byte)
  PROVE  \E f : /\ ReadFrames(stream) = f[0]
                /\ \A n \in 0..Len(stream) : f[n] = ReadFrom(f, stream, n)
<1> DEFINE from[n \in 0..Len(stream)] ==
             LET rest == After(stream, n)
                 raw == First(After(rest, 4), Size(First(rest, 4)))
             IN  IF Len(rest) < 4 \/ Len(rest) < 4 + Size(First(rest, 4)) THEN <<>>
                 ELSE SetToSeq(DecodeRawMessage(raw)) \o from[n + 4 + Len(raw)]
<1>1. ReadFrames(stream) = from[0]
  BY DEF ReadFrames
<1>2. Reads(from, stream, 0)
  <2>1. \E f : Reads(f, stream, 0)
    BY ReadsExist
  <2> QED
    BY <2>1 DEF Reads, ReadFrom, Ends, NextRaw
<1> HIDE DEF from
<1>3. \A n \in 0..Len(stream) : from[n] = ReadFrom(from, stream, n)
  BY <1>2 DEF Reads
<1> QED
  BY <1>1, <1>3

\* A frame in a stream that is cut at c: either the loop ends in front of it,
\* or it is the next one.
LEMMA FrameIsRead ==
  ASSUME NEW front \in Seq(Byte), NEW raw \in Seq(Byte), NEW back \in Seq(Byte),
         Len(raw) < Base * Base * Base * Base,
         NEW stream, NEW c \in Nat, stream = First(front \o (Frame(raw) \o back), c),
         Len(front) <= c, c <= Len(front \o (Frame(raw) \o back))
  PROVE  /\ Len(Frame(raw)) = 4 + Len(raw)
         /\ Ends(stream, Len(front)) <=> c < Len(front) + Len(Frame(raw))
         /\ c >= Len(front) + Len(Frame(raw)) => NextRaw(stream, Len(front)) = raw
<1> DEFINE head == Uint32(Len(raw))
           tail == raw \o back
           n == c - Len(front)
           rest == After(stream, Len(front))
<1>0. /\ Len(raw) \in Nat /\ Len(back) \in Nat /\ Len(front) \in Nat
  BY LenProperties
<1>1. head \in Seq(Byte) /\ Len(head) = 4 /\ Value(head) = Len(raw)
  BY <1>0, Value32
<1>2. tail \in Seq(Byte) /\ Len(tail) = Len(raw) + Len(back)
  BY Concat
<1>3. Frame(raw) = head \o raw /\ Frame(raw) \in Seq(Byte) /\ Len(Frame(raw)) = 4 + Len(raw)
  <2> HIDE DEF head
  <2>1. Frame(raw) = head \o raw
    BY DEF Frame, head
  <2> QED
    BY <1>1, <2>1, Concat
<1> HIDE DEF head
<1>4. Frame(raw) \o back = head \o tail
  <2> HIDE DEF head
  <2>1. (head \o raw) \o back = head \o (raw \o back)
    BY <1>1, Regroup
  <2> QED
    BY <1>3, <2>1, Zenon
<1> HIDE DEF tail
<1>5. head \o tail \in Seq(Byte) /\ Len(head \o tail) = 4 + Len(tail)
  BY <1>1, <1>2, Concat
<1>6. Len(front \o (head \o tail)) = Len(front) + Len(head \o tail)
  BY <1>5, Concat
<1>7. /\ c \in Len(front)..Len(front) + Len(head \o tail)
      /\ n \in Nat /\ n \in 0..Len(head \o tail) /\ n <= 4 + Len(raw) + Len(back)
  BY <1>0, <1>2, <1>4, <1>5, <1>6
<1>8. rest = First(head \o tail, n)
  <2>1. After(First(front \o (head \o tail), c), Len(front)) = First(head \o tail, c - Len(front))
    BY <1>5, <1>7, BehindBytes, Zenon
  <2> QED
    BY <1>4, <2>1
<1>9. Len(rest) = n
  <2> DEFINE all == head \o tail
  <2> HIDE DEF all, n
  <2>1. all \in Seq(Byte) /\ n \in 0..Len(all)
    BY <1>5, <1>7 DEF all
  <2>2. Len(First(all, n)) = n
    BY <2>1, InFront
  <2> QED
    BY <1>8, <2>2 DEF all
<1> HIDE DEF n, rest
<1>10. ASSUME n >= 4
       PROVE  /\ First(rest, 4) = head /\ After(rest, 4) = First(tail, n - 4)
              /\ Size(First(rest, 4)) = Len(raw)
  <2>1. n \in Len(head)..Len(head) + Len(tail)
    BY <1>1, <1>2, <1>5, <1>7, <1>10
  <2>2. First(First(head \o tail, n), Len(head)) = head
        /\ After(First(head \o tail, n), Len(head)) = First(tail, n - Len(head))
    BY <1>1, <1>2, <2>1, BehindBytes, Zenon
  <2>3. First(rest, 4) = head /\ After(rest, 4) = First(tail, n - 4)
    BY <1>1, <1>8, <2>2
  <2> QED
    BY <1>1, <2>3 DEF Size
<1>11. Ends(stream, Len(front)) <=> n < 4 + Len(raw)
  <2>1. Ends(stream, Len(front)) <=> n < 4 \/ n < 4 + Size(First(rest, 4))
    BY <1>9 DEF Ends, rest
  <2>2. CASE n < 4
    BY <1>0, <1>7, <2>1, <2>2
  <2>3. CASE n >= 4
    BY <1>7, <1>10, <2>1, <2>3
  <2> QED
    BY <1>7, <2>2, <2>3
<1>12. ASSUME n >= 4 + Len(raw)
       PROVE  NextRaw(stream, Len(front)) = raw
  <2>1. n >= 4 /\ n - 4 \in Len(raw)..Len(raw) + Len(back)
    BY <1>0, <1>7, <1>12
  <2>2. First(First(raw \o back, n - 4), Len(raw)) = raw
    <3> DEFINE k == n - 4
    <3>1. k \in Len(raw)..Len(raw) + Len(back)
      BY <2>1
    <3> HIDE DEF k
    <3>2. First(First(raw \o back, k), Len(raw)) = raw
      BY <3>1, BehindBytes, Zenon
    <3> QED
      BY <3>2 DEF k
  <2>3. NextRaw(stream, Len(front)) = First(After(rest, 4), Size(First(rest, 4)))
    BY DEF NextRaw, rest
  <2> QED
    BY <1>10, <2>1, <2>2, <2>3 DEF tail
<1>13. /\ n < 4 + Len(raw) <=> c < Len(front) + (4 + Len(raw))
       /\ n >= 4 + Len(raw) <=> c >= Len(front) + (4 + Len(raw))
  BY <1>0 DEF n
<1> QED
  BY <1>3, <1>11, <1>12, <1>13

\* What a peer sends.
Body == [msg : Message, cut : BOOLEAN]

\* What it puts into a frame is decoded if it is whole.
LEMMA BodyIsRead ==
  ASSUME NEW body \in Body, Len(EncodeRawMessage(body.msg)) < Base * Base * Base * Base
  PROVE  /\ Raw(body) \in Seq(Byte) /\ Len(Raw(body)) < Base * Base * Base * Base
         /\ DecodeRawMessage(Raw(body)) = IF body.cut THEN {} ELSE {body.msg}
<1> DEFINE raw == EncodeRawMessage(body.msg)
           n == Len(raw)
<1>0. body.msg \in Message /\ body.cut \in BOOLEAN
  BY DEF Body
<1>1. raw \in Seq(Byte)
  BY <1>0, RawBytes
<1>2. n \in Nat
  BY <1>1, LenProperties
<1>3. \A k \in 0..n : DecodeRawMessage(First(raw, k)) = IF k = n THEN {body.msg} ELSE {}
  BY <1>0, RawIsRead
<1> HIDE DEF raw
<1>4. \A k \in 0..n : First(raw, k) \in Seq(Byte) /\ Len(First(raw, k)) = k
  BY <1>1, InFront
<1>5. First(raw, n) = raw
  BY <1>1, InFront
<1>6. n # 0
  <2> SUFFICES ASSUME n = 0 PROVE FALSE
    OBVIOUS
  <2>1. 0 \in 0..n
    BY <1>2
  <2>2. DecodeRawMessage(First(raw, 0)) = {body.msg}
    BY <1>3, <2>1
  <2>3. First(raw, 0) = <<>>
    BY <1>4, <2>1
  <2> QED
    BY <2>2, <2>3 DEF DecodeRawMessage
<1>7. Raw(body) = IF body.cut THEN First(raw, n - 1) ELSE raw
  BY DEF Raw, raw
<1>8. CASE body.cut
  <2>1. n - 1 \in 0..n /\ n - 1 # n
    BY <1>2, <1>6
  <2>2. Raw(body) = First(raw, n - 1)
    BY <1>7, <1>8
  <2>3. Len(Raw(body)) = n - 1
    BY <1>4, <2>1, <2>2
  <2>4. n < Base * Base * Base * Base /\ Base * Base * Base * Base \in Nat
    BY WireAssumption DEF raw
  <2>5. Len(Raw(body)) < Base * Base * Base * Base
    <3> DEFINE b == Base * Base * Base * Base
    <3> HIDE DEF b, n
    <3>1. b \in Nat /\ n < b
      BY <2>4 DEF b
    <3> QED
      BY <1>2, <2>3, <3>1 DEF b
  <2> QED
    BY <1>3, <1>4, <1>8, <2>1, <2>2, <2>5
<1>9. CASE ~body.cut
  <2>1. Raw(body) = raw /\ n \in 0..n
    BY <1>2, <1>7, <1>9
  <2>2. DecodeRawMessage(raw) = {body.msg}
    BY <1>3, <1>5, <2>1
  <2> QED
    BY <1>1, <1>9, <2>1, <2>2 DEF raw
<1> QED
  BY <1>0, <1>8, <1>9

\* Frames, and where they end.
Frames(sent) == [i \in DOMAIN sent |-> Frame(Raw(sent[i]))]
EndOf(sent, n) == Len(FlattenSeq(First(Frames(sent), n)))

\* What of a peer can be read.
Sendable(sent) ==
  /\ sent \in Seq(Body)
  /\ \A i \in DOMAIN sent : Len(EncodeRawMessage(sent[i].msg)) < Base * Base * Base * Base

\* A stream is all frames, up to its end.
LEMMA StreamBytes ==
  ASSUME NEW sent, Sendable(sent), NEW end \in Nat
  PROVE  /\ Len(sent) \in Nat /\ Frames(sent) \in Seq(Seq(Byte)) /\ Len(Frames(sent)) = Len(sent)
         /\ \A k \in 0..Len(sent) : EndOf(sent, k) \in Nat /\ EndOf(sent, k) <= EndOf(sent, Len(sent))
         /\ EndOf(sent, 0) = 0
         /\ \E c \in Nat : /\ c = IF EndOf(sent, Len(sent)) < end THEN EndOf(sent, Len(sent)) ELSE end
                           /\ Stream(sent, end) = First(FlattenSeq(Frames(sent)), c)
                           /\ Stream(sent, end) \in Seq(Byte) /\ Len(Stream(sent, end)) = c
<1> DEFINE frames == Frames(sent)
           bytes == FlattenSeq(frames)
           c == IF Len(bytes) < end THEN Len(bytes) ELSE end
<1>1. Len(sent) \in Nat /\ DOMAIN sent = 1..Len(sent)
  BY DEF Sendable
<1>2. \A i \in 1..Len(sent) : Frame(Raw(sent[i])) \in Seq(Byte)
  <2> SUFFICES ASSUME NEW i \in 1..Len(sent) PROVE Frame(Raw(sent[i])) \in Seq(Byte)
    OBVIOUS
  <2>1. sent[i] \in Body /\ Len(EncodeRawMessage(sent[i].msg)) < Base * Base * Base * Base
    BY <1>1 DEF Sendable
  <2> DEFINE raw == Raw(sent[i])
  <2>2. raw \in Seq(Byte) /\ Len(raw) < Base * Base * Base * Base
    BY <2>1, BodyIsRead
  <2> HIDE DEF raw
  <2>3. Len(raw) \in Nat
    BY <2>2, LenProperties
  <2>4. Uint32(Len(raw)) \in Seq(Byte)
    BY <2>2, <2>3, Value32
  <2>5. Frame(raw) \in Seq(Byte)
    BY <2>2, <2>4, Concat, Zenon DEF Frame
  <2> QED
    BY <2>5 DEF raw
<1>3. frames = [i \in 1..Len(sent) |-> Frame(Raw(sent[i]))]
  BY <1>1 DEF Frames
<1> HIDE DEF frames
<1>4. frames \in Seq(Seq(Byte)) /\ Len(frames) = Len(sent)
  <2>1. frames \in [1..Len(sent) -> Seq(Byte)]
    BY <1>2, <1>3
  <2> QED
    BY <1>1, <2>1
<1>5. bytes \in Seq(Byte) /\ FlattenSeq(First(frames, Len(frames))) = bytes
  <2>1. FlattenSeq(First(frames, Len(frames))) = bytes
    BY <1>4, FlattenStep, Zenon
  <2>2. Len(frames) \in 0..Len(frames)
    BY <1>1, <1>4
  <2>3. FlattenSeq(First(frames, Len(frames))) \in Seq(Byte)
    BY <1>4, <2>2, FlattenStep, Zenon
  <2> QED
    BY <2>1, <2>3
<1> HIDE DEF bytes
<1>6. EndOf(sent, Len(sent)) = Len(bytes) /\ Len(bytes) \in Nat
  <2>1. EndOf(sent, Len(sent)) = Len(bytes)
    BY <1>4, <1>5 DEF EndOf, frames
  <2> QED
    BY <1>5, <2>1, LenProperties
<1>7. ASSUME NEW k \in 0..Len(sent)
      PROVE  EndOf(sent, k) \in Nat /\ EndOf(sent, k) <= EndOf(sent, Len(sent))
  <2>1. k \in 0..Len(frames)
    BY <1>4
  <2> DEFINE front == FlattenSeq(First(frames, k))
  <2>2. front \in Seq(Byte)
    BY <1>4, <2>1, FlattenStep, Zenon
  <2>3. PICK rest \in Seq(Byte) : bytes = front \o rest
    BY <1>4, <2>1, FlattenBegins, Zenon DEF Begins, Joined, bytes
  <2> HIDE DEF front
  <2>4. Len(bytes) = Len(front) + Len(rest) /\ Len(front) \in Nat /\ Len(rest) \in Nat
    BY <2>2, <2>3, Concat, LenProperties
  <2>5. EndOf(sent, k) = Len(front)
    BY DEF EndOf, front, frames
  <2> QED
    BY <1>6, <2>4, <2>5
<1>8. EndOf(sent, 0) = 0
  <2>1. FlattenSeq(First(frames, 0)) = <<>>
    BY <1>4, FlattenStep, Zenon
  <2> QED
    BY <2>1 DEF EndOf, frames
<1>9. Stream(sent, end) = First(bytes, c)
  BY <1>1, <1>3 DEF Stream, bytes
<1>10. c \in Nat /\ c \in 0..Len(bytes)
  BY <1>6
<1>11. c = IF EndOf(sent, Len(sent)) < end THEN EndOf(sent, Len(sent)) ELSE end
  BY <1>6
<1> HIDE DEF c
<1>12. First(bytes, c) \in Seq(Byte) /\ Len(First(bytes, c)) = c
  BY <1>5, <1>10, InFront
<1> QED
  BY <1>1, <1>4, <1>7, <1>8, <1>9, <1>10, <1>11, <1>12 DEF bytes, frames

\* The loop, in front of a frame.
LEMMA FrameInStream ==
  ASSUME NEW sent, Sendable(sent), NEW k \in 0..Len(sent) - 1,
         NEW c \in Nat, c <= EndOf(sent, Len(sent)), EndOf(sent, k) <= c,
         NEW stream, stream = First(FlattenSeq(Frames(sent)), c)
  PROVE  /\ EndOf(sent, k + 1) = EndOf(sent, k) + 4 + Len(Raw(sent[k + 1]))
         /\ Ends(stream, EndOf(sent, k)) <=> c < EndOf(sent, k + 1)
         /\ c >= EndOf(sent, k + 1) => NextRaw(stream, EndOf(sent, k)) = Raw(sent[k + 1])
<1> DEFINE frames == Frames(sent)
           front == FlattenSeq(First(frames, k))
           raw == Raw(sent[k + 1])
<1>1. /\ Len(sent) \in Nat /\ frames \in Seq(Seq(Byte)) /\ Len(frames) = Len(sent)
      /\ \A j \in 0..Len(sent) : EndOf(sent, j) \in Nat
  BY StreamBytes
<1>2. k + 1 \in 1..Len(sent) /\ k + 1 \in 0..Len(sent) /\ k \in 0..Len(sent) /\ DOMAIN sent = 1..Len(sent)
  BY <1>1 DEF Sendable
<1>3. raw \in Seq(Byte) /\ Len(raw) < Base * Base * Base * Base
  <2>1. sent[k + 1] \in Body /\ Len(EncodeRawMessage(sent[k + 1].msg)) < Base * Base * Base * Base
    BY <1>2 DEF Sendable
  <2> QED
    BY <2>1, BodyIsRead
<1>4. frames[k + 1] = Frame(raw)
  BY <1>2 DEF Frames
<1> HIDE DEF frames, raw
<1>5. front \in Seq(Byte) /\ FlattenSeq(First(frames, k + 1)) = front \o Frame(raw)
      /\ FlattenSeq(First(frames, Len(frames))) = FlattenSeq(frames)
  <2>1. k \in 0..Len(frames) - 1 /\ k \in 0..Len(frames)
    BY <1>1, <1>2
  <2> QED
    BY <1>1, <1>4, <2>1, FlattenStep, Zenon
<1>6. PICK back \in Seq(Byte) : FlattenSeq(frames) = (front \o Frame(raw)) \o back
  <2>1. Begins(FlattenSeq(frames), FlattenSeq(First(frames, k + 1)), Byte)
    BY <1>1, <1>2, FlattenBegins
  <2> QED
    BY <1>5, <2>1, Zenon DEF Begins, Joined
<1> HIDE DEF front
<1>7. Frame(raw) \in Seq(Byte)
  <2>1. frames[k + 1] \in Seq(Byte)
    BY <1>1, <1>2
  <2> QED
    BY <1>4, <2>1
<1>8. FlattenSeq(frames) = front \o (Frame(raw) \o back)
  <2>1. (front \o Frame(raw)) \o back = front \o (Frame(raw) \o back)
    BY <1>5, <1>7, Regroup
  <2> QED
    BY <1>6, <2>1, Zenon
<1>9. /\ EndOf(sent, k) = Len(front) /\ EndOf(sent, k + 1) = Len(front) + Len(Frame(raw))
      /\ EndOf(sent, Len(sent)) = Len(front \o (Frame(raw) \o back))
  <2>1. Len(front \o Frame(raw)) = Len(front) + Len(Frame(raw))
    BY <1>5, <1>7, Concat
  <2>2. EndOf(sent, Len(sent)) = Len(FlattenSeq(frames))
    BY <1>1, <1>5 DEF EndOf, frames
  <2> QED
    BY <1>5, <1>8, <2>1, <2>2 DEF EndOf, front, frames
<1>10. /\ Len(Frame(raw)) = 4 + Len(raw)
       /\ Ends(stream, Len(front)) <=> c < Len(front) + Len(Frame(raw))
       /\ c >= Len(front) + Len(Frame(raw)) => NextRaw(stream, Len(front)) = raw
  <2>1. stream = First(front \o (Frame(raw) \o back), c)
    BY <1>8 DEF frames
  <2>2. Len(front) <= c /\ c <= Len(front \o (Frame(raw) \o back))
    BY <1>9
  <2> QED
    BY <1>3, <1>5, <2>1, <2>2, FrameIsRead, Zenon
<1>11. Len(front) \in Nat /\ Len(raw) \in Nat
  BY <1>3, <1>5, LenProperties
<1> QED
  BY <1>9, <1>10, <1>11 DEF raw

\* handleTCPConnection's loop passes on what was complete when the stream ended.
LEMMA StreamIsRead ==
  ASSUME NEW sent, Sendable(sent), NEW end \in Nat,
         NEW received,
         received = [i \in DOMAIN sent |-> IF sent[i].cut THEN <<>> ELSE <<sent[i].msg>>]
  PROVE  \E n \in 0..Len(sent) :
           /\ EndOf(sent, n) <= end
           /\ n = Len(sent) \/ EndOf(sent, n + 1) > end
           /\ ReadFrames(Stream(sent, end)) = FlattenSeq(First(received, n))
<1> DEFINE N == Len(sent)
           Stop(n) == /\ \A k \in 0..n : EndOf(sent, k) <= end
                      /\ n = N \/ EndOf(sent, n + 1) > end
<1>1. PICK c \in Nat :
        /\ c = IF EndOf(sent, N) < end THEN EndOf(sent, N) ELSE end
        /\ Stream(sent, end) = First(FlattenSeq(Frames(sent)), c)
        /\ Stream(sent, end) \in Seq(Byte) /\ Len(Stream(sent, end)) = c
  BY StreamBytes
<1>2. /\ N \in Nat /\ EndOf(sent, 0) = 0
      /\ \A k \in 0..N : EndOf(sent, k) \in Nat /\ EndOf(sent, k) <= EndOf(sent, N)
  BY StreamBytes
<1>3. PICK n \in 0..N : Stop(n)
  <2> SUFFICES ASSUME \A n \in 0..N : ~Stop(n) PROVE FALSE
    OBVIOUS
  <2> DEFINE T == {m \in Nat : m <= N => \A k \in 0..m : EndOf(sent, k) <= end}
  <2>1. 0 \in T
    BY <1>2
  <2>2. ASSUME NEW m \in Nat, m \in T
        PROVE  m + 1 \in T
    <3> SUFFICES ASSUME m + 1 <= N, NEW k \in 0..m + 1 PROVE EndOf(sent, k) <= end
      OBVIOUS
    <3>1. m \in 0..N /\ m + 1 \in 0..N /\ m # N /\ \A j \in 0..m : EndOf(sent, j) <= end
      BY <1>2, <2>2
    <3>2. ~(EndOf(sent, m + 1) > end)
      BY <3>1
    <3>3. EndOf(sent, m + 1) <= end
      BY <1>2, <3>1, <3>2
    <3>4. k \in 0..m \/ k = m + 1
      OBVIOUS
    <3> QED
      BY <3>1, <3>3, <3>4
  <2>3. Nat \subseteq T
    <3>1. \A m \in Nat : m \in T => m + 1 \in T
      BY <2>2
    <3> HIDE DEF T
    <3> QED
      BY <2>1, <3>1, Induction
  <2>4. \A k \in 0..N : EndOf(sent, k) <= end
    BY <1>2, <2>3
  <2> QED
    BY <1>2, <2>4
<1> DEFINE stream == Stream(sent, end)
<1>4. PICK f : /\ ReadFrames(stream) = f[0]
               /\ \A k \in 0..Len(stream) : f[k] = ReadFrom(f, stream, k)
  BY <1>1, ReadFramesReads
<1> HIDE DEF stream
<1>5. \A k \in 0..n : k \in 0..N /\ EndOf(sent, k) \in 0..c /\ EndOf(sent, k) <= end
  BY <1>1, <1>2, <1>3
<1>6. c <= EndOf(sent, N) /\ c <= end
  BY <1>1, <1>2
<1>7. stream = First(FlattenSeq(Frames(sent)), c) /\ stream \in Seq(Byte) /\ Len(stream) = c
  BY <1>1 DEF stream
<1> DEFINE h == [k \in 0..n |-> f[EndOf(sent, k)]]
<1>8. /\ received \in Seq(Seq(Message)) /\ Len(received) = N
      /\ \A k \in 1..N : received[k] = SetToSeq(DecodeRawMessage(Raw(sent[k])))
  <2>1. \A k \in 1..N : received[k] = IF sent[k].cut THEN <<>> ELSE <<sent[k].msg>>
    BY DEF Sendable
  <2>2. \A k \in 1..N : /\ sent[k] \in Body
                        /\ Len(EncodeRawMessage(sent[k].msg)) < Base * Base * Base * Base
    BY DEF Sendable
  <2>3. ASSUME NEW k \in 1..N
        PROVE  received[k] = SetToSeq(DecodeRawMessage(Raw(sent[k]))) /\ received[k] \in Seq(Message)
    <3>1. DecodeRawMessage(Raw(sent[k])) = IF sent[k].cut THEN {} ELSE {sent[k].msg}
      BY <2>2, BodyIsRead
    <3>2. sent[k].msg \in Message
      BY <2>2 DEF Body
    <3>3. CASE sent[k].cut
      BY <2>1, <3>1, <3>3, SmallSetToSeq
    <3>4. CASE ~sent[k].cut
      <4>1. received[k] = <<sent[k].msg>> /\ DecodeRawMessage(Raw(sent[k])) = {sent[k].msg}
        BY <2>1, <3>1, <3>4
      <4>2. SetToSeq({sent[k].msg}) = <<sent[k].msg>>
        BY SmallSetToSeq
      <4>3. <<sent[k].msg>> \in Seq(Message)
        BY <3>2
      <4> QED
        BY <4>1, <4>2, <4>3
    <3> QED
      BY <3>3, <3>4
  <2>4. received \in [1..N -> Seq(Message)]
    <3>1. DOMAIN sent = 1..N
      BY DEF Sendable
    <3>2. received = [i \in 1..N |-> received[i]]
      BY <3>1
    <3> QED
      BY <2>3, <3>2
  <2> QED
    BY <1>2, <2>3, <2>4
<1>9. ASSUME NEW k \in 0..n - 1
      PROVE  h[k] = received[k + 1] \o h[k + 1]
  <2>1. k \in 0..N - 1 /\ k + 1 \in 1..N /\ k \in 0..n /\ k + 1 \in 0..n
    BY <1>2
  <2>2. EndOf(sent, k) \in 0..c /\ EndOf(sent, k + 1) \in 0..c
    BY <1>5, <2>1
  <2>3. /\ EndOf(sent, k + 1) = EndOf(sent, k) + 4 + Len(Raw(sent[k + 1]))
        /\ ~Ends(stream, EndOf(sent, k))
        /\ NextRaw(stream, EndOf(sent, k)) = Raw(sent[k + 1])
    BY <1>6, <1>7, <2>1, <2>2, FrameInStream
  <2>4. f[EndOf(sent, k)] = ReadFrom(f, stream, EndOf(sent, k))
    BY <1>4, <1>7, <2>2
  <2>5. f[EndOf(sent, k)] = received[k + 1] \o f[EndOf(sent, k + 1)]
    BY <1>8, <2>1, <2>3, <2>4 DEF ReadFrom
  <2>6. h[k] = f[EndOf(sent, k)] /\ h[k + 1] = f[EndOf(sent, k + 1)]
    BY <2>1
  <2> HIDE DEF h
  <2> QED
    BY <2>5, <2>6
<1>10. h[n] = <<>>
  <2>1. n \in 0..n /\ EndOf(sent, n) \in 0..c
    BY <1>2, <1>5
  <2>2. Ends(stream, EndOf(sent, n))
    <3>1. CASE n = N
      <4>1. c = EndOf(sent, n)
        BY <1>5, <1>6, <2>1, <3>1
      <4>2. Len(After(stream, c)) = 0
        <5>1. c \in 0..Len(stream) /\ Len(stream) - c = 0
          BY <1>7
        <5>2. stream \in Seq(Byte)
          BY <1>7
        <5>3. Len(After(stream, c)) = Len(stream) - c
          <6> HIDE DEF stream
          <6> QED
            BY <5>1, <5>2, InFront, Zenon
        <5> QED
          BY <5>1, <5>3
      <4> QED
        BY <4>1, <4>2 DEF Ends
    <3>2. CASE n # N
      <4>1. n \in 0..N - 1 /\ EndOf(sent, n + 1) > end /\ EndOf(sent, n + 1) \in Nat
        BY <1>2, <1>3, <3>2
      <4>2. c < EndOf(sent, n + 1)
        BY <1>6, <4>1
      <4> QED
        BY <1>6, <1>7, <2>1, <4>1, <4>2, FrameInStream
    <3> QED
      BY <3>1, <3>2
  <2>3. f[EndOf(sent, n)] = <<>>
    BY <1>4, <1>7, <2>1, <2>2 DEF ReadFrom
  <2> QED
    BY <2>1, <2>3
<1>11. h[0] = f[0]
  BY <1>2
<1> HIDE DEF h
<1>12. h[0] = FlattenSeq(First(received, n))
  <2>1. n \in 0..Len(received)
    BY <1>8
  <2> QED
    BY <1>8, <1>9, <1>10, <2>1, Follows
<1>13. EndOf(sent, n) <= end
  BY <1>2, <1>5
<1> QED
  BY <1>3, <1>4, <1>11, <1>12, <1>13 DEF stream

-----------------------------------------------------------------------------
(* Chat. *)

\* A set of positions has a first and a last one.
LEMMA Extremes ==
  ASSUME NEW n \in Nat, NEW P \in SUBSET (1..n), P # {}
  PROVE  /\ \E i \in P : \A j \in P : i <= j
         /\ \E i \in P : \A j \in P : j <= i
<1> DEFINE Has(R) == (\E i \in R : \A j \in R : i <= j) /\ (\E i \in R : \A j \in R : j <= i)
           S == {m \in Nat : \A R \in SUBSET (1..m) : R # {} => Has(R)}
<1>1. 0 \in S
  <2>1. ASSUME NEW R \in SUBSET (1..0)
        PROVE  R = {}
    OBVIOUS
  <2> HIDE DEF Has
  <2> QED
    BY <2>1
<1>2. ASSUME NEW m \in Nat, m \in S
      PROVE  m + 1 \in S
  <2> SUFFICES ASSUME NEW R \in SUBSET (1..m + 1), R # {} PROVE Has(R)
    OBVIOUS
  <2>1. CASE m + 1 \notin R
    <3>1. R \in SUBSET (1..m)
      BY <2>1
    <3> QED
      BY <1>2, <3>1
  <2>2. CASE R = {m + 1}
    BY <2>2
  <2>3. CASE m + 1 \in R /\ R # {m + 1}
    <3> DEFINE Q == R \ {m + 1}
    <3>1. Q \in SUBSET (1..m) /\ Q # {}
      BY <2>3
    <3>2. PICK i \in Q : \A j \in Q : i <= j
      <4> HIDE DEF Q
      <4> QED
        BY <1>2, <3>1
    <3>3. i \in R /\ \A j \in R : i <= j
      BY <3>2
    <3>4. \A j \in R : j <= m + 1
      OBVIOUS
    <3> QED
      BY <2>3, <3>3, <3>4
  <2> QED
    BY <2>1, <2>2, <2>3
<1>3. Nat \subseteq S
  <2>1. \A m \in Nat : m \in S => m + 1 \in S
    BY <1>2
  <2> HIDE DEF S
  <2> QED
    BY <1>1, <2>1, Induction
<1> QED
  BY <1>3

\* Text does not grow when it is trimmed.
LEMMA TrimIsShort ==
  ASSUME NEW text \in Seq(Byte)
  PROVE  TrimSpace(text) \in Seq(Byte) /\ Len(TrimSpace(text)) <= Len(text)
<1> DEFINE inner == {i \in DOMAIN text : text[i] # Space}
           first == CHOOSE i \in inner : \A j \in inner : i <= j
           last == CHOOSE i \in inner : \A j \in inner : j <= i
<1>1. Len(text) \in Nat /\ DOMAIN text = 1..Len(text) /\ \A i \in 1..Len(text) : text[i] \in Byte
  BY LenProperties
<1>2. CASE inner = {}
  BY <1>1, <1>2, EmptySeq DEF TrimSpace
<1>3. CASE inner # {}
  <2>1. inner \in SUBSET (1..Len(text))
    BY <1>1
  <2> HIDE DEF inner
  <2>2. /\ \E i \in inner : \A j \in inner : i <= j
        /\ \E i \in inner : \A j \in inner : j <= i
    BY <1>1, <1>3, <2>1, Extremes
  <2>3. first \in inner /\ last \in inner /\ first <= last
    BY <2>2
  <2>4. TrimSpace(text) = SubSeq(text, first, last)
    BY <1>3 DEF TrimSpace, inner
  <2> HIDE DEF first, last
  <2>5. first \in 1..Len(text) /\ last \in 1..Len(text)
    BY <2>1, <2>3
  <2>6. \A i \in first..last : text[i] \in Byte
    BY <1>1, <2>5
  <2>7. first \in Int /\ last \in Int
    BY <1>1, <2>5
  <2>8. SubSeq(text, first, last) \in Seq(Byte) /\ Len(SubSeq(text, first, last)) = last - first + 1
    BY <2>3, <2>6, <2>7, SubSeqProperties
  <2> QED
    BY <1>1, <2>4, <2>5, <2>7, <2>8
<1> QED
  BY <1>2, <1>3

\* HandleChat in the words of ChatArrives.
LEMMA ChatResult ==
  ASSUME kind = "chat", input \in ChatInputs, output = <<HandleChat(input[1], input[2])>>
  PROVE  ChatArrives
<1> DEFINE nickname == input[1]
           data == input[2]
           front == First(After(data, 1), data[1])
           text == TrimSpace(front)
           code == <<General, Len(nickname)>> \o nickname \o <<Len(text)>> \o text
<1>1. nickname \in Seq(Byte) /\ data \in Seq(Byte)
  BY ChatInputsAssumption
<1>2. Result = HandleChat(nickname, data)
  BY DEF Result
<1> HIDE DEF nickname, data
<1>3. /\ Len(data) \in Nat /\ Len(nickname) \in Nat /\ Base \in Nat /\ Base > 0
      /\ (data = <<>> <=> Len(data) = 0)
  BY <1>1, LenProperties, EmptySeq, WireAssumption
<1>4. CASE Len(data) < 2 \/ data[1] > Len(data) - 1
  <2>1. data = <<>> \/ Len(data) - 1 < data[1] \/ Len(data) = 1
    <3>1. CASE Len(data) < 2
      <4> DEFINE n == Len(data)
      <4>1. n \in Nat /\ n < 2 /\ (data = <<>> <=> n = 0)
        BY <1>3, <3>1
      <4> HIDE DEF n
      <4>2. n = 0 \/ n = 1
        BY <4>1
      <4> QED
        BY <4>1, <4>2 DEF n
    <3>2. CASE ~(Len(data) < 2)
      <4>1. 1 \in 1..Len(data)
        BY <1>3, <3>2
      <4>2. data[1] \in Byte
        BY <1>1, <4>1, ElementOfSeq
      <4> DEFINE x == data[1]
                 n == Len(data)
      <4>3. n \in Nat /\ x \in Int /\ x > n - 1
        BY <1>3, <1>4, <3>2, <4>2 DEF Byte
      <4> HIDE DEF x, n
      <4>4. n - 1 < x
        BY <4>3
      <4> QED
        BY <4>4 DEF x, n
    <3> QED
      BY <3>1, <3>2
  <2>2. Result = [kind |-> "invalid"]
    BY <1>2, <2>1 DEF HandleChat, DecodeChatMessage
  <2> QED
    BY <1>4, <2>2 DEF ChatArrives, data
<1>5. CASE ~(Len(data) < 2 \/ data[1] > Len(data) - 1)
  <2>1. Len(data) >= 2 /\ data[1] \in 0..Len(data) - 1 /\ data[1] < Base
    <3>1. Len(data) >= 2
      BY <1>3, <1>5
    <3>2. data[1] \in Byte
      BY <1>1, <1>3, <3>1, ElementOfSeq
    <3> QED
      BY <1>3, <1>5, <3>1, <3>2 DEF Byte
  <2>2. DecodeChatMessage(data) = {text}
    <3>1. ~(data = <<>> \/ Len(data) - 1 < data[1] \/ Len(data) = 1)
      <4> DEFINE x == data[1]
                 n == Len(data)
      <4> HIDE DEF x, n
      <4>1. n \in Nat /\ x \in Int /\ x <= n - 1 /\ n >= 2 /\ (data = <<>> <=> n = 0)
        BY <1>3, <2>1 DEF x, n
      <4>2. ~(n - 1 < x) /\ n # 1 /\ n # 0
        BY <4>1
      <4> QED
        BY <4>1, <4>2 DEF x, n
    <3> QED
      BY <3>1 DEF DecodeChatMessage
  <2>3. front \in Seq(Byte) /\ Len(front) = data[1]
    <3>1. After(data, 1) \in Seq(Byte) /\ Len(After(data, 1)) = Len(data) - 1
      <4>1. 1 \in 0..Len(data)
        BY <1>3, <2>1
      <4> QED
        BY <1>1, <4>1, InFront
    <3> DEFINE behind == After(data, 1)
    <3> HIDE DEF behind
    <3> QED
      BY <2>1, <3>1, InFront DEF behind
  <2>4. text \in Seq(Byte) /\ Len(text) <= Base - 1
    <3> HIDE DEF front
    <3>1. text \in Seq(Byte) /\ Len(text) <= Len(front)
      BY <2>3, TrimIsShort
    <3>2. Len(text) \in Nat
      BY <3>1, LenProperties
    <3> QED
      BY <1>3, <2>1, <2>3, <3>1, <3>2
  <2>5. ~TooLong(text)
    <3>1. Len(text) \in Nat
      BY <2>4, LenProperties
    <3> QED
      BY <1>3, <2>4, <3>1 DEF TooLong
  <2>6. TooLong(nickname) <=> Len(nickname) >= Base
    BY <1>3 DEF TooLong
  <2>7. EncodeChatMessage(General, nickname, text) = IF TooLong(nickname) THEN {} ELSE {code}
    BY <2>5 DEF EncodeChatMessage
  <2>8. (CHOOSE t \in {text} : TRUE) = text /\ (CHOOSE d \in {code} : TRUE) = code
    <3> HIDE DEF text, code
    <3> QED
      OBVIOUS
  <2> HIDE DEF text, code
  <2>9. \/ Result = [kind |-> "empty"]
        \/ Result = [kind |-> "command"]
        \/ Result = [kind |-> "failed"] /\ TooLong(nickname)
        \/ Result = [kind |-> "broadcast", data |-> code]
    BY <1>2, <2>2, <2>7, <2>8 DEF HandleChat
  <2>10. /\ Result.kind = "failed" => Len(nickname) >= Base
         /\ Result.kind # "invalid"
         /\ Result.kind = "broadcast" => Result.data = code
    BY <2>6, <2>9
  <2> QED
    BY <1>5, <2>10 DEF ChatArrives, nickname, data, code, text
<1> QED
  BY <1>4, <1>5

-----------------------------------------------------------------------------
(* Levels. *)

\* f holds the powers of b up to the m-th.
Powers(f, b, m) == f = [n \in 0..m |-> IF n = 0 THEN 1 ELSE b * f[n - 1]]

\* There are powers.
LEMMA PowersExist ==
  ASSUME NEW b, NEW n \in Nat
  PROVE  \E f : Powers(f, b, n)
<1> DEFINE S == {m \in Nat : \E f : Powers(f, b, m)}
<1>1. 0 \in S
  <2>1. Powers([i \in 0..0 |-> 1], b, 0)
    BY DEF Powers
  <2> QED
    BY <2>1
<1>2. ASSUME NEW m \in Nat, m \in S
      PROVE  m + 1 \in S
  <2>1. PICK f : Powers(f, b, m)
    BY <1>2
  <2> DEFINE last == b * f[m]
             g == [i \in 0..m + 1 |-> IF i = m + 1 THEN last ELSE f[i]]
  <2>2. ASSUME NEW i \in 0..m + 1
        PROVE  g[i] = IF i = 0 THEN 1 ELSE b * g[i - 1]
    <3>1. CASE i = m + 1
      <4>1. g[i] = last /\ g[i - 1] = f[m] /\ i # 0
        BY <3>1
      <4> QED
        BY <4>1
    <3>2. CASE i # m + 1
      <4>1. i \in 0..m /\ g[i] = f[i] /\ (i # 0 => g[i - 1] = f[i - 1])
        BY <3>2
      <4> QED
        BY <2>1, <4>1 DEF Powers
    <3> QED
      BY <3>1, <3>2
  <2>3. Powers(g, b, m + 1)
    <3>1. g = [i \in 0..m + 1 |-> g[i]]
      OBVIOUS
    <3> HIDE DEF g
    <3> QED
      BY <2>2, <3>1 DEF Powers
  <2> HIDE DEF g
  <2>4. \E h : Powers(h, b, m + 1)
    BY <2>3
  <2> QED
    BY <2>4
<1>3. \A m \in Nat : m \in S => m + 1 \in S
  BY <1>2
<1> HIDE DEF S
<1>4. Nat \subseteq S
  BY <1>1, <1>3, Induction
<1> QED
  BY <1>4 DEF S

\* Powers are positive.
LEMMA PowersArePositive ==
  ASSUME NEW b \in Nat \ {0}, NEW m \in Nat, NEW f, Powers(f, b, m), NEW n \in 0..m
  PROVE  f[n] \in Nat \ {0}
<1> DEFINE S == {k \in Nat : k \in 0..m => f[k] \in Nat \ {0}}
<1>1. \A k \in 0..m : f[k] = IF k = 0 THEN 1 ELSE b * f[k - 1]
  BY DEF Powers
<1>2. 0 \in S
  BY <1>1
<1>3. ASSUME NEW k \in Nat, k \in S
      PROVE  k + 1 \in S
  <2> SUFFICES ASSUME k + 1 \in 0..m PROVE f[k + 1] \in Nat \ {0}
    OBVIOUS
  <2>1. f[k] \in Nat \ {0}
    BY <1>3
  <2>2. f[k + 1] = b * f[k]
    BY <1>1
  <2> DEFINE x == f[k]
  <2>3. b * x \in Nat \ {0}
    <3> HIDE DEF x
    <3> QED
      BY <2>1 DEF x
  <2> QED
    BY <2>2, <2>3
<1>4. \A k \in Nat : k \in S => k + 1 \in S
  BY <1>3
<1> HIDE DEF S
<1>5. Nat \subseteq S
  BY <1>2, <1>4, Induction
<1> QED
  BY <1>5 DEF S

\* A power as Levels defines it is positive.
LEMMA PowerIsPositive ==
  ASSUME NEW n \in 0..MaxPower
  PROVE  Power2[n] \in Nat \ {0} /\ Power3[n] \in Nat \ {0}
<1>0. MaxPower \in Nat
  BY LevelsAssumption
<1>1. Powers(Power2, 2, MaxPower)
  <2>1. \E f : Powers(f, 2, MaxPower)
    BY <1>0, PowersExist
  <2> QED
    BY <2>1 DEF Power2, Powers
<1>2. Powers(Power3, 3, MaxPower)
  <2>1. \E f : Powers(f, 3, MaxPower)
    BY <1>0, PowersExist
  <2> QED
    BY <2>1 DEF Power3, Powers
<1>3. Power2[n] \in Nat \ {0}
  BY <1>0, <1>1, PowersArePositive
<1>4. Power3[n] \in Nat \ {0}
  BY <1>0, <1>2, PowersArePositive
<1> QED
  BY <1>3, <1>4

\* A quotient and a number, by their products.
LEMMA QuotientCompares ==
  ASSUME NEW a \in Nat, NEW b \in Nat \ {0}, NEW n \in Nat
  PROVE  /\ n * b >= a => a \div b <= n
         /\ n * b <= a => n <= a \div b
<1> DEFINE q == a \div b
           r == a % b
<1>1. q \in Nat /\ r \in 0..b - 1 /\ a = b * q + r
  BY NatQuotient, Zenon
<1> HIDE DEF q, r
<1>2. ASSUME n * b >= a, q >= n + 1 PROVE FALSE
  <2>1. b * q >= b * (n + 1)
    BY <1>1, <1>2
  <2>2. b * (n + 1) = n * b + b
    OBVIOUS
  <2>3. b * q \in Nat /\ n * b \in Nat
    BY <1>1
  <2> QED
    BY <1>1, <1>2, <2>1, <2>2, <2>3
<1>3. ASSUME n * b <= a, n >= q + 1 PROVE FALSE
  <2>1. n * b >= (q + 1) * b
    BY <1>1, <1>3
  <2>2. (q + 1) * b = b * q + b
    BY <1>1
  <2>3. b * q \in Nat /\ n * b \in Nat
    BY <1>1
  <2> QED
    BY <1>1, <1>3, <2>1, <2>2, <2>3
<1>4. n * b >= a => q <= n
  BY <1>1, <1>2
<1>5. n * b <= a => n <= q
  BY <1>1, <1>3
<1> QED
  BY <1>4, <1>5 DEF q

\* The bounds of Levels are natural numbers.
LEMMA LevelBounds ==
  /\ MaxLevel \in Nat /\ MaxPower \in Nat /\ Uint \in Nat /\ BaseExp \in Nat
  /\ MaxLevel < MaxPower /\ MaxPower < Uint
  BY LevelsAssumption DEF BaseExp

\* The quotient has an integral part.
LEMMA WholeExists ==
  ASSUME NEW exp \in Nat, ~AtLeast(exp, MaxLevel + 1)
  PROVE  Whole(exp) # {}
<1> DEFINE S == {n \in 1..MaxLevel + 1 : ~AtLeast(exp, n)}
<1>0. MaxLevel \in Nat
  BY LevelBounds
<1>1. S \in SUBSET (1..MaxLevel + 1) /\ S # {} /\ MaxLevel + 1 \in Nat
  BY <1>0
<1>2. PICK n \in S : \A j \in S : n <= j
  <2> HIDE DEF S
  <2> QED
    BY <1>1, Extremes
<1> DEFINE k == n - 1
<1>3. k \in 0..MaxLevel /\ k + 1 = n /\ ~AtLeast(exp, k + 1)
  BY <1>0, <1>2
<1>4. k = 0 \/ AtLeast(exp, k)
  <2>1. ASSUME k # 0, ~AtLeast(exp, k) PROVE FALSE
    <3>1. k \in S
      BY <1>0, <1>3, <2>1
    <3> HIDE DEF S
    <3> QED
      BY <1>0, <1>2, <1>3, <3>1
  <2> QED
    BY <2>1
<1>5. k \in Whole(exp)
  <2> HIDE DEF k
  <2> QED
    BY <1>3, <1>4 DEF Whole
<1> QED
  BY <1>5

\* The level one above the integral part of the quotient.
LEMMA WholeFits ==
  ASSUME NEW exp \in Nat, NEW k \in Whole(exp)
  PROVE  ExpForNextLevel(k + 1) <= exp /\ exp <= ExpForNextLevel((k + 1) + 1)
<1>1. /\ k \in 0..MaxLevel
      /\ k = 0 \/ AtLeast(exp, k)
      /\ ~AtLeast(exp, k + 1) \/ Equal(exp, k + 1)
  BY DEF Whole
<1>2. k \in Nat /\ k \in 0..MaxPower /\ k + 1 \in 0..MaxPower /\ BaseExp \in Nat
  BY <1>1, LevelBounds
<1>3. ExpForNextLevel(k + 1) <= exp
  <2>1. CASE k = 0
    BY <2>1 DEF ExpForNextLevel
  <2>2. CASE k # 0
    <3> DEFINE a == BaseExp * Power3[k]
               b == Power2[k]
    <3>1. Power3[k] \in Nat /\ b \in Nat \ {0}
      BY <1>2, PowerIsPositive
    <3>2. a \in Nat
      BY <1>2, <3>1
    <3>3. exp * b >= a
      BY <1>1, <2>2 DEF AtLeast
    <3>4. ExpForNextLevel(k + 1) = a \div b
      <4>1. ~(k + 1 <= 1) /\ (k + 1) - 1 = k
        BY <1>2, <2>2
      <4> QED
        BY <4>1 DEF ExpForNextLevel
    <3> HIDE DEF a, b
    <3> QED
      BY <1>2, <3>1, <3>2, <3>3, <3>4, QuotientCompares
  <2> QED
    BY <2>1, <2>2
<1>4. exp <= ExpForNextLevel((k + 1) + 1)
  <2> DEFINE a == BaseExp * Power3[k + 1]
             b == Power2[k + 1]
  <2>1. Power3[k + 1] \in Nat /\ b \in Nat \ {0}
    BY <1>2, PowerIsPositive
  <2>2. a \in Nat
    BY <1>2, <2>1
  <2>3. ~(exp * b >= a) \/ exp * b = a
    BY <1>1 DEF AtLeast, Equal
  <2>4. ExpForNextLevel((k + 1) + 1) = a \div b
    <3>1. ~((k + 1) + 1 <= 1) /\ ((k + 1) + 1) - 1 = k + 1
      BY <1>2
    <3> QED
      BY <3>1 DEF ExpForNextLevel
  <2> HIDE DEF a, b
  <2>5. exp * b \in Nat
    BY <2>1
  <2>6. exp * b <= a
    BY <2>2, <2>3, <2>5
  <2> QED
    BY <2>1, <2>2, <2>4, <2>6, QuotientCompares
<1> QED
  BY <1>3, <1>4

\* A number below Uint is itself as an unsigned integer.
LEMMA FitsUint ==
  ASSUME NEW n \in 0..Uint - 1
  PROVE  n % Uint = n
<1>1. Uint \in Nat \ {0}
  BY LevelBounds
<1> QED
  BY <1>1, NothingToDivide

\* GetLevel, where the quotient is more than -1.
LEMMA LevelFits ==
  ASSUME NEW exp \in Nat, exp = 0 \/ AboveMinusOne(exp), NEW l \in GetLevel(exp)
  PROVE  ExpForNextLevel(l) <= exp /\ exp <= ExpForNextLevel(l + 1)
<1>1. CASE exp = 0
  <2>1. l = 1
    BY <1>1 DEF GetLevel
  <2>2. ExpForNextLevel(l) = 0
    BY <2>1 DEF ExpForNextLevel
  <2> DEFINE a == BaseExp * Power3[1]
             b == Power2[1]
  <2>3. ExpForNextLevel(l + 1) = a \div b
    BY <2>1 DEF ExpForNextLevel
  <2>4. Power3[1] \in Nat /\ b \in Nat \ {0} /\ BaseExp \in Nat
    <3>1. 1 \in 0..MaxPower
      BY LevelBounds
    <3> QED
      BY <3>1, LevelBounds, PowerIsPositive
  <2>5. a \in Nat
    BY <2>4
  <2> HIDE DEF a, b
  <2>6. 0 <= a \div b
    <3>1. 0 * b <= a
      BY <2>4, <2>5
    <3> QED
      BY <2>4, <2>5, <3>1, QuotientCompares
  <2> QED
    BY <1>1, <2>2, <2>3, <2>6
<1>2. CASE exp # 0
  <2>1. PICK k \in Whole(exp) : l = AtLeastOne((k + 1) % Uint)
    BY <1>2 DEF GetLevel, Converted
  <2>2. k \in Nat /\ k + 1 \in 0..Uint - 1
    BY LevelBounds DEF Whole
  <2>3. (k + 1) % Uint = k + 1
    BY <2>2, FitsUint
  <2>4. l = k + 1
    BY <2>1, <2>2, <2>3 DEF AtLeastOne
  <2> QED
    BY <2>4, WholeFits
<1> QED
  BY <1>1, <1>2

\* GetLevel, where the quotient is -1 or less: 1, or a number just below Uint.
LEMMA LevelWraps ==
  ASSUME NEW exp \in Nat, exp # 0, ~AboveMinusOne(exp), NEW l \in GetLevel(exp)
  PROVE  l = 1 \/ (Uint - MaxPower < l /\ l < Uint)
<1>1. PICK k \in {0} \cup Wrapped(exp) : l = AtLeastOne((k + 1) % Uint)
  BY DEF GetLevel, Converted
<1>2. CASE k = 0
  <2>1. 1 \in 0..Uint - 1
    BY LevelBounds
  <2>2. (k + 1) % Uint = 1
    BY <1>2, <2>1, FitsUint
  <2> QED
    BY <1>1, <2>2 DEF AtLeastOne
<1>3. CASE k \in Wrapped(exp)
  <2>1. PICK n \in 1..MaxPower - 1 : k = Uint - n
    BY <1>3 DEF Wrapped
  <2>2. CASE n = 1
    <3>1. k + 1 = Uint
      BY <2>1, <2>2, LevelBounds
    <3>2. (k + 1) % Uint = 0
      <4>1. Uint \in Nat \ {0} /\ 0 \in 0..Uint - 1 /\ Uint = Uint * 1 + 0
        BY LevelBounds
      <4>2. Uint % Uint = 0
        BY <4>1, Division
      <4> QED
        BY <3>1, <4>2
    <3> QED
      BY <1>1, <3>2 DEF AtLeastOne
  <2>3. CASE n # 1
    <3>1. k + 1 = (Uint - n) + 1 /\ k + 1 \in 0..Uint - 1 /\ k + 1 >= 1
      BY <2>1, <2>3, LevelBounds
    <3>2. (k + 1) % Uint = k + 1
      BY <3>1, FitsUint
    <3>3. l = k + 1
      BY <1>1, <3>1, <3>2 DEF AtLeastOne
    <3> QED
      BY <2>1, <2>3, <3>1, <3>3, LevelBounds
  <2> QED
    BY <2>2, <2>3
<1> QED
  BY <1>1, <1>2, <1>3

\* There is always a level.
LEMMA LevelExists ==
  ASSUME NEW exp \in Nat, ~AtLeast(exp, MaxLevel + 1)
  PROVE  GetLevel(exp) # {}
<1>1. CASE exp = 0
  BY <1>1 DEF GetLevel
<1>2. CASE exp # 0
  <2>1. Converted(exp) # {}
    BY WholeExists DEF Converted
  <2> QED
    BY <1>2, <2>1 DEF GetLevel
<1> QED
  BY <1>1, <1>2

-----------------------------------------------------------------------------
(* The state sent after a login. *)

\* Three sequences one behind the other, grouped from the last.
Grouped(s, t, u) == (s \o t) \o u = s \o (t \o u)

\* Three can be grouped from the last.
LEMMA ThreeGrouped ==
  ASSUME NEW s \in Seq(Byte), NEW t \in Seq(Byte), NEW u \in Seq(Byte)
  PROVE  Grouped(s, t, u)
  BY Regroup DEF Grouped

\* What is behind a sequence of bytes, whole.
LEMMA AfterFront ==
  ASSUME NEW s \in Seq(Byte), NEW t \in Seq(Byte)
  PROVE  After(s \o t, Len(s)) = t
<1> DEFINE n == Len(s) + Len(t)
<1>1. Len(s) \in Nat /\ Len(t) \in Nat
  BY LenProperties
<1>2. s \o t \in Seq(Byte) /\ Len(s \o t) = n
  BY Concat
<1>3. n \in Len(s)..Len(s) + Len(t) /\ n - Len(s) = Len(t)
  BY <1>1
<1> HIDE DEF n
<1>4. After(First(s \o t, n), Len(s)) = First(t, n - Len(s))
  BY <1>3, BehindBytes, Zenon
<1>5. First(s \o t, n) = s \o t
  <2> DEFINE all == s \o t
  <2> HIDE DEF all
  <2>1. all \in Seq(Byte) /\ Len(all) = n
    BY <1>2 DEF all
  <2>2. First(all, n) = all
    BY <2>1, InFront
  <2> QED
    BY <2>2 DEF all
<1>6. First(t, n - Len(s)) = t
  BY <1>3, InFront
<1> QED
  BY <1>4, <1>5, <1>6, Zenon

\* A block of bytes behind its length, with anything behind it.
LEMMA WholeBlockIsRead ==
  ASSUME NEW prefix \in Seq(Byte), NEW block \in Seq(Byte), NEW rest \in Seq(Byte),
         Value(prefix) = Len(block)
  PROVE  ReadBlock(prefix \o (block \o rest), Len(prefix)) = {block}
<1> DEFINE all == prefix \o (block \o rest)
           n == Len(prefix) + Len(block) + Len(rest)
<1>1. Len(prefix) \in Nat /\ Len(block) \in Nat /\ Len(rest) \in Nat
  BY LenProperties
<1>2. all \in Seq(Byte) /\ Len(all) = n
  <2> DEFINE back == block \o rest
  <2>1. back \in Seq(Byte) /\ Len(back) = Len(block) + Len(rest)
    BY Concat
  <2> HIDE DEF back
  <2>2. prefix \o back \in Seq(Byte) /\ Len(prefix \o back) = Len(prefix) + Len(back)
    BY <2>1, Concat
  <2> QED
    BY <1>1, <2>1, <2>2 DEF back
<1>3. n \in 0..Len(prefix) + Len(block) + Len(rest) /\ ~(n < Len(prefix) + Len(block))
  BY <1>1
<1>4. ReadBlock(First(all, n), Len(prefix)) = {block}
  <2> HIDE DEF n
  <2> QED
    BY <1>3, BlockIsRead, Zenon
<1> HIDE DEF all, n
<1>5. First(all, n) = all
  BY <1>2, InFront
<1> QED
  BY <1>4, <1>5 DEF all

\* A number that is one byte.
LEMMA Value8 ==
  ASSUME NEW n \in Byte
  PROVE  /\ <<n>> \in Seq(Byte) /\ Len(<<n>>) = 1 /\ Value(<<n>>) = n
<1>0. Base \in Nat
  BY WireAssumption
<1>1. <<n>> \in Seq(Byte) /\ Len(<<n>>) = 1
  OBVIOUS
<1>2. Value(<<n>>) = n + Base * (0 + Base * (0 + Base * 0))
  BY DEF Value
<1>3. n \in Nat /\ Base * 0 = 0 /\ 0 + 0 = 0
  BY <1>0 DEF Byte
<1>4. Value(<<n>>) = n
  BY <1>2, <1>3
<1> QED
  BY <1>1, <1>4

\* An item: bytes, the first of which is id, a text behind its length, bytes.
Item(item, id, text, before, after) ==
  \E pre \in Seq(Byte), post \in Seq(Byte) :
    /\ item = pre \o (<<Len(text)>> \o (text \o post))
    /\ Len(pre) = before /\ Len(post) = after /\ pre[1] = id

\* What can be read of an item in front of some bytes.
ReadableItem(item, id, text, before, after, back) ==
  /\ item \in Seq(Byte)
  /\ (item \o back)[1] = id
  /\ Text(item \o back, before) = {text}
  /\ After(item \o back, before + 1 + Len(text) + after) = back

\* An item in front of some bytes can be read.
LEMMA ItemIsRead ==
  ASSUME NEW item, NEW id, NEW text \in Seq(Byte), Len(text) < Base,
         NEW before \in Nat \ {0}, NEW after \in Nat,
         Item(item, id, text, before, after), NEW back \in Seq(Byte)
  PROVE  ReadableItem(item, id, text, before, after, back)
<1>1. PICK pre \in Seq(Byte), post \in Seq(Byte) :
        /\ item = pre \o (<<Len(text)>> \o (text \o post))
        /\ Len(pre) = before /\ Len(post) = after /\ pre[1] = id
  BY DEF Item
<1> DEFINE l == <<Len(text)>>
           behind == post \o back
           tail == l \o (text \o behind)
<1>2. Len(text) \in Byte /\ Len(text) \in Nat
  <2>1. Len(text) \in Nat
    BY LenProperties
  <2>2. Base \in Nat
    BY WireAssumption
  <2> QED
    BY <2>1, <2>2 DEF Byte
<1>3. l \in Seq(Byte) /\ Len(l) = 1 /\ Value(l) = Len(text)
  BY <1>2, Value8
<1> HIDE DEF l
<1>4. /\ text \o post \in Seq(Byte) /\ Len(text \o post) = Len(text) + after
      /\ behind \in Seq(Byte) /\ text \o behind \in Seq(Byte)
  BY <1>1, Concat
<1>5. /\ l \o (text \o post) \in Seq(Byte) /\ Len(l \o (text \o post)) = 1 + (Len(text) + after)
      /\ tail \in Seq(Byte)
  <2>1. l \o (text \o post) \in Seq(Byte) /\ Len(l \o (text \o post)) = Len(l) + Len(text \o post)
    BY <1>3, <1>4, Concat, Zenon
  <2>2. tail \in Seq(Byte)
    BY <1>3, <1>4, Concat, Zenon
  <2> QED
    BY <1>3, <1>4, <2>1, <2>2
<1>6. /\ item \in Seq(Byte) /\ Len(item) = before + (1 + (Len(text) + after))
  <2>1. item = pre \o (l \o (text \o post))
    BY <1>1 DEF l
  <2>2. item \in Seq(Byte) /\ Len(item) = Len(pre) + Len(l \o (text \o post))
    BY <1>5, <2>1, Concat, Zenon
  <2> QED
    BY <1>1, <1>5, <2>2
<1>7. item \o back = pre \o tail
  <2>1. item = pre \o (l \o (text \o post))
    BY <1>1 DEF l
  <2>2. item \o back = pre \o ((l \o (text \o post)) \o back)
    BY <1>5, <2>1, Regroup, ZenonT(30)
  <2>3. (l \o (text \o post)) \o back = l \o ((text \o post) \o back)
    BY <1>3, <1>4, Regroup, ZenonT(30)
  <2>4. (text \o post) \o back = text \o (post \o back)
    BY <1>1, Regroup, Zenon
  <2> QED
    BY <2>2, <2>3, <2>4, Zenon
<1> HIDE DEF tail, behind
<1>8. (item \o back)[1] = id
  <2>1. Len(pre) \in Nat \ {0}
    BY <1>1
  <2>2. (pre \o tail)[1] = pre[1]
    BY <1>5, <2>1
  <2> QED
    BY <1>1, <1>7, <2>2
<1>9. After(item \o back, before) = tail
  BY <1>1, <1>5, <1>7, AfterFront
<1>10. Text(item \o back, before) = {text}
  <2>1. ReadBlock(tail, 1) = {text}
    BY <1>3, <1>4, WholeBlockIsRead DEF tail
  <2>2. Len(item \o back) = Len(item) + Len(back) /\ Len(back) \in Nat
    BY <1>6, Concat, LenProperties
  <2>3. ~(Len(item \o back) < before + 1)
    BY <1>2, <1>6, <2>2
  <2> QED
    BY <1>9, <2>1, <2>3 DEF Text
<1>11. After(item \o back, before + 1 + Len(text) + after) = back
  <2>1. Len(item) = before + 1 + Len(text) + after
    BY <1>2, <1>6
  <2>2. After(item \o back, Len(item)) = back
    BY <1>6, AfterFront
  <2> QED
    BY <2>1, <2>2, Zenon
<1> QED
  BY <1>6, <1>8, <1>10, <1>11 DEF ReadableItem

\* What Items has read after k of the items.
ReadMore(r, before, after) ==
  {[items |-> Append(r.items, [id |-> r.rest[1], text |-> text]),
    rest |-> After(r.rest, before + 1 + Len(text) + after)] : text \in Text(r.rest, before)}
ReadsItems(f, bytes, before, after, n) ==
  f = [k \in 0..n |-> IF k = 0 THEN {[items |-> <<>>, rest |-> bytes]}
                      ELSE UNION {ReadMore(r, before, after) : r \in f[k - 1]}]

\* There is such a function.
LEMMA ReadsItemsExist ==
  ASSUME NEW bytes, NEW before, NEW after, NEW n \in Nat
  PROVE  \E f : ReadsItems(f, bytes, before, after, n)
<1> DEFINE start == {[items |-> <<>>, rest |-> bytes]}
           More(s) == UNION {ReadMore(r, before, after) : r \in s}
           S == {m \in Nat : \E f : ReadsItems(f, bytes, before, after, m)}
<1>1. 0 \in S
  <2> DEFINE f == [k \in 0..0 |-> start]
  <2>1. f = [k \in 0..0 |-> IF k = 0 THEN start ELSE More(f[k - 1])]
    <3> HIDE DEF start, More
    <3> QED OBVIOUS
  <2>2. ReadsItems(f, bytes, before, after, 0)
    BY <2>1, Zenon DEF ReadsItems
  <2> HIDE DEF f
  <2> QED BY <2>2
<1>2. ASSUME NEW m \in Nat, m \in S
      PROVE  m + 1 \in S
  <2>1. PICK f : ReadsItems(f, bytes, before, after, m)
    BY <1>2
  <2>2. f = [k \in 0..m |-> IF k = 0 THEN start ELSE More(f[k - 1])]
    BY <2>1, Zenon DEF ReadsItems
  <2> DEFINE g == [k \in 0..m + 1 |-> IF k = m + 1 THEN More(f[m]) ELSE f[k]]
  <2> HIDE DEF start, More
  <2>3. ASSUME NEW k \in 0..m + 1
        PROVE  g[k] = IF k = 0 THEN start ELSE More(g[k - 1])
    <3>1. CASE k = m + 1
      <4>1. k # 0 /\ k - 1 = m /\ m \in 0..m + 1 /\ m # m + 1
        BY <3>1
      <4>2. g[k] = More(f[m]) /\ g[k - 1] = f[m]
        BY <3>1, <4>1
      <4> QED
        BY <4>1, <4>2
    <3>2. CASE k # m + 1
      <4>1. k \in 0..m /\ g[k] = f[k] /\ (k # 0 => k - 1 \in 0..m + 1 /\ k - 1 # m + 1)
        BY <3>2
      <4>2. k # 0 => g[k - 1] = f[k - 1]
        BY <4>1
      <4>3. f[k] = IF k = 0 THEN start ELSE More(f[k - 1])
        BY <2>2, <4>1
      <4> QED
        BY <4>1, <4>2, <4>3
    <3> QED
      BY <3>1, <3>2
  <2>4. g = [k \in 0..m + 1 |-> g[k]]
    OBVIOUS
  <2> HIDE DEF g
  <2>5. g = [k \in 0..m + 1 |-> IF k = 0 THEN start ELSE More(g[k - 1])]
    BY <2>3, <2>4
  <2>6. ReadsItems(g, bytes, before, after, m + 1)
    BY <2>5, Zenon DEF ReadsItems, start, More
  <2> QED BY <2>6
<1>3. Nat \subseteq S
  <2>1. \A m \in Nat : m \in S => m + 1 \in S
    BY <1>2
  <2> HIDE DEF S
  <2> QED
    BY <1>1, <2>1, Induction
<1> QED
  BY <1>3

\* What has been read after k items.
Listed(ids, texts, k) == [i \in 1..k |-> [id |-> ids[i], text |-> texts[i]]]

\* Items behind each other are read one by one.
LEMMA ItemsAreRead ==
  ASSUME NEW items \in Seq(Seq(Byte)), NEW ids, NEW texts,
         NEW before \in Nat \ {0}, NEW after \in Nat,
         \A i \in 1..Len(items) : /\ texts[i] \in Seq(Byte) /\ Len(texts[i]) < Base
                                  /\ Item(items[i], ids[i], texts[i], before, after)
  PROVE  Items(FlattenSeq(items), Len(items), before, after)
           = {[items |-> Listed(ids, texts, Len(items)), rest |-> <<>>]}
<1> DEFINE n == Len(items)
           bytes == FlattenSeq(items)
           up == [k \in 0..n |-> FlattenSeq(First(items, k))]
           Done(s, k, rest) == s = {[items |-> Listed(ids, texts, k), rest |-> rest]}
<1>0. n \in Nat /\ \A i \in 1..n : items[i] \in Seq(Byte)
  OBVIOUS
<1>1. PICK f : /\ Items(bytes, n, before, after) = f[n]
               /\ f[0] = {[items |-> <<>>, rest |-> bytes]}
               /\ \A k \in 1..n : f[k] = UNION {ReadMore(r, before, after) : r \in f[k - 1]}
  <2> HIDE DEF bytes, n
  <2> DEFINE read[k \in 0..n] ==
               IF k = 0 THEN {[items |-> <<>>, rest |-> bytes]}
               ELSE UNION {
                 {[items |-> Append(r.items, [id |-> r.rest[1], text |-> text]),
                   rest |-> After(r.rest, before + 1 + Len(text) + after)] : text \in Text(r.rest, before)} :
                  r \in read[k - 1]}
  <2>1. ReadsItems(read, bytes, before, after, n)
    <3>1. \E g : ReadsItems(g, bytes, before, after, n)
      BY <1>0, ReadsItemsExist
    <3> QED
      BY <3>1 DEF ReadsItems, ReadMore
  <2>2. Items(bytes, n, before, after) = read[n]
    BY DEF Items
  <2> HIDE DEF read
  <2>3. \A k \in 0..n : read[k] = IF k = 0 THEN {[items |-> <<>>, rest |-> bytes]}
                                  ELSE UNION {ReadMore(r, before, after) : r \in read[k - 1]}
    BY <2>1 DEF ReadsItems
  <2>4. 0 \in 0..n /\ \A k \in 1..n : k \in 0..n /\ k # 0
    BY <1>0
  <2> QED
    BY <2>2, <2>3, <2>4
<1>2. /\ up[0] = <<>> /\ up[n] = bytes
      /\ \A k \in 0..n - 1 : up[k + 1] = up[k] \o items[k + 1]
      /\ \A k \in 0..n : up[k] \in Seq(Byte) /\ Begins(bytes, up[k], Byte)
  <2>1. \A k \in 0..n : up[k] = FlattenSeq(First(items, k))
    OBVIOUS
  <2>2. /\ 0 \in 0..n /\ n \in 0..n
        /\ \A k \in 0..n - 1 : k \in 0..n /\ k + 1 \in 0..n
    BY <1>0
  <2>3. \A k \in 0..n : Begins(bytes, FlattenSeq(First(items, k)), Byte)
    BY FlattenBegins
  <2> HIDE DEF up
  <2> QED
    BY <2>1, <2>2, <2>3, FlattenStep, ZenonT(30)
<1> HIDE DEF up, bytes
<1> DEFINE T == {k \in Nat : k <= n => \E rest \in Seq(Byte) : Done(f[k], k, rest) /\ Joined(bytes, up[k], rest)}
<1>3. 0 \in T
  <2>1. bytes \in Seq(Byte)
    BY <1>0, <1>2
  <2>2. Joined(bytes, up[0], bytes)
    BY <1>2, <2>1, ConcatEmptySeq DEF Joined
  <2>3. Listed(ids, texts, 0) = <<>>
    BY DEF Listed
  <2>4. Done(f[0], 0, bytes)
    BY <1>1, <2>3
  <2> HIDE DEF Done
  <2> QED
    BY <2>1, <2>2, <2>4
<1>4. ASSUME NEW k \in Nat, k \in T
      PROVE  k + 1 \in T
  <2> HIDE DEF Done
  <2> SUFFICES ASSUME k + 1 <= n
               PROVE  \E rest \in Seq(Byte) : Done(f[k + 1], k + 1, rest) /\ Joined(bytes, up[k + 1], rest)
    OBVIOUS
  <2>1. k \in 0..n - 1 /\ k + 1 \in 1..n /\ k \in 0..n /\ k + 1 \in 0..n /\ k <= n /\ (k + 1) - 1 = k
    BY <1>0
  <2>2. PICK rest \in Seq(Byte) : Done(f[k], k, rest) /\ Joined(bytes, up[k], rest)
    BY <1>4, <2>1
  <2> DEFINE item == items[k + 1]
             id == ids[k + 1]
             text == texts[k + 1]
  <2>3. item \in Seq(Byte) /\ text \in Seq(Byte) /\ Len(text) < Base /\ Item(item, id, text, before, after)
    BY <1>0, <2>1
  <2>4. up[k + 1] = up[k] \o item /\ up[k] \in Seq(Byte) /\ Begins(bytes, up[k + 1], Byte)
    BY <1>2, <2>1
  <2> HIDE DEF item, id, text
  <2>5. PICK back \in Seq(Byte) : Joined(bytes, up[k + 1], back)
    BY <2>4 DEF Begins
  <2>6. Joined(bytes, up[k], item \o back) /\ item \o back \in Seq(Byte)
    BY <2>3, <2>4, <2>5, JoinedTwice, Zenon
  <2>7. rest = item \o back
    <3>1. After(up[k] \o rest, Len(up[k])) = rest
      BY <2>4, AfterFront
    <3>2. After(up[k] \o (item \o back), Len(up[k])) = item \o back
      BY <2>4, <2>6, AfterFront, Zenon
    <3> QED
      BY <2>2, <2>6, <3>1, <3>2, Zenon DEF Joined
  <2>8. /\ (item \o back)[1] = id /\ Text(item \o back, before) = {text}
        /\ After(item \o back, before + 1 + Len(text) + after) = back
    <3>1. ReadableItem(item, id, text, before, after, back)
      BY <2>3, <2>5, ItemIsRead, Zenon
    <3> QED
      BY <3>1, Zenon DEF ReadableItem
  <2> DEFINE r == [items |-> Listed(ids, texts, k), rest |-> rest]
             s == [items |-> Append(Listed(ids, texts, k), [id |-> id, text |-> text]), rest |-> back]
  <2>9. ReadMore(r, before, after) = {s}
    <3>1. r.rest = rest /\ r.items = Listed(ids, texts, k)
      OBVIOUS
    <3> HIDE DEF r
    <3>2. Text(r.rest, before) = {text}
      BY <2>7, <2>8, <3>1
    <3>3. r.rest[1] = id /\ After(r.rest, before + 1 + Len(text) + after) = back
      BY <2>7, <2>8, <3>1
    <3> QED
      BY <3>1, <3>2, <3>3 DEF ReadMore
  <2>10. f[k + 1] = {s}
    <3>1. f[k] = {r}
      BY <2>2 DEF Done
    <3> HIDE DEF r, s
    <3>2. f[k + 1] = UNION {ReadMore(q, before, after) : q \in {r}}
      BY <1>1, <2>1, <3>1
    <3> QED
      BY <2>9, <3>2
  <2>11. Append(Listed(ids, texts, k), [id |-> id, text |-> text]) = Listed(ids, texts, k + 1)
    BY DEF Listed, id, text
  <2>12. Done(f[k + 1], k + 1, back)
    BY <2>10, <2>11 DEF Done
  <2> QED
    BY <2>5, <2>12
<1>5. Nat \subseteq T
  <2>1. \A k \in Nat : k \in T => k + 1 \in T
    BY <1>4
  <2> HIDE DEF T
  <2> QED
    BY <1>3, <2>1, Induction
<1>6. PICK rest \in Seq(Byte) : Done(f[n], n, rest) /\ Joined(bytes, up[n], rest)
  <2> HIDE DEF Done
  <2>1. n \in T /\ n <= n
    BY <1>0, <1>5
  <2> QED
    BY <2>1
<1>7. rest = <<>>
  <2>1. bytes = bytes \o rest /\ bytes \in Seq(Byte)
    <3>1. n \in 0..n
      BY <1>0
    <3> HIDE DEF n
    <3> QED
      BY <1>2, <1>6, <3>1, Zenon DEF Joined
  <2>2. Len(bytes \o rest) = Len(bytes) + Len(rest)
    BY <2>1, Concat
  <2>3. Len(bytes) \in Nat /\ Len(rest) \in Nat /\ Len(bytes) = Len(bytes) + Len(rest)
    BY <2>1, <2>2, LenProperties
  <2>4. Len(rest) = 0
    BY <2>3
  <2> QED
    BY <2>4, EmptySeq
<1> QED
  BY <1>1, <1>6, <1>7 DEF bytes

\* A section as it is read in parts: its block, its items, what follows.
InParts(bytes, before, after, block, list, tail) ==
  /\ ReadBlock(After(bytes, 1), 2) = {block}
  /\ Items(block, bytes[1], before, after) = {[items |-> list, rest |-> <<>>]}
  /\ After(bytes, 3 + Len(block)) = tail

\* What there is in a section that is read in parts.
LEMMA SectionInParts ==
  ASSUME NEW bytes, NEW before, NEW after, NEW block, NEW list, NEW tail,
         InParts(bytes, before, after, block, list, tail)
  PROVE  Section(bytes, before, after) = {[items |-> list, rest |-> tail]}
<1> DEFINE all == [items |-> list, rest |-> <<>>]
           Read(b) == {[items |-> read.items, rest |-> After(bytes, 3 + Len(b))] :
                         read \in Items(b, bytes[1], before, after)}
<1>1. Section(bytes, before, after) = UNION {Read(b) : b \in {block}}
  BY DEF Section, InParts
<1>2. Read(block) = {[items |-> read.items, rest |-> tail] : read \in {all}}
  BY DEF InParts
<1>3. all.items = list
  OBVIOUS
<1> HIDE DEF all, Read
<1>4. Read(block) = {[items |-> list, rest |-> tail]}
  BY <1>2, <1>3
<1> QED
  BY <1>1, <1>4

\* A block holds the items of a list; a section is read as a list and a rest.
Holds(block, n, before, after, list) ==
  Items(block, n, before, after) = {[items |-> list, rest |-> <<>>]}
SectionReads(bytes, before, after, list, rest) ==
  Section(bytes, before, after) = {[items |-> list, rest |-> rest]}

\* A counter, the length of a block, the block, and what follows.
LEMMA SectionIsRead ==
  ASSUME NEW n \in Byte, NEW block \in Seq(Byte), Len(block) < Base * Base, NEW tail \in Seq(Byte),
         NEW before, NEW after, NEW list, Holds(block, n, before, after, list)
  PROVE  SectionReads(<<n>> \o (Uint16(Len(block)) \o (block \o tail)), before, after, list, tail)
<1> DEFINE bytes == <<n>> \o (Uint16(Len(block)) \o (block \o tail))
           l == Uint16(Len(block))
           back == block \o tail
<1>1. Len(block) \in Nat /\ <<n>> \in Seq(Byte) /\ Len(<<n>>) = 1
  BY LenProperties, Value8
<1>2. l \in Seq(Byte) /\ Len(l) = 2 /\ Value(l) = Len(block)
  BY <1>1, Value16
<1> HIDE DEF l
<1>3. back \in Seq(Byte) /\ l \o back \in Seq(Byte) /\ bytes = <<n>> \o (l \o back)
  <2>1. back \in Seq(Byte)
    BY Concat
  <2> HIDE DEF back
  <2>2. l \o back \in Seq(Byte)
    BY <1>2, <2>1, Concat
  <2> QED
    BY <2>1, <2>2 DEF back, l, bytes
<1> HIDE DEF bytes
<1>4. bytes[1] = n /\ After(bytes, 1) = l \o back
  <2> HIDE DEF back
  <2>1. After(bytes, 1) = l \o back
    BY <1>1, <1>3, AfterFront
  <2> DEFINE rest == l \o back
  <2>2. bytes = <<n>> \o rest /\ rest \in Seq(Byte)
    BY <1>3
  <2> HIDE DEF rest
  <2>3. bytes[1] = n
    BY <2>2
  <2> QED
    BY <2>1, <2>3
<1>5. ReadBlock(After(bytes, 1), 2) = {block}
  <2>1. ReadBlock(l \o back, Len(l)) = {block}
    BY <1>2, WholeBlockIsRead, Zenon
  <2> HIDE DEF back
  <2> QED
    BY <1>2, <1>4, <2>1, Zenon
<1>6. After(bytes, 3 + Len(block)) = tail
  <2> DEFINE front == <<n>> \o l
             whole == front \o block
  <2>1. front \in Seq(Byte) /\ Len(front) = 3
    <3>1. front \in Seq(Byte) /\ Len(front) = Len(<<n>>) + Len(l)
      BY <1>1, <1>2, Concat, Zenon
    <3> QED
      BY <1>1, <1>2, <3>1
  <2>2. bytes = front \o back
    <3>1. Grouped(<<n>>, l, back)
      BY <1>1, <1>2, <1>3, ThreeGrouped, Zenon
    <3> QED
      BY <1>3, <3>1, Zenon DEF Grouped
  <2> HIDE DEF front
  <2>3. whole \in Seq(Byte) /\ Len(whole) = 3 + Len(block)
    BY <2>1, Concat
  <2>4. bytes = whole \o tail
    BY <2>1, <2>2, Regroup, Zenon
  <2> HIDE DEF whole
  <2>5. After(whole \o tail, Len(whole)) = tail
    BY <2>3, AfterFront
  <2> QED
    BY <2>3, <2>4, <2>5
<1> QED
  <2>1. Items(block, bytes[1], before, after) = {[items |-> list, rest |-> <<>>]}
    BY <1>4, Zenon DEF Holds
  <2>2. InParts(bytes, before, after, block, list, tail)
    BY <1>5, <1>6, <2>1, Zenon DEF InParts
  <2>3. Section(bytes, before, after) = {[items |-> list, rest |-> tail]}
    BY <2>2, SectionInParts
  <2> QED
    BY <2>3, Zenon DEF bytes, SectionReads

\* A number that fits in a byte is not cut off.
LEMMA NotCutOff ==
  ASSUME NEW n \in Nat, n < Base
  PROVE  n % Base = n /\ n \in Byte
<1>1. Base \in Nat \ {0} /\ n \in 0..Base - 1
  BY WireAssumption
<1> QED
  BY <1>1, NothingToDivide DEF Byte

\* Players whose nicknames can be encoded are items.
LEMMA PlayersAreItems ==
  ASSUME NEW players \in Seq([id : Byte, nickname : Seq(Byte)]),
         \A i \in DOMAIN players : Len(players[i].nickname) < Base
  PROVE  \E items \in Seq(Seq(Byte)) :
           /\ Len(items) = Len(players) /\ PlayerBytes(players) = FlattenSeq(items)
           /\ \A i \in 1..Len(items) : Item(items[i], players[i].id, players[i].nickname, Header, 0)
<1> DEFINE items == [i \in DOMAIN players |-> FlattenSeq(SetToSeq(EncodePlayer(players[i])))]
<1>0. /\ Len(players) \in Nat /\ DOMAIN players = 1..Len(players)
      /\ \A i \in 1..Len(players) : /\ players[i].id \in Byte /\ players[i].nickname \in Seq(Byte)
                                    /\ Len(players[i].nickname) < Base
  <2>1. Len(players) \in Nat /\ DOMAIN players = 1..Len(players)
    BY LenProperties
  <2>2. ASSUME NEW i \in 1..Len(players)
        PROVE  /\ players[i].id \in Byte /\ players[i].nickname \in Seq(Byte)
               /\ Len(players[i].nickname) < Base
    <3>1. players[i] \in [id : Byte, nickname : Seq(Byte)] /\ i \in DOMAIN players
      BY <2>1, ElementOfSeq, Zenon
    <3> QED
      BY <3>1
  <2> QED
    BY <2>1, <2>2
<1>1. ASSUME NEW i \in 1..Len(players)
      PROVE  /\ Item(items[i], players[i].id, players[i].nickname, Header, 0)
             /\ items[i] \in Seq(Byte)
  <2> DEFINE id == players[i].id
             text == players[i].nickname
             pre == [j \in 1..Header |-> id]
             l == <<Len(text)>>
             item == pre \o l \o text
  <2>1. id \in Byte /\ text \in Seq(Byte) /\ Len(text) < Base /\ Len(text) \in Nat
    BY <1>0
  <2>2. Base \in Nat /\ Header \in Nat \ {0}
    BY WireAssumption
  <2>3. items[i] = FlattenSeq(SetToSeq(EncodePlayer(players[i])))
    BY <1>0
  <2>4. EncodePlayer(players[i]) = {item}
    <3>1. ~TooLong(text)
      BY <2>1, <2>2 DEF TooLong
    <3> QED
      BY <3>1 DEF EncodePlayer
  <2> HIDE DEF id, text
  <2>5. l \in Seq(Byte)
    BY <2>1, NotCutOff, Value8
  <2> HIDE DEF l
  <2>6. pre \in Seq(Byte) /\ Len(pre) = Header /\ pre[1] = id
    <3>1. Header \in Nat /\ 1 \in 1..Header
      BY <2>2
    <3>2. pre \in Seq(Byte) /\ DOMAIN pre = 1..Header
      BY <2>1, <3>1
    <3>3. pre[1] = id
      BY <3>1
    <3> HIDE DEF pre
    <3>4. Len(pre) = Header
      BY <3>1, <3>2, LenProperties
    <3> QED
      BY <3>2, <3>3, <3>4
  <2> HIDE DEF pre
  <2>7. pre \o l \in Seq(Byte) /\ item \in Seq(Byte)
    BY <2>1, <2>5, <2>6, Concat, Zenon
  <2>8. item = pre \o (l \o (text \o <<>>))
    <3>1. text \o <<>> = text
      BY <2>1, ConcatEmptySeq
    <3>2. (pre \o l) \o text = pre \o (l \o text)
      BY <2>1, <2>5, <2>6, Regroup
    <3> QED
      BY <3>1, <3>2, Zenon
  <2>9. <<>> \in Seq(Byte) /\ Len(<<>>) = 0
    OBVIOUS
  <2>10. Item(item, id, text, Header, 0)
    <3> HIDE DEF item
    <3> QED
      BY <2>6, <2>8, <2>9 DEF Item, l
  <2> HIDE DEF item
  <2>11. FlattenSeq(SetToSeq({item})) = item
    <3>1. SetToSeq({item}) = <<item>>
      BY SmallSetToSeq
    <3>2. <<item>> \in Seq(Seq(Byte)) /\ Len(<<item>>) = 1 /\ <<item>>[1] = item /\ 0 \in 0..1 - 1
      BY <2>7
    <3> DEFINE ss == <<item>>
    <3> HIDE DEF ss
    <3>3. /\ FlattenSeq(First(ss, 0)) = <<>> /\ FlattenSeq(First(ss, Len(ss))) = FlattenSeq(ss)
          /\ FlattenSeq(First(ss, 0 + 1)) = FlattenSeq(First(ss, 0)) \o ss[0 + 1]
      BY <3>2, FlattenStep DEF ss
    <3>4. FlattenSeq(ss) = <<>> \o item
      <4>1. Len(ss) = 1 /\ 0 + 1 = 1 /\ ss[1] = item
        BY <3>2 DEF ss
      <4> QED
        BY <3>3, <4>1, Zenon
    <3>5. <<>> \o item = item
      BY <2>7, ConcatEmptySeq
    <3> QED
      BY <3>1, <3>4, <3>5, Zenon DEF ss
  <2>12. items[i] = item
    BY <2>3, <2>4, <2>11
  <2> QED
    BY <2>7, <2>10, <2>12, Zenon DEF id, text
<1>2. items \in Seq(Seq(Byte)) /\ Len(items) = Len(players)
  <2>1. items \in [1..Len(players) -> Seq(Byte)]
    BY <1>0, <1>1
  <2> QED
    BY <1>0, <2>1
<1>3. PlayerBytes(players) = FlattenSeq(items)
  BY DEF PlayerBytes
<1> HIDE DEF items
<1> QED
  BY <1>1, <1>2, <1>3

\* Countries whose codes fit are items.
LEMMA CountriesAreItems ==
  ASSUME NEW countries \in Seq([id : Byte, code : Seq(Byte)]),
         \A i \in DOMAIN countries : Len(countries[i].code) < Base
  PROVE  \E items \in Seq(Seq(Byte)) :
           /\ Len(items) = Len(countries) /\ CountryBytes(countries) = FlattenSeq(items)
           /\ \A i \in 1..Len(items) : Item(items[i], countries[i].id, countries[i].code, 1, 1)
<1> DEFINE items == [i \in DOMAIN countries |-> EncodeCountry(countries[i])]
<1>0. /\ Len(countries) \in Nat /\ DOMAIN countries = 1..Len(countries)
      /\ \A i \in 1..Len(countries) : /\ countries[i].id \in Byte /\ countries[i].code \in Seq(Byte)
                                      /\ Len(countries[i].code) < Base
  <2>1. Len(countries) \in Nat /\ DOMAIN countries = 1..Len(countries)
    BY LenProperties
  <2>2. ASSUME NEW i \in 1..Len(countries)
        PROVE  /\ countries[i].id \in Byte /\ countries[i].code \in Seq(Byte)
               /\ Len(countries[i].code) < Base
    <3>1. countries[i] \in [id : Byte, code : Seq(Byte)] /\ i \in DOMAIN countries
      BY <2>1, ElementOfSeq, Zenon
    <3> QED
      BY <3>1
  <2> QED
    BY <2>1, <2>2
<1>1. ASSUME NEW i \in 1..Len(countries)
      PROVE  /\ Item(items[i], countries[i].id, countries[i].code, 1, 1)
             /\ items[i] \in Seq(Byte)
  <2> DEFINE id == countries[i].id
             text == countries[i].code
             pre == <<id>>
             l == <<Len(text)>>
             post == <<0>>
  <2>1. id \in Byte /\ text \in Seq(Byte) /\ Len(text) < Base /\ Len(text) \in Nat
    BY <1>0
  <2>2. Len(text) % Base = Len(text) /\ l \in Seq(Byte)
    BY <2>1, NotCutOff, Value8
  <2>3. pre \in Seq(Byte) /\ Len(pre) = 1 /\ pre[1] = id
    BY <2>1, Value8
  <2>4. post \in Seq(Byte) /\ Len(post) = 1
    <3>1. 0 \in Byte
      BY WireAssumption DEF Byte
    <3> QED
      BY <3>1, Value8
  <2>5. items[i] = (<<id, Len(text)>> \o text) \o post
    BY <1>0, <2>2 DEF EncodeCountry
  <2>6. <<id, Len(text)>> = pre \o l
    OBVIOUS
  <2> HIDE DEF id, text, pre, l, post
  <2>7. items[i] = pre \o (l \o (text \o post))
    <3>0. pre \o l \in Seq(Byte) /\ text \o post \in Seq(Byte)
      BY <2>1, <2>2, <2>3, <2>4, Concat, Zenon
    <3>1. ((pre \o l) \o text) \o post = (pre \o l) \o (text \o post)
      BY <2>1, <2>4, <3>0, Regroup, Zenon
    <3>2. (pre \o l) \o (text \o post) = pre \o (l \o (text \o post))
      BY <2>2, <2>3, <3>0, Regroup, Zenon
    <3> QED
      BY <2>5, <2>6, <3>1, <3>2, Zenon
  <2>8. pre \o (l \o (text \o post)) \in Seq(Byte)
    <3>1. text \o post \in Seq(Byte)
      BY <2>1, <2>4, Concat, Zenon
    <3>2. l \o (text \o post) \in Seq(Byte)
      BY <2>2, <3>1, Concat, Zenon
    <3> QED
      BY <2>3, <3>2, Concat, Zenon
  <2>9. Item(pre \o (l \o (text \o post)), id, text, 1, 1)
    BY <2>3, <2>4, Zenon DEF Item, l
  <2> QED
    BY <2>7, <2>8, <2>9, Zenon DEF id, text
<1>2. items \in Seq(Seq(Byte)) /\ Len(items) = Len(countries)
  <2>1. items \in [1..Len(countries) -> Seq(Byte)]
    BY <1>0, <1>1
  <2> QED
    BY <1>0, <2>1
<1>3. CountryBytes(countries) = FlattenSeq(items)
  BY DEF CountryBytes
<1> HIDE DEF items
<1> QED
  BY <1>1, <1>2, <1>3

\* Seven sequences one behind the other, grouped from the last.
AllGrouped(s, t, u, v, w, x, y) ==
  /\ s \o t \o u \o v \o w \o x \o y = s \o (t \o (u \o (v \o (w \o (x \o y)))))
  /\ v \o (w \o (x \o y)) \in Seq(Byte)

\* Seven can be grouped from the last.
LEMMA SevenGrouped ==
  ASSUME NEW s \in Seq(Byte), NEW t \in Seq(Byte), NEW u \in Seq(Byte), NEW v \in Seq(Byte),
         NEW w \in Seq(Byte), NEW x \in Seq(Byte), NEW y \in Seq(Byte)
  PROVE  AllGrouped(s, t, u, v, w, x, y)
<1> DEFINE xy == x \o y
           wxy == w \o xy
           vwxy == v \o wxy
           st == s \o t
           stu == st \o u
           stuv == stu \o v
           stuvw == stuv \o w
           uvwxy == u \o vwxy
<1>1. xy \in Seq(Byte) /\ st \in Seq(Byte)
  BY Concat, Zenon
<1> HIDE DEF xy, st
<1>2. wxy \in Seq(Byte) /\ stu \in Seq(Byte)
  BY <1>1, Concat, Zenon
<1> HIDE DEF wxy, stu
<1>3. vwxy \in Seq(Byte) /\ stuv \in Seq(Byte)
  BY <1>2, Concat, Zenon
<1> HIDE DEF vwxy, stuv
<1>4. stuvw \in Seq(Byte) /\ uvwxy \in Seq(Byte)
  BY <1>3, Concat, Zenon
<1> HIDE DEF stuvw, uvwxy
<1>5. stuvw \o x \o y = stuvw \o xy
  <2>1. Grouped(stuvw, x, y)
    BY <1>4, ThreeGrouped, Zenon
  <2> QED
    BY <2>1, Zenon DEF Grouped, xy
<1>6. stuvw \o xy = stuv \o wxy
  <2>1. Grouped(stuv, w, xy)
    BY <1>1, <1>3, ThreeGrouped, Zenon
  <2> QED
    BY <2>1, Zenon DEF Grouped, stuvw, wxy
<1>7. stuv \o wxy = stu \o vwxy
  <2>1. Grouped(stu, v, wxy)
    BY <1>2, ThreeGrouped, Zenon
  <2> QED
    BY <2>1, Zenon DEF Grouped, stuv, vwxy
<1>8. stu \o vwxy = st \o uvwxy
  <2>1. Grouped(st, u, vwxy)
    BY <1>1, <1>3, ThreeGrouped, Zenon
  <2> QED
    BY <2>1, Zenon DEF Grouped, stu, uvwxy
<1>9. st \o uvwxy = s \o (t \o uvwxy)
  <2>1. Grouped(s, t, uvwxy)
    BY <1>4, ThreeGrouped, Zenon
  <2> QED
    BY <2>1, Zenon DEF Grouped, st
<1>10. stuvw \o x \o y = s \o (t \o uvwxy)
  BY <1>5, <1>6, <1>7, <1>8, <1>9, Zenon
<1> QED
  BY <1>3, <1>10, Zenon DEF AllGrouped, stuvw, stuv, stu, st, uvwxy, vwxy, wxy, xy

\* Players, or countries, as they are read back.
Players(players) == [i \in DOMAIN players |-> [id |-> players[i].id, text |-> players[i].nickname]]
Countries(countries) == [i \in DOMAIN countries |-> [id |-> countries[i].id, text |-> countries[i].code]]

\* Bytes of n items can be read.
LEMMA PlayersAreRead ==
  ASSUME NEW players \in Seq([id : Byte, nickname : Seq(Byte)]),
         \A i \in DOMAIN players : Len(players[i].nickname) < Base
  PROVE  /\ PlayerBytes(players) \in Seq(Byte)
         /\ Items(PlayerBytes(players), Len(players), Header, 0)
              = {[items |-> Players(players), rest |-> <<>>]}
<1> DEFINE n == Len(players)
           ids == [i \in 1..n |-> players[i].id]
           texts == [i \in 1..n |-> players[i].nickname]
<1>0. n \in Nat /\ DOMAIN players = 1..n /\ Header \in Nat \ {0} /\ 0 \in Nat
  BY LenProperties, WireAssumption
<1>1. PICK items \in Seq(Seq(Byte)) :
        /\ Len(items) = n /\ PlayerBytes(players) = FlattenSeq(items)
        /\ \A i \in 1..Len(items) : Item(items[i], players[i].id, players[i].nickname, Header, 0)
  BY PlayersAreItems
<1>2. \A i \in 1..n : texts[i] \in Seq(Byte) /\ Len(texts[i]) < Base
  <2> TAKE i \in 1..n
  <2>1. players[i] \in [id : Byte, nickname : Seq(Byte)] /\ i \in DOMAIN players
    BY <1>0, ElementOfSeq, Zenon
  <2> QED
    BY <2>1
<1>3. \A i \in 1..n : ids[i] = players[i].id /\ texts[i] = players[i].nickname
  OBVIOUS
<1> HIDE DEF ids, texts, n
<1>4. \A i \in 1..Len(items) : /\ texts[i] \in Seq(Byte) /\ Len(texts[i]) < Base
                               /\ Item(items[i], ids[i], texts[i], Header, 0)
  BY <1>1, <1>2, <1>3, Zenon
<1>5. Items(FlattenSeq(items), Len(items), Header, 0)
        = {[items |-> Listed(ids, texts, Len(items)), rest |-> <<>>]}
  BY <1>0, <1>1, <1>4, ItemsAreRead
<1>6. Listed(ids, texts, n) = Players(players)
  BY <1>0, <1>3 DEF Listed, Players
<1>7. FlattenSeq(items) \in Seq(Byte)
  <2>1. Len(items) \in 0..Len(items)
    BY <1>0, <1>1
  <2> QED
    BY <1>1, <2>1, FlattenStep, Zenon
<1> QED
  BY <1>1, <1>5, <1>6, <1>7 DEF n

\* So can those of the countries.
LEMMA CountriesAreRead ==
  ASSUME NEW countries \in Seq([id : Byte, code : Seq(Byte)]),
         \A i \in DOMAIN countries : Len(countries[i].code) < Base
  PROVE  /\ CountryBytes(countries) \in Seq(Byte)
         /\ Items(CountryBytes(countries), Len(countries), 1, 1)
              = {[items |-> Countries(countries), rest |-> <<>>]}
<1> DEFINE n == Len(countries)
           ids == [i \in 1..n |-> countries[i].id]
           texts == [i \in 1..n |-> countries[i].code]
<1>0. n \in Nat /\ DOMAIN countries = 1..n /\ 1 \in Nat \ {0} /\ 1 \in Nat
  BY LenProperties
<1>1. PICK items \in Seq(Seq(Byte)) :
        /\ Len(items) = n /\ CountryBytes(countries) = FlattenSeq(items)
        /\ \A i \in 1..Len(items) : Item(items[i], countries[i].id, countries[i].code, 1, 1)
  BY CountriesAreItems
<1>2. \A i \in 1..n : texts[i] \in Seq(Byte) /\ Len(texts[i]) < Base
  <2> TAKE i \in 1..n
  <2>1. countries[i] \in [id : Byte, code : Seq(Byte)] /\ i \in DOMAIN countries
    BY <1>0, ElementOfSeq, Zenon
  <2> QED
    BY <2>1
<1>3. \A i \in 1..n : ids[i] = countries[i].id /\ texts[i] = countries[i].code
  OBVIOUS
<1> HIDE DEF ids, texts, n
<1>4. \A i \in 1..Len(items) : /\ texts[i] \in Seq(Byte) /\ Len(texts[i]) < Base
                               /\ Item(items[i], ids[i], texts[i], 1, 1)
  BY <1>1, <1>2, <1>3, Zenon
<1>5. Items(FlattenSeq(items), Len(items), 1, 1)
        = {[items |-> Listed(ids, texts, Len(items)), rest |-> <<>>]}
  BY <1>0, <1>1, <1>4, ItemsAreRead
<1>6. Listed(ids, texts, n) = Countries(countries)
  BY <1>0, <1>3 DEF Listed, Countries
<1>7. FlattenSeq(items) \in Seq(Byte)
  <2>1. Len(items) \in 0..Len(items)
    BY <1>0, <1>1
  <2> QED
    BY <1>1, <2>1, FlattenStep, Zenon
<1> QED
  BY <1>1, <1>5, <1>6, <1>7 DEF n

\* What SyncStateReadable asks of what is sent.
Fits(players, countries) ==
  /\ Len(players) < Base /\ Len(PlayerBytes(players)) < Base * Base
  /\ Len(countries) < Base /\ Len(CountryBytes(countries)) < Base * Base
  /\ \A i \in DOMAIN players : Len(players[i].nickname) < Base
  /\ \A i \in DOMAIN countries : Len(countries[i].code) < Base

\* The state sent after a login is what is read.
LEMMA SyncIsRead ==
  ASSUME NEW players \in Seq([id : Byte, nickname : Seq(Byte)]),
         NEW countries \in Seq([id : Byte, code : Seq(Byte)]),
         Fits(players, countries)
  PROVE  ReadSyncState(EncodeSyncStateData(players, countries, 1))
           = {[players |-> Players(players), countries |-> Countries(countries), online |-> <<1>>]}
<1> DEFINE pb == PlayerBytes(players)
           cb == CountryBytes(countries)
           pn == Len(players)
           cn == Len(countries)
           pl == Uint16(Len(pb))
           cl == Uint16(Len(cb))
           end == <<cn>> \o (cl \o (cb \o <<1>>))
           bytes == <<pn>> \o (pl \o (pb \o end))
<1>1. pn \in Byte /\ cn \in Byte /\ pn % Base = pn /\ cn % Base = cn
  <2>1. Len(players) \in Nat /\ Len(countries) \in Nat /\ Len(players) < Base /\ Len(countries) < Base
    BY LenProperties DEF Fits
  <2> QED
    BY <2>1, NotCutOff
<1>2. 1 \in Byte /\ 1 % Base = 1
  <2>1. 1 \in Nat /\ 1 < Base
    BY WireAssumption
  <2> QED
    BY <2>1, NotCutOff
<1>3. /\ pb \in Seq(Byte) /\ Len(pb) < Base * Base
      /\ Items(pb, pn, Header, 0) = {[items |-> Players(players), rest |-> <<>>]}
  BY PlayersAreRead DEF Fits
<1>4. /\ cb \in Seq(Byte) /\ Len(cb) < Base * Base
      /\ Items(cb, cn, 1, 1) = {[items |-> Countries(countries), rest |-> <<>>]}
  BY CountriesAreRead DEF Fits
<1>5. EncodeSyncStateData(players, countries, 1)
        = <<pn>> \o pl \o pb \o <<cn>> \o cl \o cb \o <<1>>
  <2> HIDE DEF pn, cn
  <2>1. Len(players) % Base = pn /\ Len(countries) % Base = cn
    BY <1>1 DEF pn, cn
  <2> QED
    BY <1>2, <2>1, Zenon DEF EncodeSyncStateData
<1> HIDE DEF pb, cb, pn, cn
<1>6. <<pn>> \in Seq(Byte) /\ <<cn>> \in Seq(Byte) /\ <<1>> \in Seq(Byte)
  BY <1>1, <1>2, Value8
<1>7. pl \in Seq(Byte) /\ cl \in Seq(Byte)
  <2>1. Len(pb) \in Nat /\ Len(cb) \in Nat
    BY <1>3, <1>4, LenProperties
  <2> QED
    BY <1>3, <1>4, <2>1, Value16
<1>8. EncodeSyncStateData(players, countries, 1) = bytes /\ end \in Seq(Byte)
  <2> HIDE DEF pl, cl
  <2> QED
    <3>1. AllGrouped(<<pn>>, pl, pb, <<cn>>, cl, cb, <<1>>)
      BY <1>3, <1>4, <1>6, <1>7, SevenGrouped, Zenon
    <3> QED
      BY <1>5, <3>1, Zenon DEF AllGrouped
<1>9. Section(end, 1, 1) = {[items |-> Countries(countries), rest |-> <<1>>]}
  <2>1. Holds(cb, cn, 1, 1, Countries(countries))
    BY <1>4, Zenon DEF Holds
  <2>2. SectionReads(<<cn>> \o (Uint16(Len(cb)) \o (cb \o <<1>>)), 1, 1, Countries(countries), <<1>>)
    BY <1>1, <1>4, <1>6, <2>1, SectionIsRead, Zenon
  <2> QED
    BY <2>2, Zenon DEF SectionReads
<1> HIDE DEF end
<1>10. Section(bytes, Header, 0) = {[items |-> Players(players), rest |-> end]}
  <2>1. Holds(pb, pn, Header, 0, Players(players))
    BY <1>3, Zenon DEF Holds
  <2>2. SectionReads(<<pn>> \o (Uint16(Len(pb)) \o (pb \o end)), Header, 0, Players(players), end)
    BY <1>1, <1>3, <1>8, <2>1, SectionIsRead, Zenon
  <2> QED
    BY <2>2, Zenon DEF SectionReads
<1> HIDE DEF bytes
<1> QED
  <2> DEFINE p == [items |-> Players(players), rest |-> end]
             c == [items |-> Countries(countries), rest |-> <<1>>]
             Read(q) == {[players |-> q.items, countries |-> d.items, online |-> d.rest] :
                           d \in Section(q.rest, 1, 1)}
  <2>1. ReadSyncState(bytes) = UNION {Read(q) : q \in {p}}
    BY <1>10 DEF ReadSyncState
  <2>2. p.rest = end /\ p.items = Players(players) /\ c.items = Countries(countries) /\ c.rest = <<1>>
    OBVIOUS
  <2> HIDE DEF p, c
  <2>3. Read(p) = {[players |-> p.items, countries |-> d.items, online |-> d.rest] : d \in {c}}
    BY <1>9, <2>2 DEF c
  <2>4. Read(p) = {[players |-> Players(players), countries |-> Countries(countries), online |-> <<1>>]}
    BY <2>2, <2>3
  <2> HIDE DEF Read
  <2> QED
    BY <1>8, <2>1, <2>4

-----------------------------------------------------------------------------
(* A call is made once, with the function of its kind. *)

\* What there is of a result.
Answered ==
  /\ kind = "line" => input \in LineInputs
                      /\ output \in {None, <<drawLine(input[1], input[2])>>}
  /\ kind = "polygon" => input \in PolygonInputs /\ output \in {None, <<drawPolygon(input)>>}
  /\ kind = "stream" => input \in StreamInputs
                        /\ output \in {None, <<ReadFrames(Stream(input[1], input[2]))>>}
  /\ kind = "datagram" => input \in DatagramInputs
                          /\ output \in {None, <<ReadDatagram(Datagram(1, input))>>}
  /\ kind = "chat" => input \in ChatInputs
                      /\ output \in {None, <<HandleChat(input[1], input[2])>>}
  /\ kind = "sync" => input \in SyncInputs
                      /\ output \in {None, <<EncodeSyncStateData(input[1], input[2], 1)>>}
  /\ kind = "chunk" => input \in ChunkInputs
                       /\ output \in {None, <<HandleChunkRequest(input[1], input[2])>>}
  /\ kind = "level" => input \in LevelInputs /\ output \in {None, <<GetLevel(input)>>}

\* A result is the one of its function.
THEOREM FunctionsAnswer == Spec => []Answered
<1>1. Init => Answered
  BY DEF Init, Answered
<1>2. Answered /\ [Next]_vars => Answered'
  <2> SUFFICES ASSUME Answered, [Next]_vars PROVE Answered'
    OBVIOUS
  <2>1. CASE Call("datagram", ReadDatagram(Datagram(1, input)))
    BY <2>1 DEF Call, Answered
  <2>2. CASE Call("chat", HandleChat(input[1], input[2]))
    BY <2>2 DEF Call, Answered
  <2>3. CASE Call("chunk", HandleChunkRequest(input[1], input[2]))
    BY <2>3 DEF Call, Answered
  <2>4. CASE Call("level", GetLevel(input))
    BY <2>4 DEF Call, Answered
  <2>5. CASE Call("polygon", drawPolygon(input))
    BY <2>5 DEF Call, Answered
  <2>6. CASE UNCHANGED vars
    BY <2>6 DEF vars, Answered
  <2>9. CASE Call("stream", ReadFrames(Stream(input[1], input[2])))
    BY <2>9 DEF Call, Answered
  <2>8. CASE Call("line", drawLine(input[1], input[2]))
    BY <2>8 DEF Call, Answered
  <2>7. CASE Call("sync", EncodeSyncStateData(input[1], input[2], 1))
    BY <2>7 DEF Call, Answered
  <2> QED
    BY <2>1, <2>2, <2>3, <2>4, <2>5, <2>6, <2>7, <2>8, <2>9 DEF Next
<1> QED
  BY <1>1, <1>2, PTL DEF Spec

\* A line has both ends, one tile per unit of the longer axis, no gap, and is
\* nowhere more than half a tile off (drawLine).
THEOREM LinesAlwaysDrawn == Spec => []LinesAreDrawn
<1>1. Answered => LinesAreDrawn
  <2> SUFFICES ASSUME Answered, Called("line")
                PROVE  IsLine(Result, input[1], input[2])
    BY DEF LinesAreDrawn
  <2>1. input[1] \in Int \X Int /\ input[2] \in Int \X Int
    BY LineInputsAssumption DEF Answered, Called
  <2>2. Result = drawLine(input[1], input[2])
    BY DEF Answered, Called, Result
  <2> QED
    BY <2>1, <2>2, LineIsDrawn
<1> QED
  BY <1>1, FunctionsAnswer, PTL

\* Of any ring, with edges that cross or not, all lattice points inside are
\* drawn, and nothing that is farther than half a tile from it (drawPolygon).
THEOREM PolygonsAlwaysFilled == Spec => []PolygonsAreFilled
<1>1. Answered => PolygonsAreFilled
  <2> SUFFICES ASSUME Answered, Called("polygon")
                PROVE  IsPolygon(Result, input)
    BY DEF PolygonsAreFilled
  <2>1. input \in Seq(Int \X Int)
    BY PolygonInputsAssumption DEF Answered, Called
  <2>2. Result = drawPolygon(input)
    BY DEF Answered, Called, Result
  <2> QED
    BY <2>1, <2>2, PolygonIsDrawn
<1> QED
  BY <1>1, FunctionsAnswer, PTL

\* Every chunk in view is answered, with its tiles in order; of the others
\* exactly those whose squared distance is that of one in view modulo Word and
\* whose tiles do not wrap around (handleChunkRequest).
THEOREM ChunksAnswered == Spec => []ChunkAnswers
<1>1. Answered => ChunkAnswers
  BY ChunkResult DEF Answered, ChunkAnswers, Called
<1> QED
  BY <1>1, FunctionsAnswer, PTL

\* Wherever a stream of frames ends, the messages that are complete in it and
\* can be decoded are passed on, in order, and nothing else
\* (handleTCPConnection's loop, SendTCPMessage).
THEOREM StreamsRoundTrip == Spec => []StreamRoundTrip
<1>1. Answered => StreamRoundTrip
  <2> SUFFICES ASSUME Answered, Called("stream") PROVE StreamRoundTrip
    BY DEF StreamRoundTrip
  <2> DEFINE received == [i \in DOMAIN input[1] |-> IF input[1][i].cut THEN <<>> ELSE <<input[1][i].msg>>]
  <2>1. Sendable(input[1]) /\ input[2] \in Nat
    BY StreamInputsAssumption DEF Answered, Called, Sendable, Body
  <2>2. Result = ReadFrames(Stream(input[1], input[2]))
    BY DEF Answered, Called, Result
  <2>3. \E n \in 0..Len(input[1]) :
          /\ EndOf(input[1], n) <= input[2]
          /\ n = Len(input[1]) \/ EndOf(input[1], n + 1) > input[2]
          /\ ReadFrames(Stream(input[1], input[2])) = FlattenSeq(First(received, n))
    BY <2>1, StreamIsRead, Zenon
  <2> QED
    BY <2>2, <2>3 DEF StreamRoundTrip, EndOf, Frames
<1> QED
  BY <1>1, FunctionsAnswer, PTL

\* The state sent after a login can be read back, players and countries in
\* order, if no nickname is too long and if counters and lengths fit in their
\* one and two bytes (EncodeSyncStateData).
THEOREM SyncStatesReadable == Spec => []SyncStateReadable
<1>1. Answered => SyncStateReadable
  <2> SUFFICES ASSUME Answered, Called("sync") PROVE SyncStateReadable
    BY DEF SyncStateReadable
  <2> DEFINE players == input[1]
             countries == input[2]
  <2>1. /\ players \in Seq([id : Byte, nickname : Seq(Byte)])
        /\ countries \in Seq([id : Byte, code : Seq(Byte)])
    BY SyncInputsAssumption DEF Answered, Called
  <2>2. Result = EncodeSyncStateData(players, countries, 1)
    BY DEF Answered, Called, Result
  <2>3. ASSUME Fits(players, countries)
        PROVE  ReadSyncState(Result)
                 = {[players |-> Players(players), countries |-> Countries(countries), online |-> <<1>>]}
    BY <2>1, <2>2, <2>3, SyncIsRead
  <2> QED
    BY <2>3, Zenon DEF SyncStateReadable, Fits, Players, Countries
<1> QED
  BY <1>1, FunctionsAnswer, PTL

\* A datagram longer than the buffer is refused, never misread
\* (handleUDPConnection).
THEOREM DatagramsWholeOrNothing == Spec => []DatagramWholeOrNothing
<1>1. Answered => DatagramWholeOrNothing
  <2> SUFFICES ASSUME Answered, Called("datagram") PROVE DatagramWholeOrNothing
    BY DEF DatagramWholeOrNothing
  <2>1. input \in Message
    BY DatagramInputsAssumption DEF Answered, Called
  <2>2. Result = ReadDatagram(Datagram(1, input))
    BY DEF Answered, Called, Result
  <2> QED
    BY <2>1, <2>2, DatagramIsRead DEF DatagramWholeOrNothing
<1> QED
  BY <1>1, FunctionsAnswer, PTL

\* A chat message is sent to the others as it came, less the spaces around
\* it, or the sender is told why not (handleChat).
THEOREM ChatsArrive == Spec => []ChatArrives
<1>1. Answered => ChatArrives
  BY ChatResult DEF Answered, ChatArrives, Called
<1> QED
  BY <1>1, FunctionsAnswer, PTL

\* "ExpForLevel returns required EXP for a specific level": a player has at
\* least the experience his level asks for, and not more than the next one asks
\* for; with 1 to 666 points he has level 1 or, by the conversion of a negative
\* number, one of the last below 2^64 (GetLevel, ExpForNextLevel).
THEOREM LevelsAreRight == Spec => []LevelsAgree
<1>1. Answered => LevelsAgree
  <2> SUFFICES ASSUME Answered, Called("level") PROVE LevelsAgree
    BY DEF LevelsAgree
  <2>1. input \in Nat /\ ~AtLeast(input, MaxLevel + 1)
    BY LevelInputsAssumption DEF Answered, Called
  <2>2. Result = GetLevel(input)
    BY DEF Answered, Called, Result
  <2>3. Result # {}
    BY <2>1, <2>2, LevelExists
  <2>4. ASSUME NEW l \in Result, input = 0 \/ AboveMinusOne(input)
        PROVE  ExpForNextLevel(l) <= input /\ input <= ExpForNextLevel(l + 1)
    BY <2>1, <2>2, <2>4, LevelFits
  <2>5. ASSUME NEW l \in Result, input # 0, ~AboveMinusOne(input)
        PROVE  l = 1 \/ (Uint - MaxPower < l /\ l < Uint)
    BY <2>1, <2>2, <2>5, LevelWraps
  <2> QED
    BY <2>3, <2>4, <2>5 DEF LevelsAgree
<1> QED
  BY <1>1, FunctionsAnswer, PTL
=============================================================================
