---------------------------- MODULE RasterProofs ----------------------------
(***************************************************************************)
(* drawLine and drawPolygon draw what they should: IsLine of any two       *)
(* tiles, IsPolygon of any ring.  The lemmas on numbers come first.        *)
(***************************************************************************)
EXTENDS Raster, FiniteSetTheorems, SequenceTheorems, WellFoundedInduction, TLAPS

-----------------------------------------------------------------------------
(* Numbers. *)

\* Induction over a set of numbers.
LEMMA Induction ==
  ASSUME NEW S, 0 \in S, \A n \in Nat : n \in S => n + 1 \in S
  PROVE  Nat \subseteq S
<1> DEFINE LessThan == {ss \in Nat \X Nat : ss[1] < ss[2]}
<1>1. IsWellFoundedOn(LessThan, Nat)
  BY NatLessThanWellFounded DEF OpToRel
<1>2. SUFFICES ASSUME NEW m \in Nat \ S PROVE FALSE
  OBVIOUS
<1>3. PICK k \in Nat \ S : \A j \in Nat \ S : <<j, k>> \notin LessThan
  <2> HIDE DEF LessThan
  <2> QED BY <1>1, WFMin
<1>4. k - 1 \in Nat /\ k # 0
  BY <1>3
<1>5. k - 1 \in S
  <2>1. <<k - 1, k>> \in LessThan
    BY <1>4
  <2> QED BY <1>3, <1>4, <2>1
<1> QED
  BY <1>3, <1>4, <1>5


\* Division with a remainder.
LEMMA Quotient ==
  ASSUME NEW b \in Nat \ {0}, NEW a \in Int
  PROVE  a \div b \in Int /\ a % b \in 0..b - 1 /\ a = b * (a \div b) + (a % b)
<1>1. a \div b \in Int /\ a % b \in 0..b - 1
  OBVIOUS
<1>2. a = b * (a \div b) + (a % b)
  OBVIOUS
<1> QED
  BY <1>1, <1>2

\* There is one way to divide.
LEMMA Division ==
  ASSUME NEW b \in Nat \ {0}, NEW q \in Int, NEW r \in 0..b - 1, NEW a, a = b * q + r
  PROVE  a \div b = q /\ a % b = r
<1> DEFINE d == a \div b
           m == a % b
<1>1. a \in Int
  OBVIOUS
<1>2. d \in Int /\ m \in 0..b - 1 /\ a = b * d + m
  BY <1>1, Quotient
<1> HIDE DEF d, m
<1>3. b * (q - d) = m - r
  BY <1>2
<1>4. CASE q - d >= 1
  <2>1. b * (q - d) >= b
    BY <1>2, <1>4
  <2> QED
    BY <1>2, <1>3, <2>1
<1>5. CASE q - d <= -1
  <2>1. b * (d - q) >= b
    BY <1>2, <1>5
  <2>2. b * (d - q) = r - m
    BY <1>2
  <2> QED
    BY <1>2, <2>1, <2>2
<1>6. CASE q = d
  BY <1>2, <1>6
<1>7. d = q /\ m = r
  BY <1>2, <1>4, <1>5, <1>6
<1> QED
  BY <1>7 DEF d, m

\* Division of a natural number.
LEMMA NatQuotient ==
  ASSUME NEW b \in Nat \ {0}, NEW a \in Nat
  PROVE  /\ a \div b \in Nat /\ (a \div b) * b <= a
         /\ a % b \in 0..b - 1 /\ a = b * (a \div b) + (a % b)
<1>1. /\ a \div b \in Int /\ a % b \in 0..b - 1
      /\ a = b * (a \div b) + (a % b)
  BY Quotient
<1>2. a \div b \in Nat
  OBVIOUS
<1>3. (a \div b) * b <= a
  OBVIOUS
<1> QED
  BY <1>1, <1>2, <1>3, Zenon

\* A larger number has a larger square.
LEMMA SquareGrows ==
  ASSUME NEW k \in Nat
  PROVE  k <= k * k
  OBVIOUS

\* What is less than the divisor.
LEMMA NothingToDivide ==
  ASSUME NEW b \in Nat \ {0}, NEW r \in 0..b - 1
  PROVE  r \div b = 0 /\ r % b = r
<1>1. r = b * 0 + r
  OBVIOUS
<1> QED
  BY <1>1, Division

-----------------------------------------------------------------------------
(* Lines: the error term and the position after every turn of drawLine. *)

\* The direction of a step.
Sign == {-1, 1}

\* drawLine after i steps to the side and j steps up or down from <<x, y>>: n
\* steps lead from end to end.
Drawing(s, i, j, n, x, y, dx, dy, sx, sy) ==
  /\ s = [p |-> <<x + sx * i, y + sy * j>>, err |-> (j + 1) * dx - (i + 1) * dy]
  /\ -n <= 2 * (j * dx - i * dy) /\ 2 * (j * dx - i * dy) <= n
  /\ dx = dy => i = j

\* One turn of drawLine, on a line that is not steep.
LEMMA FlatTurn ==
  ASSUME NEW x \in Int, NEW y \in Int, NEW dx \in Nat, NEW dy \in Nat, dy <= dx,
         NEW sx \in Sign, NEW sy \in Sign, NEW i \in 0..dx - 1, NEW j \in Nat,
         NEW s, Drawing(s, i, j, dx, x, y, dx, dy, sx, sy)
  PROVE  \E h \in Nat :
           Drawing(LineStep(s.p, s.err, dx, dy, sx, sy), i + 1, h, dx, x, y, dx, dy, sx, sy)
<1>0. /\ s.p = <<x + sx * i, y + sy * j>> /\ s.err = (j + 1) * dx - (i + 1) * dy
      /\ -dx <= 2 * (j * dx - i * dy) /\ 2 * (j * dx - i * dy) <= dx
      /\ dx = dy => i = j
  BY DEF Drawing
<1> SUFFICES
      \E h \in {j, j + 1} :
        /\ LineStep(<<x + sx * i, y + sy * j>>, (j + 1) * dx - (i + 1) * dy, dx, dy, sx, sy)
             = [p |-> <<x + sx * (i + 1), y + sy * h>>, err |-> (h + 1) * dx - (i + 2) * dy]
        /\ -dx <= 2 * (h * dx - (i + 1) * dy) /\ 2 * (h * dx - (i + 1) * dy) <= dx
        /\ dx = dy => h = i + 1
  <2>1. (i + 1) + 1 = i + 2 /\ {j, j + 1} \subseteq Nat
    OBVIOUS
  <2> QED
    BY <1>0, <2>1 DEF Drawing
<1> DEFINE d == j * dx - i * dy
           err == (j + 1) * dx - (i + 1) * dy
<1>1. /\ d \in Int /\ err \in Int /\ err = d + dx - dy /\ -dx <= 2 * d /\ 2 * d <= dx
      /\ dx > 0 /\ i \in Nat
  <2>1. i \in Nat /\ dx > 0
    OBVIOUS
  <2>2. j * dx \in Nat /\ i * dy \in Nat
    BY <2>1
  <2>3. (j + 1) * dx = j * dx + dx /\ (i + 1) * dy = i * dy + dy
    BY <2>1
  <2> QED
    BY <1>0, <2>1, <2>2, <2>3
<1>2. (i + 2) * dy = (i + 1) * dy + dy /\ (i + 1) * dy \in Nat
  BY <1>1
<1>3. (j + 2) * dx = (j + 1) * dx + dx /\ (j + 1) * dx \in Nat
  OBVIOUS
<1>4. dx = dy => d = 0
  <2>1. ASSUME dx = dy PROVE j * dx = i * dy
    BY <1>0, <2>1
  <2> QED
    BY <1>1, <2>1
<1>5. 2 * err > -dy
  <2> HIDE DEF d, err
  <2> QED
    BY <1>1, <1>4
<1>6. x + sx * i + sx = x + sx * (i + 1) /\ y + sy * j + sy = y + sy * (j + 1)
  BY <1>1 DEF Sign
<1>7. CASE 2 * err < dx
  <2>1. LineStep(<<x + sx * i, y + sy * j>>, err, dx, dy, sx, sy)
          = [p |-> <<x + sx * (i + 1), y + sy * (j + 1)>>, err |-> (j + 2) * dx - (i + 2) * dy]
    <3>1. err - dy + dx = (j + 2) * dx - (i + 2) * dy
      BY <1>1, <1>2, <1>3
    <3> HIDE DEF err
    <3> QED
      BY <1>5, <1>6, <1>7, <3>1 DEF LineStep
  <2>2. (j + 1) * dx - (i + 1) * dy = err
    OBVIOUS
  <2>3. -dx <= 2 * err /\ 2 * err <= dx
    <3> HIDE DEF d, err
    <3> QED
      BY <1>1, <1>7
  <2>4. dx = dy => j + 1 = i + 1
    BY <1>0
  <2>5. (j + 1) + 1 = j + 2
    OBVIOUS
  <2> HIDE DEF d, err
  <2> QED
    BY <2>1, <2>2, <2>3, <2>4, <2>5 DEF err
<1>8. CASE ~(2 * err < dx)
  <2>1. LineStep(<<x + sx * i, y + sy * j>>, err, dx, dy, sx, sy)
          = [p |-> <<x + sx * (i + 1), y + sy * j>>, err |-> (j + 1) * dx - (i + 2) * dy]
    <3>1. err - dy + 0 = (j + 1) * dx - (i + 2) * dy
      BY <1>1, <1>2, <1>3
    <3> HIDE DEF err
    <3> QED
      BY <1>5, <1>6, <1>8, <3>1 DEF LineStep
  <2>2. j * dx - (i + 1) * dy = d - dy
    <3>1. (i + 1) * dy = i * dy + dy /\ j * dx \in Nat /\ i * dy \in Nat
      BY <1>1
    <3> QED
      BY <3>1
  <2>3. -dx <= 2 * (d - dy) /\ 2 * (d - dy) <= dx
    <3> HIDE DEF d, err
    <3> QED
      BY <1>1, <1>8
  <2>4. dx # dy
    <3> HIDE DEF d, err
    <3> QED
      BY <1>1, <1>4, <1>8
  <2> HIDE DEF d, err
  <2> QED
    BY <2>1, <2>2, <2>3, <2>4 DEF err
<1> QED
  BY <1>7, <1>8

\* One turn on a line that is steep.
LEMMA SteepTurn ==
  ASSUME NEW x \in Int, NEW y \in Int, NEW dx \in Nat, NEW dy \in Nat, dx < dy,
         NEW sx \in Sign, NEW sy \in Sign, NEW j \in 0..dy - 1, NEW i \in Nat,
         NEW s, Drawing(s, i, j, dy, x, y, dx, dy, sx, sy)
  PROVE  \E h \in Nat :
           Drawing(LineStep(s.p, s.err, dx, dy, sx, sy), h, j + 1, dy, x, y, dx, dy, sx, sy)
<1>0. /\ s.p = <<x + sx * i, y + sy * j>> /\ s.err = (j + 1) * dx - (i + 1) * dy
      /\ -dy <= 2 * (j * dx - i * dy) /\ 2 * (j * dx - i * dy) <= dy
  BY DEF Drawing
<1> SUFFICES
      \E h \in {i, i + 1} :
        /\ LineStep(<<x + sx * i, y + sy * j>>, (j + 1) * dx - (i + 1) * dy, dx, dy, sx, sy)
             = [p |-> <<x + sx * h, y + sy * (j + 1)>>, err |-> (j + 2) * dx - (h + 1) * dy]
        /\ -dy <= 2 * ((j + 1) * dx - h * dy) /\ 2 * ((j + 1) * dx - h * dy) <= dy
  <2>1. (j + 1) + 1 = j + 2 /\ dx # dy /\ {i, i + 1} \subseteq Nat
    OBVIOUS
  <2> QED
    BY <1>0, <2>1 DEF Drawing
<1> DEFINE d == j * dx - i * dy
           err == (j + 1) * dx - (i + 1) * dy
<1>1. /\ d \in Int /\ err \in Int /\ err = d + dx - dy /\ -dy <= 2 * d /\ 2 * d <= dy
      /\ dy > 0 /\ j \in Nat
  <2>1. j \in Nat /\ dy > 0
    OBVIOUS
  <2>2. j * dx \in Nat /\ i * dy \in Nat
    BY <2>1
  <2>3. (j + 1) * dx = j * dx + dx /\ (i + 1) * dy = i * dy + dy
    BY <2>1
  <2> QED
    BY <1>0, <2>1, <2>2, <2>3
<1>2. (i + 2) * dy = (i + 1) * dy + dy /\ (i + 1) * dy \in Nat
  OBVIOUS
<1>3. (j + 2) * dx = (j + 1) * dx + dx /\ (j + 1) * dx \in Nat
  BY <1>1
<1>5. 2 * err < dx
  <2> HIDE DEF d, err
  <2> QED
    BY <1>1
<1>6. x + sx * i + sx = x + sx * (i + 1) /\ y + sy * j + sy = y + sy * (j + 1)
  BY <1>1 DEF Sign
<1>7. CASE 2 * err > -dy
  <2>1. LineStep(<<x + sx * i, y + sy * j>>, err, dx, dy, sx, sy)
          = [p |-> <<x + sx * (i + 1), y + sy * (j + 1)>>, err |-> (j + 2) * dx - (i + 2) * dy]
    <3>1. err - dy + dx = (j + 2) * dx - (i + 2) * dy
      BY <1>1, <1>2, <1>3
    <3> HIDE DEF err
    <3> QED
      BY <1>5, <1>6, <1>7, <3>1 DEF LineStep
  <2>2. (j + 1) * dx - (i + 1) * dy = err
    OBVIOUS
  <2>3. -dy <= 2 * err /\ 2 * err <= dy
    <3> HIDE DEF d, err
    <3> QED
      BY <1>1, <1>7
  <2>4. (i + 1) + 1 = i + 2
    OBVIOUS
  <2> HIDE DEF d, err
  <2> QED
    BY <2>1, <2>2, <2>3, <2>4 DEF err
<1>8. CASE ~(2 * err > -dy)
  <2>1. LineStep(<<x + sx * i, y + sy * j>>, err, dx, dy, sx, sy)
          = [p |-> <<x + sx * i, y + sy * (j + 1)>>, err |-> (j + 2) * dx - (i + 1) * dy]
    <3>1. err - 0 + dx = (j + 2) * dx - (i + 1) * dy
      BY <1>1, <1>2, <1>3
    <3> HIDE DEF err
    <3> QED
      BY <1>5, <1>6, <1>8, <3>1 DEF LineStep
  <2>2. (j + 1) * dx - i * dy = d + dx
    <3>1. (j + 1) * dx = j * dx + dx /\ j * dx \in Nat /\ i * dy \in Nat
      BY <1>1
    <3> QED
      BY <3>1
  <2>3. -dy <= 2 * (d + dx) /\ 2 * (d + dx) <= dy
    <3> HIDE DEF d, err
    <3> QED
      BY <1>1, <1>8
  <2> HIDE DEF d, err
  <2> QED
    BY <2>1, <2>2, <2>3 DEF err
<1> QED
  BY <1>7, <1>8

\* A multiple of n that is at most half of n is 0.
LEMMA SmallMultiple ==
  ASSUME NEW n \in Nat \ {0}, NEW a \in Int, NEW b \in Int,
         -n <= 2 * ((a - b) * n), 2 * ((a - b) * n) <= n
  PROVE  a = b
<1> DEFINE z == a - b
<1>1. z \in Int /\ -n <= 2 * (z * n) /\ 2 * (z * n) <= n
  OBVIOUS
<1> HIDE DEF z
<1>2. ~(z >= 1)
  <2> SUFFICES ASSUME z >= 1 PROVE FALSE
    OBVIOUS
  <2>1. z * n >= n /\ z * n \in Int
    BY <1>1
  <2> QED
    BY <1>1, <2>1
<1>3. ~(z <= -1)
  <2> SUFFICES ASSUME z <= -1 PROVE FALSE
    OBVIOUS
  <2> DEFINE w == -z
  <2>1. w \in Int /\ w >= 1 /\ z * n = -(w * n)
    BY <1>1
  <2> HIDE DEF w
  <2>2. w * n >= n /\ w * n \in Int
    BY <2>1
  <2> QED
    BY <1>1, <2>1, <2>2
<1>4. z = 0
  BY <1>1, <1>2, <1>3
<1> QED
  BY <1>4 DEF z

\* at holds the first m turns of drawLine.
Turns(at, start, end, dx, dy, sx, sy, m) ==
  at = [k \in 0..m |->
    IF k = 0 THEN [p |-> start, err |-> dx - dy]
    ELSE IF at[k - 1].p = end THEN at[k - 1]
         ELSE LineStep(at[k - 1].p, at[k - 1].err, dx, dy, sx, sy)]

\* There are any number of turns.
LEMMA TurnsExist ==
  ASSUME NEW start, NEW end, NEW dx, NEW dy, NEW sx, NEW sy, NEW n \in Nat
  PROVE  \E f : Turns(f, start, end, dx, dy, sx, sy, n)
<1> DEFINE T(f, m) == Turns(f, start, end, dx, dy, sx, sy, m)
           First0 == [p |-> start, err |-> dx - dy]
           Step(s) == IF s.p = end THEN s ELSE LineStep(s.p, s.err, dx, dy, sx, sy)
           S == {m \in Nat : \E f : T(f, m)}
<1>1. 0 \in S
  <2>1. T([i \in 0..0 |-> First0], 0)
    <3> HIDE DEF First0
    <3>1. [i \in 0..0 |-> First0] = [k \in 0..0 |-> IF k = 0 THEN First0 ELSE
             IF [i \in 0..0 |-> First0][k - 1].p = end THEN [i \in 0..0 |-> First0][k - 1]
             ELSE LineStep([i \in 0..0 |-> First0][k - 1].p, [i \in 0..0 |-> First0][k - 1].err, dx, dy, sx, sy)]
      OBVIOUS
    <3> QED
      BY <3>1 DEF Turns, First0
  <2> HIDE DEF T
  <2> QED
    BY <2>1
<1>2. ASSUME NEW m \in Nat, m \in S
      PROVE  m + 1 \in S
  <2>1. PICK f : T(f, m)
    BY <1>2
  <2> DEFINE last == Step(f[m])
             g == [i \in 0..m + 1 |-> IF i = m + 1 THEN last ELSE f[i]]
  <2>2. ASSUME NEW i \in 0..m + 1
        PROVE  g[i] = IF i = 0 THEN First0 ELSE Step(g[i - 1])
    <3> HIDE DEF Step
    <3>1. CASE i = m + 1
      <4>1. g[i] = last /\ g[i - 1] = f[m] /\ i # 0
        BY <3>1
      <4> QED
        BY <4>1
    <3>2. CASE i # m + 1
      <4>1. i \in 0..m /\ g[i] = f[i] /\ (i # 0 => g[i - 1] = f[i - 1])
        BY <3>2
      <4>2. f[i] = IF i = 0 THEN First0 ELSE Step(f[i - 1])
        BY <2>1, <4>1 DEF Turns, Step
      <4> HIDE DEF First0
      <4> QED
        BY <4>1, <4>2
    <3> QED
      BY <3>1, <3>2
  <2>3. T(g, m + 1)
    <3>1. g = [i \in 0..m + 1 |-> g[i]]
      OBVIOUS
    <3> HIDE DEF g
    <3> QED
      BY <2>2, <3>1 DEF Turns
  <2> HIDE DEF g
  <2>4. \E h : T(h, m + 1)
    BY <2>3
  <2> QED
    BY <2>4
<1>3. \A m \in Nat : m \in S => m + 1 \in S
  BY <1>2
<1> HIDE DEF S
<1>4. Nat \subseteq S
  BY <1>1, <1>3, Induction
<1> QED
  BY <1>4 DEF S

\* f holds m turns from <<x, y>>.
Segment(f, x, y, dx, dy, sx, sy, m) ==
  /\ x \in Int /\ y \in Int /\ dx \in Nat /\ dy \in Nat /\ sx \in Sign /\ sy \in Sign /\ m \in Nat
  /\ Turns(f, <<x, y>>, <<x + sx * dx, y + sy * dy>>, dx, dy, sx, sy, m)

\* A line from <<x, y>> that is not steep, turn by turn.
LEMMA FlatLine ==
  ASSUME NEW f, NEW x, NEW y, NEW dx, NEW dy, NEW sx, NEW sy, NEW m,
         Segment(f, x, y, dx, dy, sx, sy, m), dy <= dx, NEW k \in 0..m
  PROVE  /\ k < dx => \E j \in Nat : Drawing(f[k], k, j, dx, x, y, dx, dy, sx, sy)
         /\ k >= dx => f[k].p = <<x + sx * dx, y + sy * dy>>
         /\ k < dx /\ k + 1 \in 0..m => f[k + 1] = LineStep(f[k].p, f[k].err, dx, dy, sx, sy)
<1>0. /\ x \in Int /\ y \in Int /\ dx \in Nat /\ dy \in Nat /\ sx \in Sign /\ sy \in Sign /\ m \in Nat
      /\ Turns(f, <<x, y>>, <<x + sx * dx, y + sy * dy>>, dx, dy, sx, sy, m)
  BY DEF Segment
<1> USE <1>0
<1> DEFINE end == <<x + sx * dx, y + sy * dy>>
           At(n, j) == Drawing(f[n], n, j, dx, x, y, dx, dy, sx, sy)
           Good(n) == /\ n <= dx => \E j \in Nat : At(n, j)
                      /\ n > dx => f[n].p = end
           S == {n \in Nat : n \in 0..m => Good(n)}
<1>1. \A n \in 0..m : f[n] = IF n = 0 THEN [p |-> <<x, y>>, err |-> dx - dy]
                             ELSE IF f[n - 1].p = end THEN f[n - 1]
                             ELSE LineStep(f[n - 1].p, f[n - 1].err, dx, dy, sx, sy)
  BY DEF Turns
<1> HIDE DEF end
<1>2. 0 \in S
  <2>1. At(0, 0)
    <3>1. x + sx * 0 = x /\ y + sy * 0 = y /\ (0 + 1) * dx - (0 + 1) * dy = dx - dy
      BY DEF Sign
    <3>2. 0 * dx - 0 * dy = 0
      OBVIOUS
    <3>3. f[0] = [p |-> <<x, y>>, err |-> dx - dy]
      BY <1>1
    <3> QED
      BY <3>1, <3>2, <3>3 DEF Drawing
  <2> HIDE DEF At
  <2> QED
    BY <2>1
<1>3. ASSUME NEW n \in Nat, n < dx, NEW j \in Nat, At(n, j)
      PROVE  f[n].p # end
  <2>1. sx * n # sx * dx
    BY <1>3 DEF Sign
  <2>2. x + sx * n # x + sx * dx
    BY <1>3, <2>1 DEF Sign
  <2> QED
    BY <1>3, <2>2 DEF end, Drawing
<1>4. ASSUME NEW j \in Nat, At(dx, j)
      PROVE  f[dx].p = end
  <2>1. CASE dx = 0
    <3>1. dy = 0 /\ j = 0
      BY <1>4, <2>1 DEF Drawing
    <3>2. f[dx].p = <<x + sx * dx, y + sy * j>>
      BY <1>4 DEF Drawing
    <3> QED
      BY <3>1, <3>2 DEF end
  <2>2. CASE dx # 0
    <3>1. -dx <= 2 * (j * dx - dx * dy) /\ 2 * (j * dx - dx * dy) <= dx
      BY <1>4 DEF Drawing
    <3>2. j * dx - dx * dy = (j - dy) * dx
      OBVIOUS
    <3>3. j = dy
      BY <2>2, <3>1, <3>2, SmallMultiple
    <3> QED
      BY <1>4, <3>3 DEF end, Drawing
  <2> QED
    BY <2>1, <2>2
<1> HIDE DEF At
<1>5. ASSUME NEW n \in Nat, n \in S
      PROVE  n + 1 \in S
  <2> SUFFICES ASSUME n + 1 \in 0..m PROVE Good(n + 1)
    OBVIOUS
  <2>1. n \in 0..m /\ Good(n) /\ (n + 1) - 1 = n /\ n + 1 # 0
    BY <1>5
  <2>2. f[n + 1] = IF f[n].p = end THEN f[n] ELSE LineStep(f[n].p, f[n].err, dx, dy, sx, sy)
    BY <1>1, <2>1
  <2>3. CASE n < dx
    <3>1. PICK j \in Nat : At(n, j)
      BY <2>1, <2>3
    <3>2. f[n + 1] = LineStep(f[n].p, f[n].err, dx, dy, sx, sy)
      BY <1>3, <2>2, <2>3, <3>1
    <3>3. n \in 0..dx - 1
      BY <2>3
    <3>4. PICK h \in Nat : At(n + 1, h)
      <4> DEFINE s == f[n]
      <4>1. Drawing(s, n, j, dx, x, y, dx, dy, sx, sy)
        BY <3>1 DEF At
      <4> HIDE DEF s
      <4>2. \E h \in Nat :
              Drawing(LineStep(s.p, s.err, dx, dy, sx, sy), n + 1, h, dx, x, y, dx, dy, sx, sy)
        BY <3>3, <4>1, FlatTurn, Zenon
      <4> QED
        BY <3>2, <4>2 DEF At, s
    <3>5. h \in Nat /\ n + 1 <= dx
      BY <2>3, <3>4
    <3> QED
      BY <3>4, <3>5
  <2>4. CASE n >= dx
    <3>1. f[n].p = end
      <4>1. CASE n = dx
        BY <1>4, <2>1, <4>1
      <4>2. CASE n > dx
        BY <2>1, <4>2
      <4> QED
        BY <2>4, <4>1, <4>2
    <3>2. f[n + 1].p = end
      BY <2>2, <3>1
    <3> QED
      BY <2>4, <3>2
  <2> QED
    BY <2>3, <2>4
<1>6. \A n \in Nat : n \in S => n + 1 \in S
  BY <1>5
<1>7. Nat \subseteq S
  <2> HIDE DEF S
  <2> QED
    BY <1>2, <1>6, Induction
<1>8. Good(k)
  BY <1>7
<1>9. ASSUME k >= dx
      PROVE  f[k].p = end
  <2>1. CASE k = dx
    BY <1>4, <1>8, <2>1
  <2>2. CASE k > dx
    BY <1>8, <2>2
  <2> QED
    BY <1>9, <2>1, <2>2
<1>10. ASSUME k < dx, k + 1 \in 0..m
       PROVE  f[k + 1] = LineStep(f[k].p, f[k].err, dx, dy, sx, sy)
  <2>1. PICK j \in Nat : At(k, j)
    BY <1>8, <1>10
  <2>2. f[k].p # end
    BY <1>3, <1>10, <2>1
  <2>3. (k + 1) - 1 = k /\ k + 1 # 0
    OBVIOUS
  <2> QED
    BY <1>1, <1>10, <2>2, <2>3
<1> QED
  BY <1>8, <1>9, <1>10 DEF end, At

\* A line that is steep, turn by turn.
LEMMA SteepLine ==
  ASSUME NEW f, NEW x, NEW y, NEW dx, NEW dy, NEW sx, NEW sy, NEW m,
         Segment(f, x, y, dx, dy, sx, sy, m), dx < dy, NEW k \in 0..m
  PROVE  /\ k < dy => \E i \in Nat : Drawing(f[k], i, k, dy, x, y, dx, dy, sx, sy)
         /\ k >= dy => f[k].p = <<x + sx * dx, y + sy * dy>>
         /\ k < dy /\ k + 1 \in 0..m => f[k + 1] = LineStep(f[k].p, f[k].err, dx, dy, sx, sy)
<1>0. /\ x \in Int /\ y \in Int /\ dx \in Nat /\ dy \in Nat /\ sx \in Sign /\ sy \in Sign /\ m \in Nat
      /\ Turns(f, <<x, y>>, <<x + sx * dx, y + sy * dy>>, dx, dy, sx, sy, m)
  BY DEF Segment
<1> USE <1>0
<1> DEFINE end == <<x + sx * dx, y + sy * dy>>
           At(n, i) == Drawing(f[n], i, n, dy, x, y, dx, dy, sx, sy)
           Good(n) == /\ n <= dy => \E i \in Nat : At(n, i)
                      /\ n > dy => f[n].p = end
           S == {n \in Nat : n \in 0..m => Good(n)}
<1>1. \A n \in 0..m : f[n] = IF n = 0 THEN [p |-> <<x, y>>, err |-> dx - dy]
                             ELSE IF f[n - 1].p = end THEN f[n - 1]
                             ELSE LineStep(f[n - 1].p, f[n - 1].err, dx, dy, sx, sy)
  BY DEF Turns
<1> HIDE DEF end
<1>2. 0 \in S
  <2>1. At(0, 0)
    <3>1. x + sx * 0 = x /\ y + sy * 0 = y /\ (0 + 1) * dx - (0 + 1) * dy = dx - dy
      BY DEF Sign
    <3>2. 0 * dx - 0 * dy = 0
      OBVIOUS
    <3>3. f[0] = [p |-> <<x, y>>, err |-> dx - dy]
      BY <1>1
    <3> QED
      BY <3>1, <3>2, <3>3 DEF Drawing
  <2> HIDE DEF At
  <2> QED
    BY <2>1
<1>3. ASSUME NEW n \in Nat, n < dy, NEW i \in Nat, At(n, i)
      PROVE  f[n].p # end
  <2>1. sy * n # sy * dy
    BY <1>3 DEF Sign
  <2>2. y + sy * n # y + sy * dy
    BY <1>3, <2>1 DEF Sign
  <2> QED
    BY <1>3, <2>2 DEF end, Drawing
<1>4. ASSUME NEW i \in Nat, At(dy, i)
      PROVE  f[dy].p = end
  <2>1. -dy <= 2 * (dy * dx - i * dy) /\ 2 * (dy * dx - i * dy) <= dy
    BY <1>4 DEF Drawing
  <2>2. dy * dx - i * dy = (dx - i) * dy
    OBVIOUS
  <2>3. dx = i
    BY <2>1, <2>2, SmallMultiple
  <2> QED
    BY <1>4, <2>3 DEF end, Drawing
<1> HIDE DEF At
<1>5. ASSUME NEW n \in Nat, n \in S
      PROVE  n + 1 \in S
  <2> SUFFICES ASSUME n + 1 \in 0..m PROVE Good(n + 1)
    OBVIOUS
  <2>1. n \in 0..m /\ Good(n) /\ (n + 1) - 1 = n /\ n + 1 # 0
    BY <1>5
  <2>2. f[n + 1] = IF f[n].p = end THEN f[n] ELSE LineStep(f[n].p, f[n].err, dx, dy, sx, sy)
    BY <1>1, <2>1
  <2>3. CASE n < dy
    <3>1. PICK i \in Nat : At(n, i)
      BY <2>1, <2>3
    <3>2. f[n + 1] = LineStep(f[n].p, f[n].err, dx, dy, sx, sy)
      BY <1>3, <2>2, <2>3, <3>1
    <3>3. n \in 0..dy - 1
      BY <2>3
    <3>4. PICK h \in Nat : At(n + 1, h)
      <4> DEFINE s == f[n]
      <4>1. Drawing(s, i, n, dy, x, y, dx, dy, sx, sy)
        BY <3>1 DEF At
      <4> HIDE DEF s
      <4>2. \E h \in Nat :
              Drawing(LineStep(s.p, s.err, dx, dy, sx, sy), h, n + 1, dy, x, y, dx, dy, sx, sy)
        BY <3>3, <4>1, SteepTurn, Zenon
      <4> QED
        BY <3>2, <4>2 DEF At, s
    <3>5. h \in Nat /\ n + 1 <= dy
      BY <2>3, <3>4
    <3> QED
      BY <3>4, <3>5
  <2>4. CASE n >= dy
    <3>1. f[n].p = end
      <4>1. CASE n = dy
        BY <1>4, <2>1, <4>1
      <4>2. CASE n > dy
        BY <2>1, <4>2
      <4> QED
        BY <2>4, <4>1, <4>2
    <3>2. f[n + 1].p = end
      BY <2>2, <3>1
    <3> QED
      BY <2>4, <3>2
  <2> QED
    BY <2>3, <2>4
<1>6. \A n \in Nat : n \in S => n + 1 \in S
  BY <1>5
<1>7. Nat \subseteq S
  <2> HIDE DEF S
  <2> QED
    BY <1>2, <1>6, Induction
<1>8. Good(k)
  BY <1>7
<1>9. ASSUME k >= dy
      PROVE  f[k].p = end
  <2>1. CASE k = dy
    BY <1>4, <1>8, <2>1
  <2>2. CASE k > dy
    BY <1>8, <2>2
  <2> QED
    BY <1>9, <2>1, <2>2
<1>10. ASSUME k < dy, k + 1 \in 0..m
       PROVE  f[k + 1] = LineStep(f[k].p, f[k].err, dx, dy, sx, sy)
  <2>1. PICK i \in Nat : At(k, i)
    BY <1>8, <1>10
  <2>2. f[k].p # end
    BY <1>3, <1>10, <2>1
  <2>3. (k + 1) - 1 = k /\ k + 1 # 0
    OBVIOUS
  <2> QED
    BY <1>1, <1>10, <2>2, <2>3
<1> QED
  BY <1>8, <1>9, <1>10 DEF end, At

\* Positions along an axis, from z on.
LEMMA AlongAxis ==
  ASSUME NEW z \in Int, NEW sign \in Sign, NEW n \in Nat,
         NEW c \in Least(z, z + sign * n)..Most(z, z + sign * n)
  PROVE  /\ sign * (c - z) \in 0..n /\ z + sign * (sign * (c - z)) = c
         /\ \A l \in 0..n : z + sign * l = c => l = sign * (c - z)
<1> DEFINE e == z + sign * n
<1>1. CASE sign = 1
  <2>1. e = z + n /\ e \in Int
    BY <1>1
  <2>2. c \in z..z + n
    BY <1>1 DEF Least, Most
  <2> QED
    BY <1>1, <2>2
<1>2. CASE sign = -1
  <2>1. e = z - n /\ e \in Int
    BY <1>2
  <2>2. c \in z - n..z
    BY <1>2 DEF Least, Most
  <2> QED
    BY <1>2, <2>2
<1> QED
  BY <1>1, <1>2 DEF Sign

\* Two positions next to each other on an axis.
LEMMA StepAlongAxis ==
  ASSUME NEW z \in Int, NEW sign \in Sign, NEW n \in Nat, NEW k \in 0..n - 1
  PROVE  /\ z + sign * (k + 1) # z + sign * k
         /\ Abs((z + sign * (k + 1)) - (z + sign * k)) = 1
         /\ Abs((z + sign * n) - (z + sign * (k + 1))) < Abs((z + sign * n) - (z + sign * k))
<1> DEFINE v == z + sign * (k + 1)
           w == z + sign * k
           e == z + sign * n
<1>1. CASE sign = 1
  <2>1. v - w = 1 /\ e - v = n - k - 1 /\ e - w = n - k /\ v # w
    BY <1>1
  <2>2. n - k \in Nat /\ n - k >= 1
    OBVIOUS
  <2> HIDE DEF v, w, e
  <2>3. Abs(v - w) = 1
    BY <2>1 DEF Abs
  <2>4. Abs(e - v) = n - k - 1 /\ Abs(e - w) = n - k
    BY <2>1, <2>2 DEF Abs
  <2>5. v # w /\ Abs(v - w) = 1 /\ Abs(e - v) < Abs(e - w)
    BY <2>1, <2>2, <2>3, <2>4
  <2> QED
    BY <2>5 DEF v, w, e
<1>2. CASE sign = -1
  <2>1. v - w = -1 /\ e - v = -(n - k - 1) /\ e - w = -(n - k) /\ v # w
    BY <1>2
  <2>2. n - k \in Nat /\ n - k >= 1
    OBVIOUS
  <2> HIDE DEF v, w, e
  <2>3. Abs(v - w) = 1
    BY <2>1 DEF Abs
  <2>4. Abs(e - v) = n - k - 1 /\ Abs(e - w) = n - k
    BY <2>1, <2>2 DEF Abs
  <2>5. v # w /\ Abs(v - w) = 1 /\ Abs(e - v) < Abs(e - w)
    BY <2>1, <2>2, <2>3, <2>4
  <2> QED
    BY <2>5 DEF v, w, e
<1> QED
  BY <1>1, <1>2 DEF Sign

\* IsLine along an axis.
IsLineBy(tiles, a, b, axis) ==
  /\ {a, b} \subseteq tiles
  /\ \A c \in Least(a[axis], b[axis])..Most(a[axis], b[axis]) :
       \E t \in tiles : t[axis] = c /\ \A u \in tiles : u[axis] = c => u = t
  /\ \A t \in tiles : NearEdge(a, b, t)
  /\ \A t \in tiles \ {b} : \E u \in tiles \ {t} :
       Most(Abs(u[1] - t[1]), Abs(u[2] - t[2])) = 1 /\ Abs(b[axis] - u[axis]) < Abs(b[axis] - t[axis])

\* The tiles t advance along an axis, from a to b, and stay near the edge.
Path(t, a, b, n, sign, axis, other) ==
  /\ t \in [0..n -> Int \X Int]
  /\ n = Most(Abs(b[1] - a[1]), Abs(b[2] - a[2]))
  /\ \/ axis = 1 /\ other = 2 /\ Abs(b[1] - a[1]) = n
     \/ axis = 2 /\ other = 1 /\ Abs(b[1] - a[1]) # n
  /\ b[axis] = a[axis] + sign * n
  /\ t[0] = a /\ t[n] = b
  /\ \A k \in 0..n : t[k][axis] = a[axis] + sign * k /\ NearEdge(a, b, t[k])
  /\ \A k \in 0..n - 1 : Abs(t[k + 1][other] - t[k][other]) <= 1

\* Such tiles are a line.
LEMMA TilesAreLine ==
  ASSUME NEW a \in Int \X Int, NEW b \in Int \X Int, NEW n \in Nat, NEW sign \in Sign,
         NEW axis, NEW other, NEW t, Path(t, a, b, n, sign, axis, other)
  PROVE  IsLine({t[k] : k \in 0..n}, a, b)
<1> DEFINE tiles == {t[k] : k \in 0..n}
           z == a[axis]
<1>0. (axis = 1 /\ other = 2) \/ (axis = 2 /\ other = 1)
  BY DEF Path
<1>1. /\ z \in Int /\ z = a[axis] /\ b[axis] = z + sign * n
      /\ \A k \in 0..n : t[k][axis] = z + sign * k /\ t[k] \in Int \X Int
  BY DEF Path
<1> HIDE DEF z
<1>2. {a, b} \subseteq tiles
  BY DEF Path
<1>3. ASSUME NEW c \in Least(a[axis], b[axis])..Most(a[axis], b[axis])
      PROVE  \E p \in tiles : p[axis] = c /\ \A u \in tiles : u[axis] = c => u = p
  <2> DEFINE k == sign * (c - z)
  <2> DEFINE e == b[axis]
  <2>0. e = z + sign * n /\ c \in Least(z, e)..Most(z, e)
    BY <1>1, <1>3
  <2> HIDE DEF e
  <2>1. k \in 0..n /\ z + sign * k = c
    <3>1. c \in Least(z, z + sign * n)..Most(z, z + sign * n)
      BY <2>0
    <3> QED
      BY <1>1, <3>1, AlongAxis
  <2>2. ASSUME NEW l \in 0..n, z + sign * l = c
        PROVE  l = k
    <3>1. c \in Least(z, z + sign * n)..Most(z, z + sign * n)
      BY <2>0
    <3> QED
      BY <1>1, <2>2, <3>1, AlongAxis
  <2> HIDE DEF k
  <2>3. t[k] \in tiles /\ t[k][axis] = c
    BY <1>1, <2>1
  <2>4. ASSUME NEW u \in tiles, u[axis] = c
        PROVE  u = t[k]
    <3>1. PICK l \in 0..n : u = t[l]
      OBVIOUS
    <3> QED
      BY <1>1, <2>2, <2>4, <3>1
  <2> HIDE DEF tiles
  <2> QED
    BY <2>3, <2>4
<1>4. ASSUME NEW p \in tiles \ {b}
      PROVE  \E u \in tiles \ {p} :
               /\ Most(Abs(u[1] - p[1]), Abs(u[2] - p[2])) = 1
               /\ Abs(b[axis] - u[axis]) < Abs(b[axis] - p[axis])
  <2>1. PICK k \in 0..n : p = t[k]
    OBVIOUS
  <2>2. k \in 0..n - 1 /\ k + 1 \in 0..n
    <3>1. k # n
      BY <1>4, <2>1 DEF Path
    <3> QED
      BY <3>1
  <2> DEFINE u == t[k + 1]
  <2>3. /\ u[axis] = z + sign * (k + 1) /\ p[axis] = z + sign * k
        /\ u \in tiles /\ u \in Int \X Int /\ p \in Int \X Int
    BY <1>1, <2>1, <2>2
  <2>4. Abs(u[other] - p[other]) <= 1
    BY <2>1, <2>2 DEF Path
  <2> HIDE DEF u, tiles
  <2> DEFINE v == u[axis]
             w == p[axis]
             e == b[axis]
  <2>5. v = z + sign * (k + 1) /\ w = z + sign * k /\ e = z + sign * n /\ k \in Nat /\ n - k > 0
    BY <1>1, <2>2, <2>3
  <2> HIDE DEF v, w, e
  <2>6. v # w /\ Abs(v - w) = 1 /\ Abs(e - v) < Abs(e - w)
    <3>1. /\ z + sign * (k + 1) # z + sign * k
          /\ Abs((z + sign * (k + 1)) - (z + sign * k)) = 1
          /\ Abs((z + sign * n) - (z + sign * (k + 1))) < Abs((z + sign * n) - (z + sign * k))
      BY <1>1, <2>2, StepAlongAxis, Zenon
    <3> QED
      BY <2>5, <3>1
  <2>7. Abs(u[axis] - p[axis]) = 1
    BY <2>6 DEF v, w
  <2>8. Most(Abs(u[1] - p[1]), Abs(u[2] - p[2])) = 1
    <3>1. CASE axis = 1 /\ other = 2
      <4>1. Abs(u[1] - p[1]) = 1 /\ Abs(u[2] - p[2]) <= 1
        BY <2>4, <2>7, <3>1
      <4>2. u[2] - p[2] \in Int
        BY <2>3
      <4>3. Abs(u[2] - p[2]) \in Int
        BY <4>2 DEF Abs
      <4> QED
        BY <4>1, <4>3 DEF Most
    <3>2. CASE axis = 2 /\ other = 1
      <4>1. Abs(u[2] - p[2]) = 1 /\ Abs(u[1] - p[1]) <= 1
        BY <2>4, <2>7, <3>2
      <4>2. u[1] - p[1] \in Int
        BY <2>3
      <4>3. Abs(u[1] - p[1]) \in Int
        BY <4>2 DEF Abs
      <4> QED
        BY <4>1, <4>3 DEF Most
    <3> QED
      BY <1>0, <3>1, <3>2
  <2>9. Abs(b[axis] - u[axis]) < Abs(b[axis] - p[axis])
    BY <2>6 DEF v, w, e
  <2>10. u # p
    BY <2>6 DEF v, w
  <2> QED
    BY <2>3, <2>8, <2>9, <2>10
<1>5. \A p \in tiles : NearEdge(a, b, p)
  BY DEF Path
<1> HIDE DEF tiles
<1>6. axis = IF Abs(b[1] - a[1]) = Most(Abs(b[1] - a[1]), Abs(b[2] - a[2])) THEN 1 ELSE 2
  BY DEF Path
<1>7. IsLine(tiles, a, b)
  <2>1. IsLineBy(tiles, a, b, axis)
    BY <1>2, <1>3, <1>4, <1>5, Zenon DEF IsLineBy
  <2>2. IsLine(tiles, a, b) <=>
          IsLineBy(tiles, a, b,
            IF Abs(b[1] - a[1]) = Most(Abs(b[1] - a[1]), Abs(b[2] - a[2])) THEN 1 ELSE 2)
    BY Zenon DEF IsLine, IsLineBy
  <2> QED
    BY <1>6, <2>1, <2>2, Zenon
<1> QED
  BY <1>7 DEF tiles

\* The sizes and directions drawLine computes.
Measures(a, b, dx, dy, sx, sy) ==
  /\ dx = Abs(b[1] - a[1]) /\ dy = Abs(b[2] - a[2]) /\ dx \in Nat /\ dy \in Nat
  /\ sx = IF a[1] < b[1] THEN 1 ELSE -1
  /\ sy = IF a[2] < b[2] THEN 1 ELSE -1

\* What drawLine visits.
LEMMA DrawLineTurns ==
  ASSUME NEW a, NEW b, NEW dx, NEW dy, NEW sx, NEW sy, Measures(a, b, dx, dy, sx, sy)
  PROVE  \E f : /\ Turns(f, a, b, dx, dy, sx, sy, dx + dy)
                /\ drawLine(a, b) = {f[k].p : k \in 0..dx + dy}
<1> DEFINE f == CHOOSE at : at = [k \in 0..dx + dy |->
                  IF k = 0 THEN [p |-> a, err |-> dx - dy]
                  ELSE IF at[k - 1].p = b THEN at[k - 1]
                       ELSE LineStep(at[k - 1].p, at[k - 1].err, dx, dy, sx, sy)]
<1>1. drawLine(a, b) = {f[k].p : k \in 0..dx + dy}
  BY DEF drawLine, Measures
<1>2. \E g : Turns(g, a, b, dx, dy, sx, sy, dx + dy)
  <2>1. dx + dy \in Nat
    BY DEF Measures
  <2> QED
    BY <2>1, TurnsExist, Zenon
<1>3. Turns(f, a, b, dx, dy, sx, sy, dx + dy)
  BY <1>2 DEF Turns
<1> HIDE DEF f
<1> QED
  BY <1>1, <1>3

\* The distance of a position along an axis.
LEMMA Distance ==
  ASSUME NEW z \in Int, NEW sign \in Sign, NEW n \in Nat, NEW e, e = z + sign * n
  PROVE  Abs(e - z) = n
<1>1. CASE sign = 1
  <2>1. e - z = n
    BY <1>1
  <2> QED
    BY <2>1 DEF Abs
<1>2. CASE sign = -1
  <2>1. e - z = -n
    BY <1>2
  <2> QED
    BY <2>1 DEF Abs
<1> QED
  BY <1>1, <1>2 DEF Sign

\* Where drawLine is, it is near the edge.
LEMMA DrawingIsNear ==
  ASSUME NEW a \in Int \X Int, NEW b \in Int \X Int, NEW dx \in Nat, NEW dy \in Nat,
         NEW sx \in Sign, NEW sy \in Sign, NEW i \in Nat, NEW j \in Nat, NEW s, NEW n,
         b = <<a[1] + sx * dx, a[2] + sy * dy>>,
         Drawing(s, i, j, n, a[1], a[2], dx, dy, sx, sy),
         \/ n = dx /\ i <= dx /\ dx > 0
         \/ n = dy /\ j <= dy /\ dy > 0
  PROVE  s.p \in Int \X Int /\ NearEdge(a, b, s.p)
<1> DEFINE x == a[1]
           y == a[2]
           d == j * dx - i * dy
<1>1. /\ s.p = <<x + sx * i, y + sy * j>> /\ x \in Int /\ y \in Int /\ d \in Int
      /\ -n <= 2 * d /\ 2 * d <= n
      /\ b[1] = x + sx * dx /\ b[2] = y + sy * dy
  <2>1. j * dx \in Nat /\ i * dy \in Nat
    OBVIOUS
  <2> QED
    BY <2>1 DEF Drawing
<1>2. Side(a, b, s.p) = sx * sy * d
  <2>1. Side(a, b, s.p) = (b[1] - x) * ((y + sy * j) - y) - (b[2] - y) * ((x + sx * i) - x)
    BY <1>1 DEF Side
  <2>2. /\ b[1] - x = sx * dx /\ b[2] - y = sy * dy
        /\ (y + sy * j) - y = sy * j /\ (x + sx * i) - x = sx * i
    BY <1>1 DEF Sign
  <2>3. (sx * dx) * (sy * j) - (sy * dy) * (sx * i) = sx * sy * d
    BY DEF Sign
  <2> QED
    BY <2>1, <2>2, <2>3
<1>3. 2 * Abs(Side(a, b, s.p)) <= n
  <2> HIDE DEF d
  <2>1. sx * sy * d = d \/ sx * sy * d = -d
    BY <1>1 DEF Sign
  <2>2. Side(a, b, s.p) \in Int
    BY <1>1, <1>2, <2>1
  <2> QED
    BY <1>1, <1>2, <2>1, <2>2 DEF Abs
<1>4. Abs(b[1] - x) = dx /\ Abs(b[2] - y) = dy
  BY <1>1, Distance
<1> HIDE DEF x, y
<1>5. i <= dx => Between(x + sx * i, x, b[1])
  <2>1. CASE sx = 1
    BY <1>1, <2>1 DEF Between, Least, Most
  <2>2. CASE sx = -1
    BY <1>1, <2>2 DEF Between, Least, Most
  <2> QED
    BY <2>1, <2>2 DEF Sign
<1>6. j <= dy => Between(y + sy * j, y, b[2])
  <2>1. CASE sy = 1
    BY <1>1, <2>1 DEF Between, Least, Most
  <2>2. CASE sy = -1
    BY <1>1, <2>2 DEF Between, Least, Most
  <2> QED
    BY <2>1, <2>2 DEF Sign
<1>7. s.p \in Int \X Int
  BY <1>1 DEF Sign
<1>8. (dx > 0 => x # b[1]) /\ (dy > 0 => y # b[2])
  BY <1>1 DEF Sign
<1> QED
  BY <1>1, <1>3, <1>4, <1>5, <1>6, <1>7, <1>8 DEF NearEdge, x, y

\* drawLine draws lines.
LEMMA LineIsDrawn ==
  ASSUME NEW a \in Int \X Int, NEW b \in Int \X Int
  PROVE  IsLine(drawLine(a, b), a, b)
<1> DEFINE x == a[1]
           y == a[2]
           dx == Abs(b[1] - a[1])
           dy == Abs(b[2] - a[2])
           sx == IF a[1] < b[1] THEN 1 ELSE -1
           sy == IF a[2] < b[2] THEN 1 ELSE -1
           m == dx + dy
<1>1. /\ x \in Int /\ y \in Int /\ a = <<x, y>> /\ b[1] \in Int /\ b[2] \in Int /\ b = <<b[1], b[2]>>
  OBVIOUS
<1>2. /\ dx \in Nat /\ dy \in Nat /\ sx \in Sign /\ sy \in Sign
      /\ b[1] = x + sx * dx /\ b[2] = y + sy * dy
  <2>1. dx \in Nat /\ dy \in Nat
    BY <1>1 DEF Abs
  <2>2. b[1] = x + sx * dx
    BY <1>1 DEF Abs
  <2>3. b[2] = y + sy * dy
    BY <1>1 DEF Abs
  <2> QED
    BY <2>1, <2>2, <2>3 DEF Sign
<1>3. PICK f : /\ Turns(f, a, b, dx, dy, sx, sy, m)
               /\ drawLine(a, b) = {f[k].p : k \in 0..m}
  <2>1. Measures(a, b, dx, dy, sx, sy)
    BY <1>2 DEF Measures
  <2> HIDE DEF dx, dy, sx, sy
  <2>2. \E f : /\ Turns(f, a, b, dx, dy, sx, sy, dx + dy)
               /\ drawLine(a, b) = {f[k].p : k \in 0..dx + dy}
    BY <2>1, DrawLineTurns
  <2> QED
    BY <2>2
<1>4. dx = Abs(b[1] - a[1]) /\ dy = Abs(b[2] - a[2])
  OBVIOUS
<1> HIDE DEF dx, dy, sx, sy, x, y
<1>5. m \in Nat /\ dx \in 0..m /\ dy \in 0..m
  BY <1>2
<1>6. b = <<x + sx * dx, y + sy * dy>>
  BY <1>1, <1>2
<1>7. Segment(f, x, y, dx, dy, sx, sy, m)
  BY <1>1, <1>2, <1>3, <1>5, <1>6 DEF Segment
<1> HIDE DEF m
<1>8. f[0].p = a
  BY <1>3, <1>5 DEF Turns
<1>9. \A n \in 0..m : n >= 0 /\ f[n].p = b => NearEdge(a, b, f[n].p)
  <2>1. CASE dx = 0 /\ dy = 0
    <3>1. a = b
      BY <1>1, <1>2, <1>6, <2>1 DEF Sign
    <3> QED
      BY <3>1 DEF NearEdge
  <2>2. CASE dx # 0 \/ dy # 0
    <3>1. Side(a, b, b) = 0
      BY <1>1 DEF Side
    <3>2. Between(b[1], a[1], b[1]) /\ Between(b[2], a[2], b[2])
      BY <1>1 DEF Between, Least, Most, x, y
    <3>3. a[1] # b[1] \/ a[2] # b[2]
      BY <1>1, <1>2, <2>2 DEF Sign, x, y
    <3>4. 2 * Abs(Side(a, b, b)) = 0
      BY <3>1 DEF Abs
    <3> QED
      BY <1>2, <1>4, <3>2, <3>3, <3>4 DEF NearEdge
  <2> QED
    BY <2>1, <2>2
<1>10. CASE dy <= dx
  <2> DEFINE t == [k \in 0..dx |-> f[k].p]
  <2>1. ASSUME NEW k \in 0..m
        PROVE  /\ k < dx => \E j \in Nat : Drawing(f[k], k, j, dx, x, y, dx, dy, sx, sy)
               /\ k >= dx => f[k].p = b
               /\ k < dx /\ k + 1 \in 0..m => f[k + 1] = LineStep(f[k].p, f[k].err, dx, dy, sx, sy)
    <3>1. /\ k < dx => \E j \in Nat : Drawing(f[k], k, j, dx, x, y, dx, dy, sx, sy)
          /\ k >= dx => f[k].p = <<x + sx * dx, y + sy * dy>>
          /\ k < dx /\ k + 1 \in 0..m => f[k + 1] = LineStep(f[k].p, f[k].err, dx, dy, sx, sy)
      BY <1>7, <1>10, FlatLine
    <3> QED
      BY <1>6, <3>1
  <2>2. ASSUME NEW k \in 0..dx
        PROVE  f[k].p \in Int \X Int /\ f[k].p[1] = x + sx * k /\ NearEdge(a, b, f[k].p)
    <3>1. CASE k < dx
      <4>1. PICK j \in Nat : Drawing(f[k], k, j, dx, x, y, dx, dy, sx, sy)
        BY <1>2, <1>5, <2>1, <3>1
      <4>2. f[k].p \in Int \X Int /\ NearEdge(a, b, f[k].p)
        <5>1. /\ Drawing(f[k], k, j, dx, a[1], a[2], dx, dy, sx, sy)
              /\ b = <<a[1] + sx * dx, a[2] + sy * dy>>
              /\ dx = dx /\ k <= dx /\ dx > 0 /\ k \in Nat
          BY <1>2, <1>6, <3>1, <4>1 DEF x, y
        <5> QED
          BY <1>2, <4>1, <5>1, DrawingIsNear, Zenon
      <4> QED
        BY <4>1, <4>2 DEF Drawing
    <3>2. CASE k = dx
      BY <1>2, <1>5, <1>9, <2>1, <3>2
    <3> QED
      BY <1>2, <3>1, <3>2
  <2>3. ASSUME NEW k \in 0..dx - 1
        PROVE  Abs(f[k + 1].p[2] - f[k].p[2]) <= 1
    <3>1. f[k + 1] = LineStep(f[k].p, f[k].err, dx, dy, sx, sy)
      BY <1>2, <1>5, <2>1
    <3>2. f[k].p[2] \in Int
      BY <1>2, <2>2
    <3>3. f[k + 1].p[2] = f[k].p[2] \/ f[k + 1].p[2] = f[k].p[2] + sy
      BY <3>1 DEF LineStep
    <3> QED
      BY <1>2, <3>2, <3>3 DEF Abs, Sign
  <2>4. {f[k].p : k \in 0..m} = {t[k] : k \in 0..dx}
    BY <1>2, <1>5, <2>1
  <2>5. Path(t, a, b, dx, sx, 1, 2)
    <3>1. dx = Most(dx, dy)
      BY <1>2, <1>10 DEF Most
    <3>2. t[0] = a /\ t[dx] = b
      BY <1>2, <1>5, <1>8, <2>1
    <3>3. t \in [0..dx -> Int \X Int]
      BY <2>2
    <3>4. ASSUME NEW k \in 0..dx - 1
          PROVE  t[k] = f[k].p /\ t[k + 1] = f[k + 1].p
      BY <1>2
    <3> QED
      BY <1>2, <1>4, <2>2, <2>3, <3>1, <3>2, <3>3, <3>4 DEF Path, x
  <2> HIDE DEF t
  <2>6. IsLine({t[k] : k \in 0..dx}, a, b)
    BY <1>2, <2>5, TilesAreLine
  <2> QED
    BY <1>3, <2>4, <2>6
<1>11. CASE dx < dy
  <2> DEFINE t == [k \in 0..dy |-> f[k].p]
  <2>1. ASSUME NEW k \in 0..m
        PROVE  /\ k < dy => \E i \in Nat : Drawing(f[k], i, k, dy, x, y, dx, dy, sx, sy)
               /\ k >= dy => f[k].p = b
               /\ k < dy /\ k + 1 \in 0..m => f[k + 1] = LineStep(f[k].p, f[k].err, dx, dy, sx, sy)
    <3>1. /\ k < dy => \E i \in Nat : Drawing(f[k], i, k, dy, x, y, dx, dy, sx, sy)
          /\ k >= dy => f[k].p = <<x + sx * dx, y + sy * dy>>
          /\ k < dy /\ k + 1 \in 0..m => f[k + 1] = LineStep(f[k].p, f[k].err, dx, dy, sx, sy)
      BY <1>7, <1>11, SteepLine
    <3> QED
      BY <1>6, <3>1
  <2>2. ASSUME NEW k \in 0..dy
        PROVE  f[k].p \in Int \X Int /\ f[k].p[2] = y + sy * k /\ NearEdge(a, b, f[k].p)
    <3>1. CASE k < dy
      <4>1. PICK i \in Nat : Drawing(f[k], i, k, dy, x, y, dx, dy, sx, sy)
        BY <1>2, <1>5, <2>1, <3>1
      <4>2. f[k].p \in Int \X Int /\ NearEdge(a, b, f[k].p)
        <5>1. /\ Drawing(f[k], i, k, dy, a[1], a[2], dx, dy, sx, sy)
              /\ b = <<a[1] + sx * dx, a[2] + sy * dy>>
              /\ dy = dy /\ k <= dy /\ dy > 0 /\ k \in Nat
          BY <1>2, <1>6, <3>1, <4>1 DEF x, y
        <5> QED
          BY <1>2, <4>1, <5>1, DrawingIsNear, Zenon
      <4> QED
        BY <4>1, <4>2 DEF Drawing
    <3>2. CASE k = dy
      BY <1>2, <1>5, <1>9, <2>1, <3>2
    <3> QED
      BY <1>2, <3>1, <3>2
  <2>3. ASSUME NEW k \in 0..dy - 1
        PROVE  Abs(f[k + 1].p[1] - f[k].p[1]) <= 1
    <3>1. f[k + 1] = LineStep(f[k].p, f[k].err, dx, dy, sx, sy)
      BY <1>2, <1>5, <2>1
    <3>2. f[k].p[1] \in Int
      BY <1>2, <2>2
    <3>3. f[k + 1].p[1] = f[k].p[1] \/ f[k + 1].p[1] = f[k].p[1] + sx
      BY <3>1 DEF LineStep
    <3> QED
      BY <1>2, <3>2, <3>3 DEF Abs, Sign
  <2>4. {f[k].p : k \in 0..m} = {t[k] : k \in 0..dy}
    BY <1>2, <1>5, <2>1
  <2>5. Path(t, a, b, dy, sy, 2, 1)
    <3>1. dy = Most(dx, dy) /\ dx # dy
      BY <1>2, <1>11 DEF Most
    <3>2. t[0] = a /\ t[dy] = b
      BY <1>2, <1>5, <1>8, <2>1
    <3>3. t \in [0..dy -> Int \X Int]
      BY <2>2
    <3>4. ASSUME NEW k \in 0..dy - 1
          PROVE  t[k] = f[k].p /\ t[k + 1] = f[k + 1].p
      BY <1>2
    <3> QED
      BY <1>2, <1>4, <2>2, <2>3, <3>1, <3>2, <3>3, <3>4 DEF Path, y
  <2> HIDE DEF t
  <2>6. IsLine({t[k] : k \in 0..dy}, a, b)
    BY <1>2, <2>5, TilesAreLine
  <2> QED
    BY <1>3, <2>4, <2>6
<1> QED
  BY <1>2, <1>10, <1>11

-----------------------------------------------------------------------------
(* Polygons. *)

\* The sign of a product.
LEMMA ProductSign ==
  ASSUME NEW u \in Int, NEW v \in Int
  PROVE  /\ u * v \in Int
         /\ u = 0 \/ v = 0 => u * v = 0
         /\ (u > 0 /\ v > 0) \/ (u < 0 /\ v < 0) => u * v > 0
         /\ (u > 0 /\ v < 0) \/ (u < 0 /\ v > 0) => u * v < 0
<1>1. u * v \in Int /\ (u = 0 \/ v = 0 => u * v = 0)
  OBVIOUS
<1>2. ASSUME NEW m \in Nat \ {0}, NEW n \in Nat \ {0}
      PROVE  m * n > 0
  OBVIOUS
<1>3. u > 0 /\ v > 0 => u * v > 0
  BY <1>2
<1>4. u < 0 /\ v < 0 => u * v > 0
  <2> HAVE u < 0 /\ v < 0
  <2>1. (-u) * (-v) > 0
    BY <1>2
  <2>2. (-u) * (-v) = u * v
    OBVIOUS
  <2> QED
    BY <2>1, <2>2
<1>5. u > 0 /\ v < 0 => u * v < 0
  <2> HAVE u > 0 /\ v < 0
  <2>1. u * (-v) > 0
    BY <1>2
  <2>2. u * (-v) = -(u * v)
    OBVIOUS
  <2> QED
    BY <1>1, <2>1, <2>2
<1>6. u < 0 /\ v > 0 => u * v < 0
  <2> HAVE u < 0 /\ v > 0
  <2>1. (-u) * v > 0
    BY <1>2
  <2>2. (-u) * v = -(u * v)
    OBVIOUS
  <2> QED
    BY <1>1, <2>1, <2>2
<1> QED
  BY <1>1, <1>3, <1>4, <1>5, <1>6

\* An edge is met left of p; a vertex is not above p, nor to its right.
Left(a, b, p) ==
  \/ a[2] <= p[2] /\ p[2] < b[2] /\ Side(a, b, p) < 0
  \/ b[2] <= p[2] /\ p[2] < a[2] /\ Side(a, b, p) > 0
Corner(a, p) == a[1] <= p[1] /\ a[2] <= p[2]

\* The side as p sees it.
LEMMA SideIsCross ==
  ASSUME NEW a \in Int \X Int, NEW b \in Int \X Int, NEW p \in Int \X Int
  PROVE  /\ {a[1] - p[1], a[2] - p[2], b[1] - p[1], b[2] - p[2]} \subseteq Int
         /\ Side(a, b, p) = (a[1] - p[1]) * (b[2] - p[2]) - (a[2] - p[2]) * (b[1] - p[1])
<1>1. ASSUME NEW a1 \in Int, NEW a2 \in Int, NEW b1 \in Int, NEW b2 \in Int, NEW x \in Int, NEW y \in Int
      PROVE  (b1 - a1) * (y - a2) - (b2 - a2) * (x - a1) = (a1 - x) * (b2 - y) - (a2 - y) * (b1 - x)
  OBVIOUS
<1>2. a[1] \in Int /\ a[2] \in Int /\ b[1] \in Int /\ b[2] \in Int /\ p[1] \in Int /\ p[2] \in Int
  OBVIOUS
<1>3. Side(a, b, p) = (a[1] - p[1]) * (b[2] - p[2]) - (a[2] - p[2]) * (b[1] - p[1])
  BY <1>1, <1>2 DEF Side
<1>4. {a[1] - p[1], a[2] - p[2], b[1] - p[1], b[2] - p[2]} \subseteq Int
  BY <1>2
<1> QED
  BY <1>3, <1>4, Zenon

\* Unless p is on it, an edge that leaves the corner of p passes below it or
\* to its left; one that does not passes on neither side of it, or on both.
LEMMA OneSide ==
  ASSUME NEW a \in Int \X Int, NEW b \in Int \X Int, NEW p \in Int \X Int, ~OnEdge(a, b, p)
  PROVE  (Below(a, b, p) <=> Left(a, b, p)) <=> (Corner(a, p) <=> Corner(b, p))
<1> DEFINE u == a[1] - p[1]
           v == a[2] - p[2]
           w == b[1] - p[1]
           z == b[2] - p[2]
           s == u * z
           t == v * w
<1>1. u \in Int /\ v \in Int /\ w \in Int /\ z \in Int /\ Side(a, b, p) = s - t
  BY SideIsCross
<1>2. a[1] \in Int /\ a[2] \in Int /\ b[1] \in Int /\ b[2] \in Int /\ p[1] \in Int /\ p[2] \in Int
  OBVIOUS
<1> DEFINE above == s - t > 0
           under == s - t < 0
<1>3. Below(a, b, p) <=> (u <= 0 /\ w > 0 /\ above) \/ (w <= 0 /\ u > 0 /\ under)
  <2> HIDE DEF s, t
  <2> QED
    BY <1>1, <1>2 DEF Below
<1>4. Left(a, b, p) <=> (v <= 0 /\ z > 0 /\ under) \/ (z <= 0 /\ v > 0 /\ above)
  <2> HIDE DEF s, t
  <2> QED
    BY <1>1, <1>2 DEF Left
<1>5. (Corner(a, p) <=> u <= 0 /\ v <= 0) /\ (Corner(b, p) <=> w <= 0 /\ z <= 0)
  BY <1>2 DEF Corner
<1>6. ~(s - t = 0 /\ ((u <= 0 /\ w >= 0) \/ (w <= 0 /\ u >= 0)) /\ ((v <= 0 /\ z >= 0) \/ (z <= 0 /\ v >= 0)))
  <2> HIDE DEF s, t
  <2> QED
    BY <1>1, <1>2 DEF OnEdge, Between, Least, Most
<1>7. /\ s \in Int
      /\ u = 0 \/ z = 0 => s = 0
      /\ (u > 0 /\ z > 0) \/ (u < 0 /\ z < 0) => s > 0
      /\ (u > 0 /\ z < 0) \/ (u < 0 /\ z > 0) => s < 0
  <2> HIDE DEF u, z
  <2> QED
    BY <1>1, ProductSign
<1>8. /\ t \in Int
      /\ v = 0 \/ w = 0 => t = 0
      /\ (v > 0 /\ w > 0) \/ (v < 0 /\ w < 0) => t > 0
      /\ (v > 0 /\ w < 0) \/ (v < 0 /\ w > 0) => t < 0
  <2> HIDE DEF v, w
  <2> QED
    BY <1>1, ProductSign
<1> HIDE DEF u, v, w, z, s, t
<1> QED
  BY <1>1, <1>3, <1>4, <1>5, <1>6, <1>7, <1>8

\* A rounded quotient is at most half away.
LEMMA RoundIsNear ==
  ASSUME NEW n \in Int, NEW d \in Int \ {0}
  PROVE  /\ Round(n, d) \in Int
         /\ 2 * (Round(n, d) * d) <= 2 * n + Abs(d) /\ 2 * n <= 2 * (Round(n, d) * d) + Abs(d)
<1> DEFINE e == Abs(d)
           m == Abs(n)
           q == (2 * m + e) \div (2 * e)
           c == IF (n < 0) # (d < 0) THEN -q ELSE q
<1>1. e \in Nat \ {0} /\ m \in Nat /\ (d = e \/ d = -e) /\ (n = m \/ n = -m)
  BY DEF Abs
<1>2. (d = e <=> ~(d < 0)) /\ (d = -e <=> d < 0) /\ (n < 0 => n = -m) /\ (~(n < 0) => n = m)
  BY DEF Abs
<1>3. Round(n, d) = c
  BY DEF Round
<1> HIDE DEF e, m
<1>4. /\ q \in Int
      /\ (2 * m + e) % (2 * e) \in 0..2 * e - 1
      /\ 2 * m + e = (2 * e) * q + ((2 * m + e) % (2 * e))
  <2>1. 2 * e \in Nat \ {0} /\ 2 * m + e \in Int
    BY <1>1
  <2> QED
    BY <2>1, Quotient
<1> HIDE DEF q
<1> DEFINE k == q * e
<1>5. k \in Int /\ (2 * e) * q = 2 * k
  BY <1>1, <1>4
<1>6. 2 * k <= 2 * m + e /\ 2 * m <= 2 * k + e
  <2> DEFINE r == (2 * m + e) % (2 * e)
  <2>1. r \in 0..2 * e - 1 /\ 2 * m + e = 2 * k + r
    BY <1>4, <1>5
  <2> HIDE DEF r, k
  <2> QED
    BY <1>1, <1>5, <2>1
<1>7. c \in Int /\ ((n < 0 /\ c * d = -k) \/ (~(n < 0) /\ c * d = k))
  <2>1. c \in Int
    BY <1>4
  <2>2. CASE (n < 0) # (d < 0)
    <3>1. c = -q
      BY <2>2
    <3>2. (n < 0 /\ d = e) \/ (~(n < 0) /\ d = -e)
      BY <1>2, <2>2
    <3>3. (-q) * e = -k /\ (-q) * (-e) = k
      BY <1>1, <1>4
    <3> QED
      BY <2>1, <3>1, <3>2, <3>3
  <2>3. CASE ~((n < 0) # (d < 0))
    <3>1. c = q
      BY <2>3
    <3>2. (n < 0 /\ d = -e) \/ (~(n < 0) /\ d = e)
      BY <1>2, <2>3
    <3>3. q * e = k /\ q * (-e) = -k
      BY <1>1, <1>4
    <3> QED
      BY <2>1, <3>1, <3>2, <3>3
  <2> QED
    BY <2>2, <2>3
<1> HIDE DEF k, c
<1>8. 2 * (c * d) <= 2 * n + e /\ 2 * n <= 2 * (c * d) + e
  <2>1. CASE n < 0
    BY <1>1, <1>2, <1>5, <1>6, <1>7, <2>1
  <2>2. CASE ~(n < 0)
    BY <1>1, <1>2, <1>5, <1>6, <1>7, <2>2
  <2> QED
    BY <2>1, <2>2
<1> QED
  BY <1>3, <1>7, <1>8 DEF e

\* The column where a scan line meets an edge: on its side of x unless x is
\* near, and at x at most otherwise.
LEMMA ColumnIsNear ==
  ASSUME NEW a \in Int \X Int, NEW b \in Int \X Int, NEW x \in Int, NEW y \in Int, Meets(a, b, y)
  PROVE  /\ Column(a, b, y) \in Int
         /\ Left(a, b, <<x, y>>) => Column(a, b, y) < x + 1
         /\ Column(a, b, y) < x => Left(a, b, <<x, y>>)
         /\ ~NearEdge(a, b, <<x, y>>) =>
              /\ Left(a, b, <<x, y>>) => Column(a, b, y) < x
              /\ Column(a, b, y) < x + 1 => Left(a, b, <<x, y>>)
<1> DEFINE p == <<x, y>>
           d == b[2] - a[2]
           n == a[1] * d + (y - a[2]) * (b[1] - a[1])
           c == Round(n, d)
           s == Side(a, b, p)
           k == c * d
           l == x * d
<1>1. a[1] \in Int /\ a[2] \in Int /\ b[1] \in Int /\ b[2] \in Int /\ p[1] = x /\ p[2] = y
  OBVIOUS
<1>2. d \in Int \ {0} /\ ((d > 0 /\ a[2] <= y /\ y < b[2]) \/ (d < 0 /\ b[2] <= y /\ y < a[2]))
  BY <1>1 DEF Meets
<1>3. n \in Int
  BY <1>1
<1>4. Column(a, b, y) = c
  BY DEF Column
<1>5. s = n - l /\ s \in Int /\ l \in Int
  <2>1. ASSUME NEW a1 \in Int, NEW a2 \in Int, NEW b1 \in Int, NEW b2 \in Int
        PROVE  (b1 - a1) * (y - a2) - (b2 - a2) * (x - a1)
                 = (a1 * (b2 - a2) + (y - a2) * (b1 - a1)) - x * (b2 - a2)
    OBVIOUS
  <2>2. s = (b[1] - a[1]) * (y - a[2]) - (b[2] - a[2]) * (x - a[1])
    BY <1>1 DEF Side
  <2>3. s = n - l
    BY <1>1, <2>1, <2>2
  <2>4. l \in Int
    BY <1>2
  <2> HIDE DEF n, l
  <2> QED
    BY <1>3, <2>3, <2>4
<1>6. Left(a, b, p) <=> (d > 0 /\ s < 0) \/ (d < 0 /\ s > 0)
  <2> HIDE DEF s
  <2> QED
    BY <1>1, <1>2, <1>5 DEF Left, s
<1>7. ~NearEdge(a, b, p) => 2 * Abs(s) > Abs(d)
  <2>1. a[2] # b[2] /\ Between(p[2], a[2], b[2])
    BY <1>1, <1>2 DEF Between, Least, Most
  <2>2. NearEdge(a, b, p) \/ ~(2 * Abs(s) <= Abs(d))
    BY <2>1 DEF NearEdge
  <2>3. Abs(s) \in Int /\ Abs(d) \in Int
    BY <1>2, <1>5 DEF Abs
  <2> QED
    BY <2>2, <2>3
<1> HIDE DEF n, s
<1>8. c \in Int /\ 2 * k <= 2 * n + Abs(d) /\ 2 * n <= 2 * k + Abs(d)
  BY <1>2, <1>3, RoundIsNear
<1> HIDE DEF c
<1>9. /\ k \in Int
      /\ d > 0 /\ c < x => k <= l - d
      /\ d > 0 /\ ~(c < x) => k >= l
      /\ d > 0 /\ c < x + 1 => k <= l
      /\ d > 0 /\ ~(c < x + 1) => k >= l + d
      /\ d < 0 /\ c < x => k >= l - d
      /\ d < 0 /\ ~(c < x) => k <= l
      /\ d < 0 /\ c < x + 1 => k >= l
      /\ d < 0 /\ ~(c < x + 1) => k <= l + d
  <2> DEFINE f == x - c
  <2>1. f \in Int /\ l = k + f * d /\ k \in Int /\ f * d \in Int
    BY <1>2, <1>8
  <2>2. (c < x <=> f >= 1) /\ (c < x + 1 <=> f >= 0)
    BY <1>8
  <2> HIDE DEF f, k, l, d
  <2>3. ASSUME NEW g \in Nat, NEW h \in Nat
        PROVE  g * h >= 0 /\ g * h \in Int
    OBVIOUS
  <2>4. /\ d > 0 /\ f >= 1 => f * d >= d
        /\ d > 0 /\ f >= 0 => f * d >= 0
        /\ d > 0 /\ f <= 0 => f * d <= 0
        /\ d > 0 /\ f <= -1 => f * d <= -d
    <3> SUFFICES ASSUME d > 0
                 PROVE  /\ f >= 1 => f * d >= d
                        /\ f >= 0 => f * d >= 0
                        /\ f <= 0 => f * d <= 0
                        /\ f <= -1 => f * d <= -d
      OBVIOUS
    <3>1. f >= 1 => (f - 1) * d >= 0 /\ (f - 1) * d = f * d - d
      BY <1>2, <2>1, <2>3
    <3>2. f >= 0 => f * d >= 0
      BY <1>2, <2>1, <2>3
    <3>3. f <= 0 => (-f) * d >= 0 /\ (-f) * d = -(f * d)
      BY <1>2, <2>1, <2>3
    <3>4. f <= -1 => (-f - 1) * d >= 0 /\ (-f - 1) * d = -(f * d) - d
      BY <1>2, <2>1, <2>3
    <3> QED
      BY <1>2, <2>1, <3>1, <3>2, <3>3, <3>4
  <2>5. /\ d < 0 /\ f >= 1 => f * d <= d
        /\ d < 0 /\ f >= 0 => f * d <= 0
        /\ d < 0 /\ f <= 0 => f * d >= 0
        /\ d < 0 /\ f <= -1 => f * d >= -d
    <3> SUFFICES ASSUME d < 0
                 PROVE  /\ f >= 1 => f * d <= d
                        /\ f >= 0 => f * d <= 0
                        /\ f <= 0 => f * d >= 0
                        /\ f <= -1 => f * d >= -d
      OBVIOUS
    <3>1. f >= 1 => (f - 1) * (-d) >= 0 /\ (f - 1) * (-d) = d - f * d
      BY <1>2, <2>1, <2>3
    <3>2. f >= 0 => f * (-d) >= 0 /\ f * (-d) = -(f * d)
      BY <1>2, <2>1, <2>3
    <3>3. f <= 0 => (-f) * (-d) >= 0 /\ (-f) * (-d) = f * d
      BY <1>2, <2>1, <2>3
    <3>4. f <= -1 => (-f - 1) * (-d) >= 0 /\ (-f - 1) * (-d) = f * d + d
      BY <1>2, <2>1, <2>3
    <3> QED
      BY <1>2, <2>1, <3>1, <3>2, <3>3, <3>4
  <2> QED
    BY <1>2, <2>1, <2>2, <2>4, <2>5
<1> HIDE DEF k, l
<1>10. (Left(a, b, p) => c < x + 1) /\ (c < x => Left(a, b, p))
  <2> HIDE DEF d
  <2> QED
    BY <1>2, <1>3, <1>5, <1>6, <1>8, <1>9 DEF Abs
<1>11. ~NearEdge(a, b, p) => (Left(a, b, p) => c < x) /\ (c < x + 1 => Left(a, b, p))
  <2> HIDE DEF d
  <2> QED
    BY <1>2, <1>3, <1>5, <1>6, <1>7, <1>8, <1>9 DEF Abs
<1> QED
  BY <1>4, <1>8, <1>10, <1>11

\* How many of the first numbers are in a set.
Counted(S, k) == Cardinality({i \in 1..k : i \in S})

\* One more number counts iff it is in the set.
LEMMA CountOneMore ==
  ASSUME NEW S, NEW k \in Nat
  PROVE  /\ Counted(S, 0) = 0 /\ Counted(S, k) \in 0..k /\ Counted(S, k) \in Nat
         /\ Counted(S, k + 1) = Counted(S, k) + (IF k + 1 \in S THEN 1 ELSE 0)
<1> DEFINE A == {i \in 1..k : i \in S}
           B == {i \in 1..k + 1 : i \in S}
<1>1. Counted(S, 0) = 0
  <2>1. {i \in 1..0 : i \in S} = {}
    OBVIOUS
  <2> QED
    BY <2>1, FS_EmptySet DEF Counted
<1>2. IsFiniteSet(A) /\ Cardinality(A) \in 0..k
  <2>1. IsFiniteSet(1..k) /\ Cardinality(1..k) = k
    BY FS_Interval
  <2>2. A \subseteq 1..k
    OBVIOUS
  <2>3. IsFiniteSet(A) /\ Cardinality(A) <= k
    BY <2>1, <2>2, FS_Subset
  <2>4. Cardinality(A) \in Nat
    BY <2>3, FS_CardinalityType
  <2> QED
    BY <2>3, <2>4
<1>3. CASE k + 1 \in S
  <2>1. B = A \cup {k + 1} /\ k + 1 \notin A
    BY <1>3
  <2>2. Cardinality(B) = Cardinality(A) + 1
    BY <1>2, <2>1, FS_AddElement
  <2> QED
    BY <1>1, <1>2, <1>3, <2>2 DEF Counted
<1>4. CASE k + 1 \notin S
  <2>1. B = A
    BY <1>4
  <2> QED
    BY <1>1, <1>2, <1>4, <2>1 DEF Counted
<1> QED
  BY <1>3, <1>4

\* What is smaller of a longer sequence, and what is smaller than more.
LEMMA SmallerAppend ==
  ASSUME NEW s \in Seq(Int), NEW x \in Int, NEW v \in Int
  PROVE  /\ Smaller(s, v) \in 0..Len(s) /\ Smaller(s, v) \in Nat
         /\ Smaller(Append(s, x), v) = Smaller(s, v) + (IF x < v THEN 1 ELSE 0)
<1> DEFINE n == Len(s)
           t == Append(s, x)
           S == {i \in 1..n + 1 : t[i] < v}
<1>1. /\ n \in Nat /\ DOMAIN s = 1..n /\ t \in Seq(Int) /\ Len(t) = n + 1 /\ DOMAIN t = 1..n + 1
      /\ t[n + 1] = x /\ \A i \in 1..n : t[i] = s[i] /\ i \in 1..n + 1
  BY AppendProperties, LenProperties
<1> HIDE DEF n, t
<1>2. Smaller(s, v) = Counted(S, n)
  <2>1. {i \in DOMAIN s : s[i] < v} = {i \in 1..n : i \in S}
    BY <1>1
  <2> QED
    BY <2>1, Zenon DEF Smaller, Counted
<1>3. Smaller(t, v) = Counted(S, n + 1)
  <2>1. {i \in DOMAIN t : t[i] < v} = {i \in 1..n + 1 : i \in S}
    BY <1>1
  <2> QED
    BY <2>1, Zenon DEF Smaller, Counted
<1>4. n + 1 \in S <=> x < v
  BY <1>1
<1> HIDE DEF S
<1>5. /\ Counted(S, n) \in 0..n /\ Counted(S, n) \in Nat
      /\ Counted(S, n + 1) = Counted(S, n) + (IF n + 1 \in S THEN 1 ELSE 0)
  BY <1>1, CountOneMore
<1> QED
  BY <1>2, <1>3, <1>4, <1>5 DEF n, t

\* A larger bound has more below it.
LEMMA SmallerGrows ==
  ASSUME NEW s \in Seq(Int), NEW v \in Int, NEW w \in Int, v <= w
  PROVE  Smaller(s, v) <= Smaller(s, w)
<1> DEFINE A == {i \in DOMAIN s : s[i] < v}
           B == {i \in DOMAIN s : s[i] < w}
<1>1. DOMAIN s = 1..Len(s) /\ Len(s) \in Nat
  BY LenProperties
<1>2. A \subseteq B
  <2>1. \A i \in DOMAIN s : s[i] \in Int
    BY <1>1
  <2> QED
    BY <2>1
<1>3. IsFiniteSet(B)
  <2>1. IsFiniteSet(1..Len(s))
    BY <1>1, FS_Interval
  <2>2. B \subseteq 1..Len(s)
    BY <1>1
  <2> QED
    BY <2>1, <2>2, FS_Subset
<1>4. Cardinality(A) <= Cardinality(B)
  BY <1>2, <1>3, FS_Subset
<1> QED
  BY <1>4 DEF Smaller

\* What Sort chooses for a place, and that there is a choice for all places.
Place(s, k, x) == x \in {s[i] : i \in DOMAIN s} /\ Smaller(s, x) < k /\ k <= Smaller(s, x + 1)
Places(s) == \A k \in 1..Len(s) : \E x \in Int : Place(s, k, x)

\* There is if there was with a number less.
LEMMA OnePlaceMore ==
  ASSUME NEW s \in Seq(Int), NEW x \in Int, Places(s)
  PROVE  Places(Append(s, x))
<1> DEFINE t == Append(s, x)
           n == Len(s)
<1>1. /\ n \in Nat /\ DOMAIN s = 1..n /\ t \in Seq(Int) /\ Len(t) = n + 1 /\ DOMAIN t = 1..n + 1
      /\ t[n + 1] = x /\ \A i \in 1..n : t[i] = s[i] /\ i \in 1..n + 1
  BY AppendProperties, LenProperties
<1>2. \A v \in Int : /\ Smaller(s, v) \in 0..n /\ Smaller(s, v) \in Nat
                     /\ Smaller(t, v) = Smaller(s, v) + (IF x < v THEN 1 ELSE 0)
  BY SmallerAppend
<1>3. \A v, w \in Int : v <= w => Smaller(s, v) <= Smaller(s, w)
  BY SmallerGrows
<1> HIDE DEF t, n
<1>4. /\ x \in {t[i] : i \in DOMAIN t}
      /\ \A v \in {s[i] : i \in DOMAIN s} : v \in {t[i] : i \in DOMAIN t}
  BY <1>1
<1> SUFFICES ASSUME NEW k \in 1..n + 1
             PROVE  \E v \in Int : Place(t, k, v)
  BY <1>1 DEF Places, t
<1>0. k \in Int /\ Smaller(s, x) \in Nat /\ Smaller(s, x + 1) \in Nat
  <2>1. x + 1 \in Int
    OBVIOUS
  <2>2. Smaller(s, x) \in Nat /\ Smaller(s, x + 1) \in Nat
    BY <1>2, <2>1, Zenon
  <2>3. k \in Int
    BY <1>1
  <2> QED
    BY <2>2, <2>3
<1>5. CASE k <= Smaller(s, x)
  <2>1. k \in 1..n
    BY <1>1, <1>2, <1>5
  <2>2. PICK v \in Int : Place(s, k, v)
    BY <2>1 DEF Places, n
  <2>3. v < x
    BY <1>2, <1>3, <1>5, <2>2 DEF Place
  <2>4. Smaller(t, v) = Smaller(s, v) /\ Smaller(t, v + 1) = Smaller(s, v + 1)
    BY <1>2, <2>2, <2>3
  <2>5. Place(t, k, v)
    BY <1>4, <2>2, <2>4 DEF Place
  <2> QED
    BY <2>2, <2>5
<1>6. CASE Smaller(s, x) < k /\ k <= Smaller(s, x + 1) + 1
  <2>1. Smaller(t, x) = Smaller(s, x) /\ Smaller(t, x + 1) = Smaller(s, x + 1) + 1
    BY <1>2, SMTT(30)
  <2>2. Place(t, k, x)
    BY <1>4, <1>6, <2>1 DEF Place
  <2> QED
    BY <2>2
<1>7. CASE Smaller(s, x + 1) + 1 < k
  <2>1. k - 1 \in 1..n /\ Smaller(s, x + 1) < k - 1
    BY <1>0, <1>1, <1>7
  <2>2. PICK v \in Int : Place(s, k - 1, v)
    BY <2>1 DEF Places, n
  <2>3. x < v
    <3>1. ~(v + 1 <= x + 1)
      BY <1>2, <1>3, <2>1, <2>2 DEF Place
    <3> QED
      BY <2>2, <3>1
  <2>4. Smaller(t, v) = Smaller(s, v) + 1 /\ Smaller(t, v + 1) = Smaller(s, v + 1) + 1
    BY <1>2, <2>2, <2>3
  <2>5. Smaller(t, v) < k /\ k <= Smaller(t, v + 1)
    <3>1. v + 1 \in Int
      BY <2>2
    <3>2. Smaller(s, v) \in Nat /\ Smaller(s, v + 1) \in Nat
      BY <1>2, <2>2, <3>1
    <3>3. Smaller(s, v) < k - 1 /\ k - 1 <= Smaller(s, v + 1)
      BY <2>2 DEF Place
    <3> QED
      BY <1>0, <2>4, <3>2, <3>3
  <2>6. Place(t, k, v)
    BY <1>4, <2>2, <2>5 DEF Place
  <2> QED
    BY <2>2, <2>6
<1> QED
  BY <1>0, <1>5, <1>6, <1>7

\* A number of a sorted sequence is below a bound iff its place is among
\* those that are.
LEMMA SortIsSorted ==
  ASSUME NEW s \in Seq(Int), Places(s)
  PROVE  /\ Len(Sort(s)) = Len(s)
         /\ \A k \in 1..Len(s) : /\ Sort(s)[k] \in Int
                                 /\ \A v \in Int : Sort(s)[k] < v <=> k <= Smaller(s, v)
<1>1. Len(s) \in Nat /\ DOMAIN s = 1..Len(s) /\ \A i \in 1..Len(s) : s[i] \in Int
  BY LenProperties
<1>2. DOMAIN Sort(s) = 1..Len(s)
  BY <1>1 DEF Sort
<1>3. Len(Sort(s)) = Len(s)
  <2> DEFINE f == Sort(s)
  <2>0. f = [k \in 1..Len(s) |-> f[k]]
    BY <1>1 DEF Sort
  <2> HIDE DEF f
  <2>1. f \in Seq({f[i] : i \in 1..Len(s)})
    BY <1>1, <2>0
  <2>2. DOMAIN f = 1..Len(s)
    BY <2>0
  <2>3. Len(f) = Len(s)
    BY <1>1, <2>1, <2>2, LenProperties
  <2> QED
    BY <2>3 DEF f
<1>4. ASSUME NEW k \in 1..Len(s)
      PROVE  /\ Sort(s)[k] \in Int
             /\ \A v \in Int : Sort(s)[k] < v <=> k <= Smaller(s, v)
  <2> DEFINE x == Sort(s)[k]
  <2>1. x = CHOOSE y \in {s[i] : i \in DOMAIN s} : Smaller(s, y) < k /\ k <= Smaller(s, y + 1)
    BY <1>1 DEF Sort
  <2>2. \E y \in {s[i] : i \in DOMAIN s} : Smaller(s, y) < k /\ k <= Smaller(s, y + 1)
    BY DEF Places, Place
  <2> HIDE DEF x
  <2>3. Place(s, k, x)
    BY <2>1, <2>2, Zenon DEF Place
  <2>4. x \in Int
    BY <1>1, <2>3 DEF Place
  <2>5. ASSUME NEW v \in Int
        PROVE  x < v <=> k <= Smaller(s, v)
    <3>1. Smaller(s, v) \in Nat /\ Smaller(s, x) \in Nat /\ Smaller(s, x + 1) \in Nat
      <4>1. x + 1 \in Int
        BY <2>4
      <4> QED
        BY <2>4, <4>1, SmallerAppend
    <3>2. x + 1 <= v => Smaller(s, x + 1) <= Smaller(s, v)
      BY <2>4, SmallerGrows
    <3>3. v <= x => Smaller(s, v) <= Smaller(s, x)
      BY <2>4, SmallerGrows
    <3> QED
      BY <2>3, <2>4, <3>1, <3>2, <3>3 DEF Place
  <2> QED
    BY <2>4, <2>5 DEF x
<1> QED
  BY <1>3, <1>4

\* Even numbers, one after the other.
Even(n) == n % 2 = 0

\* One more is odd.
LEMMA EvenAndOdd ==
  ASSUME NEW n \in Nat
  PROVE  Even(0) /\ (Even(n + 1) <=> ~Even(n)) /\ (Even(n + 2) <=> Even(n)) /\ n % 2 \in {0, 1}
  BY DEF Even

\* The vertices of a ring, counted from 0 and round.
Vertex(ring, k) == ring[(k % Len(ring)) + 1]

\* An edge goes from one vertex to the next.
LEMMA EdgesAreVertices ==
  ASSUME NEW ring \in Seq(Int \X Int), Len(ring) > 0
  PROVE  /\ Vertex(ring, Len(ring)) = Vertex(ring, 0)
         /\ \A k \in 0..Len(ring) : Vertex(ring, k) \in Int \X Int
         /\ \A k \in 1..Len(ring) : From(ring, k) = Vertex(ring, k - 1) /\ To(ring, k) = Vertex(ring, k)
<1> DEFINE n == Len(ring)
<1>1. n \in Nat \ {0} /\ \A i \in 1..n : ring[i] \in Int \X Int
  BY LenProperties
<1> HIDE DEF n
<1>2. n % n = 0 /\ 0 % n = 0
  <2>1. n = n * 1 + 0 /\ 0 = n * 0 + 0 /\ 0 \in 0..n - 1
    BY <1>1
  <2> QED
    BY <1>1, <2>1, Division
<1>3. Vertex(ring, n) = Vertex(ring, 0)
  BY <1>2 DEF Vertex, n
<1>4. ASSUME NEW k \in 0..n
      PROVE  Vertex(ring, k) \in Int \X Int
  <2>1. (k % n) + 1 \in 1..n
    BY <1>1
  <2> QED
    BY <1>1, <2>1 DEF Vertex, n
<1>5. ASSUME NEW k \in 1..n
      PROVE  From(ring, k) = Vertex(ring, k - 1) /\ To(ring, k) = Vertex(ring, k)
  <2>1. k - 1 \in 0..n - 1
    BY <1>1
  <2>2. (k - 1) % n = k - 1
    BY <1>1, <2>1, NothingToDivide
  <2>3. ((k - 1) % n) + 1 = k
    BY <1>1, <2>2
  <2> QED
    BY <2>3 DEF From, To, Vertex, n
<1> QED
  BY <1>3, <1>4, <1>5 DEF n

\* f[i] are the columns of the first i edges that are met.
ColumnsMet(f, ring, y, n) ==
  f = [i \in 0..n |-> IF i = 0 THEN <<>>
                      ELSE IF Meets(From(ring, i), To(ring, i), y)
                           THEN Append(f[i - 1], Column(From(ring, i), To(ring, i), y))
                           ELSE f[i - 1]]

\* There are such columns.
LEMMA ColumnsExist ==
  ASSUME NEW ring, NEW y, NEW n \in Nat
  PROVE  \E f : ColumnsMet(f, ring, y, n)
<1> DEFINE More(s, i) == IF Meets(From(ring, i), To(ring, i), y)
                         THEN Append(s, Column(From(ring, i), To(ring, i), y)) ELSE s
           S == {m \in Nat : \E f : ColumnsMet(f, ring, y, m)}
<1>1. 0 \in S
  <2> DEFINE f == [k \in 0..0 |-> <<>>]
  <2>1. f = [k \in 0..0 |-> IF k = 0 THEN <<>> ELSE More(f[k - 1], k)]
    <3> HIDE DEF More
    <3> QED OBVIOUS
  <2>2. ColumnsMet(f, ring, y, 0)
    BY <2>1, Zenon DEF ColumnsMet
  <2> HIDE DEF f
  <2> QED BY <2>2
<1>2. ASSUME NEW m \in Nat, m \in S
      PROVE  m + 1 \in S
  <2>1. PICK f : ColumnsMet(f, ring, y, m)
    BY <1>2
  <2>2. f = [k \in 0..m |-> IF k = 0 THEN <<>> ELSE More(f[k - 1], k)]
    BY <2>1, Zenon DEF ColumnsMet
  <2> DEFINE g == [k \in 0..m + 1 |-> IF k = m + 1 THEN More(f[m], k) ELSE f[k]]
  <2> HIDE DEF More
  <2>3. ASSUME NEW k \in 0..m + 1
        PROVE  g[k] = IF k = 0 THEN <<>> ELSE More(g[k - 1], k)
    <3>1. CASE k = m + 1
      <4>1. k # 0 /\ k - 1 = m /\ m \in 0..m + 1 /\ m # m + 1
        BY <3>1
      <4>2. g[k] = More(f[m], k) /\ g[k - 1] = f[m]
        BY <3>1, <4>1
      <4> QED
        BY <4>1, <4>2
    <3>2. CASE k # m + 1
      <4>1. k \in 0..m /\ g[k] = f[k] /\ (k # 0 => k - 1 \in 0..m + 1 /\ k - 1 # m + 1)
        BY <3>2
      <4>2. k # 0 => g[k - 1] = f[k - 1]
        BY <4>1
      <4>3. f[k] = IF k = 0 THEN <<>> ELSE More(f[k - 1], k)
        BY <2>2, <4>1
      <4> QED
        BY <4>1, <4>2, <4>3
    <3> QED
      BY <3>1, <3>2
  <2>4. g = [k \in 0..m + 1 |-> g[k]]
    OBVIOUS
  <2> HIDE DEF g
  <2>5. g = [k \in 0..m + 1 |-> IF k = 0 THEN <<>> ELSE More(g[k - 1], k)]
    BY <2>3, <2>4
  <2>6. ColumnsMet(g, ring, y, m + 1)
    BY <2>5, Zenon DEF ColumnsMet, More
  <2> QED BY <2>6
<1>3. Nat \subseteq S
  <2>1. \A m \in Nat : m \in S => m + 1 \in S
    BY <1>2
  <2> HIDE DEF S
  <2> QED
    BY <1>1, <2>1, Induction
<1> QED
  BY <1>3

\* Intersections are those of all edges, sorted.
LEMMA IntersectionsAreColumns ==
  ASSUME NEW ring, Len(ring) \in Nat, NEW y
  PROVE  \E f : ColumnsMet(f, ring, y, Len(ring)) /\ Intersections(ring, y) = Sort(f[Len(ring)])
<1> DEFINE xs[i \in 0..Len(ring)] ==
             IF i = 0 THEN <<>>
             ELSE IF Meets(From(ring, i), To(ring, i), y)
                  THEN Append(xs[i - 1], Column(From(ring, i), To(ring, i), y))
                  ELSE xs[i - 1]
<1>1. ColumnsMet(xs, ring, y, Len(ring))
  <2>1. \E g : ColumnsMet(g, ring, y, Len(ring))
    BY ColumnsExist
  <2> QED
    BY <2>1 DEF ColumnsMet
<1>2. Intersections(ring, y) = Sort(xs[Len(ring)])
  BY DEF Intersections
<1> QED
  BY <1>1, <1>2

\* The edges that a tile has to its left, below it, or near.
Lefts(ring, p) == {i \in 1..Len(ring) : Left(From(ring, i), To(ring, i), p)}
Belows(ring, p) == {i \in 1..Len(ring) : Below(From(ring, i), To(ring, i), p)}
Near(ring, p) == \E i \in 1..Len(ring) : NearEdge(From(ring, i), To(ring, i), p)

\* Of k edges: their columns s, and how many have p to their right, or above
\* them.  Both parities tell how far the ring has been followed.
CountsOf(ring, p, k, s, m, b) ==
  /\ s \in Seq(Int) /\ Places(s) /\ m \in 0..Len(s) /\ b \in Nat
  /\ Smaller(s, p[1]) <= m /\ m <= Smaller(s, p[1] + 1)
  /\ ~Near(ring, p) => Smaller(s, p[1]) = m /\ m = Smaller(s, p[1] + 1)
  /\ Even(Len(s)) <=> (Vertex(ring, 0)[2] <= p[2] <=> Vertex(ring, k)[2] <= p[2])
  /\ Even(m + b) <=> (Corner(Vertex(ring, 0), p) <=> Corner(Vertex(ring, k), p))

\* One edge more: what it adds to the counts.
LEMMA OneEdgeMore ==
  ASSUME NEW ring \in Seq(Int \X Int), NEW x \in Int, NEW y \in Int, NEW k \in 0..Len(ring) - 1,
         ~OnRing(ring, <<x, y>>),
         NEW s, NEW m, NEW b, CountsOf(ring, <<x, y>>, k, s, m, b)
  PROVE  CountsOf(ring, <<x, y>>, k + 1,
                  IF Meets(From(ring, k + 1), To(ring, k + 1), y)
                  THEN Append(s, Column(From(ring, k + 1), To(ring, k + 1), y)) ELSE s,
                  m + (IF k + 1 \in Lefts(ring, <<x, y>>) THEN 1 ELSE 0),
                  b + (IF k + 1 \in Belows(ring, <<x, y>>) THEN 1 ELSE 0))
<1> DEFINE p == <<x, y>>
           t == IF Meets(From(ring, k + 1), To(ring, k + 1), y)
                THEN Append(s, Column(From(ring, k + 1), To(ring, k + 1), y)) ELSE s
           n == m + (IF k + 1 \in Lefts(ring, p) THEN 1 ELSE 0)
           c == b + (IF k + 1 \in Belows(ring, p) THEN 1 ELSE 0)
           a == Vertex(ring, k)
           e == Vertex(ring, k + 1)
           o == Vertex(ring, 0)
           d == Column(a, e, y)
<1>1. p[1] = x /\ p[2] = y /\ p \in Int \X Int
  OBVIOUS
<1>2. Len(ring) \in Nat /\ Len(ring) > 0 /\ k + 1 \in 1..Len(ring) /\ k \in 0..Len(ring) /\ k + 1 \in 0..Len(ring)
      /\ (k + 1) - 1 = k /\ 0 \in 0..Len(ring)
  BY LenProperties
<1>3. From(ring, k + 1) = a /\ To(ring, k + 1) = e /\ a \in Int \X Int /\ e \in Int \X Int /\ o \in Int \X Int
  BY <1>2, EdgesAreVertices
<1>4. a[1] \in Int /\ a[2] \in Int /\ e[1] \in Int /\ e[2] \in Int /\ o[1] \in Int /\ o[2] \in Int
  BY <1>3
<1> HIDE DEF a, e, o, p, t, n, c
<1>5. ~OnEdge(a, e, p)
  <2>1. k + 1 \in DOMAIN ring
    BY <1>2, LenProperties
  <2> QED
    BY <1>3, <2>1 DEF OnRing, Edges, p
<1>6. ~Near(ring, p) => ~NearEdge(a, e, p)
  BY <1>2, <1>3 DEF Near
<1>7. (k + 1 \in Lefts(ring, p) <=> Left(a, e, p)) /\ (k + 1 \in Belows(ring, p) <=> Below(a, e, p))
  BY <1>2, <1>3 DEF Lefts, Belows
<1>8. (Below(a, e, p) <=> Left(a, e, p)) <=> (Corner(a, p) <=> Corner(e, p))
  BY <1>1, <1>3, <1>5, OneSide
<1>9. Left(a, e, p) => Meets(a, e, y)
  BY <1>1, <1>4, SMTT(30) DEF Left, Meets
<1>10. CountsOf(ring, p, k, s, m, b)
  BY DEF p
<1>11. /\ s \in Seq(Int) /\ Places(s) /\ Len(s) \in Nat /\ m \in 0..Len(s) /\ m \in Nat /\ b \in Nat
       /\ Smaller(s, x) <= m /\ m <= Smaller(s, x + 1)
       /\ ~Near(ring, p) => Smaller(s, x) = m /\ m = Smaller(s, x + 1)
       /\ Even(Len(s)) <=> (o[2] <= y <=> a[2] <= y)
       /\ Even(m + b) <=> (Corner(o, p) <=> Corner(a, p))
  BY <1>1, <1>10, LenProperties DEF CountsOf, a, o
<1>12. n = m + (IF Left(a, e, p) THEN 1 ELSE 0) /\ c = b + (IF Below(a, e, p) THEN 1 ELSE 0)
  BY <1>7 DEF n, c
<1>13. t = IF Meets(a, e, y) THEN Append(s, d) ELSE s
  BY <1>3 DEF t
<1>14. Even(n + c) <=> (Corner(o, p) <=> Corner(e, p))
  <2>1. m + b \in Nat /\ n + c = (m + b) + (IF Left(a, e, p) THEN 1 ELSE 0) + (IF Below(a, e, p) THEN 1 ELSE 0)
    BY <1>11, <1>12, SMTT(30)
  <2>2. (Even((m + b) + 1) <=> ~Even(m + b)) /\ (Even((m + b) + 2) <=> Even(m + b))
    BY <2>1, EvenAndOdd
  <2>3. n + c = IF Left(a, e, p) /\ Below(a, e, p) THEN (m + b) + 2
                ELSE IF Left(a, e, p) \/ Below(a, e, p) THEN (m + b) + 1 ELSE m + b
    BY <2>1
  <2>4. Even(n + c) <=> (IF Left(a, e, p) <=> Below(a, e, p) THEN Even(m + b) ELSE ~Even(m + b))
    BY <2>2, <2>3
  <2> QED
    BY <1>8, <1>11, <2>4, Zenon
<1>15. c \in Nat
  BY <1>11, <1>12
<1>16. CASE ~Meets(a, e, y)
  <2>1. t = s /\ n = m /\ (a[2] <= y <=> e[2] <= y)
    BY <1>4, <1>9, <1>11, <1>12, <1>13, <1>16, SMTT(30) DEF Meets
  <2>2. Even(Len(t)) <=> (o[2] <= y <=> e[2] <= y)
    BY <1>11, <2>1, Zenon
  <2>3. CountsOf(ring, p, k + 1, t, n, c)
    BY <1>1, <1>11, <1>14, <1>15, <2>1, <2>2 DEF CountsOf, e, o
  <2> QED
    BY <2>3 DEF p, t, n, c
<1>17. CASE Meets(a, e, y)
  <2>1. /\ d \in Int
        /\ Left(a, e, p) => d < x + 1
        /\ d < x => Left(a, e, p)
        /\ ~NearEdge(a, e, p) => (Left(a, e, p) => d < x) /\ (d < x + 1 => Left(a, e, p))
    BY <1>3, <1>17, ColumnIsNear DEF p
  <2> HIDE DEF d
  <2>2. t = Append(s, d) /\ t \in Seq(Int) /\ Len(t) = Len(s) + 1
    <3>1. t = Append(s, d)
      BY <1>13, <1>17 DEF d
    <3>2. s \in Seq(Int) /\ d \in Int
      BY <1>11, <2>1
    <3>3. Append(s, d) \in Seq(Int) /\ Len(Append(s, d)) = Len(s) + 1
      BY <3>2, AppendProperties, Zenon
    <3> QED
      BY <3>1, <3>3, Zenon
  <2>3. Places(t)
    BY <1>11, <2>1, <2>2, OnePlaceMore
  <2>4. /\ Smaller(s, x) \in Nat /\ Smaller(s, x + 1) \in Nat
        /\ Smaller(t, x) = Smaller(s, x) + (IF d < x THEN 1 ELSE 0)
        /\ Smaller(t, x + 1) = Smaller(s, x + 1) + (IF d < x + 1 THEN 1 ELSE 0)
    <3>1. x + 1 \in Int
      OBVIOUS
    <3> QED
      <4>1. s \in Seq(Int) /\ d \in Int /\ x \in Int /\ t = Append(s, d)
        BY <1>11, <2>1, <2>2
      <4>2. Smaller(s, x) \in Nat /\ Smaller(Append(s, d), x) = Smaller(s, x) + (IF d < x THEN 1 ELSE 0)
        BY <4>1, SmallerAppend, Zenon
      <4>3. /\ Smaller(s, x + 1) \in Nat
            /\ Smaller(Append(s, d), x + 1) = Smaller(s, x + 1) + (IF d < x + 1 THEN 1 ELSE 0)
        BY <3>1, <4>1, SmallerAppend, Zenon
      <4> QED
        BY <4>1, <4>2, <4>3, Zenon
  <2>5. n \in 0..Len(t) /\ Smaller(t, x) <= n /\ n <= Smaller(t, x + 1)
    <3>1. Len(t) = Len(s) + 1
      BY <2>2
    <3>2. n \in 0..Len(t)
      <4>1. n = m \/ n = m + 1
        BY <1>11, <1>12
      <4>2. m \in Nat /\ Len(s) \in Nat /\ m <= Len(s)
        BY <1>11
      <4> QED
        BY <3>1, <4>1, <4>2, SMTT(30)
    <3>3. /\ m \in Nat /\ Smaller(s, x) \in Nat /\ Smaller(s, x + 1) \in Nat
          /\ Smaller(s, x) <= m /\ m <= Smaller(s, x + 1)
      BY <1>11, <2>4, Zenon
    <3>4. /\ n = m \/ n = m + 1
          /\ d < x => n = m + 1
          /\ n = m + 1 => d < x + 1
      BY <1>12, <2>1, <3>3
    <3>5. /\ Smaller(t, x) = Smaller(s, x) \/ (Smaller(t, x) = Smaller(s, x) + 1 /\ d < x)
          /\ Smaller(t, x + 1) = Smaller(s, x + 1) + 1 \/ (Smaller(t, x + 1) = Smaller(s, x + 1) /\ ~(d < x + 1))
      BY <2>4, <3>3, SMTT(30)
    <3>6. Smaller(t, x) <= n /\ n <= Smaller(t, x + 1)
      <4> DEFINE u == Smaller(s, x)
                 v == Smaller(s, x + 1)
      <4>1. m \in Nat /\ u \in Nat /\ v \in Nat /\ u <= m /\ m <= v
        BY <3>3
      <4>2. n = m \/ n = m + 1
        BY <3>4
      <4>3. Smaller(t, x) = u \/ (Smaller(t, x) = u + 1 /\ n = m + 1)
        BY <3>4, <3>5
      <4>4. Smaller(t, x + 1) = v + 1 \/ (Smaller(t, x + 1) = v /\ ~(n = m + 1))
        BY <3>4, <3>5
      <4> HIDE DEF u, v
      <4> QED
        BY <4>1, <4>2, <4>3, <4>4, SMTT(30)
    <3> QED
      BY <3>2, <3>6
  <2>6. ~Near(ring, p) => Smaller(t, x) = n /\ n = Smaller(t, x + 1)
    BY <1>6, <1>11, <1>12, <2>1, <2>4
  <2>7. Even(Len(t)) <=> (o[2] <= y <=> e[2] <= y)
    <3>1. Even(Len(t)) <=> ~Even(Len(s))
      <4>1. Even(Len(s) + 1) <=> ~Even(Len(s))
        BY <1>11, EvenAndOdd, Zenon
      <4> QED
        BY <2>2, <4>1, Zenon
    <3>2. (a[2] <= y) # (e[2] <= y)
      BY <1>17 DEF Meets
    <3> QED
      BY <1>11, <3>1, <3>2, SMTT(30)
  <2>8. CountsOf(ring, p, k + 1, t, n, c)
    BY <1>1, <1>14, <1>15, <2>2, <2>3, <2>5, <2>6, <2>7 DEF CountsOf, e, o
  <2> QED
    BY <2>8 DEF p, t, n, c
<1> QED
  BY <1>16, <1>17

\* The whole ring: an even number of columns, as many of them to the left of
\* a tile as there are edges below it, or as many more or less as two have.
LEMMA RowIsCounted ==
  ASSUME NEW ring \in Seq(Int \X Int), Len(ring) > 0, NEW x \in Int, NEW y \in Int, ~OnRing(ring, <<x, y>>)
  PROVE  \E s \in Seq(Int) :
           /\ Intersections(ring, y) = Sort(s)
           /\ CountsOf(ring, <<x, y>>, Len(ring), s, Counted(Lefts(ring, <<x, y>>), Len(ring)),
                                                     Counted(Belows(ring, <<x, y>>), Len(ring)))
           /\ Even(Len(s))
           /\ Even(Counted(Lefts(ring, <<x, y>>), Len(ring)) + Counted(Belows(ring, <<x, y>>), Len(ring)))
<1> DEFINE p == <<x, y>>
           N == Len(ring)
           l == [k \in 0..N |-> Counted(Lefts(ring, p), k)]
           b == [k \in 0..N |-> Counted(Belows(ring, p), k)]
<1>0. N \in Nat /\ N \in 0..N /\ p[1] = x /\ p[2] = y /\ x + 1 \in Int
  BY LenProperties
<1>1. PICK f : ColumnsMet(f, ring, y, N) /\ Intersections(ring, y) = Sort(f[N])
  BY <1>0, IntersectionsAreColumns
<1>2. \A i \in 0..N : f[i] = IF i = 0 THEN <<>>
                             ELSE IF Meets(From(ring, i), To(ring, i), y)
                                  THEN Append(f[i - 1], Column(From(ring, i), To(ring, i), y))
                                  ELSE f[i - 1]
  BY <1>1 DEF ColumnsMet
<1>3. /\ l[0] = 0 /\ b[0] = 0
      /\ \A k \in 0..N - 1 : /\ l[k + 1] = l[k] + (IF k + 1 \in Lefts(ring, p) THEN 1 ELSE 0)
                             /\ b[k + 1] = b[k] + (IF k + 1 \in Belows(ring, p) THEN 1 ELSE 0)
  <2>1. 0 \in 0..N /\ \A k \in 0..N - 1 : k \in 0..N /\ k + 1 \in 0..N /\ k \in Nat
    BY <1>0
  <2>2. \A k \in 0..N : l[k] = Counted(Lefts(ring, p), k) /\ b[k] = Counted(Belows(ring, p), k)
    OBVIOUS
  <2>3. 0 \in Nat
    OBVIOUS
  <2> HIDE DEF N, l, b, p
  <2>4. l[0] = 0 /\ b[0] = 0
    BY <2>1, <2>2, <2>3, CountOneMore, Zenon
  <2>5. ASSUME NEW k \in 0..N - 1
        PROVE  /\ l[k + 1] = l[k] + (IF k + 1 \in Lefts(ring, p) THEN 1 ELSE 0)
               /\ b[k + 1] = b[k] + (IF k + 1 \in Belows(ring, p) THEN 1 ELSE 0)
    <3>1. /\ Counted(Lefts(ring, p), k + 1) = Counted(Lefts(ring, p), k) + (IF k + 1 \in Lefts(ring, p) THEN 1 ELSE 0)
          /\ Counted(Belows(ring, p), k + 1) = Counted(Belows(ring, p), k) + (IF k + 1 \in Belows(ring, p) THEN 1 ELSE 0)
      BY <2>1, CountOneMore
    <3>2. /\ l[k] = Counted(Lefts(ring, p), k) /\ b[k] = Counted(Belows(ring, p), k)
          /\ l[k + 1] = Counted(Lefts(ring, p), k + 1) /\ b[k + 1] = Counted(Belows(ring, p), k + 1)
      BY <2>1, <2>2
    <3> QED
      BY <3>1, <3>2
  <2> QED
    BY <2>4, <2>5
<1> HIDE DEF l, b
<1> DEFINE T == {k \in Nat : k <= N => CountsOf(ring, p, k, f[k], l[k], b[k])}
<1>4. 0 \in T
  <2>1. f[0] = <<>>
    BY <1>0, <1>2
  <2>2. <<>> \in Seq(Int) /\ Len(<<>>) = 0 /\ Places(<<>>)
    BY DEF Places
  <2>3. Smaller(<<>>, x) = 0 /\ Smaller(<<>>, x + 1) = 0
    <3>1. Smaller(<<>>, x) \in 0..0 /\ Smaller(<<>>, x + 1) \in 0..0
      BY <1>0, <2>2, SmallerAppend
    <3> QED
      BY <3>1
  <2>4. Even(0) /\ 0 + 0 = 0
    BY DEF Even
  <2>5. 0 \in 0..0 /\ 0 \in Nat /\ 0 <= 0
    OBVIOUS
  <2>6. CountsOf(ring, p, 0, <<>>, 0, 0)
    BY <1>0, <2>2, <2>3, <2>4, <2>5 DEF CountsOf
  <2> QED
    BY <1>3, <2>1, <2>5, <2>6
<1>5. ASSUME NEW k \in Nat, k \in T
      PROVE  k + 1 \in T
  <2> SUFFICES ASSUME k + 1 <= N
               PROVE  CountsOf(ring, p, k + 1, f[k + 1], l[k + 1], b[k + 1])
    OBVIOUS
  <2>1. k \in 0..N - 1 /\ k + 1 \in 0..N /\ k + 1 # 0 /\ (k + 1) - 1 = k /\ k <= N
    BY <1>0
  <2>2. CountsOf(ring, p, k, f[k], l[k], b[k])
    BY <1>5, <2>1
  <2>3. f[k + 1] = IF Meets(From(ring, k + 1), To(ring, k + 1), y)
                   THEN Append(f[k], Column(From(ring, k + 1), To(ring, k + 1), y)) ELSE f[k]
    BY <1>2, <2>1
  <2>4. /\ l[k + 1] = l[k] + (IF k + 1 \in Lefts(ring, p) THEN 1 ELSE 0)
        /\ b[k + 1] = b[k] + (IF k + 1 \in Belows(ring, p) THEN 1 ELSE 0)
    BY <1>3, <2>1
  <2> QED
    <3> HIDE DEF T
    <3>1. CountsOf(ring, p, k + 1,
                   IF Meets(From(ring, k + 1), To(ring, k + 1), y)
                   THEN Append(f[k], Column(From(ring, k + 1), To(ring, k + 1), y)) ELSE f[k],
                   l[k] + (IF k + 1 \in Lefts(ring, p) THEN 1 ELSE 0),
                   b[k] + (IF k + 1 \in Belows(ring, p) THEN 1 ELSE 0))
      BY <2>1, <2>2, OneEdgeMore, Zenon
    <3> HIDE DEF p
    <3> QED
      BY <2>3, <2>4, <3>1, Zenon
<1>6. CountsOf(ring, p, N, f[N], l[N], b[N])
  <2>1. \A k \in Nat : k \in T => k + 1 \in T
    BY <1>5
  <2> HIDE DEF T
  <2>2. N \in T
    BY <1>0, <1>4, <2>1, Induction
  <2> QED
    BY <1>0, <2>2 DEF T
<1>7. l[N] = Counted(Lefts(ring, p), N) /\ b[N] = Counted(Belows(ring, p), N)
  BY <1>0 DEF l, b
<1>8. Vertex(ring, N) = Vertex(ring, 0)
  BY EdgesAreVertices
<1> HIDE DEF N, p
<1>9. f[N] \in Seq(Int) /\ Even(Len(f[N])) /\ Even(l[N] + b[N])
  BY <1>6, <1>8, Zenon DEF CountsOf
<1> QED
  BY <1>1, <1>6, <1>7, <1>9, Zenon DEF N, p

\* A tile is filled iff its row is one of the ring's and its column is between
\* those of a pair.
LEMMA RowIsFilled ==
  ASSUME NEW ring, ~(Len(ring) < 3), NEW s \in Seq(Int), Places(s), NEW x \in Int, NEW y,
         Intersections(ring, y) = Sort(s)
  PROVE  <<x, y>> \in fillPolygon(ring) <=>
           /\ y \in Rows(ring)
           /\ \E i \in 1..Len(s) \div 2 : 2 * i - 1 <= Smaller(s, x + 1) /\ Smaller(s, x) < 2 * i
<1> DEFINE xs == Sort(s)
           Row(z) == LET zs == Intersections(ring, z)
                     IN  {<<c, z>> : c \in UNION {zs[2 * i - 1]..zs[2 * i] : i \in 1..Len(zs) \div 2}}
<1>1. /\ Len(s) \in Nat /\ Len(xs) = Len(s)
      /\ \A k \in 1..Len(s) : xs[k] \in Int /\ \A v \in Int : xs[k] < v <=> k <= Smaller(s, v)
  BY SortIsSorted, LenProperties
<1> HIDE DEF xs
<1>2. \A i \in 1..Len(s) \div 2 : i \in Nat /\ 2 * i - 1 \in 1..Len(s) /\ 2 * i \in 1..Len(s)
  BY <1>1
<1>3. Smaller(s, x) \in Nat /\ Smaller(s, x + 1) \in Nat /\ x + 1 \in Int
  <2>1. x + 1 \in Int
    OBVIOUS
  <2> QED
    BY <2>1, SmallerAppend
<1>4. ASSUME NEW i \in 1..Len(s) \div 2
      PROVE  x \in xs[2 * i - 1]..xs[2 * i] <=> 2 * i - 1 <= Smaller(s, x + 1) /\ Smaller(s, x) < 2 * i
  <2> DEFINE j == 2 * i - 1
             k == 2 * i
  <2>1. j \in 1..Len(s) /\ k \in 1..Len(s) /\ k \in Nat
    BY <1>2
  <2> HIDE DEF j, k
  <2>2. xs[j] \in Int /\ (xs[j] < x + 1 <=> j <= Smaller(s, x + 1))
    BY <1>1, <1>3, <2>1, Zenon
  <2>3. xs[k] \in Int /\ (xs[k] < x <=> k <= Smaller(s, x))
    BY <1>1, <2>1, Zenon
  <2>4. x \in xs[j]..xs[k] <=> j <= Smaller(s, x + 1) /\ Smaller(s, x) < k
    <3>1. x \in xs[j]..xs[k] <=> xs[j] < x + 1 /\ ~(xs[k] < x)
      <4> DEFINE u == xs[j]
                 v == xs[k]
      <4>1. u \in Int /\ v \in Int
        BY <2>2, <2>3
      <4> HIDE DEF u, v
      <4>2. x \in u..v <=> u < x + 1 /\ ~(v < x)
        BY <4>1
      <4> QED
        BY <4>2 DEF u, v
    <3>2. Smaller(s, x) < k <=> ~(k <= Smaller(s, x))
      BY <1>3, <2>1
    <3> QED
      BY <2>2, <2>3, <3>1, <3>2, Zenon
  <2> QED
    BY <2>4 DEF j, k
<1>5. <<x, y>> \in Row(y) <=> \E i \in 1..Len(s) \div 2 : x \in xs[2 * i - 1]..xs[2 * i]
  <2>1. Row(y) = {<<c, y>> : c \in UNION {xs[2 * i - 1]..xs[2 * i] : i \in 1..Len(s) \div 2}}
    BY <1>1 DEF xs
  <2> HIDE DEF Row
  <2>2. <<x, y>> \in Row(y) <=> x \in UNION {xs[2 * i - 1]..xs[2 * i] : i \in 1..Len(s) \div 2}
    BY <2>1
  <2> QED
    BY <2>2
<1>6. <<x, y>> \in fillPolygon(ring) <=> y \in Rows(ring) /\ <<x, y>> \in Row(y)
  <2>1. fillPolygon(ring) = UNION {Row(z) : z \in Rows(ring)}
    BY DEF fillPolygon
  <2>2. \A z : <<x, y>> \in Row(z) => z = y
    OBVIOUS
  <2> HIDE DEF Row
  <2> QED
    BY <2>1, <2>2
<1> QED
  BY <1>4, <1>5, <1>6

\* What is filled are tiles.
LEMMA FilledAreTiles ==
  ASSUME NEW ring \in Seq(Int \X Int), NEW t \in fillPolygon(ring)
  PROVE  ~(Len(ring) < 3) /\ \E y \in Int : \E x : t = <<x, y>> /\ y \in Rows(ring)
<1>1. ~(Len(ring) < 3)
  BY DEF fillPolygon
<1>2. PICK y \in Rows(ring) : \E x : t = <<x, y>>
  BY <1>1 DEF fillPolygon
<1>3. y \in Int
  <2>1. PICK i \in Edges(ring), j \in Edges(ring) : y \in Least(ring[i][2], ring[j][2])..ring[i][2]
    BY <1>2 DEF Rows
  <2>2. ring[i] \in Int \X Int /\ ring[j] \in Int \X Int
    BY DEF Edges
  <2>3. Least(ring[i][2], ring[j][2]) \in Int /\ ring[i][2] \in Int
    BY <2>2 DEF Least
  <2> QED
    BY <2>1, <2>3
<1> QED
  BY <1>1, <1>2, <1>3

\* Columns are integers.
LEMMA FilledAreIntegers ==
  ASSUME NEW ring \in Seq(Int \X Int), NEW x, NEW y, <<x, y>> \in fillPolygon(ring)
  PROVE  x \in Int
<1> DEFINE xs == Intersections(ring, y)
<1>1. ~(Len(ring) < 3)
  BY DEF fillPolygon
<1>2. \E i \in 1..Len(xs) \div 2 : x \in xs[2 * i - 1]..xs[2 * i]
  BY <1>1 DEF fillPolygon
<1> QED
  BY <1>2

\* What is on an edge is near it.
LEMMA OnEdgeIsNear ==
  ASSUME NEW a \in Int \X Int, NEW b \in Int \X Int, NEW p \in Int \X Int, OnEdge(a, b, p)
  PROVE  NearEdge(a, b, p)
<1>1. a[1] \in Int /\ a[2] \in Int /\ b[1] \in Int /\ b[2] \in Int /\ p[1] \in Int /\ p[2] \in Int
      /\ a = <<a[1], a[2]>> /\ p = <<p[1], p[2]>>
  OBVIOUS
<1>2. 2 * Abs(Side(a, b, p)) = 0 /\ 0 <= Abs(b[1] - a[1]) /\ 0 <= Abs(b[2] - a[2])
  BY <1>1 DEF OnEdge, Abs
<1>3. CASE a[2] # b[2]
  BY <1>2, <1>3 DEF NearEdge, OnEdge
<1>4. CASE a[1] # b[1]
  BY <1>2, <1>4 DEF NearEdge, OnEdge
<1>5. CASE a[1] = b[1] /\ a[2] = b[2]
  <2>1. p[1] = a[1] /\ p[2] = a[2]
    BY <1>1, <1>5 DEF OnEdge, Between, Least, Most
  <2> QED
    BY <1>1, <2>1 DEF NearEdge
<1> QED
  BY <1>3, <1>4, <1>5

\* CountBelow counts edges.
LEMMA BelowIsCounted ==
  ASSUME NEW ring \in Seq(Int \X Int), NEW p
  PROVE  CountBelow(ring, p) = Counted(Belows(ring, p), Len(ring))
<1>1. Edges(ring) = 1..Len(ring)
  BY LenProperties DEF Edges
<1>2. {i \in Edges(ring) : Below(From(ring, i), To(ring, i), p)} = {i \in 1..Len(ring) : i \in Belows(ring, p)}
  BY <1>1 DEF Belows
<1> QED
  BY <1>2, Zenon DEF CountBelow, Counted

\* There is no inside to one vertex, or to two.
LEMMA NothingInside ==
  ASSUME NEW ring \in Seq(Int \X Int), NEW p \in Int \X Int, Len(ring) < 3
  PROVE  ~Interior(ring, p)
<1> DEFINE n == Len(ring)
           B == {i \in Edges(ring) : Below(From(ring, i), To(ring, i), p)}
<1>1. n \in {0, 1, 2} /\ Edges(ring) = 1..n /\ \A i \in 1..n : ring[i] \in Int \X Int
  <2>1. n \in Nat /\ Edges(ring) = 1..n
    BY LenProperties DEF Edges
  <2>2. \A i \in 1..n : ring[i] \in Int \X Int
    BY ElementOfSeq, Zenon
  <2>3. n < 3
    OBVIOUS
  <2> HIDE DEF n
  <2>4. n \in {0, 1, 2}
    BY <2>1, <2>3
  <2> QED
    BY <2>1, <2>2, <2>4
<1>2. ASSUME NEW a \in Int \X Int, NEW b \in Int \X Int
      PROVE  ~Below(a, a, p) /\ (Below(a, b, p) <=> Below(b, a, p))
  <2>1. a[1] \in Int /\ a[2] \in Int /\ b[1] \in Int /\ b[2] \in Int /\ p[1] \in Int /\ p[2] \in Int
    OBVIOUS
  <2>2. Side(a, b, p) = -Side(b, a, p) /\ Side(a, b, p) \in Int /\ Side(b, a, p) \in Int
    <3> DEFINE u == a[1] - p[1]
               v == a[2] - p[2]
               w == b[1] - p[1]
               z == b[2] - p[2]
    <3>1. Side(a, b, p) = u * z - v * w /\ Side(b, a, p) = w * v - z * u
      BY SideIsCross
    <3>2. u \in Int /\ v \in Int /\ w \in Int /\ z \in Int
      BY <2>1
    <3> HIDE DEF u, v, w, z
    <3>3. u * z = z * u /\ v * w = w * v /\ u * z \in Int /\ v * w \in Int
      BY <3>2
    <3> QED
      BY <3>1, <3>3
  <2>3. ~Below(a, a, p)
    BY <2>1 DEF Below
  <2>4. Side(a, b, p) > 0 <=> Side(b, a, p) < 0
    BY <2>2
  <2>5. Side(a, b, p) < 0 <=> Side(b, a, p) > 0
    BY <2>2
  <2>6. Below(a, b, p) <=> Below(b, a, p)
    BY <2>4, <2>5, Zenon DEF Below
  <2> QED
    BY <2>3, <2>6
<1>3. B = {} \/ B = {1, 2}
  <2>1. CASE n = 0
    BY <1>1, <2>1
  <2>2. CASE n = 1
    <3>1. From(ring, 1) = ring[1] /\ To(ring, 1) = ring[1]
      <4>1. 1 % n = 0
        BY <2>2
      <4> QED
        BY <4>1 DEF From, To
    <3> QED
      BY <1>1, <1>2, <2>2, <3>1
  <2>3. CASE n = 2
    <3>1. From(ring, 1) = ring[1] /\ To(ring, 1) = ring[2] /\ From(ring, 2) = ring[2] /\ To(ring, 2) = ring[1]
      <4>1. 1 % n = 1 /\ 2 % n = 0
        BY <2>3
      <4> QED
        BY <4>1 DEF From, To
    <3>2. Edges(ring) = {1, 2} /\ ring[1] \in Int \X Int /\ ring[2] \in Int \X Int
      BY <1>1, <2>3
    <3>3. 1 \in B <=> 2 \in B
      BY <1>2, <3>1, <3>2
    <3>4. B \subseteq {1, 2}
      BY <3>2
    <3> HIDE DEF B
    <3> QED
      BY <3>3, <3>4
  <2> QED
    BY <1>1, <2>1, <2>2, <2>3
<1> HIDE DEF B
<1>4. Cardinality(B) \in {0, 2}
  <2>1. CASE B = {}
    BY <2>1, FS_EmptySet
  <2>2. CASE B = {1, 2}
    <3>1. Cardinality(1..2) = 2
      <4>1. Cardinality(1..2) = IF 1 > 2 THEN 0 ELSE 2 - 1 + 1
        <5>1. 1 \in Int /\ 2 \in Int
          OBVIOUS
        <5> QED
          BY <5>1, FS_Interval, Zenon
      <4> QED
        BY <4>1
    <3>2. {1, 2} = 1..2
      OBVIOUS
    <3> QED
      BY <2>2, <3>1, <3>2
  <2> QED
    BY <1>3, <2>1, <2>2
<1> QED
  BY <1>4 DEF Interior, CountBelow, Parity, B

\* Half of what can be halved.
LEMMA Halves ==
  ASSUME NEW m \in Nat
  PROVE  /\ Even(m) => m = 2 * (m \div 2) /\ m \div 2 \in Nat
         /\ ~Even(m) => m = 2 * ((m + 1) \div 2) - 1 /\ (m + 1) \div 2 \in Nat \ {0}
  BY DEF Even

\* Of two numbers whose sum is even, both are odd or none.
LEMMA EvenSum ==
  ASSUME NEW m \in Nat, NEW b \in Nat, Even(m + b)
  PROVE  b % 2 = 1 <=> ~Even(m)
  BY DEF Even

\* All that is inside is filled, and what is filled is inside or near an edge.
LEMMA FillIsInside ==
  ASSUME NEW ring \in Seq(Int \X Int), ~(Len(ring) < 3), NEW x \in Int, NEW y \in Int, ~OnRing(ring, <<x, y>>)
  PROVE  /\ Interior(ring, <<x, y>>) => <<x, y>> \in fillPolygon(ring)
         /\ <<x, y>> \in fillPolygon(ring) => Interior(ring, <<x, y>>) \/ Near(ring, <<x, y>>)
<1> DEFINE p == <<x, y>>
           N == Len(ring)
           m == Counted(Lefts(ring, p), N)
           b == Counted(Belows(ring, p), N)
<1>0. N \in Nat /\ N > 0 /\ p[1] = x /\ p[2] = y /\ p \in Int \X Int
  BY LenProperties
<1>1. PICK s \in Seq(Int) : /\ Intersections(ring, y) = Sort(s) /\ CountsOf(ring, p, N, s, m, b)
                            /\ Even(Len(s)) /\ Even(m + b)
  BY <1>0, RowIsCounted, Zenon
<1>2. CountBelow(ring, p) = b
  BY BelowIsCounted
<1>3. Lefts(ring, p) = {} => m = 0
  <2>1. Lefts(ring, p) = {} => {i \in 1..N : i \in Lefts(ring, p)} = {}
    OBVIOUS
  <2> QED
    BY <2>1, FS_EmptySet, Zenon DEF Counted
<1> HIDE DEF p, N, m, b
<1>4. /\ Len(s) \in Nat /\ Places(s) /\ m \in Nat /\ m <= Len(s) /\ b \in Nat
      /\ Smaller(s, x) <= m /\ m <= Smaller(s, x + 1)
      /\ ~Near(ring, p) => Smaller(s, x) = m /\ m = Smaller(s, x + 1)
  BY <1>0, <1>1, LenProperties DEF CountsOf
<1>5. Interior(ring, p) <=> ~Even(m)
  <2>1. Interior(ring, p) <=> b % 2 = 1
    BY <1>2 DEF Interior, Parity, p
  <2>2. b % 2 = 1 <=> ~Even(m)
    BY <1>1, <1>4, EvenSum, Zenon
  <2> QED
    BY <2>1, <2>2
<1>6. p \in fillPolygon(ring) <=>
        /\ y \in Rows(ring)
        /\ \E i \in 1..Len(s) \div 2 : 2 * i - 1 <= Smaller(s, x + 1) /\ Smaller(s, x) < 2 * i
  BY <1>1, <1>4, RowIsFilled DEF p
<1>7. Smaller(s, x) \in Nat /\ Smaller(s, x + 1) \in Nat
  <2>1. x + 1 \in Int
    OBVIOUS
  <2> QED
    BY <2>1, SmallerAppend
<1>8. ASSUME Interior(ring, p)
      PROVE  p \in fillPolygon(ring)
  <2> DEFINE i == (m + 1) \div 2
  <2>1. m = 2 * i - 1 /\ i \in Nat \ {0}
    BY <1>4, <1>5, <1>8, Halves
  <2>2. Len(s) = 2 * (Len(s) \div 2) /\ Len(s) \div 2 \in Nat
    BY <1>1, <1>4, Halves
  <2> HIDE DEF i
  <2>3. i \in 1..Len(s) \div 2
    BY <1>4, <2>1, <2>2
  <2>4. 2 * i - 1 <= Smaller(s, x + 1) /\ Smaller(s, x) < 2 * i
    BY <1>4, <1>7, <2>1
  <2>5. y \in Rows(ring)
    <3>1. m # 0
      BY <2>1
    <3>2. PICK k \in Lefts(ring, p) : TRUE
      BY <1>3, <3>1
    <3> DEFINE a == From(ring, k)
               e == To(ring, k)
    <3>3. k \in 1..N /\ Left(a, e, p)
      BY <3>2 DEF Lefts, N
    <3>4. PICK g \in 1..N, h \in 1..N : a = ring[g] /\ e = ring[h]
      <4>1. (k % N) + 1 \in 1..N
        BY <1>0, <3>3
      <4> QED
        BY <3>3, <4>1 DEF From, To, N
    <3>5. ring[g] \in Int \X Int /\ ring[h] \in Int \X Int
      BY <3>4, ElementOfSeq, Zenon DEF N
    <3>6. (a[2] <= y /\ y < e[2]) \/ (e[2] <= y /\ y < a[2])
      BY <1>0, <3>3 DEF Left
    <3> HIDE DEF a, e
    <3>7. y \in Least(ring[g][2], ring[h][2])..ring[g][2] \/ y \in Least(ring[h][2], ring[g][2])..ring[h][2]
      <4> DEFINE u == ring[g][2]
                 v == ring[h][2]
      <4>1. u \in Int /\ v \in Int
        BY <3>5
      <4>2. (u <= y /\ y < v) \/ (v <= y /\ y < u)
        BY <3>4, <3>6
      <4> HIDE DEF u, v
      <4>3. y \in Least(u, v)..u \/ y \in Least(v, u)..v
        BY <4>1, <4>2 DEF Least
      <4> QED
        BY <4>3 DEF u, v
    <3>8. g \in Edges(ring) /\ h \in Edges(ring)
      BY <3>4, LenProperties DEF Edges, N
    <3>9. ASSUME NEW c \in Edges(ring), NEW d \in Edges(ring), y \in Least(ring[c][2], ring[d][2])..ring[c][2]
          PROVE  y \in Rows(ring)
      <4>1. y \in UNION {Least(ring[c][2], ring[other][2])..ring[c][2] : other \in Edges(ring)}
        BY <3>9
      <4> QED
        BY <4>1, SMTT(30) DEF Rows
    <3> QED
      BY <3>7, <3>8, <3>9
  <2> QED
    BY <1>6, <2>3, <2>4, <2>5
<1>9. ASSUME p \in fillPolygon(ring), ~Near(ring, p)
      PROVE  Interior(ring, p)
  <2>1. PICK i \in 1..Len(s) \div 2 : 2 * i - 1 <= Smaller(s, x + 1) /\ Smaller(s, x) < 2 * i
    BY <1>6, <1>9
  <2>2. i \in Nat /\ m = 2 * i - 1
    <3>1. i \in Nat
      BY <1>4
    <3>2. Smaller(s, x) = m /\ m = Smaller(s, x + 1)
      BY <1>4, <1>9
    <3>3. 2 * i - 1 <= m /\ m < 2 * i /\ m \in Nat
      BY <1>4, <2>1, <3>2
    <3> QED
      BY <3>1, <3>3
  <2>3. ~Even(m)
    BY <1>4, <2>2 DEF Even
  <2> QED
    BY <1>5, <2>3
<1> QED
  BY <1>8, <1>9 DEF p

\* A tile is drawn by the line of an edge, or filled.
LEMMA DrawnIs ==
  ASSUME NEW ring, NEW t
  PROVE  t \in drawPolygon(ring) <=>
           \/ \E i \in Edges(ring) : t \in drawLine(From(ring, i), To(ring, i))
           \/ t \in fillPolygon(ring)
<1> DEFINE A == UNION {drawLine(From(ring, i), To(ring, i)) : i \in Edges(ring)}
<1>1. drawPolygon(ring) = fillPolygon(ring) \cup A
  BY DEF drawPolygon
<1>2. t \in A <=> \E i \in Edges(ring) : t \in drawLine(From(ring, i), To(ring, i))
  BY Zenon
<1> HIDE DEF A
<1>3. t \in drawPolygon(ring) <=> t \in A \/ t \in fillPolygon(ring)
  BY <1>1
<1> QED
  BY <1>2, <1>3, Zenon

\* drawPolygon draws polygons.
LEMMA PolygonIsDrawn ==
  ASSUME NEW ring \in Seq(Int \X Int)
  PROVE  IsPolygon(drawPolygon(ring), ring)
<1>1. /\ Edges(ring) = 1..Len(ring) /\ Len(ring) \in Nat
      /\ \A i \in Edges(ring) : From(ring, i) \in Int \X Int /\ To(ring, i) \in Int \X Int
  <2>1. Edges(ring) = 1..Len(ring) /\ Len(ring) \in Nat
    BY LenProperties DEF Edges
  <2>2. ASSUME NEW i \in 1..Len(ring)
        PROVE  From(ring, i) \in Int \X Int /\ To(ring, i) \in Int \X Int
    <3>1. (i % Len(ring)) + 1 \in 1..Len(ring)
      BY <2>1
    <3> QED
      BY <3>1 DEF From, To
  <2> QED
    BY <2>1, <2>2
<1>2. ASSUME NEW p \in Int \X Int, OnRing(ring, p)
      PROVE  Near(ring, p)
  BY <1>1, <1>2, OnEdgeIsNear DEF OnRing, Near
<1>3. ASSUME NEW p \in Int \X Int, Interior(ring, p)
      PROVE  p \in drawPolygon(ring)
  <2>1. ~(Len(ring) < 3)
    BY <1>3, NothingInside
  <2>2. PICK x \in Int, y \in Int : p = <<x, y>>
    OBVIOUS
  <2>3. ~OnRing(ring, p)
    BY <1>3 DEF Interior
  <2>4. p \in fillPolygon(ring)
    BY <1>3, <2>1, <2>2, <2>3, FillIsInside
  <2> QED
    BY <2>4, DrawnIs
<1>4. ASSUME NEW t \in drawPolygon(ring)
      PROVE  Interior(ring, t) \/ Near(ring, t)
  <2>1. CASE t \in fillPolygon(ring)
    <3>1. ~(Len(ring) < 3)
      BY <2>1, FilledAreTiles
    <3>2. PICK x \in Int, y \in Int : t = <<x, y>>
      BY <2>1, FilledAreTiles, FilledAreIntegers
    <3>3. CASE OnRing(ring, t)
      BY <1>2, <3>2, <3>3
    <3>4. CASE ~OnRing(ring, t)
      BY <2>1, <3>1, <3>2, <3>4, FillIsInside
    <3> QED
      BY <3>3, <3>4
  <2>2. CASE t \notin fillPolygon(ring)
    <3>1. PICK i \in Edges(ring) : t \in drawLine(From(ring, i), To(ring, i))
      BY <2>2, DrawnIs
    <3>2. IsLine(drawLine(From(ring, i), To(ring, i)), From(ring, i), To(ring, i))
      BY <1>1, LineIsDrawn
    <3>3. NearEdge(From(ring, i), To(ring, i), t)
      BY <3>1, <3>2, Zenon DEF IsLine
    <3> QED
      BY <1>1, <3>3 DEF Near
  <2> QED
    BY <2>1, <2>2
<1>5. (0..TilemapWidth - 1) \X (0..TilemapHeight - 1) \subseteq Int \X Int
  OBVIOUS
<1> QED
  BY <1>1, <1>3, <1>4, <1>5 DEF IsPolygon, Near

=============================================================================
