------------------------------- MODULE Raster -------------------------------
(***************************************************************************)
(* The geometry of the world generator: from degrees to tiles, a line      *)
(* between two tiles, the tiles of a polygon.  A tile is a pair <<x, y>>.  *)
(*                                                                         *)
(* The code computes in float64.  Here quotients are exact and rounded as  *)
(* math.Round does, half away from zero.                                   *)
(***************************************************************************)
EXTENDS Integers, Sequences, FiniteSets

CONSTANTS TilemapWidth, TilemapHeight \* 8192 and 4096

ASSUME RasterAssumption == {TilemapWidth, TilemapHeight} \subseteq Nat \ {0}

Abs(n) == IF n < 0 THEN -n ELSE n
Least(a, b) == IF a < b THEN a ELSE b
Most(a, b) == IF a < b THEN b ELSE a
Between(n, a, b) == Least(a, b) <= n /\ n <= Most(a, b)
Clamp(n, low, high) == Most(low, Least(high, n))

\* n / d rounded to an integer, half away from zero.
Round(n, d) ==
  LET q == (2 * Abs(n) + Abs(d)) \div (2 * Abs(d))
  IN  IF (n < 0) # (d < 0) THEN -q ELSE q

latLongToTileCoords(latitude, longitude) ==
  << Clamp(Round((Clamp(longitude, -180, 180) + 180) * TilemapWidth, 360), 0, TilemapWidth - 1),
     Clamp(Round((Clamp(latitude, -90, 90) + 90) * TilemapHeight, 180), 0, TilemapHeight - 1) >>

\* One turn of drawLine's loop from p with accumulated error err.
\* Mutant: the two comparisons use the error one after the other.
LineStep_Chained(p, err, dx, dy, sx, sy) ==
  LET right == 2 * err > -dy
      err1  == IF right THEN err - dy ELSE err
      up    == 2 * err1 < dx
  IN  [p   |-> <<IF right THEN p[1] + sx ELSE p[1], IF up THEN p[2] + sy ELSE p[2]>>,
       err |-> IF up THEN err1 + dx ELSE err1]
LineStep(p, err, dx, dy, sx, sy) ==
  LET right == 2 * err > -dy
      up    == 2 * err < dx
  IN  [p   |-> <<IF right THEN p[1] + sx ELSE p[1], IF up THEN p[2] + sy ELSE p[2]>>,
       err |-> err - (IF right THEN dy ELSE 0) + (IF up THEN dx ELSE 0)]

\* The tiles drawLine visits, in order, as a function of the number of turns;
\* each turn advances on one axis or both, so that dx + dy turns are enough.
drawLine(start, end) ==
  LET dx == Abs(end[1] - start[1])
      dy == Abs(end[2] - start[2])
      sx == IF start[1] < end[1] THEN 1 ELSE -1
      sy == IF start[2] < end[2] THEN 1 ELSE -1
      at[k \in 0..dx + dy] ==
        IF k = 0 THEN [p |-> start, err |-> dx - dy]
        ELSE LET before == at[k - 1]
             IN  IF before.p = end THEN before
                 ELSE LineStep(before.p, before.err, dx, dy, sx, sy)
  IN  {at[k].p : k \in 0..dx + dy}

\* Edge i of a ring goes from its vertex i to the next one, and to the first
\* from the last.
Edges(ring) == DOMAIN ring
From(ring, i) == ring[i]
To(ring, i) == ring[(i % Len(ring)) + 1]

\* Does the scan line meet an edge?  Its upper end does not belong to it.
\* Mutant: both ends do.
Meets_Closed(a, b, y) == a[2] # b[2] /\ Between(y, a[2], b[2])
Meets(a, b, y) == (a[2] <= y) # (b[2] <= y)

\* The column where it does.
Column(a, b, y) == Round(a[1] * (b[2] - a[2]) + (y - a[2]) * (b[1] - a[1]), b[2] - a[2])

\* sort.Ints: the k-th number has fewer than k below it, and k up to it.
Smaller(s, x) == Cardinality({i \in DOMAIN s : s[i] < x})
Sort(s) ==
  [k \in DOMAIN s |-> CHOOSE x \in {s[i] : i \in DOMAIN s} : Smaller(s, x) < k /\ k <= Smaller(s, x + 1)]

\* The columns of the edges that are met, edge by edge, and then sorted.
Intersections(ring, y) ==
  LET xs[i \in 0..Len(ring)] ==
        IF i = 0 THEN <<>>
        ELSE IF Meets(From(ring, i), To(ring, i), y)
             THEN Append(xs[i - 1], Column(From(ring, i), To(ring, i), y))
             ELSE xs[i - 1]
  IN  Sort(xs[Len(ring)])

Rows(ring) ==
  UNION {UNION {Least(ring[i][2], ring[j][2])..ring[i][2] : j \in Edges(ring)} : i \in Edges(ring)}

\* Mutant: between the last of a pair and the first of the next.
fillPolygon_Between(ring) ==
  IF Len(ring) < 3 THEN {}
  ELSE UNION {LET xs == Intersections(ring, y)
              IN  {<<x, y>> : x \in UNION {xs[2 * i]..xs[2 * i + 1] : i \in 1..(Len(xs) - 1) \div 2}}
                  : y \in Rows(ring)}
fillPolygon(ring) ==
  IF Len(ring) < 3 THEN {}
  ELSE UNION {LET xs == Intersections(ring, y)
              IN  {<<x, y>> : x \in UNION {xs[2 * i - 1]..xs[2 * i] : i \in 1..Len(xs) \div 2}}
                  : y \in Rows(ring)}

drawPolygon(ring) ==
  fillPolygon(ring) \cup UNION {drawLine(From(ring, i), To(ring, i)) : i \in Edges(ring)}

-----------------------------------------------------------------------------
(* Reference definitions. *)

\* Twice the area of a, b, p: positive on one side of a line, 0 on it.
Side(a, b, p) == (b[1] - a[1]) * (p[2] - a[2]) - (b[2] - a[2]) * (p[1] - a[1])

OnEdge(a, b, p) == Side(a, b, p) = 0 /\ Between(p[1], a[1], b[1]) /\ Between(p[2], a[2], b[2])

\* An edge passes below p: it spans p's column and p is on its upper side.
Below(a, b, p) ==
  \/ a[1] <= p[1] /\ b[1] > p[1] /\ Side(a, b, p) > 0
  \/ b[1] <= p[1] /\ a[1] > p[1] /\ Side(a, b, p) < 0

Parity(n) == n % 2
CountBelow(ring, p) == Cardinality({i \in Edges(ring) : Below(From(ring, i), To(ring, i), p)})

OnRing(ring, p) == \E i \in Edges(ring) : OnEdge(From(ring, i), To(ring, i), p)
Interior(ring, p) == ~OnRing(ring, p) /\ Parity(CountBelow(ring, p)) = 1

\* p is at most half a tile away from the edge, along an axis on which the
\* edge advances.
NearEdge(a, b, p) ==
  \/ a[2] # b[2] /\ Between(p[2], a[2], b[2]) /\ 2 * Abs(Side(a, b, p)) <= Abs(b[2] - a[2])
  \/ a[1] # b[1] /\ Between(p[1], a[1], b[1]) /\ 2 * Abs(Side(a, b, p)) <= Abs(b[1] - a[1])
  \/ p = a

\* A line is drawn from end to end, one tile per unit of its longer axis,
\* each at most half a tile off, and without gaps.
IsLine(tiles, a, b) ==
  LET n == Most(Abs(b[1] - a[1]), Abs(b[2] - a[2]))
      axis == IF Abs(b[1] - a[1]) = n THEN 1 ELSE 2
  IN  /\ {a, b} \subseteq tiles
      /\ \A c \in Least(a[axis], b[axis])..Most(a[axis], b[axis]) :
           \E t \in tiles : t[axis] = c /\ \A u \in tiles : u[axis] = c => u = t
      /\ \A t \in tiles : NearEdge(a, b, t)
      /\ \A t \in tiles \ {b} : \E u \in tiles \ {t} :
           Most(Abs(u[1] - t[1]), Abs(u[2] - t[2])) = 1 /\ Abs(b[axis] - u[axis]) < Abs(b[axis] - t[axis])

\* All lattice points inside a polygon are drawn, and nothing that is
\* farther than half a tile from it.
IsPolygon(tiles, ring) ==
  /\ \A p \in (0..TilemapWidth - 1) \X (0..TilemapHeight - 1) : Interior(ring, p) => p \in tiles
  /\ \A t \in tiles : \/ Interior(ring, t)
                      \/ \E i \in Edges(ring) : NearEdge(From(ring, i), To(ring, i), t)
=============================================================================
