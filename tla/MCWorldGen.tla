----------------------------- MODULE MCWorldGen -----------------------------
(* Small maps for WorldGen: 4 by 4 tiles of 90 by 45 degrees. *)
EXTENDS WorldGen

\* The degrees of tile <<x, y>>.
At(x, y) == <<90 * x - 180, 45 * y - 90>>
Box(x1, y1, x2, y2) == <<At(x1, y1), At(x2, y1), At(x2, y2), At(x1, y2)>>

Polygon(ring) == [type |-> "Polygon", coordinates |-> <<ring>>]
MultiPolygon(rings) == [type |-> "MultiPolygon", coordinates |-> <<rings>>]
NoArea == [type |-> "Point", coordinates |-> At(0, 0)]

Feature(code, geometry) == [code |-> code, geometry |-> geometry]

\* Two neighbours, neither at the origin; one has a second part.  The last
\* column is that of +180.
Neighbouring == <<Feature("TR", Polygon(Box(1, 0, 2, 2))), Feature("-99", Polygon(Box(3, 3, 3, 3))),
                  Feature("GR", MultiPolygon(<<<<At(2, 2), At(3, 1)>>, <<At(4, 0)>>>>))>>

\* The second country covers the first; a third has no tiles.
Covered == <<Feature("TR", Polygon(<<At(1, 1), At(2, 1)>>)), Feature("GR", Polygon(Box(1, 1, 2, 2))),
             Feature("AQ", NoArea)>>

\* The third feature has no name.
Broken == <<Feature("TR", Polygon(Box(0, 0, 1, 1))), Feature("none", NoArea)>>

SmallWorlds == {Neighbouring, Covered, Broken}
TwoPlayers == {"Ahmet", "Mustafa"}
=============================================================================
