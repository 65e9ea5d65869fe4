------------------------------- MODULE MCWorld -------------------------------
(* An instance of World for TLC: a player who logs in twice. *)
EXTENDS World, TLC

CONSTANTS r1, r2

TwoRows == {r1, r2}
OneId == r1 :> 1 @@ r2 :> 1

\* No query of the server loads the unit of a player: GetUnitType is infantry.
OnFoot == r1 :> "infantry" @@ r2 :> "infantry"

\* The first session turns; the second is loaded moving and stops.
Inputs == r1 :> <<<<1, 0>>, <<0, 2>>>> @@ r2 :> <<<<0, 0>>>>
LoadedRows == r1 :> [dir |-> <<0, 0>>, tile |-> <<0, 0>>]
           @@ r2 :> [dir |-> <<1, 0>>, tile |-> <<0, 0>>]

\* .
\* ~
\* . .   with no tile beyond
SmallMap == <<0, 0>> :> "ground" @@ <<1, 0>> :> "ground"
         @@ <<0, 1>> :> "water" @@ <<0, 2>> :> "ground"

\* /tp leads off the map, beside the ground and the water.
OffMap == {<<1, 1>>}
=============================================================================
