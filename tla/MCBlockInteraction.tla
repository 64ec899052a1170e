------------------------- MODULE MCBlockInteraction -------------------------
(* A slice of three columns, four blocks high: farmland with grass on it, dirt *)
(* beside water with a cake over it and a stone that hangs above.              *)
EXTENDS BlockInteraction

MCColumns == <<<<"Farmland", "ShortGrass", "Air", "Air">>,
               <<"Dirt", "Air", "Air", "Air">>,
               <<"Water", "Cake", "Air", "Stone">>>>
MCTerrains == {[c \in Cells |-> MCColumns[c[1] + 1][c[2] + 1]]}
MCStands == {<<0, 2>>, <<0, 3>>}
MCTargets == {<<1, 0>>, <<2, 3>>}
=============================================================================
