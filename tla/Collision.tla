------------------------------ MODULE Collision ------------------------------
(***************************************************************************)
(* The geometry of the movement simulation: the boxes of the blocks near a *)
(* player (utils/world.go) and the velocity a box is left with when it     *)
(* meets another one (BBClipCollide of game/aabb.go).                      *)
(*                                                                         *)
(* The world is a slice one block deep.  Lengths are whole units, Unit of  *)
(* them to a block, so the tolerances of the code (1e-7 for a contact,     *)
(* 1e-4 around the player) are left out.  Axis 1 is x and axis 2 is y; the *)
(* z axis, which goes like x, is left out.                                 *)
(***************************************************************************)
EXTENDS Integers, FiniteSets

CONSTANTS
    Unit,           \* units to the side of a block
    Columns, Rows,  \* the cells of the world are (0..Columns - 1) \X (0..Rows - 1)
    World           \* the kind of the block in each cell

Cells == (0..Columns - 1) \X (0..Rows - 1)
Kinds == {"air", "stone", "slab", "fence", "slime", "bed", "web", "water", "bamboo", "vine"}

ASSUME WorldAssumption ==
    /\ Unit \in Nat \ {0} /\ Columns \in Nat \ {0} /\ Rows \in Nat \ {0}
    /\ World \in [Cells -> Kinds]

Axes == {1, 2}
Vec(x, y) == <<x, y>>
Add(a, b) == <<a[1] + b[1], a[2] + b[2]>>
Lesser(a, b) == IF a < b THEN a ELSE b
Greater(a, b) == IF a > b THEN a ELSE b

\* World.Block: air in what is not loaded.
Block(c) == IF c \in Cells THEN World[c] ELSE "air"

-----------------------------------------------------------------------------
(* boxes *)

Box(lo, hi) == [lo |-> lo, hi |-> hi]
Translate(b, v) == Box(Add(b.lo, v), Add(b.hi, v))
Grow(b, n) == Box(Add(b.lo, <<-n, -n>>), Add(b.hi, <<n, n>>))
Extend(b, v) == Box([i \in Axes |-> b.lo[i] + Lesser(v[i], 0)], [i \in Axes |-> b.hi[i] + Greater(v[i], 0)])
IntersectsWith(a, b) == \A i \in Axes : a.hi[i] > b.lo[i] /\ a.lo[i] < b.hi[i]
CellBox(c) == Box(<<c[1] * Unit, c[2] * Unit>>, <<(c[1] + 1) * Unit, (c[2] + 1) * Unit>>)

\* CanPassBlock and the models of the blocks: how high the box of a kind is.
CanPassBlock(kind) == kind \in {"web", "water"}
Tall(kind) == CASE kind \in {"air", "web", "water", "vine"} -> 0
                [] kind = "slab" -> Unit \div 2
                [] kind = "fence" -> Unit + Unit \div 2
                [] OTHER -> Unit

\* The box of a block that has one, at the position of the block.
SolidBox(c) == Box(CellBox(c).lo, <<(c[1] + 1) * Unit, c[2] * Unit + Tall(Block(c))>>)

\* BlockCollisions, translated to the position of the block.
BlockCollisions(c) == IF Tall(Block(c)) = 0 THEN {} ELSE {SolidBox(c)}

Ceil(n) == (n + Unit - 1) \div Unit
\* The cells from the floor of a box's corner to the ceiling of the other.
CellsOver(b) == ((b.lo[1] \div Unit)..Ceil(b.hi[1])) \X ((b.lo[2] \div Unit)..Ceil(b.hi[2]))

\* NearbyBlocks.
NearbyBlocks(b) == {c \in CellsOver(b) : Block(c) # "air"}

\* The cells of the world in the order of the loops, x, then y, and the boxes in them.
Visits == 1..Columns * Rows
Place == [n \in Visits |-> <<(n - 1) \div Rows, (n - 1) % Rows>>]
Solids == {n \in Visits : ~CanPassBlock(Block(Place[n])) /\ BlockCollisions(Place[n]) # {}}
Boxes == [n \in Solids |-> SolidBox(Place[n])]

\* scanNearbyBBoxes: the boxes that meet b, looked for in the cells over b grown by one
\* block; a box is known by when the loops come to its cell.
NearbyBBoxes(b) == {n \in Solids : IntersectsWith(Boxes[n], b) /\ Place[n] \in CellsOver(Grow(b, Unit))}

HasNearbyBBoxes(b) == NearbyBBoxes(b) # {}

-----------------------------------------------------------------------------
(* BBClipCollide *)

\* How a box stands to a block along an axis, from how far it reaches over the near side
\* and over the far side: apart on either side, or inside by the smaller depth.
Axis(low, high) ==
    IF low <= 0 THEN [apart |-> TRUE, depth |-> low, dir |-> -1]
    ELSE IF high <= 0 THEN [apart |-> TRUE, depth |-> high, dir |-> 1]
    ELSE IF low < high THEN [apart |-> FALSE, depth |-> low, dir |-> -1]
    ELSE [apart |-> FALSE, depth |-> high, dir |-> 1]
Along(b, c, i) == Axis(c.hi[i] - b.lo[i], b.hi[i] - c.lo[i])

\* One separating axis: the box moves up to the block and no further.
Clipped(a, v) == IF a.depth - a.dir * v <= 0 THEN v ELSE a.depth * a.dir

\* None: the box is inside the block and leaves it along the axis.
Depenetrated(a, v) == IF a.dir > 0 THEN Greater(a.depth, v) ELSE Lesser(-a.depth, v)

\* doBBClipCollide, from how the box stands to the block along each axis.
Collided(x, y, v, oneWay) ==
    IF x.apart /\ y.apart THEN v
    ELSE IF x.apart THEN [v EXCEPT ![1] = Clipped(x, @)]
    ELSE IF y.apart THEN [v EXCEPT ![2] = Clipped(y, @)]
    ELSE IF oneWay THEN v
    ELSE IF y.depth < x.depth THEN [v EXCEPT ![2] = Depenetrated(y, @)]
    ELSE [v EXCEPT ![1] = Depenetrated(x, @)]

BBClipCollide(b, c, v, oneWay) == Collided(Along(b, c, 1), Along(b, c, 2), v, oneWay)

\* The box is inside the block.
Penetrates(b, c) == ~Along(b, c, 1).apart /\ ~Along(b, c, 2).apart

\* The velocity that is left after every box of a list, taken in the list's order or from
\* its end; clip[n] is what is left once the loop is past the n-th cell.
Nth(n, backwards) == IF backwards THEN Columns * Rows + 1 - n ELSE n
ClipAll(boxes, backwards, c, v, oneWay) ==
    LET clip[n \in 0..Columns * Rows] ==
            IF n = 0 THEN v
            ELSE IF Nth(n, backwards) \in boxes
                 THEN BBClipCollide(Boxes[Nth(n, backwards)], c, clip[n - 1], oneWay)
                 ELSE clip[n - 1]
    IN  clip[Columns * Rows]
=============================================================================
