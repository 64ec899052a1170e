----------------------------- MODULE MovementProofs -----------------------------
(***************************************************************************)
(* The movement of a player, for every world, every size of the player and *)
(* every input: BBClipCollide (game/aabb.go) keeps a box out of another,   *)
(* a list of boxes clipped one after the other keeps it out of them all,   *)
(* the list scanNearbyBBoxes finds is complete for the way of a frame, and *)
(* so a simulated frame ends in the open if it starts there.  With what    *)
(* the acknowledgements may and may not touch this is an invariant of the  *)
(* component (player/component/movement.go), from which its type, the      *)
(* collisions, the edge, the teleports, the knockbacks and the flight      *)
(* follow.                                                                 *)
(***************************************************************************)
EXTENDS Movement, WellFoundedInduction, TLAPS

-----------------------------------------------------------------------------
(* recursion along the list of boxes *)

\* A non-empty set of natural numbers has a least element: what the proofs by
\* induction below rest on.
LEMMA LeastNatural ==
  ASSUME NEW T \in SUBSET Nat, T # {}
  PROVE  \E n \in T : \A k \in T : n <= k
<1> DEFINE R == OpToRel(<, Nat)
<1>1. IsWellFoundedOn(R, Nat)
  BY NatLessThanWellFounded
<1>2. \A x, y \in Nat : <<x, y>> \in R <=> x < y
  BY DEF OpToRel
<1> HIDE DEF R
<1>3. PICK n \in T : \A k \in T : ~(<<k, n>> \in R)
  BY <1>1, WFMin
<1>4. \A k \in T : n <= k
  <2> TAKE k \in T
  <2>1. k \in Nat /\ n \in Nat /\ ~(k < n)
    BY <1>2, <1>3
  <2> QED BY <2>1
<1> QED BY <1>4

Visited == Columns * Rows
ClipStep(boxes, backwards, c, oneWay, n, w) ==
  IF Nth(n, backwards) \in boxes THEN BBClipCollide(Boxes[Nth(n, backwards)], c, w, oneWay) ELSE w

\* h is the velocity that is left after each cell, up to the last-th.
IsClip(h, last_, boxes, backwards, c, v, oneWay) ==
  h = [n \in 0..last_ |-> IF n = 0 THEN v ELSE ClipStep(boxes, backwards, c, oneWay, n, h[n - 1])]

LEMMA VisitedNat == Visited \in Nat
BY WorldAssumption DEF Visited

\* There is such a function for each cell.
LEMMA ClipExists ==
  ASSUME NEW boxes, NEW backwards, NEW c, NEW v, NEW oneWay
  PROVE  \A n \in Nat : \E h : IsClip(h, n, boxes, backwards, c, v, oneWay)
<1> DEFINE has(n) == \E h : IsClip(h, n, boxes, backwards, c, v, oneWay)
           without == {n \in Nat : ~has(n)}
<1>1. SUFFICES ASSUME without # {} PROVE FALSE
  OBVIOUS
<1>2. PICK n \in without : \A k \in without : n <= k
  BY <1>1, LeastNatural
<1>3. n # 0
  <2> DEFINE h == [i \in 0..0 |-> v]
  <2>1. h = [i \in 0..0 |-> IF i = 0 THEN v ELSE ClipStep(boxes, backwards, c, oneWay, i, h[i - 1])]
    OBVIOUS
  <2>2. IsClip(h, 0, boxes, backwards, c, v, oneWay)
    BY <2>1 DEF IsClip
  <2> QED BY <2>2, <1>2
<1>4. n - 1 \in Nat /\ n \in Nat
  BY <1>2, <1>3
<1>5. has(n - 1)
  <2> SUFFICES ASSUME ~has(n - 1) PROVE FALSE
    OBVIOUS
  <2>1. n - 1 \in without
    BY <1>4
  <2> HIDE DEF without
  <2>2. n <= n - 1
    BY <1>2, <2>1
  <2> QED BY <1>4, <2>2
<1>6. PICK f : IsClip(f, n - 1, boxes, backwards, c, v, oneWay)
  BY <1>5
<1> DEFINE g == [i \in 0..n |-> IF i = n THEN ClipStep(boxes, backwards, c, oneWay, n, f[n - 1]) ELSE f[i]]
           body(i) == IF i = 0 THEN v ELSE ClipStep(boxes, backwards, c, oneWay, i, g[i - 1])
<1>7. \A i \in 0..(n - 1) : f[i] = IF i = 0 THEN v ELSE ClipStep(boxes, backwards, c, oneWay, i, f[i - 1])
  BY <1>6 DEF IsClip
<1>8. ASSUME NEW i \in 0..n PROVE g[i] = body(i)
  <2>1. CASE i = n
    <3>1. g[n - 1] = f[n - 1]
      BY <1>4
    <3> QED BY <1>3, <2>1, <3>1
  <2>2. CASE i # n
    <3>1. i \in 0..(n - 1)
      BY <1>4, <2>2
    <3>2. g[i] = f[i]
      BY <2>2
    <3>3. CASE i = 0
      BY <1>7, <3>1, <3>2, <3>3
    <3>4. CASE i # 0
      <4>1. g[i - 1] = f[i - 1]
        BY <1>4, <3>1, <3>4
      <4> QED BY <1>7, <3>1, <3>2, <3>4, <4>1
    <3> QED BY <3>3, <3>4
  <2> QED BY <2>1, <2>2
<1>9. g = [i \in 0..n |-> body(i)]
  BY <1>8
<1>10. has(n)
  BY <1>9 DEF IsClip
<1> QED BY <1>2, <1>10

\* ClipAll is where it ends.
LEMMA ClipAllIs ==
  ASSUME NEW boxes, NEW backwards, NEW c, NEW v, NEW oneWay
  PROVE  \E h : /\ IsClip(h, Visited, boxes, backwards, c, v, oneWay)
                /\ ClipAll(boxes, backwards, c, v, oneWay) = h[Visited]
<1> DEFINE clip == CHOOSE h : IsClip(h, Visited, boxes, backwards, c, v, oneWay)
<1>1. IsClip(clip, Visited, boxes, backwards, c, v, oneWay)
  BY ClipExists, VisitedNat
<1>2. ClipAll(boxes, backwards, c, v, oneWay) = clip[Visited]
  BY DEF ClipAll, IsClip, ClipStep, Visited
<1> QED BY <1>1, <1>2

-----------------------------------------------------------------------------
(* boxes *)

IsBox(b) ==
    /\ b \in [lo : Int \X Int, hi : Int \X Int]
    /\ b.lo[1] < b.hi[1] /\ b.lo[2] < b.hi[2]

\* A velocity of collideEntity is taken one axis at a time.
OneAxis(v) == v \in Int \X Int /\ (v[1] = 0 \/ v[2] = 0)

\* From 0 to w, whichever way w points.
Between(n, w) == (0 <= n /\ n <= w) \/ (w <= n /\ n <= 0)

-----------------------------------------------------------------------------
(* one axis *)

\* A box that is apart along an axis stays so, and on its side, when it moves by what
\* Clipped leaves.
LEMMA ClippedStaysApart ==
    ASSUME NEW low \in Int, NEW high \in Int, low + high > 0, NEW w \in Int,
           Axis(low, high).apart
    PROVE  /\ Clipped(Axis(low, high), w) \in Int
           /\ Between(Clipped(Axis(low, high), w), w)
           /\ \/ low <= 0 /\ low + Clipped(Axis(low, high), w) <= 0
              \/ high <= 0 /\ high - Clipped(Axis(low, high), w) <= 0
<1>1. CASE low <= 0
  <2>1. Axis(low, high) = [apart |-> TRUE, depth |-> low, dir |-> -1]
    BY <1>1 DEF Axis
  <2>2. Clipped(Axis(low, high), w) = IF low + w <= 0 THEN w ELSE -low
    BY <2>1 DEF Clipped
  <2> QED
    BY <1>1, <2>2 DEF Between
<1>2. CASE ~(low <= 0)
  <2>1. high <= 0
    BY <1>2 DEF Axis
  <2>2. Axis(low, high) = [apart |-> TRUE, depth |-> high, dir |-> 1]
    BY <1>2, <2>1 DEF Axis
  <2>3. Clipped(Axis(low, high), w) = IF high - w <= 0 THEN w ELSE high
    BY <2>2 DEF Clipped
  <2> QED
    BY <2>1, <2>3 DEF Between
<1> QED
  BY <1>1, <1>2

\* A box that is inside along an axis is not when it moves by what Depenetrated gives.
LEMMA DepenetratedIsApart ==
    ASSUME NEW low \in Int, NEW high \in Int, NEW w \in Int, ~Axis(low, high).apart
    PROVE  /\ Depenetrated(Axis(low, high), w) \in Int
           /\ \/ low + Depenetrated(Axis(low, high), w) <= 0
              \/ high - Depenetrated(Axis(low, high), w) <= 0
<1>1. low > 0 /\ high > 0
  BY DEF Axis
<1>2. CASE low < high
  <2>1. Axis(low, high) = [apart |-> FALSE, depth |-> low, dir |-> -1]
    BY <1>1, <1>2 DEF Axis
  <2>2. Depenetrated(Axis(low, high), w) = Lesser(-low, w)
    BY <2>1 DEF Depenetrated
  <2> QED
    BY <2>2 DEF Lesser
<1>3. CASE ~(low < high)
  <2>1. Axis(low, high) = [apart |-> FALSE, depth |-> high, dir |-> 1]
    BY <1>1, <1>3 DEF Axis
  <2>2. Depenetrated(Axis(low, high), w) = Greater(high, w)
    BY <2>1 DEF Depenetrated
  <2> QED
    BY <2>2 DEF Greater
<1> QED
  BY <1>2, <1>3

\* An axis is apart exactly when one of the two reaches is not positive.
LEMMA AxisApart ==
    ASSUME NEW low \in Int, NEW high \in Int
    PROVE  /\ Axis(low, high).apart <=> (low <= 0 \/ high <= 0)
           /\ Axis(low, high).apart \in BOOLEAN
BY DEF Axis

\* The reaches of two boxes over one another along an axis.
LEMMA Reaches ==
    ASSUME NEW b, NEW c, IsBox(b), IsBox(c), NEW i \in Axes
    PROVE  /\ c.hi[i] - b.lo[i] \in Int /\ b.hi[i] - c.lo[i] \in Int
           /\ (c.hi[i] - b.lo[i]) + (b.hi[i] - c.lo[i]) > 0
           /\ b.lo[i] \in Int /\ b.hi[i] \in Int /\ c.lo[i] \in Int /\ c.hi[i] \in Int
<1>1. i = 1 \/ i = 2
  BY DEF Axes
<1>2. /\ b.lo[1] \in Int /\ b.lo[2] \in Int /\ b.hi[1] \in Int /\ b.hi[2] \in Int
      /\ c.lo[1] \in Int /\ c.lo[2] \in Int /\ c.hi[1] \in Int /\ c.hi[2] \in Int
  BY DEF IsBox
<1>3. b.lo[1] < b.hi[1] /\ b.lo[2] < b.hi[2] /\ c.lo[1] < c.hi[1] /\ c.lo[2] < c.hi[2]
  BY DEF IsBox
<1> QED
  BY <1>1, <1>2, <1>3

\* c is beside b along an axis and still is, on the same side, when it moves by v.
Clear(b, c, v) ==
    \E i \in Axes : \/ c.hi[i] - b.lo[i] <= 0 /\ c.hi[i] - b.lo[i] + v[i] <= 0
                    \/ b.hi[i] - c.lo[i] <= 0 /\ b.hi[i] - c.lo[i] - v[i] <= 0

\* A box moved along an axis meets the other only if neither reach is used up.
LEMMA ApartAfter ==
    ASSUME NEW b, NEW c, IsBox(b), IsBox(c), NEW v \in Int \X Int, NEW i \in Axes,
           \/ c.hi[i] - b.lo[i] + v[i] <= 0
           \/ b.hi[i] - c.lo[i] - v[i] <= 0
    PROVE  ~IntersectsWith(Translate(c, v), b)
<1>1. v[i] \in Int
  BY DEF Axes
<1>2. b.lo[i] \in Int /\ b.hi[i] \in Int /\ c.lo[i] \in Int /\ c.hi[i] \in Int
  BY Reaches
<1>3. Translate(c, v).lo[i] = c.lo[i] + v[i] /\ Translate(c, v).hi[i] = c.hi[i] + v[i]
  BY DEF Translate, Add, Box, Axes
<1>4. ~(Translate(c, v).hi[i] > b.lo[i] /\ Translate(c, v).lo[i] < b.hi[i])
  BY <1>1, <1>2, <1>3
<1> QED
  BY <1>4 DEF IntersectsWith

LEMMA TranslateIsBox ==
    ASSUME NEW c, IsBox(c), NEW v \in Int \X Int
    PROVE  IsBox(Translate(c, v))
<1>1. /\ c.lo[1] \in Int /\ c.lo[2] \in Int /\ c.hi[1] \in Int /\ c.hi[2] \in Int
      /\ c.lo[1] < c.hi[1] /\ c.lo[2] < c.hi[2] /\ v[1] \in Int /\ v[2] \in Int
  BY DEF IsBox
<1>2. Translate(c, v) = [lo |-> <<c.lo[1] + v[1], c.lo[2] + v[2]>>, hi |-> <<c.hi[1] + v[1], c.hi[2] + v[2]>>]
  BY DEF Translate, Add, Box
<1> QED
  BY <1>1, <1>2 DEF IsBox

\* To penetrate a box is to intersect with it.
LEMMA PenetratesIntersects ==
    ASSUME NEW b, NEW c, IsBox(b), IsBox(c)
    PROVE  Penetrates(b, c) <=> IntersectsWith(c, b)
<1>1. ASSUME NEW i \in Axes
      PROVE  Along(b, c, i).apart <=> ~(c.hi[i] > b.lo[i] /\ c.lo[i] < b.hi[i])
  <2>1. /\ c.hi[i] - b.lo[i] \in Int /\ b.hi[i] - c.lo[i] \in Int
        /\ b.lo[i] \in Int /\ b.hi[i] \in Int /\ c.lo[i] \in Int /\ c.hi[i] \in Int
    BY Reaches
  <2>2. Along(b, c, i).apart <=> (c.hi[i] - b.lo[i] <= 0 \/ b.hi[i] - c.lo[i] <= 0)
    BY <2>1, AxisApart DEF Along
  <2> QED
    BY <2>1, <2>2
<1> QED
  BY <1>1 DEF Penetrates, IntersectsWith, Axes

\* Who is clear of a box after a move does not meet it, and did not before.
LEMMA ClearApart ==
    ASSUME NEW b, NEW c, IsBox(b), IsBox(c), NEW v \in Int \X Int, Clear(b, c, v)
    PROVE  ~IntersectsWith(Translate(c, v), b) /\ ~Penetrates(b, Translate(c, v))
<1>1. ~IntersectsWith(Translate(c, v), b)
  BY ApartAfter DEF Clear
<1> QED
  BY <1>1, TranslateIsBox, PenetratesIntersects

\* Who is clear of a box after a move is after a part of it, too.
LEMMA ClearShrinks ==
    ASSUME NEW b, NEW c, IsBox(b), IsBox(c), NEW v \in Int \X Int, NEW w \in Int \X Int,
           Clear(b, c, v), Between(w[1], v[1]), Between(w[2], v[2])
    PROVE  Clear(b, c, w)
<1>1. PICK i \in Axes : \/ c.hi[i] - b.lo[i] <= 0 /\ c.hi[i] - b.lo[i] + v[i] <= 0
                        \/ b.hi[i] - c.lo[i] <= 0 /\ b.hi[i] - c.lo[i] - v[i] <= 0
  BY DEF Clear
<1>2. /\ c.hi[i] - b.lo[i] \in Int /\ b.hi[i] - c.lo[i] \in Int /\ v[i] \in Int /\ w[i] \in Int
      /\ Between(w[i], v[i])
  BY Reaches DEF Axes
<1>3. \/ c.hi[i] - b.lo[i] <= 0 /\ c.hi[i] - b.lo[i] + w[i] <= 0
      \/ b.hi[i] - c.lo[i] <= 0 /\ b.hi[i] - c.lo[i] - w[i] <= 0
  <2> DEFINE low == c.hi[i] - b.lo[i]
             high == b.hi[i] - c.lo[i]
  <2>1. low \in Int /\ high \in Int /\ ((low <= 0 /\ low + v[i] <= 0) \/ (high <= 0 /\ high - v[i] <= 0))
    BY <1>1, <1>2
  <2> HIDE DEF low, high
  <2>2. (low <= 0 /\ low + w[i] <= 0) \/ (high <= 0 /\ high - w[i] <= 0)
    BY <1>2, <2>1 DEF Between
  <2> QED
    BY <2>2 DEF low, high
<1> QED
  BY <1>1, <1>3 DEF Clear

-----------------------------------------------------------------------------
(* BBClipCollide *)

\* How the velocity of a box that is outside changes: only along the axis on which it would
\* reach the other box.
LEMMA ClipCases ==
    ASSUME NEW b, NEW c, IsBox(b), IsBox(c), NEW v \in Int \X Int, NEW oneWay \in BOOLEAN,
           ~Penetrates(b, c)
    PROVE  \/ /\ Along(b, c, 1).apart /\ Along(b, c, 2).apart
              /\ BBClipCollide(b, c, v, oneWay) = v
           \/ /\ Along(b, c, 1).apart
              /\ BBClipCollide(b, c, v, oneWay) = <<Clipped(Along(b, c, 1), v[1]), v[2]>>
           \/ /\ Along(b, c, 2).apart
              /\ BBClipCollide(b, c, v, oneWay) = <<v[1], Clipped(Along(b, c, 2), v[2])>>
<1> DEFINE x == Along(b, c, 1)
           y == Along(b, c, 2)
<1>1. x.apart \/ y.apart
  BY DEF Penetrates
<1>2. CASE x.apart /\ y.apart
  BY <1>2 DEF BBClipCollide, Collided
<1>3. CASE x.apart /\ ~y.apart
  <2>1. BBClipCollide(b, c, v, oneWay) = [v EXCEPT ![1] = Clipped(x, @)]
    BY <1>3 DEF BBClipCollide, Collided
  <2> HIDE DEF x
  <2>2. [v EXCEPT ![1] = Clipped(x, @)] = <<Clipped(x, v[1]), v[2]>>
    OBVIOUS
  <2> QED
    BY <1>3, <2>1, <2>2 DEF x
<1>4. CASE ~x.apart /\ y.apart
  <2>1. BBClipCollide(b, c, v, oneWay) = [v EXCEPT ![2] = Clipped(y, @)]
    BY <1>4 DEF BBClipCollide, Collided
  <2> HIDE DEF y
  <2>2. [v EXCEPT ![2] = Clipped(y, @)] = <<v[1], Clipped(y, v[2])>>
    OBVIOUS
  <2> QED
    BY <1>4, <2>1, <2>2 DEF y
<1> QED
  BY <1>1, <1>2, <1>3, <1>4

\* A box that is outside of a block and moves along one axis does not pass to the other
\* side of it.
LEMMA ClipClears ==
    ASSUME NEW b, NEW c, IsBox(b), IsBox(c), NEW v, OneAxis(v), NEW oneWay \in BOOLEAN,
           ~Penetrates(b, c)
    PROVE  Clear(b, c, BBClipCollide(b, c, v, oneWay))
<1>0. v \in Int \X Int /\ v[1] \in Int /\ v[2] \in Int /\ 1 \in Axes /\ 2 \in Axes
  BY DEF OneAxis, Axes
<1> DEFINE low(i) == c.hi[i] - b.lo[i]
           high(i) == b.hi[i] - c.lo[i]
<1>1. \A i \in Axes : low(i) \in Int /\ high(i) \in Int /\ low(i) + high(i) > 0
  BY Reaches
<1>2. \A i \in Axes : Along(b, c, i) = Axis(low(i), high(i))
  BY DEF Along
<1> HIDE DEF low, high
<1>3. CASE /\ Along(b, c, 1).apart /\ Along(b, c, 2).apart
           /\ BBClipCollide(b, c, v, oneWay) = v
  <2>1. PICK i \in Axes : v[i] = 0
    BY <1>0 DEF OneAxis
  <2>2. Along(b, c, i).apart
    BY <1>3, <2>1 DEF Axes
  <2>3. low(i) <= 0 \/ high(i) <= 0
    BY <1>1, <1>2, <2>2, AxisApart
  <2>4. (low(i) <= 0 /\ low(i) + v[i] <= 0) \/ (high(i) <= 0 /\ high(i) - v[i] <= 0)
    BY <1>1, <2>1, <2>3
  <2> QED
    BY <1>3, <2>1, <2>4 DEF low, high, Clear
<1>4. ASSUME NEW i \in Axes, NEW w \in Int \X Int, Along(b, c, i).apart,
             w[i] = Clipped(Along(b, c, i), v[i])
      PROVE  Clear(b, c, w)
  <2>1. v[i] \in Int /\ low(i) \in Int /\ high(i) \in Int /\ low(i) + high(i) > 0
    BY <1>0, <1>1 DEF Axes
  <2>2. Axis(low(i), high(i)).apart
    BY <1>2, <1>4
  <2>3. (low(i) <= 0 /\ low(i) + w[i] <= 0) \/ (high(i) <= 0 /\ high(i) - w[i] <= 0)
    BY <1>2, <1>4, <2>1, <2>2, ClippedStaysApart
  <2> QED
    BY <1>4, <2>3 DEF low, high, Clear
<1>5. ASSUME NEW i \in Axes, Along(b, c, i).apart
      PROVE  Clipped(Along(b, c, i), v[i]) \in Int
  <2>1. v[i] \in Int /\ low(i) \in Int /\ high(i) \in Int /\ low(i) + high(i) > 0
    BY <1>0, <1>1 DEF Axes
  <2>2. Axis(low(i), high(i)).apart
    BY <1>2, <1>5
  <2> QED
    BY <1>2, <2>1, <2>2, ClippedStaysApart
<1>6. CASE /\ Along(b, c, 1).apart
           /\ BBClipCollide(b, c, v, oneWay) = <<Clipped(Along(b, c, 1), v[1]), v[2]>>
  <2>1. Clipped(Along(b, c, 1), v[1]) \in Int
    BY <1>0, <1>5, <1>6
  <2> DEFINE w == <<Clipped(Along(b, c, 1), v[1]), v[2]>>
  <2>2. w \in Int \X Int /\ w[1] = Clipped(Along(b, c, 1), v[1])
    BY <1>0, <2>1
  <2> QED
    BY <1>0, <1>4, <1>6, <2>2
<1>7. CASE /\ Along(b, c, 2).apart
           /\ BBClipCollide(b, c, v, oneWay) = <<v[1], Clipped(Along(b, c, 2), v[2])>>
  <2>1. Clipped(Along(b, c, 2), v[2]) \in Int
    BY <1>0, <1>5, <1>7
  <2> DEFINE w == <<v[1], Clipped(Along(b, c, 2), v[2])>>
  <2>2. w \in Int \X Int /\ w[2] = Clipped(Along(b, c, 2), v[2])
    BY <1>0, <2>1
  <2> QED
    BY <1>0, <1>4, <1>7, <2>2
<1> QED
  BY <1>0, <1>3, <1>6, <1>7, ClipCases

\* What is left of a velocity is a velocity.
LEMMA ClipTyped ==
    ASSUME NEW b, NEW c, IsBox(b), IsBox(c), NEW v \in Int \X Int, NEW oneWay \in BOOLEAN
    PROVE  BBClipCollide(b, c, v, oneWay) \in Int \X Int
<1>1. v[1] \in Int /\ v[2] \in Int /\ 1 \in Axes /\ 2 \in Axes
  BY DEF Axes
<1>2. ASSUME NEW i \in Axes
      PROVE  Clipped(Along(b, c, i), v[i]) \in Int /\ Depenetrated(Along(b, c, i), v[i]) \in Int
  <2>1. /\ v[i] \in Int
        /\ c.hi[i] - b.lo[i] \in Int /\ b.hi[i] - c.lo[i] \in Int
    BY <1>1, Reaches DEF Axes
  <2>2. Along(b, c, i).depth \in Int /\ Along(b, c, i).dir \in {1, -1}
    BY <2>1 DEF Along, Axis
  <2> QED
    BY <2>1, <2>2 DEF Clipped, Depenetrated, Lesser, Greater
<1>3. \/ BBClipCollide(b, c, v, oneWay) = v
      \/ BBClipCollide(b, c, v, oneWay) = [v EXCEPT ![1] = Clipped(Along(b, c, 1), @)]
      \/ BBClipCollide(b, c, v, oneWay) = [v EXCEPT ![2] = Clipped(Along(b, c, 2), @)]
      \/ BBClipCollide(b, c, v, oneWay) = [v EXCEPT ![1] = Depenetrated(Along(b, c, 1), @)]
      \/ BBClipCollide(b, c, v, oneWay) = [v EXCEPT ![2] = Depenetrated(Along(b, c, 2), @)]
  BY DEF BBClipCollide, Collided
<1>4. ASSUME NEW n \in Int
      PROVE  [v EXCEPT ![1] = n] \in Int \X Int /\ [v EXCEPT ![2] = n] \in Int \X Int
  OBVIOUS
<1> QED
  BY <1>1, <1>2, <1>3, <1>4

\* doBBClipCollide: a box that is outside of a block and moves along one axis, as every
\* step of the collision does, is outside of it afterwards.
THEOREM ClipStaysOut ==
    ASSUME NEW b, NEW c, IsBox(b), IsBox(c), NEW v, OneAxis(v), NEW oneWay \in BOOLEAN,
           ~Penetrates(b, c)
    PROVE  ~IntersectsWith(Translate(c, BBClipCollide(b, c, v, oneWay)), b)
<1>1. BBClipCollide(b, c, v, oneWay) \in Int \X Int
  BY ClipTyped DEF OneAxis
<1> QED
  BY <1>1, ClipClears, ClearApart

\* doBBClipCollide: what is left of the velocity of a box that is outside points where it
\* pointed, and no further.
THEOREM ClipNeverAdds ==
    ASSUME NEW b, NEW c, IsBox(b), IsBox(c), NEW v \in Int \X Int, NEW oneWay \in BOOLEAN,
           ~Penetrates(b, c)
    PROVE  /\ Between(BBClipCollide(b, c, v, oneWay)[1], v[1])
           /\ Between(BBClipCollide(b, c, v, oneWay)[2], v[2])
<1>1. v[1] \in Int /\ v[2] \in Int /\ 1 \in Axes /\ 2 \in Axes
  BY DEF Axes
<1>2. Between(v[1], v[1]) /\ Between(v[2], v[2])
  BY <1>1 DEF Between
<1>3. ASSUME NEW i \in Axes, Along(b, c, i).apart
      PROVE  Between(Clipped(Along(b, c, i), v[i]), v[i])
  <2>1. v[i] \in Int
    BY <1>1 DEF Axes
  <2>2. /\ c.hi[i] - b.lo[i] \in Int /\ b.hi[i] - c.lo[i] \in Int
        /\ (c.hi[i] - b.lo[i]) + (b.hi[i] - c.lo[i]) > 0
    BY Reaches
  <2>3. Axis(c.hi[i] - b.lo[i], b.hi[i] - c.lo[i]).apart
    BY <1>3 DEF Along
  <2> QED
    BY <2>1, <2>2, <2>3, ClippedStaysApart DEF Along
<1> QED
  BY <1>1, <1>2, <1>3, ClipCases

\* doBBClipCollide: a box that is inside of a block is outside after one step.
THEOREM PenetrationIsLeft ==
    ASSUME NEW b, NEW c, IsBox(b), IsBox(c), NEW v \in Int \X Int, Penetrates(b, c)
    PROVE  ~IntersectsWith(Translate(c, BBClipCollide(b, c, v, FALSE)), b)
<1> DEFINE x == Along(b, c, 1)
           y == Along(b, c, 2)
<1>1. ~x.apart /\ ~y.apart
  BY DEF Penetrates
<1>2. v[1] \in Int /\ v[2] \in Int /\ 1 \in Axes /\ 2 \in Axes
  BY DEF Axes
<1>3. ASSUME NEW i \in Axes, NEW w \in Int \X Int, w[i] = Depenetrated(Along(b, c, i), v[i]),
             ~Along(b, c, i).apart
      PROVE  ~IntersectsWith(Translate(c, w), b)
  <2>1. c.hi[i] - b.lo[i] \in Int /\ b.hi[i] - c.lo[i] \in Int /\ v[i] \in Int
    BY <1>2, Reaches DEF Axes
  <2>2. \/ c.hi[i] - b.lo[i] + w[i] <= 0
        \/ b.hi[i] - c.lo[i] - w[i] <= 0
    BY <1>3, <2>1, DepenetratedIsApart DEF Along
  <2> QED
    BY <2>2, ApartAfter
<1>4. ASSUME NEW i \in Axes, ~Along(b, c, i).apart
      PROVE  Depenetrated(Along(b, c, i), v[i]) \in Int
  <2>1. c.hi[i] - b.lo[i] \in Int /\ b.hi[i] - c.lo[i] \in Int /\ v[i] \in Int
    BY <1>2, Reaches DEF Axes
  <2> QED
    BY <1>4, <2>1, DepenetratedIsApart DEF Along
<1>5. CASE y.depth < x.depth
  <2>1. BBClipCollide(b, c, v, FALSE) = [v EXCEPT ![2] = Depenetrated(y, @)]
    BY <1>1, <1>5 DEF BBClipCollide, Collided
  <2>2. Depenetrated(y, v[2]) \in Int
    BY <1>1, <1>2, <1>4
  <2> DEFINE w == [v EXCEPT ![2] = Depenetrated(y, @)]
  <2>3. w \in Int \X Int /\ w[2] = Depenetrated(y, v[2])
    <3> HIDE DEF y
    <3> QED
      BY <2>2
  <2> HIDE DEF w
  <2>4. ~IntersectsWith(Translate(c, w), b)
    BY <1>1, <1>2, <1>3, <2>3
  <2> QED
    BY <2>1, <2>4 DEF w
<1>6. CASE ~(y.depth < x.depth)
  <2>1. BBClipCollide(b, c, v, FALSE) = [v EXCEPT ![1] = Depenetrated(x, @)]
    BY <1>1, <1>6 DEF BBClipCollide, Collided
  <2>2. Depenetrated(x, v[1]) \in Int
    BY <1>1, <1>2, <1>4
  <2> DEFINE w == [v EXCEPT ![1] = Depenetrated(x, @)]
  <2>3. w \in Int \X Int /\ w[1] = Depenetrated(x, v[1])
    <3> HIDE DEF x
    <3> QED
      BY <2>2
  <2> HIDE DEF w
  <2>4. ~IntersectsWith(Translate(c, w), b)
    BY <1>1, <1>2, <1>3, <2>3
  <2> QED
    BY <2>1, <2>4 DEF w
<1> QED
  BY <1>5, <1>6

-----------------------------------------------------------------------------
(* the boxes of the world *)

LEMMA KindOfBlock == ASSUME NEW c PROVE Block(c) \in Kinds
BY WorldAssumption DEF Block, Kinds

LEMMA TallRange ==
    ASSUME NEW kind \in Kinds
    PROVE  Tall(kind) \in Nat /\ Tall(kind) < Unit + Unit
<1>1. Unit \in Nat /\ Unit > 0 /\ Unit \div 2 \in Nat /\ Unit \div 2 < Unit
  BY WorldAssumption
<1>2. Tall(kind) \in {0, Unit \div 2, Unit + Unit \div 2, Unit}
  BY DEF Tall
<1> QED
  BY <1>1, <1>2

LEMMA PlaceTyped == ASSUME NEW n \in Visits PROVE Place[n] \in Int \X Int
<1>1. n - 1 \in Int /\ Rows \in Nat /\ Rows > 0
  BY WorldAssumption, VisitedNat DEF Visits, Visited
<1>2. (n - 1) \div Rows \in Int /\ (n - 1) % Rows \in Int
  BY <1>1
<1> QED
  BY <1>2 DEF Place

\* Every cell of the world is visited.
LEMMA EveryCellVisited == ASSUME NEW c \in Cells PROVE \E n \in Visits : Place[n] = c
<1> DEFINE x == c[1]
           y == c[2]
           n == x * Rows + y + 1
<1>1. /\ x \in Nat /\ y \in Nat /\ x <= Columns - 1 /\ y <= Rows - 1 /\ c = <<x, y>>
      /\ Rows \in Nat /\ Columns \in Nat /\ Rows > 0 /\ Columns > 0
  BY WorldAssumption DEF Cells
<1> HIDE DEF x, y
<1>2. x * Rows \in Nat /\ x * Rows <= Columns * Rows - Rows
  <2>1. (Columns - 1 - x) * Rows \in Nat
    <3>1. Columns - 1 - x \in Nat
      BY <1>1
    <3> QED BY <1>1, <3>1
  <2>2. (Columns - 1 - x) * Rows = Columns * Rows - Rows - x * Rows
    BY <1>1
  <2>3. x * Rows \in Nat /\ Columns * Rows \in Nat
    BY <1>1
  <2> QED BY <1>1, <2>1, <2>2, <2>3
<1>3. n \in Visits
  BY <1>1, <1>2, VisitedNat DEF Visits, Visited
<1>4. (n - 1) \div Rows = x
  <2> DEFINE q == (x * Rows + y) \div Rows
             z == x * Rows
  <2>1. q \in Int /\ q * Rows <= x * Rows + y /\ x * Rows + y < (q + 1) * Rows
    <3>1. x * Rows + y \in Nat
      BY <1>1, <1>2
    <3> QED BY <1>1, <3>1
  <2> HIDE DEF q
  <2>2. ~(q < x)
    <3> SUFFICES ASSUME q < x PROVE FALSE
      OBVIOUS
    <3>1. x - q - 1 \in Nat
      BY <1>1, <2>1
    <3>2. (x - q - 1) * Rows \in Nat
      BY <1>1, <3>1
    <3>3. (x - q - 1) * Rows = x * Rows - (q + 1) * Rows
      BY <1>1, <2>1
    <3>4. (q + 1) * Rows \in Int /\ x * Rows \in Int
      BY <1>1, <2>1
    <3> QED BY <1>1, <2>1, <3>2, <3>3, <3>4
  <2>3. ~(q > x)
    <3> SUFFICES ASSUME q > x PROVE FALSE
      OBVIOUS
    <3>1. q - x - 1 \in Nat
      BY <1>1, <2>1
    <3>2. (q - x - 1) * Rows \in Nat
      BY <1>1, <3>1
    <3>3. (q - x - 1) * Rows = q * Rows - x * Rows - Rows
      BY <1>1, <2>1
    <3>4. q * Rows \in Int /\ x * Rows \in Int
      BY <1>1, <2>1
    <3> QED BY <1>1, <2>1, <3>2, <3>3, <3>4
  <2>4. q = x
    BY <1>1, <2>1, <2>2, <2>3
  <2>5. n - 1 = x * Rows + y
    BY <1>1, <1>2
  <2> QED BY <2>4, <2>5 DEF q
<1>5. (n - 1) % Rows = y
  <2>1. n - 1 \in Int /\ n - 1 = x * Rows + y
    BY <1>1, <1>2
  <2>2. (n - 1) % Rows = (n - 1) - Rows * ((n - 1) \div Rows)
    BY <1>1, <2>1
  <2>3. (n - 1) % Rows = (x * Rows + y) - Rows * x
    BY <1>4, <2>1, <2>2
  <2> HIDE DEF n
  <2>4. (x * Rows + y) - Rows * x = y
    BY <1>1
  <2> QED BY <2>3, <2>4
<1> QED
  BY <1>1, <1>3, <1>4, <1>5 DEF Place

LEMMA SolidIsBox ==
    ASSUME NEW n \in Solids
    PROVE  /\ n \in Visits /\ IsBox(Boxes[n])
           /\ Boxes[n] = SolidBox(Place[n])
<1>1. n \in Visits /\ Boxes[n] = SolidBox(Place[n])
  BY DEF Solids, Boxes
<1>2. PICK x \in Int, y \in Int : Place[n] = <<x, y>>
  BY <1>1, PlaceTyped
<1>3. Tall(Block(Place[n])) \in Nat /\ Tall(Block(Place[n])) > 0
  BY KindOfBlock, TallRange DEF Solids, BlockCollisions
<1>4. SolidBox(Place[n]) = [lo |-> <<x * Unit, y * Unit>>, hi |-> <<(x + 1) * Unit, y * Unit + Tall(Block(Place[n]))>>]
  BY <1>2 DEF SolidBox, Box, CellBox
<1> DEFINE t == Tall(Block(Place[n]))
<1> HIDE DEF t
<1>5. Unit \in Nat /\ Unit > 0 /\ x * Unit \in Int /\ y * Unit \in Int /\ (x + 1) * Unit = x * Unit + Unit
  BY <1>2, WorldAssumption
<1>6. IsBox([lo |-> <<x * Unit, y * Unit>>, hi |-> <<(x + 1) * Unit, y * Unit + t>>])
  BY <1>3, <1>5 DEF IsBox, t
<1> QED
  BY <1>1, <1>4, <1>6 DEF t

\* NearbyBBoxes misses no box: one that meets b is in a cell over b grown by one block,
\* although it may be higher than its cell.
LEMMA NearbyIsAll ==
    ASSUME NEW b, IsBox(b), NEW n \in Solids
    PROVE  IntersectsWith(Boxes[n], b) <=> n \in NearbyBBoxes(b)
<1>1. SUFFICES ASSUME IntersectsWith(Boxes[n], b)
               PROVE  Place[n] \in CellsOver(Grow(b, Unit))
  BY DEF NearbyBBoxes
<1>2. n \in Visits /\ Boxes[n] = SolidBox(Place[n])
  BY SolidIsBox
<1>3. PICK x \in Int, y \in Int : Place[n] = <<x, y>>
  BY <1>2, PlaceTyped
<1> DEFINE t == Tall(Block(Place[n]))
<1>4. t \in Nat /\ t < Unit + Unit
  BY KindOfBlock, TallRange
<1>5. Boxes[n] = [lo |-> <<x * Unit, y * Unit>>, hi |-> <<(x + 1) * Unit, y * Unit + t>>]
  BY <1>2, <1>3 DEF SolidBox, Box, CellBox
<1> HIDE DEF t
<1>6. /\ Unit \in Nat /\ Unit > 0 /\ x * Unit \in Int /\ y * Unit \in Int
      /\ (x + 1) * Unit = x * Unit + Unit /\ (y + 1) * Unit = y * Unit + Unit
      /\ (y + 2) * Unit = y * Unit + Unit + Unit
  BY <1>3, WorldAssumption
<1>7. /\ b.lo[1] \in Int /\ b.lo[2] \in Int /\ b.hi[1] \in Int /\ b.hi[2] \in Int
  BY DEF IsBox
<1>8. /\ x * Unit + Unit > b.lo[1] /\ x * Unit < b.hi[1]
      /\ y * Unit + t > b.lo[2] /\ y * Unit < b.hi[2]
  BY <1>1, <1>5, <1>6 DEF IntersectsWith, Axes
<1>9. /\ Grow(b, Unit).lo[1] = b.lo[1] - Unit /\ Grow(b, Unit).lo[2] = b.lo[2] - Unit
      /\ Grow(b, Unit).hi[1] = b.hi[1] + Unit /\ Grow(b, Unit).hi[2] = b.hi[2] + Unit
  BY <1>6, <1>7 DEF Grow, Box, Add
<1>10. ASSUME NEW a \in Int, NEW k \in Int, a < (k + 1) * Unit
       PROVE  a \div Unit \in Int /\ a \div Unit <= k
  <2> DEFINE q == a \div Unit
  <2>1. q \in Int /\ q * Unit <= a
    BY <1>6
  <2> HIDE DEF q
  <2>2. SUFFICES ASSUME q > k PROVE FALSE
    BY <2>1 DEF q
  <2>3. (q - k - 1) * Unit \in Nat
    <3>1. q - k - 1 \in Nat
      BY <2>1, <2>2
    <3> QED BY <1>6, <3>1
  <2>4. (q - k - 1) * Unit = q * Unit - (k + 1) * Unit
    BY <1>6, <2>1
  <2>5. q * Unit \in Int /\ (k + 1) * Unit \in Int
    BY <1>6, <2>1
  <2> QED BY <1>10, <2>1, <2>3, <2>4, <2>5
<1>11. ASSUME NEW a \in Int, NEW k \in Int, k * Unit < a
       PROVE  Ceil(a) \in Int /\ k <= Ceil(a)
  <2> DEFINE q == (a + Unit - 1) \div Unit
  <2>0. Ceil(a) = q
    BY DEF Ceil
  <2>1. q \in Int /\ a + Unit - 1 < (q + 1) * Unit
    <3>1. a + Unit - 1 \in Int
      BY <1>6
    <3> QED BY <1>6, <3>1
  <2> HIDE DEF q
  <2>2. SUFFICES ASSUME q < k PROVE FALSE
    BY <2>0, <2>1
  <2>3. (k - q - 1) * Unit \in Nat
    <3>1. k - q - 1 \in Nat
      BY <2>1, <2>2
    <3> QED BY <1>6, <3>1
  <2>4. (k - q - 1) * Unit = k * Unit - (q + 1) * Unit
    BY <1>6, <2>1
  <2>5. k * Unit \in Int /\ (q + 1) * Unit \in Int
    BY <1>6, <2>1
  <2> QED BY <1>6, <1>11, <2>1, <2>3, <2>4, <2>5
<1>12. /\ (b.lo[1] - Unit) \div Unit \in Int /\ (b.lo[1] - Unit) \div Unit <= x
  <2>1. b.lo[1] - Unit \in Int /\ b.lo[1] - Unit < (x + 1) * Unit
    BY <1>6, <1>7, <1>8
  <2> QED BY <1>10, <2>1
<1>13. /\ (b.lo[2] - Unit) \div Unit \in Int /\ (b.lo[2] - Unit) \div Unit <= y
  <2>1. b.lo[2] - Unit \in Int /\ b.lo[2] - Unit < (y + 1) * Unit
    BY <1>4, <1>6, <1>7, <1>8
  <2> QED BY <1>10, <2>1
<1>14. Ceil(b.hi[1] + Unit) \in Int /\ x <= Ceil(b.hi[1] + Unit)
  <2>1. b.hi[1] + Unit \in Int /\ x * Unit < b.hi[1] + Unit
    BY <1>6, <1>7, <1>8
  <2> QED BY <1>11, <2>1
<1>15. Ceil(b.hi[2] + Unit) \in Int /\ y <= Ceil(b.hi[2] + Unit)
  <2>1. b.hi[2] + Unit \in Int /\ y * Unit < b.hi[2] + Unit
    BY <1>6, <1>7, <1>8
  <2> QED BY <1>11, <2>1
<1> QED
  BY <1>3, <1>9, <1>12, <1>13, <1>14, <1>15 DEF CellsOver

-----------------------------------------------------------------------------
(* ClipAll *)

\* What a step keeps in S[n], given what came before in S[n - 1], the whole list keeps.
LEMMA ClipInduction ==
    ASSUME NEW boxes, NEW backwards, NEW c, NEW v, NEW oneWay, NEW S,
           v \in S[0],
           \A n \in 1..Visited : \A w \in S[n - 1] : ClipStep(boxes, backwards, c, oneWay, n, w) \in S[n]
    PROVE  ClipAll(boxes, backwards, c, v, oneWay) \in S[Visited]
<1>1. PICK h : /\ IsClip(h, Visited, boxes, backwards, c, v, oneWay)
               /\ ClipAll(boxes, backwards, c, v, oneWay) = h[Visited]
  BY ClipAllIs
<1>2. \A n \in 0..Visited : h[n] = IF n = 0 THEN v ELSE ClipStep(boxes, backwards, c, oneWay, n, h[n - 1])
  BY <1>1 DEF IsClip
<1> DEFINE bad == {n \in Nat : n <= Visited /\ h[n] \notin S[n]}
<1>3. bad = {}
  <2> SUFFICES ASSUME bad # {} PROVE FALSE
    OBVIOUS
  <2>1. PICK n \in bad : \A k \in bad : n <= k
    BY LeastNatural
  <2>2. n \in Nat /\ n <= Visited /\ h[n] \notin S[n]
    BY <2>1
  <2>3. n # 0
    BY <1>2, <2>2, VisitedNat
  <2>4. n - 1 \in Nat /\ n - 1 <= Visited /\ n \in 1..Visited /\ n \in 0..Visited
    BY <2>2, <2>3, VisitedNat
  <2>5. h[n - 1] \in S[n - 1]
    <3> SUFFICES ASSUME h[n - 1] \notin S[n - 1] PROVE FALSE
      OBVIOUS
    <3>1. n - 1 \in bad
      BY <2>4
    <3> HIDE DEF bad
    <3>2. n <= n - 1
      BY <2>1, <3>1
    <3> QED BY <2>2, <3>2
  <2>6. h[n] = ClipStep(boxes, backwards, c, oneWay, n, h[n - 1])
    BY <1>2, <2>3, <2>4
  <2> QED BY <2>2, <2>4, <2>5, <2>6
<1>4. Visited \notin bad
  BY <1>3
<1> QED
  BY <1>1, <1>4, VisitedNat

LEMMA ClipAllTyped ==
    ASSUME NEW boxes \in SUBSET Solids, NEW backwards, NEW c, IsBox(c), NEW v \in Vectors,
           NEW oneWay \in BOOLEAN
    PROVE  ClipAll(boxes, backwards, c, v, oneWay) \in Vectors
<1> DEFINE S == [n \in 0..Visited |-> Vectors]
<1>1. v \in S[0]
  BY VisitedNat
<1>2. ASSUME NEW n \in 1..Visited, NEW w \in S[n - 1]
      PROVE  ClipStep(boxes, backwards, c, oneWay, n, w) \in S[n]
  <2>1. S[n - 1] = Vectors /\ S[n] = Vectors
    BY VisitedNat
  <2>2. w \in Int \X Int
    BY <2>1 DEF Vectors
  <2>3. CASE Nth(n, backwards) \in boxes
    BY <2>1, <2>2, <2>3, SolidIsBox, ClipTyped DEF ClipStep, Vectors
  <2>4. CASE Nth(n, backwards) \notin boxes
    BY <2>1, <2>2, <2>4 DEF ClipStep, Vectors
  <2> QED BY <2>3, <2>4
<1> HIDE DEF S
<1>3. ClipAll(boxes, backwards, c, v, oneWay) \in S[Visited]
  BY <1>1, <1>2, ClipInduction
<1> QED
  BY <1>3, VisitedNat DEF S

\* Part of v, along each axis.
PartOf(w, v) == w \in Vectors /\ Between(w[1], v[1]) /\ Between(w[2], v[2])

LEMMA PartOfPart ==
    ASSUME NEW u, NEW v \in Vectors, NEW w, PartOf(w, v), PartOf(u, w)
    PROVE  PartOf(u, v)
<1>1. /\ u[1] \in Int /\ u[2] \in Int /\ v[1] \in Int /\ v[2] \in Int /\ w[1] \in Int /\ w[2] \in Int
  BY DEF Vectors, PartOf
<1> QED
  BY <1>1 DEF PartOf, Between

LEMMA PartOneAxis ==
    ASSUME NEW v, OneAxis(v), NEW w, PartOf(w, v)
    PROVE  OneAxis(w) /\ (v[1] = 0 => w[1] = 0) /\ (v[2] = 0 => w[2] = 0)
<1>1. v[1] \in Int /\ v[2] \in Int /\ w[1] \in Int /\ w[2] \in Int
  BY DEF OneAxis, PartOf, Vectors
<1> QED
  BY <1>1 DEF OneAxis, PartOf, Vectors, Between

\* The box moves along one axis by a part of v, and past none of the boxes.
LEMMA ClipAllClears ==
    ASSUME NEW boxes \in SUBSET Solids, NEW backwards \in BOOLEAN, NEW c, IsBox(c), NEW v, OneAxis(v),
           NEW oneWay \in BOOLEAN, \A n \in boxes : ~Penetrates(Boxes[n], c)
    PROVE  /\ PartOf(ClipAll(boxes, backwards, c, v, oneWay), v)
           /\ \A n \in boxes : Clear(Boxes[n], c, ClipAll(boxes, backwards, c, v, oneWay))
<1> DEFINE clears(k, w) == Nth(k, backwards) \in boxes => Clear(Boxes[Nth(k, backwards)], c, w)
           S == [n \in 0..Visited |-> {w \in Vectors : PartOf(w, v) /\ \A k \in 1..n : clears(k, w)}]
<1>0. v \in Vectors /\ v[1] \in Int /\ v[2] \in Int
  BY DEF OneAxis, Vectors
<1>1. v \in S[0]
  <2>1. PartOf(v, v)
    BY <1>0 DEF PartOf, Between
  <2>2. 1..0 = {}
    OBVIOUS
  <2> QED BY <1>0, <2>1, <2>2, VisitedNat
<1>2. ASSUME NEW n \in 1..Visited, NEW w \in S[n - 1]
      PROVE  ClipStep(boxes, backwards, c, oneWay, n, w) \in S[n]
  <2> DEFINE u == ClipStep(boxes, backwards, c, oneWay, n, w)
  <2>1. n \in 0..Visited /\ n - 1 \in 0..Visited /\ n \in Nat
    BY VisitedNat
  <2>2. w \in Vectors /\ PartOf(w, v) /\ \A k \in 1..(n - 1) : clears(k, w)
    BY <2>1
  <2>3. OneAxis(w)
    BY <2>2, PartOneAxis
  <2>4. PartOf(u, w) /\ clears(n, u)
    <3>1. CASE Nth(n, backwards) \in boxes
      <4> DEFINE b == Boxes[Nth(n, backwards)]
      <4>1. IsBox(b) /\ ~Penetrates(b, c) /\ u = BBClipCollide(b, c, w, oneWay)
        BY <3>1, SolidIsBox DEF ClipStep
      <4> HIDE DEF b, u
      <4>2. w \in Int \X Int
        BY <2>2 DEF Vectors
      <4>3. u \in Int \X Int
        BY <4>1, <4>2, ClipTyped
      <4>4. Between(u[1], w[1]) /\ Between(u[2], w[2])
        BY <4>1, <4>2, ClipNeverAdds
      <4>5. Clear(b, c, u)
        BY <2>3, <4>1, ClipClears
      <4> QED BY <4>3, <4>4, <4>5 DEF PartOf, Vectors, b
    <3>2. CASE Nth(n, backwards) \notin boxes
      <4>1. u = w
        BY <3>2 DEF ClipStep
      <4> HIDE DEF u
      <4>2. w[1] \in Int /\ w[2] \in Int
        BY <2>2 DEF Vectors
      <4> QED BY <2>2, <3>2, <4>1, <4>2 DEF PartOf, Between
    <3> QED BY <3>1, <3>2
  <2> HIDE DEF u
  <2>5. u \in Vectors /\ PartOf(u, v)
    BY <1>0, <2>2, <2>4, PartOfPart DEF PartOf
  <2>6. ASSUME NEW k \in 1..n PROVE clears(k, u)
    <3>1. CASE k = n
      BY <2>4, <3>1
    <3>2. CASE k # n
      <4>1. k \in 1..(n - 1)
        BY <2>1, <3>2
      <4>2. clears(k, w)
        BY <2>2, <4>1
      <4>3. SUFFICES ASSUME Nth(k, backwards) \in boxes PROVE Clear(Boxes[Nth(k, backwards)], c, u)
        OBVIOUS
      <4>4. IsBox(Boxes[Nth(k, backwards)]) /\ Clear(Boxes[Nth(k, backwards)], c, w)
        BY <4>2, <4>3, SolidIsBox
      <4>5. u \in Int \X Int /\ w \in Int \X Int /\ Between(u[1], w[1]) /\ Between(u[2], w[2])
        BY <2>2, <2>4 DEF PartOf, Vectors
      <4> QED BY <4>4, <4>5, ClearShrinks
    <3> QED BY <3>1, <3>2
  <2>7. u \in {x \in Vectors : PartOf(x, v) /\ \A k \in 1..n : clears(k, x)}
    BY <2>5, <2>6
  <2> QED BY <2>1, <2>7 DEF u
<1>3. S[Visited] = {w \in Vectors : PartOf(w, v) /\ \A k \in 1..Visited : clears(k, w)}
  BY VisitedNat
<1> HIDE DEF S
<1>4. ClipAll(boxes, backwards, c, v, oneWay) \in S[Visited]
  BY <1>1, <1>2, ClipInduction
<1> DEFINE w == ClipAll(boxes, backwards, c, v, oneWay)
<1> HIDE DEF w
<1>5. PartOf(w, v) /\ \A k \in 1..Visited : clears(k, w)
  BY <1>3, <1>4 DEF w
<1>6. ASSUME NEW n \in boxes PROVE Clear(Boxes[n], c, w)
  <2>1. n \in 1..Visited
    BY SolidIsBox DEF Visits, Visited
  <2>2. \E k \in 1..Visited : Nth(k, backwards) = n
    <3>1. CASE backwards
      <4>1. Visited + 1 - n \in 1..Visited /\ Visited + 1 - (Visited + 1 - n) = n
        BY <2>1, VisitedNat
      <4>2. Nth(Visited + 1 - n, backwards) = n
        BY <3>1, <4>1 DEF Nth, Visited
      <4> QED BY <4>1, <4>2
    <3>2. CASE ~backwards
      BY <2>1, <3>2 DEF Nth
    <3> QED BY <3>1, <3>2
  <2> QED BY <1>5, <2>2
<1> QED
  BY <1>5, <1>6 DEF w

-----------------------------------------------------------------------------
(* tryCollisions *)

LEMMA AddTyped ==
    ASSUME NEW a \in Vectors, NEW b \in Vectors
    PROVE  /\ Add(a, b) \in Vectors
           /\ Add(a, b)[1] = a[1] + b[1] /\ Add(a, b)[2] = a[2] + b[2]
           /\ a[1] \in Int /\ a[2] \in Int /\ b[1] \in Int /\ b[2] \in Int
BY DEF Add, Vectors

LEMMA AddAgain ==
    ASSUME NEW a \in Vectors, NEW b \in Vectors, NEW c \in Vectors
    PROVE  Add(Add(a, b), c) = Add(a, Add(b, c))
BY DEF Add, Vectors

LEMMA TranslateAgain ==
    ASSUME NEW box, IsBox(box), NEW a \in Vectors, NEW b \in Vectors
    PROVE  Translate(Translate(box, a), b) = Translate(box, Add(a, b))
<1>1. box.lo \in Vectors /\ box.hi \in Vectors
  BY DEF IsBox, Vectors
<1>2. /\ Add(Add(box.lo, a), b) = Add(box.lo, Add(a, b))
      /\ Add(Add(box.hi, a), b) = Add(box.hi, Add(a, b))
  BY <1>1, AddAgain
<1> QED
  BY <1>2 DEF Translate, Box

LEMMA PlayersBox ==
    ASSUME NEW pos \in Vectors, NEW v \in Vectors
    PROVE  /\ IsBox(BoundingBox(pos))
           /\ Translate(BoundingBox(pos), v) = BoundingBox(Add(pos, v))
<1>1. /\ pos[1] \in Int /\ pos[2] \in Int /\ v[1] \in Int /\ v[2] \in Int
      /\ Width \in Nat /\ Width > 0 /\ Height \in Nat /\ Height > 0
      /\ pos = <<pos[1], pos[2]>>
  BY MovementAssumption DEF Vectors
<1>2. BoundingBox(pos) = [lo |-> pos, hi |-> <<pos[1] + Width, pos[2] + Height>>]
  BY DEF BoundingBox, Box
<1>3. IsBox(BoundingBox(pos))
  BY <1>1, <1>2 DEF IsBox, Vectors
<1>4. Translate(BoundingBox(pos), v) =
        [lo |-> <<pos[1] + v[1], pos[2] + v[2]>>, hi |-> <<pos[1] + Width + v[1], pos[2] + Height + v[2]>>]
  BY <1>2 DEF Translate, Box, Add
<1>5. BoundingBox(Add(pos, v)) =
        [lo |-> <<pos[1] + v[1], pos[2] + v[2]>>, hi |-> <<pos[1] + v[1] + Width, pos[2] + v[2] + Height>>]
  BY DEF BoundingBox, Box, Add
<1>6. pos[1] + Width + v[1] = pos[1] + v[1] + Width /\ pos[2] + Height + v[2] = pos[2] + v[2] + Height
  BY <1>1
<1> QED
  BY <1>3, <1>4, <1>5, <1>6

\* Who is free penetrates no block of the world.
LEMMA FreeMeans ==
    ASSUME NEW pos \in Vectors
    PROVE  Free(pos) <=> \A n \in Solids : ~Penetrates(Boxes[n], BoundingBox(pos))
<1>1. IsBox(BoundingBox(pos))
  BY PlayersBox
<1>2. ASSUME NEW n \in Solids
      PROVE  Penetrates(Boxes[n], BoundingBox(pos)) <=> n \in NearbyBBoxes(BoundingBox(pos))
  <2>1. IsBox(Boxes[n])
    BY SolidIsBox
  <2>2. IntersectsWith(Boxes[n], BoundingBox(pos)) <=> IntersectsWith(BoundingBox(pos), Boxes[n])
    <3>1. ASSUME NEW i \in Axes
          PROVE  /\ Boxes[n].lo[i] \in Int /\ Boxes[n].hi[i] \in Int
                 /\ BoundingBox(pos).lo[i] \in Int /\ BoundingBox(pos).hi[i] \in Int
      BY <1>1, <2>1, Reaches
    <3> QED BY <3>1 DEF IntersectsWith
  <2> QED BY <1>1, <2>1, <2>2, PenetratesIntersects, NearbyIsAll
<1>3. NearbyBBoxes(BoundingBox(pos)) \subseteq Solids
  BY DEF NearbyBBoxes
<1> QED
  BY <1>2, <1>3 DEF Free, HasNearbyBBoxes

LEMMA ExtendIsBox ==
    ASSUME NEW box, IsBox(box), NEW v \in Vectors
    PROVE  IsBox(Extend(box, v))
<1>1. /\ box.lo[1] \in Int /\ box.lo[2] \in Int /\ box.hi[1] \in Int /\ box.hi[2] \in Int
      /\ box.lo[1] < box.hi[1] /\ box.lo[2] < box.hi[2]
      /\ v[1] \in Int /\ v[2] \in Int
  BY DEF IsBox, Vectors
<1> DEFINE lo(i) == box.lo[i] + Lesser(v[i], 0)
           hi(i) == box.hi[i] + Greater(v[i], 0)
<1>2. Extend(box, v) = [lo |-> [i \in Axes |-> lo(i)], hi |-> [i \in Axes |-> hi(i)]]
  BY DEF Extend, Box
<1>3. lo(1) \in Int /\ lo(2) \in Int /\ hi(1) \in Int /\ hi(2) \in Int /\ lo(1) < hi(1) /\ lo(2) < hi(2)
  BY <1>1 DEF Lesser, Greater
<1> HIDE DEF lo, hi
<1>4. Axes = 1..2
  BY DEF Axes
<1>5. [i \in Axes |-> lo(i)] = <<lo(1), lo(2)>> /\ [i \in Axes |-> hi(i)] = <<hi(1), hi(2)>>
  BY <1>4
<1> QED
  BY <1>2, <1>3, <1>5 DEF IsBox

\* What is met on a part of the way is met by the box extended by the way.
LEMMA ExtendCovers ==
    ASSUME NEW box, IsBox(box), NEW v \in Vectors, NEW w, PartOf(w, v), NEW b, IsBox(b),
           IntersectsWith(b, Translate(box, w))
    PROVE  IntersectsWith(b, Extend(box, v))
<1>1. ASSUME NEW i \in Axes
      PROVE  b.hi[i] > Extend(box, v).lo[i] /\ b.lo[i] < Extend(box, v).hi[i]
  <2>1. /\ b.lo[i] \in Int /\ b.hi[i] \in Int /\ box.lo[i] \in Int /\ box.hi[i] \in Int
        /\ v[i] \in Int /\ w[i] \in Int /\ Between(w[i], v[i])
    BY Reaches DEF Vectors, PartOf, Axes
  <2>2. b.hi[i] > box.lo[i] + w[i] /\ b.lo[i] < box.hi[i] + w[i]
    BY <2>1 DEF IntersectsWith, Translate, Add, Box, Axes
  <2>3. /\ Extend(box, v).lo[i] = box.lo[i] + Lesser(v[i], 0)
        /\ Extend(box, v).hi[i] = box.hi[i] + Greater(v[i], 0)
    BY DEF Extend, Box
  <2> QED BY <2>1, <2>2, <2>3 DEF Between, Lesser, Greater
<1> QED
  BY <1>1 DEF IntersectsWith

\* The way is free as far as the boxes near it let the player go.
LEMMA FreeAfterPart ==
    ASSUME NEW pos \in Vectors, NEW v \in Vectors, NEW w, PartOf(w, v),
           \A n \in NearbyBBoxes(Extend(BoundingBox(pos), v)) :
             ~Penetrates(Boxes[n], Translate(BoundingBox(pos), w))
    PROVE  Free(Add(pos, w))
<1> DEFINE box == BoundingBox(pos)
<1>0. w \in Vectors
  BY DEF PartOf
<1>1. IsBox(box) /\ Translate(box, w) = BoundingBox(Add(pos, w)) /\ Add(pos, w) \in Vectors
  BY <1>0, PlayersBox, AddTyped
<1>2. IsBox(Translate(box, w)) /\ IsBox(Extend(box, v))
  BY <1>0, <1>1, TranslateIsBox, ExtendIsBox DEF Vectors
<1>3. ASSUME NEW n \in Solids PROVE ~Penetrates(Boxes[n], BoundingBox(Add(pos, w)))
  <2>1. SUFFICES ASSUME Penetrates(Boxes[n], Translate(box, w)) PROVE FALSE
    BY <1>1
  <2>2. IsBox(Boxes[n])
    BY SolidIsBox
  <2>3. IntersectsWith(Translate(box, w), Boxes[n])
    BY <1>2, <2>1, <2>2, PenetratesIntersects
  <2>4. IntersectsWith(Boxes[n], Translate(box, w))
    <3>1. ASSUME NEW i \in Axes
          PROVE  /\ Boxes[n].lo[i] \in Int /\ Boxes[n].hi[i] \in Int
                 /\ Translate(box, w).lo[i] \in Int /\ Translate(box, w).hi[i] \in Int
      BY <1>2, <2>2, Reaches
    <3> QED BY <2>3, <3>1 DEF IntersectsWith
  <2>5. IntersectsWith(Boxes[n], Extend(box, v))
    BY <1>1, <2>2, <2>4, ExtendCovers
  <2>6. n \in NearbyBBoxes(Extend(box, v))
    BY <1>2, <2>5, NearbyIsAll
  <2> QED BY <2>1, <2>6
<1> QED
  BY <1>1, <1>3, FreeMeans

\* What the sweep along y and x does to who is free: nothing is penetrated, and the way
\* it leaves ends in the open.
SweepOpen(pos, sweep, v) ==
    /\ PartOf(sweep.vel, v)
    /\ ~sweep.penetrates
    /\ Free(Add(pos, sweep.vel))

LEMMA SweepStaysOut ==
    ASSUME NEW pos \in Vectors, Free(pos), NEW vel \in Vectors, NEW v, PartOf(v, vel), NEW oneWay \in BOOLEAN
    PROVE  SweepOpen(pos, Sweep(NearbyBBoxes(Extend(BoundingBox(pos), vel)), BoundingBox(pos), v, oneWay), v)
<1> DEFINE box == BoundingBox(pos)
           boxes == NearbyBBoxes(Extend(box, vel))
           vy == <<0, v[2]>>
           y == ClipAll(boxes, TRUE, box, vy, oneWay)
           moved == Translate(box, y)
           vx == <<v[1], 0>>
           x == ClipAll(boxes, TRUE, moved, vx, oneWay)
           sweep == Sweep(boxes, box, v, oneWay)
<1>1. v \in Vectors /\ v[1] \in Int /\ v[2] \in Int
  BY DEF PartOf, Vectors
<1>2. IsBox(box) /\ boxes \in SUBSET Solids
  BY PlayersBox DEF NearbyBBoxes
<1>3. \A n \in boxes : ~Penetrates(Boxes[n], box)
  BY <1>2, FreeMeans
<1>4. OneAxis(vy) /\ OneAxis(vx) /\ vx \in Vectors /\ vy \in Vectors
  BY <1>1 DEF OneAxis, Vectors
<1>5. sweep = [vel |-> Add(y, x),
               penetrates |-> (\E n \in boxes : Penetrates(Boxes[n], box)) \/ (\E n \in boxes : Penetrates(Boxes[n], moved))]
  BY DEF Sweep, SweepX, PenetratesAny, Onward
<1> HIDE DEF box, boxes, sweep
<1>6. PartOf(y, vy) /\ \A n \in boxes : Clear(Boxes[n], box, y)
  <2> HIDE DEF vy
  <2> QED BY <1>2, <1>3, <1>4, ClipAllClears
<1>7. y \in Vectors
  BY <1>6 DEF PartOf
<1> HIDE DEF y
<1>8. \A n \in boxes : IsBox(Boxes[n])
  BY <1>2, SolidIsBox
<1>9. IsBox(moved) /\ \A n \in boxes : ~Penetrates(Boxes[n], moved)
  BY <1>2, <1>6, <1>7, <1>8, ClearApart, TranslateIsBox DEF Vectors
<1>10. PartOf(x, vx) /\ \A n \in boxes : Clear(Boxes[n], moved, x)
  <2> HIDE DEF vx, moved
  <2> QED BY <1>2, <1>4, <1>9, ClipAllClears
<1>11. x \in Vectors
  BY <1>10 DEF PartOf
<1> HIDE DEF x
<1>12. \A n \in boxes : ~Penetrates(Boxes[n], Translate(moved, x))
  <2> HIDE DEF moved
  <2> QED BY <1>8, <1>9, <1>10, <1>11, ClearApart DEF Vectors
<1>13. Translate(moved, x) = Translate(box, Add(y, x))
  BY <1>2, <1>7, <1>11, TranslateAgain
<1>14. PartOf(Add(y, x), v)
  <2>1. y[1] = 0 /\ x[2] = 0 /\ Between(y[2], v[2]) /\ Between(x[1], v[1])
    <3>1. y[1] \in Int /\ x[2] \in Int /\ vy[1] = 0 /\ vx[2] = 0 /\ vy[2] = v[2] /\ vx[1] = v[1]
      BY <1>7, <1>11 DEF Vectors
    <3> QED BY <1>6, <1>10, <3>1 DEF PartOf, Between
  <2>2. Add(y, x) \in Vectors /\ Add(y, x)[1] = x[1] /\ Add(y, x)[2] = y[2]
    <3>1. /\ Add(y, x) \in Vectors /\ Add(y, x)[1] = y[1] + x[1] /\ Add(y, x)[2] = y[2] + x[2]
          /\ x[1] \in Int /\ y[2] \in Int
      BY <1>7, <1>11, AddTyped
    <3> QED BY <2>1, <3>1
  <2> QED BY <2>1, <2>2 DEF PartOf
<1>15. PartOf(Add(y, x), vel)
  BY <1>14, PartOfPart
<1>16. Free(Add(pos, Add(y, x)))
  BY <1>12, <1>13, <1>15, FreeAfterPart DEF box, boxes
<1>17. SweepOpen(pos, sweep, v)
  BY <1>3, <1>5, <1>9, <1>14, <1>16 DEF SweepOpen
<1> QED
  BY <1>17 DEF sweep, boxes, box

LEMMA OnwardTyped ==
    ASSUME NEW boxes \in SUBSET Solids, NEW backwards, NEW box, IsBox(box), NEW by \in Vectors, NEW v \in Vectors,
           NEW oneWay \in BOOLEAN
    PROVE  Onward(boxes, backwards, box, by, v, oneWay) \in Vectors
<1>1. IsBox(Translate(box, by))
  BY TranslateIsBox DEF Vectors
<1>2. ClipAll(boxes, backwards, Translate(box, by), v, oneWay) \in Vectors
  BY <1>1, ClipAllTyped
<1> QED
  BY <1>2, AddTyped DEF Onward

LEMMA StepTyped ==
    ASSUME NEW boxes \in SUBSET Solids, NEW box, IsBox(box), NEW vx \in Int, NEW oneWay \in BOOLEAN
    PROVE  Step(boxes, box, vx, oneWay) \in Vectors
<1> DEFINE up == ClipAll(boxes, FALSE, box, <<0, StepHeight>>, oneWay)
           over == Onward(boxes, FALSE, box, up, <<vx, 0>>, oneWay)
<1>1. <<0, StepHeight>> \in Vectors /\ <<vx, 0>> \in Vectors
  BY MovementAssumption DEF Vectors
<1>2. up \in Vectors
  BY <1>1, ClipAllTyped
<1> HIDE DEF up
<1>3. over \in Vectors
  BY <1>1, <1>2, OnwardTyped
<1>4. <<-up[1], -up[2]>> \in Vectors
  BY <1>2 DEF Vectors
<1>5. Step(boxes, box, vx, oneWay) = Onward(boxes, FALSE, box, over, <<-up[1], -up[2]>>, oneWay)
  BY DEF Step, StepOver, up
<1> HIDE DEF over
<1> QED
  BY <1>3, <1>4, <1>5, OnwardTyped

LEMMA SweepTyped ==
    ASSUME NEW boxes \in SUBSET Solids, NEW box, IsBox(box), NEW v \in Vectors, NEW oneWay \in BOOLEAN
    PROVE  Sweep(boxes, box, v, oneWay).vel \in Vectors /\ Sweep(boxes, box, v, oneWay).penetrates \in BOOLEAN
<1> DEFINE y == ClipAll(boxes, TRUE, box, <<0, v[2]>>, oneWay)
<1>1. v[1] \in Int /\ v[2] \in Int /\ <<0, v[2]>> \in Vectors /\ <<v[1], 0>> \in Vectors
  BY DEF Vectors
<1>2. y \in Vectors
  BY <1>1, ClipAllTyped
<1> HIDE DEF y
<1>3. Onward(boxes, TRUE, box, y, <<v[1], 0>>, oneWay) \in Vectors
  BY <1>1, <1>2, OnwardTyped
<1>4. Sweep(boxes, box, v, oneWay) =
        [vel |-> Onward(boxes, TRUE, box, y, <<v[1], 0>>, oneWay),
         penetrates |-> PenetratesAny(boxes, box) \/ PenetratesAny(boxes, Translate(box, y))]
  BY DEF Sweep, SweepX, y
<1> DEFINE pen == PenetratesAny(boxes, box) \/ PenetratesAny(boxes, Translate(box, y))
<1>5. pen \in BOOLEAN
  BY DEF PenetratesAny
<1>6. /\ Sweep(boxes, box, v, oneWay).penetrates = pen
      /\ Sweep(boxes, box, v, oneWay).vel = Onward(boxes, TRUE, box, y, <<v[1], 0>>, oneWay)
  <2> HIDE DEF pen
  <2>1. Sweep(boxes, box, v, oneWay) = [vel |-> Onward(boxes, TRUE, box, y, <<v[1], 0>>, oneWay), penetrates |-> pen]
    BY <1>4 DEF pen
  <2> QED BY <2>1
<1> HIDE DEF pen
<1> QED
  BY <1>3, <1>5, <1>6

\* What tryCollisions does to the component: it moves by w, and who was free still is.
Passed(s, t, w, pen) ==
    /\ w \in Vectors /\ pen \in BOOLEAN
    /\ t = Moved(s, w, pen)
    /\ Free(s.pos) => ~pen /\ Free(Add(s.pos, w))

LEMMA CollisionsKeepOut ==
    ASSUME NEW s \in Component, NEW prevented \in BOOLEAN, NEW client
    PROVE  \E w, pen : Passed(s, tryCollisions(s, prevented, client), w, pen)
<1> DEFINE box == BoundingBox(s.pos)
           boxes == NearbyBBoxes(Extend(box, s.vel))
           v == IF prevented THEN <<s.vel[1], 0>> ELSE s.vel
           sweep == Sweep(boxes, box, v, s.stuck)
           step == Step(boxes, box, s.vel[1], s.stuck)
           w == Stepped(s, boxes, sweep.vel, prevented, client)
<1>1. s.pos \in Vectors /\ s.vel \in Vectors /\ s.stuck \in BOOLEAN /\ s.vel[1] \in Int /\ s.vel[2] \in Int
  BY DEF Component, Vectors
<1>2. PartOf(v, s.vel) /\ v \in Vectors
  BY <1>1 DEF PartOf, Between, Vectors
<1>3. IsBox(box) /\ boxes \in SUBSET Solids
  BY <1>1, PlayersBox DEF NearbyBBoxes
<1>4. tryCollisions(s, prevented, client) = Moved(s, w, sweep.penetrates)
  BY DEF tryCollisions, Within, Collide
<1> HIDE DEF v
<1>5. sweep.vel \in Vectors /\ sweep.penetrates \in BOOLEAN
  BY <1>1, <1>2, <1>3, SweepTyped
<1>6. Free(s.pos) => SweepOpen(s.pos, sweep, v)
  BY <1>1, <1>2, SweepStaysOut
<1>7. step \in Vectors
  BY <1>1, <1>3, StepTyped
<1>8. w = sweep.vel \/ (w = step /\ ~HasNearbyBBoxes(Translate(box, step)))
  BY DEF Stepped, Best, StepTaken
<1> HIDE DEF w, sweep, step
<1>9. w \in Vectors
  BY <1>5, <1>7, <1>8
<1>10. Free(s.pos) => ~sweep.penetrates /\ Free(Add(s.pos, w))
  <2>1. CASE w = sweep.vel
    BY <1>6, <2>1 DEF SweepOpen
  <2>2. CASE w = step /\ ~HasNearbyBBoxes(Translate(box, step))
    <3>1. Translate(box, step) = BoundingBox(Add(s.pos, step))
      BY <1>1, <1>7, PlayersBox
    <3> QED BY <1>6, <2>2, <3>1 DEF SweepOpen, Free
  <2> QED BY <1>8, <2>1, <2>2
<1> QED
  BY <1>4, <1>5, <1>9, <1>10 DEF Passed

-----------------------------------------------------------------------------
(* the forces *)

\* What no force changes: t differs from s in the velocity and the jump delay at most.
Driven(s, t) ==
    /\ t \in Component
    /\ t.pos = s.pos /\ t.penetrated = s.penetrated /\ t.stuck = s.stuck
    /\ t.collideX = s.collideX /\ t.onGround = s.onGround /\ t.sneaking = s.sneaking
    /\ t.flying = s.flying /\ t.trustFly = s.trustFly
    /\ t.tpPos = s.tpPos /\ t.sinceTp = s.sinceTp /\ t.completion = s.completion /\ t.smoothed = s.smoothed

LEMMA DrivenVel ==
    ASSUME NEW s \in Component, NEW v \in Vectors
    PROVE  Driven(s, [s EXCEPT !.vel = v]) /\ [s EXCEPT !.vel = v].vel = v
BY DEF Component, Driven

LEMMA DrivenJump ==
    ASSUME NEW s \in Component, NEW v \in Vectors, NEW d \in 0..JumpDelayTicks
    PROVE  Driven(s, [s EXCEPT !.jumpDelay = d, !.vel = v])
BY DEF Component, Driven

LEMMA DrivenSelf == ASSUME NEW s \in Component PROVE Driven(s, s)
BY DEF Driven

LEMMA DrivenOn ==
    ASSUME NEW s, NEW t, NEW u, Driven(s, t), Driven(t, u)
    PROVE  Driven(s, u)
BY DEF Driven

LEMMA VelTyped ==
    ASSUME NEW s \in Component
    PROVE  /\ s.vel \in Vectors /\ s.vel[1] \in Int /\ s.vel[2] \in Int /\ s.vel = <<s.vel[1], s.vel[2]>>
           /\ s.pos \in Vectors /\ s.kb \in Vectors /\ s.tpPos \in Vectors /\ s.jumpDelay \in 0..JumpDelayTicks
<1>1. s.vel \in Vectors /\ s.pos \in Vectors /\ s.kb \in Vectors /\ s.tpPos \in Vectors /\ s.jumpDelay \in 0..JumpDelayTicks
  BY DEF Component
<1> QED
  BY <1>1 DEF Vectors

\* One coordinate of the velocity.
LEMMA DrivenX ==
    ASSUME NEW s \in Component, NEW n \in Int
    PROVE  /\ Driven(s, [s EXCEPT !.vel[1] = n])
           /\ [s EXCEPT !.vel[1] = n].vel = <<n, s.vel[2]>>
           /\ [s EXCEPT !.vel[1] = n].jumpDelay = s.jumpDelay
<1>1. [s EXCEPT !.vel[1] = n] = [s EXCEPT !.vel = [s.vel EXCEPT ![1] = n]]
  BY DEF Component
<1>2. [s.vel EXCEPT ![1] = n] = <<n, s.vel[2]>>
  BY VelTyped
<1>3. <<n, s.vel[2]>> \in Vectors
  BY VelTyped DEF Vectors
<1> QED
  <2>1. [s EXCEPT !.vel = <<n, s.vel[2]>>].jumpDelay = s.jumpDelay
    BY DEF Component
  <2> QED BY <1>1, <1>2, <1>3, <2>1, DrivenVel

LEMMA DrivenY ==
    ASSUME NEW s \in Component, NEW n \in Int
    PROVE  /\ Driven(s, [s EXCEPT !.vel[2] = n])
           /\ [s EXCEPT !.vel[2] = n].vel = <<s.vel[1], n>>
<1>1. [s EXCEPT !.vel[2] = n] = [s EXCEPT !.vel = [s.vel EXCEPT ![2] = n]]
  BY DEF Component
<1>2. [s.vel EXCEPT ![2] = n] = <<s.vel[1], n>>
  BY VelTyped
<1>3. <<s.vel[1], n>> \in Vectors
  BY VelTyped DEF Vectors
<1> QED
  BY <1>1, <1>2, <1>3, DrivenVel

LEMMA ClampTyped == ASSUME NEW v \in Int, NEW n \in Int PROVE Clamp(v, n) \in Int /\ (n >= 0 /\ v <= 0 => Clamp(v, n) <= 0)
BY DEF Clamp, Greater, Lesser

LEMMA HalveTyped == ASSUME NEW v \in Int PROVE Halve(v) \in Int
<1>1. v \div 2 \in Int /\ (-v) \div 2 \in Int
  OBVIOUS
<1> QED BY <1>1 DEF Halve

LEMMA KnockbackDrives ==
    ASSUME NEW s \in Component
    PROVE  Driven(s, attemptKnockback(s)) /\ (~HasKnockback(s) => attemptKnockback(s) = s)
BY VelTyped, DrivenVel, DrivenSelf DEF attemptKnockback

LEMMA RelativeDrives ==
    ASSUME NEW s \in Component, NEW in \in Inputs
    PROVE  /\ Driven(s, moveRelative(s, in))
           /\ moveRelative(s, in).vel[2] = s.vel[2] /\ moveRelative(s, in).jumpDelay = s.jumpDelay
<1>1. in.dx \in Int /\ MaxSpeed \in Int
  BY MovementAssumption DEF Input
<1>2. Clamp(s.vel[1] + in.dx, MaxSpeed) \in Int
  <2>1. s.vel[1] + in.dx \in Int
    BY <1>1, VelTyped
  <2> QED BY <1>1, <2>1, ClampTyped
<1> DEFINE n == Clamp(s.vel[1] + in.dx, MaxSpeed)
<1>3. moveRelative(s, in) = [s EXCEPT !.vel[1] = n]
  BY DEF moveRelative
<1> HIDE DEF n
<1> QED
  <2>1. n \in Int
    BY <1>2 DEF n
  <2>2. /\ Driven(s, [s EXCEPT !.vel[1] = n])
        /\ [s EXCEPT !.vel[1] = n].vel = <<n, s.vel[2]>> /\ [s EXCEPT !.vel[1] = n].jumpDelay = s.jumpDelay
    BY <2>1, DrivenX
  <2> QED BY <1>3, <2>2

LEMMA JumpDrives ==
    ASSUME NEW s \in Component, NEW in \in Inputs
    PROVE  Driven(s, attemptJump(s, in)) /\ (~Jumps(s, in) => attemptJump(s, in) = s)
<1>1. in.dx \in Int /\ MaxSpeed \in Int /\ JumpHeight \in Int /\ JumpDelayTicks \in 0..JumpDelayTicks
  <2>1. Input \subseteq [dx : Int, jump : BOOLEAN, hold : BOOLEAN, sneak : BOOLEAN, fly : {"none", "start", "stop"},
     sprint : {"none", "start", "stop", "both"}, glide : {"none", "start", "stop"}, elytra : BOOLEAN,
     glideVel : Vectors, move : Vectors]
    BY DEF Input
  <2> QED BY <2>1, MovementAssumption
<1> DEFINE x == IF s.sprinting THEN Clamp(s.vel[1] + in.dx, MaxSpeed) ELSE s.vel[1]
           y == Greater(JumpHeight, s.vel[2])
<1>2. x \in Int /\ y \in Int
  <2>1. s.vel[1] + in.dx \in Int /\ s.vel[1] \in Int /\ s.vel[2] \in Int
    BY <1>1, VelTyped
  <2>2. Clamp(s.vel[1] + in.dx, MaxSpeed) \in Int
    BY <1>1, <2>1, ClampTyped
  <2> QED BY <1>1, <2>1, <2>2 DEF Greater
<1>3. attemptJump(s, in) = IF Jumps(s, in) THEN [s EXCEPT !.jumpDelay = JumpDelayTicks, !.vel = <<x, y>>] ELSE s
  BY DEF attemptJump
<1> HIDE DEF x, y
<1>4. <<x, y>> \in Vectors
  BY <1>2 DEF Vectors
<1> QED
  BY <1>1, <1>3, <1>4, DrivenJump, DrivenSelf

LEMMA ClimbDrives ==
    ASSUME NEW s \in Component, NEW in \in Inputs
    PROVE  Driven(s, Climb(s, in)) /\ (Block(CellAt(s.pos, 0)) # "vine" => Climb(s, in) = s)
<1> DEFINE n == IF in.hold \/ s.collideX THEN 1
                ELSE IF s.sneaking /\ s.vel[2] < 0 THEN 0 ELSE Greater(s.vel[2], -1)
<1>1. n \in Int
  BY VelTyped DEF Greater
<1>2. Climb(s, in) = IF Block(CellAt(s.pos, 0)) # "vine" THEN s ELSE [s EXCEPT !.vel[2] = n]
  BY DEF Climb
<1> HIDE DEF n
<1> QED
  BY <1>1, <1>2, DrivenY, DrivenSelf

LEMMA WebDrives ==
    ASSUME NEW s \in Component
    PROVE  Driven(s, InWeb(s)) /\ (s.vel[2] <= 0 => InWeb(s).vel[2] <= 0)
<1>1. Slow(s.vel[1]) \in Int /\ Slow(s.vel[2]) \in Int /\ (s.vel[2] <= 0 => Slow(s.vel[2]) <= 0)
  <2>1. s.vel[1] \in Int /\ s.vel[2] \in Int
    BY VelTyped
  <2>2. \A v \in Int : Slow(v) \in Int /\ (v <= 0 => Slow(v) <= 0)
    BY DEF Slow, Clamp, Greater, Lesser
  <2> QED BY <2>1, <2>2
<1>2. <<Slow(s.vel[1]), Slow(s.vel[2])>> \in Vectors
  BY <1>1 DEF Vectors
<1>3. InWeb(s) = IF isInsideCobweb(s.pos) THEN [s EXCEPT !.vel = <<Slow(s.vel[1]), Slow(s.vel[2])>>] ELSE s
  BY DEF InWeb
<1> QED
  BY <1>1, <1>2, <1>3, DrivenVel, DrivenSelf

\* A set of natural numbers with a bound has a greatest element.
LEMMA GreatestNatural ==
    ASSUME NEW T \in SUBSET Nat, T # {}, NEW bound \in Nat, \A n \in T : n <= bound
    PROVE  \E n \in T : \A k \in T : k <= n
<1> DEFINE rest == {bound - n : n \in T}
<1>1. rest \in SUBSET Nat /\ rest # {}
  <2>1. \A n \in T : bound - n \in Nat
    OBVIOUS
  <2> QED BY <2>1
<1>2. PICK r \in rest : \A q \in rest : r <= q
  <2> HIDE DEF rest
  <2> QED BY <1>1, LeastNatural
<1>3. PICK n \in T : r = bound - n
  BY <1>2
<1>4. ASSUME NEW k \in T PROVE k <= n
  <2>1. bound - k \in rest
    OBVIOUS
  <2>2. r <= bound - k
    BY <1>2, <2>1
  <2> QED BY <1>3, <2>2
<1> QED BY <1>3, <1>4

\* avoidEdge: where the shortened way ends there is a support, if there was one.
LEMMA ShortenedSafe ==
    ASSUME NEW pos \in Vectors, NEW vx \in Int
    PROVE  /\ Shortened(pos, vx) \in Int
           /\ Supported(pos) => Supported(Add(pos, <<Shortened(pos, vx), 0>>))
<1> DEFINE dir == IF vx > 0 THEN 1 ELSE -1
           safe == {0} \cup {n \in 1..dir * vx : Supported(Add(pos, <<n * dir, 0>>))}
           far == CHOOSE n \in safe : \A k \in safe : k <= n
<1>1. dir \in {1, -1} /\ dir * vx \in Nat
  OBVIOUS
<1>2. Shortened(pos, vx) = dir * far
  BY DEF Shortened
<1> HIDE DEF dir
<1>3. safe \in SUBSET Nat /\ \A n \in safe : n <= dir * vx
  BY <1>1
<1>4. safe # {}
  OBVIOUS
<1>5. \E n \in safe : \A k \in safe : k <= n
  <2> HIDE DEF safe
  <2> QED BY <1>1, <1>3, <1>4, GreatestNatural
<1>6. far \in safe
  <2> HIDE DEF safe
  <2> QED BY <1>5
<1> HIDE DEF far
<1>7. far \in Nat
  BY <1>3, <1>6
<1>8. ASSUME Supported(pos) PROVE Supported(Add(pos, <<dir * far, 0>>))
  <2>1. CASE far = 0
    <3>1. dir * far = 0
      BY <1>1, <2>1
    <3>2. Add(pos, <<0, 0>>) = pos
      BY DEF Add, Vectors
    <3> QED BY <1>8, <3>1, <3>2
  <2>2. CASE far # 0
    <3>1. Supported(Add(pos, <<far * dir, 0>>))
      BY <1>6, <2>2
    <3>2. far * dir = dir * far
      BY <1>1, <1>7
    <3> QED BY <3>1, <3>2
  <2> QED BY <2>1, <2>2
<1>9. dir * far \in Int
  BY <1>1, <1>7
<1> QED
  BY <1>2, <1>8, <1>9

LEMMA EdgeDrives ==
    ASSUME NEW s \in Component
    PROVE  /\ Driven(s, avoidEdge(s))
           /\ s.sneaking /\ s.onGround /\ s.vel[2] <= 0 =>
                avoidEdge(s).vel[1] = Shortened(s.pos, s.vel[1])
<1> DEFINE n == Shortened(s.pos, s.vel[1])
<1>1. n \in Int
  BY VelTyped, ShortenedSafe
<1>2. avoidEdge(s) = IF s.sneaking /\ s.onGround /\ s.vel[2] <= 0 THEN [s EXCEPT !.vel[1] = n] ELSE s
  BY DEF avoidEdge
<1> HIDE DEF n
<1> QED
  <2>1. Driven(s, [s EXCEPT !.vel[1] = n]) /\ [s EXCEPT !.vel[1] = n].vel = <<n, s.vel[2]>>
    BY <1>1, DrivenX
  <2>2. Driven(s, avoidEdge(s)) /\ (s.sneaking /\ s.onGround /\ s.vel[2] <= 0 => avoidEdge(s).vel[1] = n)
    BY <1>2, <2>1, DrivenSelf
  <2> QED BY <2>2 DEF n

-----------------------------------------------------------------------------
(* the block underfoot, gravity and friction *)

LEMMA WalkOnDrives ==
    ASSUME NEW s \in Component, NEW oldY, NEW under
    PROVE  Driven(s, walkOnBlock(s, oldY, under))
<1> DEFINE n == Halve(s.vel[1])
<1>1. n \in Int
  BY VelTyped, HalveTyped
<1>2. walkOnBlock(s, oldY, under) = s \/ walkOnBlock(s, oldY, under) = [s EXCEPT !.vel[1] = n]
  BY DEF walkOnBlock
<1> HIDE DEF n
<1> QED
  BY <1>1, <1>2, DrivenX, DrivenSelf

LEMMA LandTyped ==
    ASSUME NEW v \in Int, NEW in, NEW under
    PROVE  landOnBlock(v, in, under) \in Int
BY DEF landOnBlock, Lesser

LEMMA PostDrives ==
    ASSUME NEW s \in Component, NEW old \in Component, NEW in, NEW under
    PROVE  Driven(s, setPostCollisionMotion(s, old, in, under))
<1> DEFINE x == IF s.collideX THEN 0 ELSE s.vel[1]
           y == IF ~s.collideY THEN s.vel[2] ELSE IF old.onGround THEN 0 ELSE landOnBlock(old.vel[2], in, under)
<1>1. landOnBlock(old.vel[2], in, under) \in Int
  BY VelTyped, LandTyped
<1>2. x \in Int /\ y \in Int
  BY <1>1, VelTyped
<1>3. setPostCollisionMotion(s, old, in, under) = [s EXCEPT !.vel = <<x, y>>]
  BY DEF setPostCollisionMotion
<1> HIDE DEF x, y
<1>4. <<x, y>> \in Vectors
  BY <1>2 DEF Vectors
<1> QED
  BY <1>3, <1>4, DrivenVel

LEMMA DragTyped ==
    ASSUME NEW s, NEW vel \in Vectors
    PROVE  Drag(s, vel) \in Vectors
<1>1. vel[1] \in Int /\ vel[2] \in Int
  BY DEF Vectors
<1>2. Terminal \in Int
  BY MovementAssumption
<1>3. Fall(vel[2], s) \in Int
  BY <1>1, <1>2 DEF Fall, Clamp, Greater, Lesser
<1>4. Halve(vel[1]) \in Int
  BY <1>1, HalveTyped
<1> QED
  BY <1>1, <1>3, <1>4 DEF Drag, Vectors

LEMMA SettleDrives ==
    ASSUME NEW s, NEW end \in Component
    PROVE  Driven(end, Settle(s, end))
<1> DEFINE v == Drag(s, IF isInsideCobweb(s.pos) THEN Still ELSE end.vel)
<1>1. Still \in Vectors /\ end.vel \in Vectors
  BY VelTyped DEF Still, Vectors
<1>2. v \in Vectors
  BY <1>1, DragTyped
<1>3. Settle(s, end) = [end EXCEPT !.vel = v]
  BY DEF Settle
<1> HIDE DEF v
<1> QED
  BY <1>2, <1>3, DrivenVel

LEMMA TouchDrives ==
    ASSUME NEW s, NEW old \in Component, NEW moved \in Component, NEW in
    PROVE  Driven(moved, Touch(s, old, moved, in))
<1> DEFINE under == BlockUnder(moved, old.vel)
           walked == walkOnBlock(moved, s.pos[2], under)
           landed == setPostCollisionMotion(walked, old, in, under)
<1>1. Touch(s, old, moved, in) = Settle(s, landed)
  BY DEF Touch, Land
<1> HIDE DEF under
<1>2. Driven(moved, walked)
  BY WalkOnDrives
<1> HIDE DEF walked
<1>3. Driven(walked, landed) /\ walked \in Component
  BY <1>2, PostDrives DEF Driven
<1> HIDE DEF landed
<1>4. Driven(landed, Settle(s, landed))
  BY <1>3, SettleDrives DEF Driven
<1> QED
  BY <1>1, <1>2, <1>3, <1>4, DrivenOn

-----------------------------------------------------------------------------
(* a frame *)

\* What a frame keeps of the component: the trust, and the teleport it is guided by.
Kept(s, t) ==
    /\ t \in Component
    /\ t.flying = s.flying /\ t.trustFly = s.trustFly
    /\ t.tpPos = s.tpPos /\ t.sinceTp = s.sinceTp /\ t.completion = s.completion /\ t.smoothed = s.smoothed

\* A simulated frame: from s to t by w, after the collisions with velocity vel.
Went(s, t, vel, w, pen) ==
    /\ Kept(s, t)
    /\ w \in Vectors /\ pen \in BOOLEAN
    /\ t.pos = Add(s.pos, w)
    /\ t.penetrated = pen /\ t.stuck = (s.penetrated /\ pen)
    /\ t.collideX = (vel[1] # w[1])
    /\ Free(s.pos) => ~pen /\ Free(t.pos)

LEMMA MovedKeeps ==
    ASSUME NEW s \in Component, NEW w \in Vectors, NEW pen \in BOOLEAN
    PROVE  /\ Kept(s, Moved(s, w, pen))
           /\ Moved(s, w, pen).pos = Add(s.pos, w)
           /\ Moved(s, w, pen).penetrated = pen /\ Moved(s, w, pen).stuck = (s.penetrated /\ pen)
           /\ Moved(s, w, pen).collideX = (s.vel[1] # w[1])
<1>1. Add(s.pos, w) \in Vectors
  BY AddTyped, VelTyped
<1> DEFINE stuck == s.penetrated /\ pen
           x == s.vel[1] # w[1]
           y == s.vel[2] # w[2]
           ground == \/ s.vel[2] # w[2] /\ s.vel[2] < 0
                     \/ s.onGround /\ s.vel[2] = w[2] /\ s.vel[2] = 0
<1>2. stuck \in BOOLEAN /\ x \in BOOLEAN /\ y \in BOOLEAN /\ ground \in BOOLEAN
  OBVIOUS
<1>3. Moved(s, w, pen) = [s EXCEPT !.pos = Add(s.pos, w), !.vel = w, !.stuck = stuck, !.penetrated = pen,
                                   !.collideX = x, !.collideY = y, !.onGround = ground]
  BY DEF Moved
<1> HIDE DEF stuck, x, y, ground
<1> DEFINE p == Add(s.pos, w)
<1> HIDE DEF p
<1>4. p \in Vectors
  BY <1>1 DEF p
<1> DEFINE t == [s EXCEPT !.pos = p, !.vel = w, !.stuck = stuck, !.penetrated = pen,
                          !.collideX = x, !.collideY = y, !.onGround = ground]
<1>6. t \in Component
  BY <1>2, <1>4 DEF Component
<1>7. Kept(s, t)
  <2>1. /\ t.flying = s.flying /\ t.trustFly = s.trustFly
        /\ t.tpPos = s.tpPos /\ t.sinceTp = s.sinceTp /\ t.completion = s.completion /\ t.smoothed = s.smoothed
    BY DEF Component
  <2> HIDE DEF t
  <2> QED BY <1>6, <2>1 DEF Kept
<1>5. /\ Moved(s, w, pen).pos = p
      /\ Moved(s, w, pen).penetrated = pen /\ Moved(s, w, pen).stuck = stuck
      /\ Moved(s, w, pen).collideX = x
  BY <1>3 DEF Component, p
<1> QED
  BY <1>3, <1>5, <1>7 DEF p, stuck, x

\* The forces have given a velocity: what the collisions leave, and what comes after them.
LEMMA MoveWent ==
    ASSUME NEW s \in Component, NEW old, Driven(s, old), NEW prevented \in BOOLEAN, NEW in
    PROVE  \E w, pen : Went(s, Move(s, old, prevented, in), old.vel, w, pen)
<1> DEFINE moved == tryCollisions(old, prevented, Add(s.pos, in.move))
           t == Touch(s, old, moved, in)
<1>1. old \in Component
  BY DEF Driven
<1>2. PICK w, pen : Passed(old, moved, w, pen)
  BY <1>1, CollisionsKeepOut
<1>3. Move(s, old, prevented, in) = t
  BY DEF Move
<1> HIDE DEF moved
<1>4. w \in Vectors /\ pen \in BOOLEAN /\ moved = Moved(old, w, pen)
  BY <1>2 DEF Passed
<1>5. /\ Kept(old, moved)
      /\ moved.pos = Add(old.pos, w)
      /\ moved.penetrated = pen /\ moved.stuck = (old.penetrated /\ pen)
      /\ moved.collideX = (old.vel[1] # w[1])
  BY <1>1, <1>4, MovedKeeps
<1>6. Driven(moved, t)
  BY <1>1, <1>5, TouchDrives DEF Kept
<1> HIDE DEF t
<1>7. Kept(s, t)
  BY <1>5, <1>6 DEF Driven, Kept
<1>8. t.pos = Add(s.pos, w) /\ t.penetrated = pen /\ t.stuck = (s.penetrated /\ pen) /\ t.collideX = (old.vel[1] # w[1])
  BY <1>5, <1>6 DEF Driven
<1>9. Free(s.pos) => ~pen /\ Free(t.pos)
  BY <1>2, <1>8 DEF Driven, Passed
<1> QED
  BY <1>3, <1>4, <1>7, <1>8, <1>9 DEF Went

\* A frame on foot.
LEMMA WalkWent ==
    ASSUME NEW s \in Component, NEW in \in Inputs, NEW pushed,
           pushed = moveRelative(attemptKnockback([s EXCEPT !.gliding = FALSE]), in)
    PROVE  \E vel, w \in Vectors, pen \in BOOLEAN :
             /\ Went(s, Walk(s, pushed, in), vel, w, pen)
             /\ Creeps(s, in) => \E n \in Int : vel[1] = Shortened(s.pos, n)
<1> DEFINE off == [s EXCEPT !.gliding = FALSE]
           hit == attemptKnockback(off)
           jumped == attemptJump(pushed, in)
           climbed == Climb(jumped, in)
           slowed == InWeb(climbed)
           old == avoidEdge(slowed)
<1>1. /\ Driven(s, off) /\ off.vel = s.vel /\ off.jumpDelay = s.jumpDelay
      /\ HasKnockback(off) = HasKnockback(s)
  BY DEF Component, Driven, HasKnockback
<1>2. Walk(s, pushed, in) = Move(s, old, JumpPrevented(pushed, in), in)
  BY DEF Walk
<1> HIDE DEF off
<1>3. Driven(off, hit) /\ (~HasKnockback(s) => hit = off)
  BY <1>1, KnockbackDrives DEF Driven
<1>4. pushed = moveRelative(hit, in)
  BY DEF off
<1> HIDE DEF hit
<1>5. Driven(hit, pushed) /\ pushed.vel[2] = hit.vel[2] /\ pushed.jumpDelay = hit.jumpDelay
  BY <1>3, <1>4, RelativeDrives DEF Driven
<1>6. Driven(pushed, jumped) /\ (~Jumps(pushed, in) => jumped = pushed)
  BY <1>5, JumpDrives DEF Driven
<1> HIDE DEF jumped
<1>7. Driven(jumped, climbed) /\ (Block(CellAt(jumped.pos, 0)) # "vine" => climbed = jumped)
  BY <1>6, ClimbDrives DEF Driven
<1> HIDE DEF climbed
<1>8. Driven(climbed, slowed) /\ (climbed.vel[2] <= 0 => slowed.vel[2] <= 0)
  BY <1>7, WebDrives DEF Driven
<1> HIDE DEF slowed
<1>9. /\ Driven(slowed, old)
      /\ slowed.sneaking /\ slowed.onGround /\ slowed.vel[2] <= 0 => old.vel[1] = Shortened(slowed.pos, slowed.vel[1])
  BY <1>8, EdgeDrives DEF Driven
<1> HIDE DEF old
<1>10. Driven(s, pushed) /\ Driven(s, jumped) /\ Driven(s, climbed) /\ Driven(s, slowed) /\ Driven(s, old)
  BY <1>1, <1>3, <1>5, <1>6, <1>7, <1>8, <1>9, DrivenOn
<1>11. JumpPrevented(pushed, in) \in BOOLEAN
  BY DEF JumpPrevented
<1>12. PICK w \in Vectors, pen \in BOOLEAN : Went(s, Walk(s, pushed, in), old.vel, w, pen)
  <2>1. PICK v, b : Went(s, Walk(s, pushed, in), old.vel, v, b)
    BY <1>2, <1>10, <1>11, MoveWent
  <2>2. v \in Vectors /\ b \in BOOLEAN
    BY <2>1 DEF Went
  <2> QED BY <2>1, <2>2
<1>13. old.vel \in Vectors
  BY <1>10, VelTyped DEF Driven
<1>14. ASSUME Creeps(s, in) PROVE \E n \in Int : old.vel[1] = Shortened(s.pos, n)
  <2>1. /\ s.sneaking /\ s.onGround /\ s.vel[2] <= 0
        /\ ~Jumps(s, in) /\ ~HasKnockback(s) /\ Block(CellAt(s.pos, 0)) # "vine"
    BY <1>14 DEF Creeps
  <2>2. hit = off /\ pushed.vel[2] = s.vel[2] /\ pushed.jumpDelay = s.jumpDelay
    BY <1>1, <1>3, <1>5, <2>1
  <2>3. pushed.onGround = s.onGround /\ jumped.pos = s.pos /\ slowed.pos = s.pos
        /\ slowed.sneaking = s.sneaking /\ slowed.onGround = s.onGround
    BY <1>10 DEF Driven
  <2>4. jumped = pushed
    BY <1>6, <2>1, <2>2, <2>3 DEF Jumps
  <2>5. climbed = pushed
    BY <1>7, <2>1, <2>3, <2>4
  <2>6. slowed.vel[2] <= 0
    BY <1>8, <2>1, <2>2, <2>5
  <2>7. old.vel[1] = Shortened(s.pos, slowed.vel[1])
    BY <1>9, <2>1, <2>3, <2>6
  <2>8. slowed.vel[1] \in Int
    BY <1>10, VelTyped DEF Driven
  <2> QED BY <2>7, <2>8
<1> QED
  BY <1>12, <1>13, <1>14

\* A frame in the air with an elytra.
LEMMA GlideWent ==
    ASSUME NEW s \in Component, NEW in \in Inputs
    PROVE  \E vel, w \in Vectors, pen \in BOOLEAN : Went(s, simulateGlide(s, in), vel, w, pen)
<1> DEFINE old == [s EXCEPT !.vel = in.glideVel]
           t == tryCollisions(old, FALSE, Add(s.pos, in.move))
<1>1. in.glideVel \in Vectors
  BY MovementAssumption DEF Input
<1>2. Driven(s, old) /\ old.vel = in.glideVel
  BY <1>1, DrivenVel
<1>3. simulateGlide(s, in) = t
  BY DEF simulateGlide
<1> HIDE DEF old
<1>4. old \in Component
  BY <1>2 DEF Driven
<1>5. PICK w, pen : Passed(old, t, w, pen)
  BY <1>4, CollisionsKeepOut
<1> HIDE DEF t
<1>6. w \in Vectors /\ pen \in BOOLEAN /\ t = Moved(old, w, pen)
  BY <1>5 DEF Passed
<1>7. /\ Kept(old, t)
      /\ t.pos = Add(old.pos, w)
      /\ t.penetrated = pen /\ t.stuck = (old.penetrated /\ pen)
      /\ t.collideX = (old.vel[1] # w[1])
  BY <1>4, <1>6, MovedKeeps
<1>8. Kept(s, t)
  BY <1>2, <1>7 DEF Driven, Kept
<1>9. t.pos = Add(s.pos, w) /\ t.stuck = (s.penetrated /\ pen)
  BY <1>2, <1>7 DEF Driven
<1>10. Free(s.pos) => ~pen /\ Free(t.pos)
  BY <1>2, <1>5, <1>9 DEF Driven, Passed
<1>11. Went(s, t, old.vel, w, pen)
  BY <1>6, <1>7, <1>8, <1>9, <1>10 DEF Went
<1>12. old.vel \in Vectors /\ w \in Vectors /\ pen \in BOOLEAN
  BY <1>1, <1>2, <1>6
<1> QED
  BY <1>3, <1>11, <1>12

\* A frame that is not simulated: nothing penetrates.
Rested(s, t) == Kept(s, t) /\ ~t.stuck /\ ~t.penetrated

LEMMA SkippedRests ==
    ASSUME NEW s \in Component
    PROVE  Skipped(s) \in Component /\ Rested(s, Skipped(s)) /\ Skipped(s).flying = s.flying /\ Skipped(s).pos = s.pos
BY DEF Skipped, Component, Rested, Kept

LEMMA ResetRests ==
    ASSUME NEW s \in Component, NEW in \in Inputs
    PROVE  Rested(s, Reset(Skipped(s), in))
<1> DEFINE k == Skipped(s)
           p == Add(k.pos, in.move)
           g == k.onGround /\ ~k.flying
<1>1. k \in Component /\ Rested(s, k)
  BY SkippedRests
<1> HIDE DEF k
<1>2. in.move \in Vectors
  BY MovementAssumption DEF Input
<1>3. p \in Vectors
  BY <1>1, <1>2, VelTyped, AddTyped
<1>4. g \in BOOLEAN
  OBVIOUS
<1>5. Reset(k, in) = [k EXCEPT !.pos = p, !.vel = in.move, !.onGround = g]
  BY DEF Reset
<1> HIDE DEF p, g
<1> DEFINE t == [k EXCEPT !.pos = p, !.vel = in.move, !.onGround = g]
<1>6. t \in Component
  BY <1>1, <1>2, <1>3, <1>4 DEF Component
<1>7. /\ t.flying = k.flying /\ t.trustFly = k.trustFly
      /\ t.tpPos = k.tpPos /\ t.sinceTp = k.sinceTp /\ t.completion = k.completion /\ t.smoothed = k.smoothed
      /\ t.stuck = k.stuck /\ t.penetrated = k.penetrated
  BY <1>1 DEF Component
<1> HIDE DEF t
<1>8. Rested(s, t)
  BY <1>1, <1>6, <1>7 DEF Rested, Kept
<1> QED
  BY <1>5, <1>8 DEF k, t

\* What a frame does, whichever way it goes.
Framed(s, t, way, in) ==
    IF way \in Simulated
    THEN \E vel, w \in Vectors, pen \in BOOLEAN : /\ Went(s, t, vel, w, pen)
                                                  /\ way = "creep" => \E n \in Int : vel[1] = Shortened(s.pos, n)
    ELSE Rested(s, t)

LEMMA FrameSound ==
    ASSUME NEW s \in Component, NEW in \in Inputs,
           NEW way \in Simulated \cup {"teleport", "client", "frozen"},
           way = "creep" => Creeps(s, in)
    PROVE  Framed(s, SimulatePlayerMovement(s, way, in), way, in)
<1> DEFINE pushed == moveRelative(attemptKnockback([s EXCEPT !.gliding = FALSE]), in)
<1>1. CASE way = "teleport"
  BY <1>1, SkippedRests DEF SimulatePlayerMovement, Framed, Simulated
<1>2. CASE way = "client"
  BY <1>2, ResetRests DEF SimulatePlayerMovement, Framed, Simulated
<1>3. CASE way = "frozen"
  <2> DEFINE k == Skipped(s)
  <2>1. k \in Component /\ Rested(s, k)
    BY SkippedRests
  <2>2. SimulatePlayerMovement(s, way, in) = [k EXCEPT !.vel = Still]
    BY <1>3 DEF SimulatePlayerMovement
  <2> HIDE DEF k
  <2>3. Driven(k, [k EXCEPT !.vel = Still])
    <3>1. Still \in Vectors
      BY DEF Still, Vectors
    <3> QED BY <2>1, <3>1, DrivenVel
  <2>4. Rested(s, [k EXCEPT !.vel = Still])
    BY <2>1, <2>3 DEF Driven, Rested, Kept
  <2> QED BY <1>3, <2>2, <2>4 DEF Framed, Simulated
<1>4. CASE way = "glide"
  <2>1. SimulatePlayerMovement(s, way, in) = simulateGlide(s, in)
    BY <1>4 DEF SimulatePlayerMovement
  <2> QED BY <1>4, <2>1, GlideWent DEF Framed, Simulated
<1>5. CASE way \in {"creep", "walk"}
  <2>1. SimulatePlayerMovement(s, way, in) = Walk(s, pushed, in)
    BY <1>5 DEF SimulatePlayerMovement
  <2> HIDE DEF pushed
  <2>2. \E vel, w \in Vectors, pen \in BOOLEAN :
             /\ Went(s, Walk(s, pushed, in), vel, w, pen)
             /\ Creeps(s, in) => \E n \in Int : vel[1] = Shortened(s.pos, n)
    BY WalkWent DEF pushed
  <2> QED BY <1>5, <2>1, <2>2 DEF Framed, Simulated
<1> QED
  BY <1>1, <1>2, <1>3, <1>4, <1>5 DEF Simulated

-----------------------------------------------------------------------------
(* what the server changes *)

LEMMA UpdateFields ==
    ASSUME NEW u \in Updates
    PROVE  /\ u.kind \in {"knockback", "teleport", "abilities", "data", "health", "effect", "mode"}
           /\ u.kind = "knockback" => u.vel \in Vectors
           /\ u.kind = "teleport" => u.pos \in Vectors /\ u.onGround \in BOOLEAN /\ u.smoothed \in BOOLEAN
           /\ u.kind = "abilities" => u.mayFly \in BOOLEAN /\ u.flying \in BOOLEAN /\ u.noClip \in BOOLEAN
           /\ u.kind = "data" => u.immobile \in BOOLEAN /\ u.sprint \in BOOLEAN /\ u.gravity \in BOOLEAN
           /\ u.kind = "health" => u.alive \in BOOLEAN
           /\ u.kind = "effect" => u.add \in BOOLEAN
           /\ u.kind = "mode" => u.survival \in BOOLEAN
<1>1. u \in Update
  BY MovementAssumption
<1> QED
  BY <1>1 DEF Update

\* A change leaves the player where it is; it may begin a teleport, and does not end one.
Told(s, t) ==
    /\ t \in Component
    /\ t.pos = s.pos /\ t.penetrated = s.penetrated /\ t.stuck = s.stuck /\ t.collideX = s.collideX
    /\ s.smoothed \/ s.completion = 0 => t.smoothed \/ t.completion = 0
    /\ t.sinceTp = t.completion + 1 => s.sinceTp = s.completion + 1 /\ t.tpPos = s.tpPos
Trusts(s) == s.flying \/ s.trustFly

\* What is written to several fields of the component at once is of their types.
LEMMA PushedTyped ==
    ASSUME NEW s \in Component, NEW v \in Vectors, NEW z \in 0..2
    PROVE  [s EXCEPT !.kb = v, !.sinceKb = z] \in Component
BY DEF Component

LEMMA TeleportTyped ==
    ASSUME NEW s \in Component, NEW p \in Vectors, NEW g \in BOOLEAN, NEW o \in BOOLEAN,
           NEW z \in 0..4, NEW k \in {0, 2}
    PROVE  [s EXCEPT !.tpPos = p, !.onGround = g, !.smoothed = o, !.sinceTp = z, !.completion = k] \in Component
BY DEF Component

LEMMA AbilitiesTyped ==
    ASSUME NEW s \in Component, NEW f \in BOOLEAN, NEW n \in BOOLEAN, NEW t \in BOOLEAN, NEW g \in BOOLEAN
    PROVE  [s EXCEPT !.flying = f, !.noClip = n, !.trustFly = t, !.toggledFly = g] \in Component
BY ZenonT(40) DEF Component

LEMMA KnockbackTells ==
    ASSUME NEW s \in Component, NEW v \in Vectors
    PROVE  /\ Told(s, SetKnockback(s, v)) /\ Trusts(SetKnockback(s, v)) = Trusts(s)
<1> DEFINE t == [s EXCEPT !.kb = v, !.sinceKb = 0]
<1>1. SetKnockback(s, v) = t
  BY DEF SetKnockback
<1>2. t \in Component
  <2>1. 0 \in 0..2
    OBVIOUS
  <2> QED BY <2>1, PushedTyped
<1>3. /\ t.pos = s.pos /\ t.penetrated = s.penetrated /\ t.stuck = s.stuck /\ t.collideX = s.collideX
      /\ t.tpPos = s.tpPos /\ t.completion = s.completion /\ t.smoothed = s.smoothed /\ t.sinceTp = s.sinceTp
      /\ t.flying = s.flying /\ t.trustFly = s.trustFly
  BY DEF Component
<1> HIDE DEF t
<1> QED
  BY <1>1, <1>2, <1>3 DEF Told, Trusts

LEMMA ApplyTells ==
    ASSUME NEW s \in Component, NEW u \in Updates, u.kind # "knockback"
    PROVE  /\ Told(s, Apply(s, u))
           /\ Trusts(Apply(s, u)) => Trusts(s) \/ (u.kind = "abilities" /\ (u.mayFly \/ u.flying))
<1> DEFINE t == Apply(s, u)
<1>1. CASE u.kind = "teleport"
  <2> DEFINE k == IF u.smoothed THEN 2 ELSE 0
  <2>1. t = [s EXCEPT !.tpPos = u.pos, !.onGround = u.onGround, !.smoothed = u.smoothed,
                      !.sinceTp = 0, !.completion = k]
    BY <1>1 DEF Apply, Teleport
  <2>2. u.pos \in Vectors /\ u.onGround \in BOOLEAN /\ u.smoothed \in BOOLEAN /\ k \in {0, 2} /\ (k = 0 \/ u.smoothed)
    BY <1>1, UpdateFields, SMTT(40)
  <2> HIDE DEF t, k
  <2>3. t \in Component
    <3>1. 0 \in 0..4
      OBVIOUS
    <3> QED BY <2>1, <2>2, <3>1, TeleportTyped
  <2>4. /\ t.pos = s.pos /\ t.penetrated = s.penetrated /\ t.stuck = s.stuck /\ t.collideX = s.collideX
        /\ t.smoothed = u.smoothed /\ t.completion = k /\ t.sinceTp = 0
        /\ t.flying = s.flying /\ t.trustFly = s.trustFly
    BY <2>1 DEF Component
  <2> QED BY <2>2, <2>3, <2>4 DEF Told, Trusts, t
<1>2. CASE u.kind = "abilities"
  <2> DEFINE trust == IF s.toggledFly THEN u.flying \/ u.mayFly ELSE s.trustFly
  <2>1. t = [s EXCEPT !.flying = u.flying, !.noClip = u.noClip, !.trustFly = trust, !.toggledFly = FALSE]
    BY <1>2 DEF Apply, UpdateAbilities
  <2>2. u.flying \in BOOLEAN /\ u.noClip \in BOOLEAN /\ trust \in BOOLEAN /\ (trust => s.trustFly \/ u.mayFly \/ u.flying)
    BY <1>2, UpdateFields DEF Component
  <2> HIDE DEF t, trust
  <2>3. t \in Component
    <3>1. FALSE \in BOOLEAN
      OBVIOUS
    <3> QED BY <2>1, <2>2, <3>1, AbilitiesTyped
  <2>4. /\ t.pos = s.pos /\ t.penetrated = s.penetrated /\ t.stuck = s.stuck /\ t.collideX = s.collideX
        /\ t.smoothed = s.smoothed /\ t.completion = s.completion /\ t.sinceTp = s.sinceTp /\ t.tpPos = s.tpPos
        /\ t.flying = u.flying /\ t.trustFly = trust
    BY <2>1 DEF Component
  <2> QED BY <1>2, <2>2, <2>3, <2>4 DEF Told, Trusts, t
<1>3. CASE u.kind = "data"
  <2>1. t = [s EXCEPT !.immobile = u.immobile, !.serverSprint = u.sprint, !.serverSprintApplied = FALSE,
                      !.hasGravity = u.gravity]
    BY <1>3 DEF Apply, UpdateActorData
  <2>2. u.immobile \in BOOLEAN /\ u.sprint \in BOOLEAN /\ u.gravity \in BOOLEAN
    BY <1>3, UpdateFields
  <2> HIDE DEF t
  <2>3. Told(s, t) /\ Trusts(t) = Trusts(s)
    BY <2>1, <2>2, ZenonT(40) DEF Component, Told, Trusts
  <2> QED BY <2>3 DEF t
<1>4. CASE u.kind = "health"
  <2>1. t = [s EXCEPT !.alive = u.alive] /\ u.alive \in BOOLEAN
    BY <1>4, UpdateFields DEF Apply
  <2> HIDE DEF t
  <2>2. Told(s, t) /\ Trusts(t) = Trusts(s)
    BY <2>1 DEF Component, Told, Trusts
  <2> QED BY <2>2 DEF t
<1>5. CASE u.kind = "effect"
  <2>1. t = [s EXCEPT !.levitation = u.add] /\ u.add \in BOOLEAN
    BY <1>5, UpdateFields DEF Apply
  <2> HIDE DEF t
  <2>2. Told(s, t) /\ Trusts(t) = Trusts(s)
    BY <2>1 DEF Component, Told, Trusts
  <2> QED BY <2>2 DEF t
<1>6. CASE u.kind = "mode"
  <2>1. t = [s EXCEPT !.survival = u.survival] /\ u.survival \in BOOLEAN
    BY <1>6, UpdateFields DEF Apply
  <2> HIDE DEF t
  <2>2. Told(s, t) /\ Trusts(t) = Trusts(s)
    BY <2>1 DEF Component, Told, Trusts
  <2> QED BY <2>2 DEF t
<1> QED
  BY <1>1, <1>2, <1>3, <1>4, <1>5, <1>6, UpdateFields

-----------------------------------------------------------------------------
(* what comes before and after a frame *)

\* The flags of an input change neither place nor guidance, and only who is trusted flies.
LEMMA FlagsKeep ==
    ASSUME NEW s \in Component, NEW in \in Inputs
    PROVE  LET t == Flags(s, in)
           IN  /\ t \in Component
               /\ t.pos = s.pos /\ t.penetrated = s.penetrated /\ t.stuck = s.stuck
               /\ t.tpPos = s.tpPos /\ t.sinceTp = s.sinceTp /\ t.completion = s.completion /\ t.smoothed = s.smoothed
               /\ Trusts(t) => Trusts(s)
<1> DEFINE f == FlyFlags(s, in)
           g == SprintFlags(f, in)
           same(a, b) == /\ b \in Component
                         /\ b.pos = a.pos /\ b.penetrated = a.penetrated /\ b.stuck = a.stuck
                         /\ b.tpPos = a.tpPos /\ b.sinceTp = a.sinceTp /\ b.completion = a.completion
                         /\ b.smoothed = a.smoothed
<1>1. same(s, f) /\ (Trusts(f) => Trusts(s))
  <2> DEFINE up == s.flying \/ s.trustFly
             just == s.justDisabled \/ s.flying
  <2>1. up \in BOOLEAN /\ just \in BOOLEAN
    OBVIOUS
  <2>2. CASE in.fly = "start"
    <3>1. f = [s EXCEPT !.toggledFly = TRUE, !.flying = up]
      BY <2>2 DEF FlyFlags
    <3> HIDE DEF f, up
    <3>2. same(s, f) /\ f.flying = up /\ f.trustFly = s.trustFly
      BY <2>1, <3>1 DEF Component
    <3> QED BY <3>2 DEF Trusts, up
  <2>3. CASE in.fly = "stop"
    <3>1. f = [s EXCEPT !.toggledFly = FALSE, !.flying = FALSE, !.justDisabled = just]
      <4>1. in.fly # "start"
        BY <2>3
      <4> HIDE DEF up
      <4>2. FlyFlags(s, in) = [s EXCEPT !.toggledFly = FALSE, !.flying = FALSE, !.justDisabled = s.justDisabled \/ s.flying]
        BY <2>3, <4>1, SMT DEF FlyFlags
      <4> QED BY <4>2
    <3> HIDE DEF f, just
    <3>2. same(s, f) /\ f.flying = FALSE /\ f.trustFly = s.trustFly
      BY <2>1, <3>1 DEF Component
    <3> QED BY <3>2 DEF Trusts
  <2>4. CASE in.fly # "start" /\ in.fly # "stop"
    BY <2>4 DEF FlyFlags
  <2> QED BY <2>2, <2>3, <2>4
<1> HIDE DEF f
<1>2. same(f, g) /\ Trusts(g) = Trusts(f)
  <2> DEFINE r == CASE in.sprint = "start" -> TRUE
                    [] in.sprint \in {"stop", "both"} -> FALSE
                    [] OTHER -> IF f.serverSprintApplied THEN f.sprinting ELSE f.serverSprint
  <2>1. r \in BOOLEAN
    BY <1>1 DEF Component
  <2>2. g = [f EXCEPT !.serverSprintApplied = TRUE, !.sprinting = r]
    BY DEF SprintFlags
  <2> HIDE DEF r, g
  <2>3. f \in Component
    BY <1>1
  <2> QED BY <2>1, <2>2, <2>3 DEF Component, Trusts
<1> HIDE DEF g
<1>3. same(g, Flags(s, in)) /\ Trusts(Flags(s, in)) = Trusts(g)
  <2> DEFINE d == IF in.hold THEN g.jumpDelay ELSE 0
             e == CASE in.glide = "stop" -> FALSE [] in.glide = "start" -> TRUE [] OTHER -> g.gliding
             t == [g EXCEPT !.sneaking = in.sneak, !.jumpDelay = d, !.gliding = e]
  <2>1. d \in 0..JumpDelayTicks /\ e \in BOOLEAN /\ in.sneak \in BOOLEAN /\ g \in Component
    <3>1. g \in Component
      BY <1>2
    <3>2. g.jumpDelay \in 0..JumpDelayTicks /\ g.gliding \in BOOLEAN
      BY <3>1 DEF Component
    <3>3. 0 \in 0..JumpDelayTicks /\ in.sneak \in BOOLEAN
      BY MovementAssumption DEF Input
    <3> QED BY <3>1, <3>2, <3>3
  <2>2. Flags(s, in) = t
    BY DEF Flags, f, g
  <2> HIDE DEF d, e
  <2>3. same(g, t) /\ Trusts(t) = Trusts(g)
    BY <2>1, ZenonT(40) DEF Component, Trusts
  <2> QED BY <2>2, <2>3
<1> QED
  BY <1>1, <1>2, <1>3

\* Where the frame starts: who is guided comes to the end of the teleport in its last frame.
Started(s, t) ==
    /\ Kept(s, t)
    /\ t.penetrated = s.penetrated /\ t.stuck = s.stuck
    /\ s.sinceTp = s.completion => t.pos = s.tpPos

LEMMA TeleportStarts ==
    ASSUME NEW s \in Component, NEW in \in Inputs, s.smoothed \/ s.completion = 0
    PROVE  Started(s, attemptTeleport(s, in).s)
<1>0. /\ s.sinceTp \in 0..4 /\ s.completion \in {0, 2} /\ s.tpPos \in Vectors /\ s.pos \in Vectors
      /\ 0 \in 0..JumpDelayTicks
  BY MovementAssumption DEF Component
<1>1. CASE ~HasTeleport(s)
  <2>1. attemptTeleport(s, in).s = s
    BY <1>1 DEF attemptTeleport
  <2>2. s.sinceTp # s.completion
    BY <1>0, <1>1 DEF HasTeleport
  <2> QED BY <2>1, <2>2 DEF Started, Kept
<1>2. CASE HasTeleport(s) /\ ~s.smoothed
  <2> DEFINE t == [s EXCEPT !.pos = s.tpPos, !.vel = Still, !.jumpDelay = 0]
  <2>1. attemptTeleport(s, in).s = attemptJump(t, in)
    BY <1>2 DEF attemptTeleport
  <2>2. Still \in Vectors
    BY DEF Still, Vectors
  <2>3. /\ t \in Component /\ t.pos = s.tpPos /\ t.penetrated = s.penetrated /\ t.stuck = s.stuck
        /\ Kept(s, t)
    BY <1>0, <2>2 DEF Component, Kept
  <2> HIDE DEF t
  <2>4. Driven(t, attemptJump(t, in))
    BY <2>3, JumpDrives
  <2> QED BY <2>1, <2>3, <2>4 DEF Driven, Started, Kept
<1>3. CASE HasTeleport(s) /\ s.smoothed
  <2> DEFINE r == s.completion - s.sinceTp + 1
             p == [i \in Axes |-> s.pos[i] + (s.tpPos[i] - s.pos[i]) \div r]
             t == [s EXCEPT !.pos = p, !.jumpDelay = 0]
  <2>1. r \in Nat /\ r > 0 /\ (s.sinceTp = s.completion => r = 1)
    BY <1>0, <1>3 DEF HasTeleport
  <2>2. attemptTeleport(s, in).s = Glided(s)
    BY <1>3 DEF attemptTeleport
  <2>3. Glided(s) = t
    BY DEF Glided, RemainingTeleportTicks
  <2>4. p \in Vectors /\ (s.sinceTp = s.completion => p = s.tpPos)
    <3> DEFINE q(i) == s.pos[i] + (s.tpPos[i] - s.pos[i]) \div r
    <3>1. /\ s.pos[1] \in Int /\ s.pos[2] \in Int /\ s.tpPos[1] \in Int /\ s.tpPos[2] \in Int
          /\ s.tpPos = <<s.tpPos[1], s.tpPos[2]>>
      BY <1>0 DEF Vectors
    <3> HIDE DEF r
    <3>2. q(1) \in Int /\ q(2) \in Int
      BY <2>1, <3>1
    <3>3. r = 1 => q(1) = s.tpPos[1] /\ q(2) = s.tpPos[2]
      BY <3>1
    <3>4. p = [i \in Axes |-> q(i)]
      OBVIOUS
    <3> HIDE DEF q, p
    <3>5. p = <<q(1), q(2)>>
      <4>1. Axes = 1..2
        BY DEF Axes
      <4> QED BY <3>4, <4>1
    <3> QED BY <2>1, <3>1, <3>2, <3>3, <3>5 DEF Vectors
  <2> HIDE DEF p, r
  <2>5. t \in Component /\ t.pos = p /\ t.penetrated = s.penetrated /\ t.stuck = s.stuck /\ Kept(s, t)
    BY <1>0, <2>4 DEF Component, Kept
  <2> HIDE DEF t
  <2> QED BY <2>2, <2>3, <2>4, <2>5 DEF Started
<1> QED
  BY <1>1, <1>2, <1>3

LEMMA WayIsOne ==
    ASSUME NEW tp, NEW in
    PROVE  /\ Way(tp, in) \in Simulated \cup {"teleport", "client", "frozen"}
           /\ Way(tp, in) = "creep" => Creeps(tp.s, in)
BY DEF Way, Simulated

LEMMA CountedKeeps ==
    ASSUME NEW s \in Component
    PROVE  LET t == Counted(s)
           IN  /\ t \in Component
               /\ t.pos = s.pos /\ t.penetrated = s.penetrated /\ t.stuck = s.stuck /\ t.collideX = s.collideX
               /\ t.tpPos = s.tpPos /\ t.completion = s.completion /\ t.smoothed = s.smoothed
               /\ Trusts(t) = Trusts(s)
               /\ t.sinceTp = t.completion + 1 => s.sinceTp = s.completion
<1> DEFINE k == Lesser(s.sinceKb + 1, 2)
           p == Lesser(s.sinceTp + 1, 4)
           d == Greater(s.jumpDelay - 1, 0)
           t == [s EXCEPT !.sinceKb = k, !.sinceTp = p, !.jumpDelay = d, !.justDisabled = FALSE]
<1>1. Counted(s) = t
  BY DEF Counted
<1>2. /\ s.sinceKb \in 0..2 /\ s.sinceTp \in 0..4 /\ s.jumpDelay \in 0..JumpDelayTicks /\ JumpDelayTicks \in Nat
      /\ s.completion \in {0, 2}
  BY MovementAssumption DEF Component
<1>3. k \in 0..2 /\ p \in 0..4 /\ d \in 0..JumpDelayTicks /\ (p = s.completion + 1 => s.sinceTp = s.completion)
  BY <1>2 DEF Lesser, Greater
<1> HIDE DEF k, p, d
<1>4. t \in Component
  BY <1>3 DEF Component
<1>5. /\ t.pos = s.pos /\ t.penetrated = s.penetrated /\ t.stuck = s.stuck /\ t.collideX = s.collideX
      /\ t.tpPos = s.tpPos /\ t.completion = s.completion /\ t.smoothed = s.smoothed
      /\ t.flying = s.flying /\ t.trustFly = s.trustFly /\ t.sinceTp = p
  BY DEF Component
<1> QED
  BY <1>1, <1>3, <1>4, <1>5 DEF Trusts

-----------------------------------------------------------------------------
(* the changes that wait *)

\* Each waits under a number of its own; a knockback that has not run is one input at least
\* from its expiry, and was not set before.
Once ==
    /\ \A i, j \in DOMAIN pending : pending[i].id = pending[j].id => i = j
    /\ \A i \in DOMAIN pending : ~pending[i].ran => pending[i].left >= 1
    /\ \A i \in DOMAIN pending : pending[i].u.kind = "knockback" /\ ~pending[i].ran => kbRuns[pending[i].id] = 0
    /\ \A k \in DOMAIN kbRuns : kbRuns[k] <= 1
Queue ==
    /\ pending \in Seq(Waiting) /\ kbRuns \in Seq(Nat)
    /\ \A i \in DOMAIN pending : pending[i].id \in DOMAIN kbRuns
    /\ Once

LEMMA QueueTyped ==
    ASSUME Queue, NEW i \in DOMAIN pending
    PROVE  /\ pending[i] \in Waiting
           /\ pending[i].u \in Updates /\ pending[i].id \in Nat /\ pending[i].ran \in BOOLEAN
           /\ pending[i].left \in 0..MaxKnockbackDelay
<1>1. pending[i] \in Waiting
  BY DEF Queue
<1> QED
  BY <1>1 DEF Waiting

\* A change that is set at once leaves the queue alone.
LEMMA QueueCutoff ==
    ASSUME Queue, pending' = pending, kbRuns' = Append(kbRuns, 1)
    PROVE  Queue'
<1>1. kbRuns \in Seq(Nat) /\ pending \in Seq(Waiting)
  BY DEF Queue
<1>2. /\ kbRuns' \in Seq(Nat) /\ DOMAIN kbRuns' = 1..Len(kbRuns) + 1 /\ kbRuns'[Len(kbRuns) + 1] = 1
      /\ \A k \in DOMAIN kbRuns : kbRuns'[k] = kbRuns[k]
      /\ DOMAIN kbRuns = 1..Len(kbRuns) /\ Len(kbRuns) \in Nat
  BY <1>1
<1>3. \A i \in DOMAIN pending : pending[i].id \in DOMAIN kbRuns
  BY DEF Queue
<1>4. \A k \in DOMAIN kbRuns' : kbRuns'[k] <= 1
  <2> TAKE k \in DOMAIN kbRuns'
  <2>1. k \in DOMAIN kbRuns \/ k = Len(kbRuns) + 1
    BY <1>2
  <2> QED BY <1>2, <2>1 DEF Queue, Once
<1>5. DOMAIN kbRuns \subseteq DOMAIN kbRuns'
  BY <1>2
<1> QED
  BY <1>1, <1>2, <1>3, <1>4, <1>5 DEF Queue, Once

\* One that waits gets the next number.
LEMMA QueueSent ==
    ASSUME Queue, NEW u \in Updates, kbRuns' = Append(kbRuns, 0),
           pending' = Append(pending, [u |-> u, id |-> Len(kbRuns) + 1, ran |-> FALSE, left |-> MaxKnockbackDelay])
    PROVE  Queue'
<1> DEFINE e == [u |-> u, id |-> Len(kbRuns) + 1, ran |-> FALSE, left |-> MaxKnockbackDelay]
           last_ == Len(pending) + 1
<1>1. kbRuns \in Seq(Nat) /\ pending \in Seq(Waiting)
  BY DEF Queue
<1>2. /\ kbRuns' \in Seq(Nat) /\ DOMAIN kbRuns' = 1..Len(kbRuns) + 1 /\ kbRuns'[Len(kbRuns) + 1] = 0
      /\ \A k \in DOMAIN kbRuns : kbRuns'[k] = kbRuns[k]
      /\ DOMAIN kbRuns = 1..Len(kbRuns) /\ Len(kbRuns) \in Nat
  BY <1>1
<1>3. e \in Waiting /\ e.u = u /\ e.id = Len(kbRuns) + 1 /\ e.ran = FALSE /\ e.left = MaxKnockbackDelay /\ e.left >= 1
  BY <1>2, MovementAssumption DEF Waiting
<1> HIDE DEF e
<1>4. pending' = Append(pending, e)
  BY DEF e
<1>5. /\ pending' \in Seq(Waiting) /\ DOMAIN pending' = 1..last_ /\ pending'[last_] = e
      /\ \A i \in DOMAIN pending : pending'[i] = pending[i]
      /\ DOMAIN pending = 1..Len(pending) /\ Len(pending) \in Nat
  BY <1>1, <1>3, <1>4
<1>6. \A i \in DOMAIN pending' : i \in DOMAIN pending \/ i = last_
  BY <1>5
<1> HIDE DEF last_
<1>7. \A i \in DOMAIN pending : pending[i].id \in DOMAIN kbRuns /\ pending[i].id # e.id
  <2>1. \A i \in DOMAIN pending : pending[i].id \in DOMAIN kbRuns
    BY DEF Queue
  <2>2. e.id \notin DOMAIN kbRuns
    BY <1>2, <1>3
  <2> QED BY <2>1, <2>2
<1>8. \A i \in DOMAIN pending' : pending'[i].id \in DOMAIN kbRuns'
  BY <1>2, <1>3, <1>5, <1>6, <1>7
<1>9. \A i, j \in DOMAIN pending' : pending'[i].id = pending'[j].id => i = j
  BY <1>5, <1>6, <1>7 DEF Queue, Once
<1>10. \A i \in DOMAIN pending' : ~pending'[i].ran => pending'[i].left >= 1
  BY <1>3, <1>5, <1>6 DEF Queue, Once
<1>11. \A i \in DOMAIN pending' : pending'[i].u.kind = "knockback" /\ ~pending'[i].ran => kbRuns'[pending'[i].id] = 0
  BY <1>2, <1>3, <1>5, <1>6, <1>7 DEF Queue, Once
<1>12. \A k \in DOMAIN kbRuns' : kbRuns'[k] <= 1
  <2> TAKE k \in DOMAIN kbRuns'
  <2>1. k \in DOMAIN kbRuns \/ k = Len(kbRuns) + 1
    BY <1>2
  <2> QED BY <1>2, <2>1 DEF Queue, Once
<1> QED
  BY <1>2, <1>5, <1>8, <1>9, <1>10, <1>11, <1>12 DEF Queue, Once

\* The oldest change leaves; if it is a knockback that has not run, it runs.
LEMMA QueueAnswered ==
    ASSUME Queue, pending # <<>>, pending' = Tail(pending),
           kbRuns' = IF KnockbackRuns(Head(pending)) THEN [kbRuns EXCEPT ![Head(pending).id] = @ + 1] ELSE kbRuns
    PROVE  Queue'
<1> DEFINE e == Head(pending)
<1>1. kbRuns \in Seq(Nat) /\ pending \in Seq(Waiting)
  BY DEF Queue
<1>2. /\ pending' \in Seq(Waiting) /\ 1 \in DOMAIN pending /\ e = pending[1]
      /\ \A i \in DOMAIN pending' : i + 1 \in DOMAIN pending /\ i + 1 # 1 /\ pending'[i] = pending[i + 1]
      /\ \A i, j \in DOMAIN pending' : i + 1 = j + 1 => i = j
  BY <1>1
<1> HIDE DEF e
<1>3. /\ DOMAIN kbRuns' = DOMAIN kbRuns
      /\ \A k \in DOMAIN kbRuns : k # e.id => kbRuns'[k] = kbRuns[k]
      /\ \A k \in DOMAIN kbRuns : kbRuns'[k] \in Nat /\ kbRuns'[k] <= 1
  <2>1. \A k \in DOMAIN kbRuns : kbRuns[k] \in Nat /\ kbRuns[k] <= 1
    BY <1>1 DEF Queue, Once
  <2>2. CASE KnockbackRuns(e)
    <3>1. kbRuns[e.id] = 0 /\ e.id \in DOMAIN kbRuns
      BY <1>2, <2>2 DEF KnockbackRuns, Queue, Once
    <3>2. kbRuns' = [kbRuns EXCEPT ![e.id] = kbRuns[e.id] + 1]
      BY <2>2 DEF e
    <3> QED BY <2>1, <3>1, <3>2
  <2>3. CASE ~KnockbackRuns(e)
    BY <2>1, <2>3 DEF e
  <2> QED BY <2>2, <2>3
<1>4. kbRuns' \in Seq(Nat)
  <2>1. kbRuns' = kbRuns \/ kbRuns' = [kbRuns EXCEPT ![e.id] = kbRuns[e.id] + 1]
    BY DEF e
  <2>2. DOMAIN kbRuns = 1..Len(kbRuns) /\ Len(kbRuns) \in Nat
    BY <1>1
  <2> DEFINE n == Len(kbRuns)
             r == kbRuns'
  <2>3. kbRuns \in [1..n -> Nat]
    BY <1>1
  <2>4. \A k \in 1..n : r[k] \in Nat
    BY <1>3, <2>2
  <2>5. r = kbRuns \/ r = [kbRuns EXCEPT ![e.id] = kbRuns[e.id] + 1]
    BY <2>1
  <2>6. n \in Nat
    BY <2>2
  <2> HIDE DEF n, r
  <2>7. r \in [1..n -> Nat]
    BY <2>3, <2>4, <2>5
  <2>8. r \in Seq(Nat)
    BY <2>6, <2>7
  <2> QED BY <2>8 DEF r
<1>5. \A i \in DOMAIN pending' : pending'[i].id \in DOMAIN kbRuns /\ pending'[i].id # e.id
  BY <1>2 DEF Queue, Once
<1>6. \A i, j \in DOMAIN pending' : pending'[i].id = pending'[j].id => i = j
  BY <1>2 DEF Queue, Once
<1>7. \A i \in DOMAIN pending' : ~pending'[i].ran => pending'[i].left >= 1
  BY <1>2 DEF Queue, Once
<1>8. \A i \in DOMAIN pending' : pending'[i].u.kind = "knockback" /\ ~pending'[i].ran => kbRuns'[pending'[i].id] = 0
  BY <1>2, <1>3, <1>5 DEF Queue, Once
<1> QED
  BY <1>2, <1>3, <1>4, <1>5, <1>6, <1>7, <1>8 DEF Queue, Once

\* An input takes every knockback nearer to its expiry and runs those that are due.
LEMMA TickedIs ==
    ASSUME NEW e \in Waiting, ~e.ran => e.left >= 1
    PROVE  /\ Ticked(e) \in Waiting /\ Ticked(e).u = e.u /\ Ticked(e).id = e.id
           /\ ~Ticked(e).ran => ~e.ran /\ ~Due(e) /\ Ticked(e).left >= 1
<1>1. e.u \in Updates /\ e.id \in Nat /\ e.ran \in BOOLEAN /\ e.left \in 0..MaxKnockbackDelay /\ MaxKnockbackDelay \in Nat
  BY MovementAssumption DEF Waiting
<1>2. CASE e.u.kind = "knockback" /\ ~e.ran
  <2> DEFINE n == e.left - 1
             r == e.left <= 1
             t == [e EXCEPT !.left = n, !.ran = r]
  <2>1. Ticked(e) = t
    BY <1>2 DEF Ticked
  <2>2. n \in 0..MaxKnockbackDelay /\ r \in BOOLEAN /\ (~r => n >= 1) /\ (~r => ~Due(e))
    BY <1>1, <1>2 DEF Due
  <2> HIDE DEF n, r
  <2>3. t \in Waiting /\ t.u = e.u /\ t.id = e.id /\ t.ran = r /\ t.left = n
    BY <2>2 DEF Waiting
  <2> QED BY <1>2, <2>1, <2>2, <2>3
<1>3. CASE ~(e.u.kind = "knockback" /\ ~e.ran)
  BY <1>1, <1>3 DEF Ticked, Due
<1> QED
  BY <1>2, <1>3

LEMMA QueueTicked ==
    ASSUME Queue, NEW due, due = {i \in DOMAIN pending : Due(pending[i])},
           kbRuns' = [id \in DOMAIN kbRuns |-> IF \E i \in due : pending[i].id = id THEN kbRuns[id] + 1 ELSE kbRuns[id]],
           pending' = [i \in DOMAIN pending |-> Ticked(pending[i])]
    PROVE  Queue'
<1>1. /\ kbRuns \in Seq(Nat) /\ pending \in Seq(Waiting)
      /\ DOMAIN kbRuns = 1..Len(kbRuns) /\ Len(kbRuns) \in Nat /\ DOMAIN pending = 1..Len(pending) /\ Len(pending) \in Nat
      /\ \A k \in DOMAIN kbRuns : kbRuns[k] \in Nat
  BY DEF Queue
<1>2. \A i \in DOMAIN pending : pending[i] \in Waiting /\ (~pending[i].ran => pending[i].left >= 1)
  BY QueueTyped DEF Queue, Once
<1>3. \A i \in DOMAIN pending :
        /\ pending'[i] \in Waiting /\ pending'[i].u = pending[i].u /\ pending'[i].id = pending[i].id
        /\ ~pending'[i].ran => ~pending[i].ran /\ i \notin due /\ pending'[i].left >= 1
  <2> TAKE i \in DOMAIN pending
  <2>1. pending'[i] = Ticked(pending[i])
    OBVIOUS
  <2> QED BY <1>2, <2>1, TickedIs
<1>4. DOMAIN pending' = DOMAIN pending /\ pending' \in Seq(Waiting)
  <2>1. pending' \in [1..Len(pending) -> Waiting]
    BY <1>1, <1>3
  <2> QED BY <1>1, <2>1
<1>5. \A k \in DOMAIN kbRuns : (\A i \in due : pending[i].id # k) => kbRuns'[k] = kbRuns[k]
  OBVIOUS
<1>6. \A i \in due : kbRuns[pending[i].id] = 0
  BY DEF Due, Queue, Once
<1>7. \A k \in DOMAIN kbRuns : kbRuns'[k] \in Nat /\ kbRuns'[k] <= 1
  <2> TAKE k \in DOMAIN kbRuns
  <2>1. CASE \E i \in due : pending[i].id = k
    <3>1. kbRuns[k] = 0 /\ kbRuns'[k] = kbRuns[k] + 1
      BY <1>6, <2>1
    <3> QED BY <3>1
  <2>2. CASE ~\E i \in due : pending[i].id = k
    <3>1. kbRuns'[k] = kbRuns[k] /\ kbRuns[k] <= 1 /\ kbRuns[k] \in Nat
      BY <1>1, <1>5, <2>2 DEF Queue, Once
    <3> QED BY <3>1
  <2> QED BY <2>1, <2>2
<1>8. DOMAIN kbRuns' = DOMAIN kbRuns /\ kbRuns' \in Seq(Nat)
  <2>1. kbRuns' \in [1..Len(kbRuns) -> Nat]
    BY <1>1, <1>7
  <2> QED BY <1>1, <2>1
<1>9. \A i \in DOMAIN pending : pending[i].id \in DOMAIN kbRuns
  BY DEF Queue
<1>10. \A i, j \in DOMAIN pending : pending[i].id = pending[j].id => i = j
  BY DEF Queue, Once
<1>11. \A i \in DOMAIN pending' : pending'[i].u.kind = "knockback" /\ ~pending'[i].ran => kbRuns'[pending'[i].id] = 0
  <2> SUFFICES ASSUME NEW i \in DOMAIN pending, pending'[i].u.kind = "knockback", ~pending'[i].ran
               PROVE  kbRuns'[pending'[i].id] = 0
    BY <1>4
  <2>1. pending[i].u.kind = "knockback" /\ ~pending[i].ran /\ i \notin due /\ pending'[i].id = pending[i].id
    BY <1>3
  <2>2. kbRuns[pending[i].id] = 0
    BY <2>1 DEF Queue, Once
  <2>3. \A j \in due : pending[j].id # pending[i].id
    BY <1>10, <2>1
  <2> QED BY <1>5, <1>9, <2>1, <2>2, <2>3
<1>12. \A i, j \in DOMAIN pending' : pending'[i].id = pending'[j].id => i = j
  BY <1>3, <1>4, <1>10
<1>13. \A i \in DOMAIN pending' : ~pending'[i].ran => pending'[i].left >= 1
  BY <1>3, <1>4
<1>14. \A i \in DOMAIN pending' : pending'[i].id \in DOMAIN kbRuns'
  BY <1>3, <1>4, <1>8, <1>9
<1> QED
  BY <1>4, <1>7, <1>8, <1>11, <1>12, <1>13, <1>14 DEF Queue, Once

-----------------------------------------------------------------------------
(* the invariant *)

\* A teleport is smoothed, or over in one frame; the frame that ended it started where it leads to.
Guided == (m.smoothed \/ m.completion = 0) /\ (m.sinceTp = m.completion + 1 => from = m.tpPos)

\* Who flies, or would be let fly, was allowed to.
Trusted == Trusts(m) => granted

\* What is left of being inside a block is what the last two frames saw, and who was
\* outside before a simulated frame is outside.
Open ==
    /\ m.penetrated => inside[2]
    /\ m.stuck => inside = <<TRUE, TRUE>>
    /\ last \in Simulated /\ Free(from) => Free(m.pos)

Frames ==
    /\ from \in Vectors /\ last \in Simulated \cup {"none", "teleport", "client", "frozen"}
    /\ inside \in BOOLEAN \X BOOLEAN /\ granted \in BOOLEAN
Body == m \in Component /\ Frames /\ Guided /\ Trusted /\ Open /\ EdgeSafe
MoveInv == Queue /\ Body /\ spent \in 0..Budget

LEMMA MoveInvMeans == MoveInv => TypeOK /\ NoEntry /\ EdgeSafe /\ MovedOnce /\ FlightGranted
BY DEF MoveInv, Queue, Once, Body, Frames, Guided, Trusted, Trusts, Open, TypeOK, NoEntry, MovedOnce, FlightGranted

\* A change the client is told of moves nothing.
LEMMA ToldKeeps ==
    ASSUME Body, Told(m, m'), UNCHANGED <<from, last, inside>>, granted' \in BOOLEAN, Trusts(m') => granted'
    PROVE  Body'
<1>1. m' \in Component /\ Frames'
  BY DEF Body, Frames, Told
<1>2. Guided'
  BY DEF Body, Guided, Told
<1>3. Trusted'
  BY DEF Trusted
<1>4. Open' /\ EdgeSafe'
  BY DEF Body, Open, EdgeSafe, Told
<1> QED
  BY <1>1, <1>2, <1>3, <1>4 DEF Body

LEMMA ToldSelf == ASSUME NEW s \in Component PROVE Told(s, s)
BY DEF Told

LEMMA ServerUpdateKeeps ==
    ASSUME MoveInv, NEW u \in Updates, NEW cutoff \in BOOLEAN, ServerUpdate(u, cutoff)
    PROVE  Queue' /\ Body'
<1>1. Queue /\ Body /\ m \in Component /\ granted' = granted /\ granted \in BOOLEAN /\ (Trusts(m) => granted)
  BY DEF MoveInv, Body, Frames, Trusted, ServerUpdate
<1>2. UNCHANGED <<from, last, inside>>
  BY DEF ServerUpdate
<1>3. CASE u.kind = "knockback" /\ cutoff
  <2>1. m' = SetKnockback(m, u.vel) /\ kbRuns' = Append(kbRuns, 1) /\ pending' = pending
    BY <1>3 DEF ServerUpdate
  <2>2. u.vel \in Vectors
    BY <1>3, UpdateFields
  <2>3. Told(m, m') /\ Trusts(m') = Trusts(m)
    BY <1>1, <2>1, <2>2, KnockbackTells
  <2> QED BY <1>1, <1>2, <2>1, <2>3, ToldKeeps, QueueCutoff
<1>4. CASE ~(u.kind = "knockback" /\ cutoff)
  <2>1. /\ m' = m /\ kbRuns' = Append(kbRuns, 0)
        /\ pending' = Append(pending, [u |-> u, id |-> Len(kbRuns) + 1, ran |-> FALSE, left |-> MaxKnockbackDelay])
    BY <1>4 DEF ServerUpdate
  <2>2. Told(m, m')
    BY <1>1, <2>1, ToldSelf
  <2>3. Body'
    BY <1>1, <1>2, <2>1, <2>2, ToldKeeps
  <2> QED BY <1>1, <2>1, <2>3, QueueSent
<1> QED
  BY <1>3, <1>4

LEMMA ExecuteACKKeeps ==
    ASSUME MoveInv, ExecuteACK
    PROVE  Queue' /\ Body'
<1> DEFINE e == Head(pending)
<1>1. Queue /\ Body /\ m \in Component /\ granted \in BOOLEAN /\ (Trusts(m) => granted)
  BY DEF MoveInv, Body, Frames, Trusted
<1>2. pending # <<>> /\ pending' = Tail(pending) /\ UNCHANGED <<from, last, inside>>
  BY DEF ExecuteACK
<1>3. /\ kbRuns' = IF KnockbackRuns(e) THEN [kbRuns EXCEPT ![e.id] = @ + 1] ELSE kbRuns
      /\ e.u.kind = "knockback" => m' = IF KnockbackRuns(e) THEN SetKnockback(m, e.u.vel) ELSE m
      /\ e.u.kind # "knockback" => m' = Apply(m, e.u)
      /\ granted' = (granted \/ (e.u.kind = "abilities" /\ (e.u.mayFly \/ e.u.flying)))
  BY DEF ExecuteACK, KnockbackRuns
<1>4. Queue'
  BY <1>1, <1>2, <1>3, QueueAnswered
<1>5. e.u \in Updates
  <2>1. 1 \in DOMAIN pending /\ e = pending[1]
    BY <1>1, <1>2 DEF Queue
  <2> QED BY <1>1, <2>1, QueueTyped
<1> DEFINE u == e.u
<1>6. granted' \in BOOLEAN
  BY <1>3
<1>7. Told(m, m') /\ (Trusts(m') => granted')
  <2>1. CASE u.kind = "knockback"
    <3>1. u.vel \in Vectors
      BY <1>5, <2>1, UpdateFields
    <3>2. m' = SetKnockback(m, u.vel) \/ m' = m
      BY <1>3, <2>1
    <3>3. Told(m, m') /\ Trusts(m') = Trusts(m)
      BY <1>1, <3>1, <3>2, KnockbackTells, ToldSelf
    <3> QED BY <1>1, <1>3, <3>3
  <2>2. CASE u.kind # "knockback"
    <3>1. m' = Apply(m, u)
      BY <1>3, <2>2
    <3>2. Told(m, m') /\ (Trusts(m') => Trusts(m) \/ (u.kind = "abilities" /\ (u.mayFly \/ u.flying)))
      BY <1>1, <1>5, <2>2, <3>1, ApplyTells
    <3> QED BY <1>1, <1>3, <3>2
  <2> QED BY <2>1, <2>2
<1> QED
  BY <1>1, <1>2, <1>4, <1>6, <1>7, ToldKeeps

\* The last of the knockbacks that are due is the one that is left.
LEMMA PushedTells ==
    ASSUME Queue, m \in Component, NEW due, due = {i \in DOMAIN pending : Due(pending[i])}
    PROVE  Told(m, Pushed(due)) /\ Trusts(Pushed(due)) = Trusts(m)
<1>1. CASE due = {}
  BY <1>1, ToldSelf DEF Pushed
<1>2. CASE due # {}
  <2>1. Len(pending) \in Nat /\ DOMAIN pending = 1..Len(pending)
    BY DEF Queue
  <2>2. due \in SUBSET Nat /\ \A i \in due : i <= Len(pending)
    BY <2>1
  <2>3. \E i \in due : \A j \in due : j <= i
    BY <1>2, <2>1, <2>2, GreatestNatural
  <2>4. Latest(due) \in due
    BY <2>3 DEF Latest
  <2> DEFINE e == pending[Latest(due)]
  <2>5. e.u \in Updates /\ e.u.kind = "knockback"
    BY <2>4, QueueTyped DEF Due
  <2>6. e.u.vel \in Vectors
    BY <2>5, UpdateFields
  <2>7. Pushed(due) = SetKnockback(m, e.u.vel)
    BY <1>2 DEF Pushed
  <2> QED BY <2>6, <2>7, KnockbackTells
<1> QED
  BY <1>1, <1>2

LEMMA FrameKeeps ==
    ASSUME Body, NEW in \in Inputs, NEW p, Told(m, p), Trusts(p) = Trusts(m),
           NEW start, start = attemptTeleport(Flags(p, in), in),
           NEW way, way = Way(start, in),
           Simulate(start, way, in), granted' = granted
    PROVE  Body'
<1> DEFINE f == Flags(p, in)
           s == start.s
           t == SimulatePlayerMovement(s, way, in)
<1>1. /\ p \in Component /\ p.pos = m.pos /\ p.penetrated = m.penetrated /\ p.stuck = m.stuck
      /\ p.smoothed \/ p.completion = 0
  BY DEF Body, Guided, Told
<1>2. /\ f \in Component /\ f.penetrated = m.penetrated /\ f.stuck = m.stuck
      /\ f.smoothed \/ f.completion = 0
      /\ Trusts(f) => granted
  BY <1>1, FlagsKeep DEF Body, Trusted
<1> HIDE DEF f
<1>3. Started(f, s)
  BY <1>2, TeleportStarts DEF f
<1>4. /\ s \in Component /\ s.penetrated = m.penetrated
      /\ s.smoothed \/ s.completion = 0
      /\ s.sinceTp = s.completion => s.pos = s.tpPos
      /\ Trusts(s) => granted
  BY <1>2, <1>3 DEF Started, Kept, Trusts
<1>5. /\ m' = Counted(t) /\ from' = s.pos /\ last' = way
      /\ inside' = <<inside[2], way \in Simulated /\ ~Free(s.pos)>>
  BY DEF Simulate
<1>6. way \in Simulated \cup {"teleport", "client", "frozen"} /\ (way = "creep" => Creeps(s, in))
  BY WayIsOne
<1>7. Framed(s, t, way, in)
  BY <1>4, <1>6, FrameSound
<1> HIDE DEF s, t
<1>8. Kept(s, t)
  BY <1>7 DEF Framed, Went, Rested
<1>9. /\ m' \in Component
      /\ m'.pos = t.pos /\ m'.penetrated = t.penetrated /\ m'.stuck = t.stuck /\ m'.collideX = t.collideX
      /\ m'.tpPos = s.tpPos /\ m'.completion = s.completion /\ m'.smoothed = s.smoothed
      /\ Trusts(m') = Trusts(s)
      /\ m'.sinceTp = m'.completion + 1 => s.sinceTp = s.completion
  <2>1. t \in Component /\ t.tpPos = s.tpPos /\ t.completion = s.completion /\ t.smoothed = s.smoothed
        /\ t.sinceTp = s.sinceTp /\ Trusts(t) = Trusts(s)
    BY <1>8 DEF Kept, Trusts
  <2> QED BY <1>5, <2>1, CountedKeeps
<1>10. Frames'
  <2>1. s.pos \in Vectors
    BY <1>4, VelTyped
  <2>2. inside' \in BOOLEAN \X BOOLEAN
    BY <1>5 DEF Body, Frames
  <2> QED BY <1>5, <1>6, <2>1, <2>2 DEF Body, Frames
<1>11. Guided'
  BY <1>4, <1>5, <1>9 DEF Guided
<1>12. Trusted'
  BY <1>4, <1>9 DEF Trusted
<1>13. Open' /\ EdgeSafe'
  <2>1. CASE way \in Simulated
    <3>1. PICK vel, w \in Vectors, pen \in BOOLEAN : /\ Went(s, t, vel, w, pen)
                                                     /\ way = "creep" => \E n \in Int : vel[1] = Shortened(s.pos, n)
      BY <1>7, <2>1 DEF Framed
    <3>2. /\ w \in Vectors /\ t.pos = Add(s.pos, w) /\ t.penetrated = pen /\ t.stuck = (m.penetrated /\ pen)
          /\ t.collideX = (vel[1] # w[1]) /\ (Free(s.pos) => ~pen /\ Free(t.pos))
      BY <1>4, <3>1 DEF Went
    <3>3. Open'
      <4>1. m.penetrated => inside[2]
        BY DEF Body, Open
      <4>2. t.penetrated => ~Free(s.pos)
        BY <3>2
      <4>3. t.stuck => m.penetrated /\ t.penetrated
        BY <3>2
      <4>4. inside[2] \in BOOLEAN
        BY DEF Body, Frames
      <4>5. inside' = <<inside[2], ~Free(s.pos)>>
        BY <1>5, <2>1
      <4>6. m'.penetrated => inside'[2]
        BY <1>9, <4>2, <4>5
      <4>7. m'.stuck => inside' = <<TRUE, TRUE>>
        <5> SUFFICES ASSUME m'.stuck PROVE inside' = <<TRUE, TRUE>>
          OBVIOUS
        <5>1. t.stuck
          BY <1>9
        <5>2. inside[2] = TRUE /\ (~Free(s.pos)) = TRUE
          BY <4>1, <4>2, <4>3, <4>4, <5>1
        <5> QED BY <4>5, <5>2
      <4>8. Free(from') => Free(m'.pos)
        BY <1>5, <1>9, <3>2
      <4> QED BY <4>6, <4>7, <4>8 DEF Open
    <3>4. EdgeSafe'
      <4>1. SUFFICES ASSUME way = "creep", Supported(s.pos), ~t.collideX
                     PROVE  Supported(<<t.pos[1], s.pos[2]>>)
        BY <1>5, <1>9 DEF EdgeSafe
      <4>2. PICK n \in Int : vel[1] = Shortened(s.pos, n)
        BY <3>1, <4>1
      <4>3. s.pos \in Vectors
        BY <1>4, VelTyped
      <4>4. Shortened(s.pos, n) \in Int /\ Supported(Add(s.pos, <<Shortened(s.pos, n), 0>>))
        BY <4>1, <4>3, ShortenedSafe
      <4>5. w[1] = Shortened(s.pos, n)
        BY <3>2, <4>1, <4>2
      <4>6. Add(s.pos, <<Shortened(s.pos, n), 0>>) = <<t.pos[1], s.pos[2]>>
        BY <3>2, <4>3, <4>4, <4>5 DEF Add, Vectors
      <4> QED BY <4>4, <4>6
    <3> QED BY <3>3, <3>4
  <2>2. CASE way \notin Simulated
    <3>1. ~t.stuck /\ ~t.penetrated
      BY <1>7, <2>2 DEF Framed, Rested
    <3>2. way # "creep"
      BY <2>2 DEF Simulated
    <3> QED BY <1>5, <1>9, <2>2, <3>1, <3>2 DEF Open, EdgeSafe
  <2> QED BY <2>1, <2>2
<1> QED
  BY <1>9, <1>10, <1>11, <1>12, <1>13 DEF Body

LEMMA PlayerAuthInputKeeps ==
    ASSUME MoveInv, NEW in \in Inputs, PlayerAuthInput(in)
    PROVE  Queue' /\ Body'
<1>1. Queue /\ Body /\ m \in Component
  BY DEF MoveInv, Body
<1> DEFINE due == {i \in DOMAIN pending : Due(pending[i])}
<1>2. /\ kbRuns' = [id \in DOMAIN kbRuns |-> IF \E i \in due : pending[i].id = id THEN kbRuns[id] + 1 ELSE kbRuns[id]]
      /\ pending' = [i \in DOMAIN pending |-> Ticked(pending[i])]
      /\ granted' = granted
      /\ \E start \in {attemptTeleport(Flags(Pushed(due), in), in)} :
            \E way \in {Way(start, in)} : Simulate(start, way, in)
  <2>1. PICK d \in {due} :
          /\ kbRuns' = [id \in DOMAIN kbRuns |-> IF \E i \in d : pending[i].id = id THEN kbRuns[id] + 1 ELSE kbRuns[id]]
          /\ \E start \in {attemptTeleport(Flags(Pushed(d), in), in)} :
                \E way \in {Way(start, in)} : Simulate(start, way, in)
    BY DEF PlayerAuthInput
  <2>2. d = due /\ pending' = [i \in DOMAIN pending |-> Ticked(pending[i])] /\ granted' = granted
    BY DEF PlayerAuthInput
  <2> HIDE DEF due
  <2> QED BY <2>1, <2>2
<1>3. Told(m, Pushed(due)) /\ Trusts(Pushed(due)) = Trusts(m)
  BY <1>1, PushedTells
<1>4. Queue'
  BY <1>1, <1>2, QueueTicked
<1> HIDE DEF due
<1> DEFINE p == Pushed(due)
<1>5. PICK start, way : start = attemptTeleport(Flags(p, in), in) /\ way = Way(start, in) /\ Simulate(start, way, in)
  BY <1>2
<1> HIDE DEF p
<1>6. Told(m, p) /\ Trusts(p) = Trusts(m)
  BY <1>3 DEF p
<1>7. Body'
  BY <1>1, <1>2, <1>5, <1>6, FrameKeeps
<1> QED
  BY <1>4, <1>7

\* What a player starts with.
LEMMA DefaultsMean ==
    ASSUME NEW pos \in Vectors, NEW alive \in BOOLEAN, NEW survival \in BOOLEAN
    PROVE  LET t == [[Defaults(pos) EXCEPT !.alive = alive] EXCEPT !.survival = survival]
           IN  /\ Defaults(pos) \in Component /\ t \in Component
               /\ \A s \in {Defaults(pos), t} :
                    s.pos = pos /\ s.tpPos = pos /\ s.completion = 0 /\ ~s.penetrated /\ ~s.stuck /\ ~Trusts(s)
<1> DEFINE d == Defaults(pos)
           a == [d EXCEPT !.alive = alive]
           t == [a EXCEPT !.survival = survival]
<1>1. Still \in Vectors /\ 0 \in 0..JumpDelayTicks /\ 1 \in 0..2 /\ 1 \in 0..4 /\ 0 \in {0, 2}
  BY MovementAssumption DEF Still, Vectors
<1>2. d \in Component
  BY <1>1 DEF Component, Defaults
<1>3. d.pos = pos /\ d.tpPos = pos /\ d.completion = 0 /\ ~d.penetrated /\ ~d.stuck /\ ~d.flying /\ ~d.trustFly
  BY DEF Defaults
<1> HIDE DEF d
<1>4. /\ a \in Component
      /\ a.pos = pos /\ a.tpPos = pos /\ a.completion = 0 /\ ~a.penetrated /\ ~a.stuck /\ ~a.flying /\ ~a.trustFly
  BY <1>2, <1>3 DEF Component
<1> HIDE DEF a
<1>5. /\ t \in Component
      /\ t.pos = pos /\ t.tpPos = pos /\ t.completion = 0 /\ ~t.penetrated /\ ~t.stuck /\ ~t.flying /\ ~t.trustFly
  BY <1>4 DEF Component
<1> QED
  BY <1>2, <1>3, <1>5 DEF Trusts, d, a

LEMMA StartsClean ==
    ASSUME NEW s \in Component, NEW pos \in Vectors,
           s.pos = pos, s.tpPos = pos, s.completion = 0, ~s.penetrated, ~s.stuck, ~Trusts(s),
           m = s, from = pos, last = "none", inside = <<FALSE, FALSE>>, granted = FALSE
    PROVE  Body
BY DEF Body, Frames, Guided, Trusted, Open, EdgeSafe, Simulated

LEMMA TransferKeeps ==
    ASSUME MoveInv, NEW pos \in Spawns, NEW survival \in BOOLEAN, TransferServerConn(pos, survival)
    PROVE  Queue' /\ Body'
<1> DEFINE s == [[Defaults(pos) EXCEPT !.alive = m.alive] EXCEPT !.survival = survival]
<1>1. Queue /\ m \in Component /\ m.alive \in BOOLEAN /\ pos \in Vectors
  BY MovementAssumption DEF MoveInv, Body, Component
<1>2. /\ m' = s /\ pending' = <<>> /\ kbRuns' = kbRuns
      /\ from' = pos /\ last' = "none" /\ inside' = <<FALSE, FALSE>> /\ granted' = FALSE
  BY DEF TransferServerConn, ResetTransferState
<1>3. s \in Component /\ s.pos = pos /\ s.tpPos = pos /\ s.completion = 0 /\ ~s.penetrated /\ ~s.stuck /\ ~Trusts(s)
  <2> DEFINE a == m.alive
  <2>1. a \in BOOLEAN
    BY <1>1
  <2>2. s = [[Defaults(pos) EXCEPT !.alive = a] EXCEPT !.survival = survival]
    OBVIOUS
  <2> HIDE DEF a, s
  <2> QED BY <1>1, <2>1, <2>2, DefaultsMean
<1> HIDE DEF s
<1>4. Body'
  BY <1>1, <1>2, <1>3 DEF Body, Frames, Guided, Trusted, Open, EdgeSafe, Simulated
<1>5. Queue'
  BY <1>1, <1>2 DEF Queue, Once
<1> QED
  BY <1>4, <1>5

-----------------------------------------------------------------------------
(* the theorems *)

LEMMA MoveInit == Init => MoveInv
<1> SUFFICES ASSUME Init PROVE MoveInv
  OBVIOUS
<1>1. PICK pos \in Spawns : m = Defaults(pos) /\ from = pos
  BY DEF Init
<1>2. pos \in Vectors /\ Budget \in Nat
  BY MovementAssumption
<1>3. Body
  BY <1>1, <1>2, DefaultsMean, StartsClean DEF Init
<1>4. Queue
  BY DEF Init, Queue, Once
<1> QED
  BY <1>2, <1>3, <1>4 DEF Init, MoveInv

LEMMA MoveStep == MoveInv /\ [Next]_vars => MoveInv'
<1> SUFFICES ASSUME MoveInv, [Next]_vars PROVE MoveInv'
  OBVIOUS
<1>1. ASSUME NEW u \in Updates, NEW cutoff \in BOOLEAN, ServerUpdate(u, cutoff)
      PROVE  MoveInv'
  <2>1. spent' \in 0..Budget
    BY <1>1, MovementAssumption DEF ServerUpdate, Spend, MoveInv
  <2> QED BY <1>1, <2>1, ServerUpdateKeeps DEF MoveInv
<1>2. CASE ExecuteACK
  <2>1. spent' \in 0..Budget
    BY <1>2 DEF ExecuteACK, MoveInv
  <2> QED BY <1>2, <2>1, ExecuteACKKeeps DEF MoveInv
<1>3. ASSUME NEW in \in Inputs, PlayerAuthInput(in)
      PROVE  MoveInv'
  <2>1. spent' \in 0..Budget
    BY <1>3, MovementAssumption DEF PlayerAuthInput, Spend, MoveInv
  <2> QED BY <1>3, <2>1, PlayerAuthInputKeeps DEF MoveInv
<1>4. ASSUME NEW pos \in Spawns, NEW survival \in BOOLEAN, TransferServerConn(pos, survival)
      PROVE  MoveInv'
  <2>1. spent' \in 0..Budget
    BY <1>4, MovementAssumption DEF TransferServerConn, Spend, MoveInv
  <2> QED BY <1>4, <2>1, TransferKeeps DEF MoveInv
<1>5. CASE UNCHANGED vars
  BY <1>5 DEF vars, MoveInv, Queue, Once, Body, Frames, Guided, Trusted, Open, EdgeSafe
<1> QED
  BY <1>1, <1>2, <1>3, <1>4, <1>5 DEF Next

LEMMA MoveInvariance == Spec => []MoveInv
<1> QED
  BY MoveInit, MoveStep, PTL DEF Spec

\* Init, and every handler: the component is well formed, its counters stay within their
\* bounds, and a change that waits has a number of its own.
THEOREM MovementTyped == Spec => []TypeOK
<1> QED
  BY MoveInvariance, MoveInvMeans, PTL

\* tryCollisions: who is outside of every block before a simulated frame is outside of every
\* block after it, and is stuck in a block only after two simulated frames inside of one.
THEOREM NeverEntered == Spec => []NoEntry
<1> QED
  BY MoveInvariance, MoveInvMeans, PTL

\* avoidEdge: who sneaks on the ground, held back by nothing, keeps a support below the feet.
THEOREM EdgeKept == Spec => []EdgeSafe
<1> QED
  BY MoveInvariance, MoveInvMeans, PTL

\* attemptTeleport, Knockback.Run: a teleport that ends has led to its place, and a knockback
\* is set once, however its acknowledgement, its expiry and the cutoff come together.
THEOREM MovedOnceEach == Spec => []MovedOnce
<1> QED
  BY MoveInvariance, MoveInvMeans, PTL

\* UpdateAbilities, Update: who flies was allowed to by the backend that is connected.
THEOREM OnlyGrantedFlight == Spec => []FlightGranted
<1> QED
  BY MoveInvariance, MoveInvMeans, PTL
=================================================================================
