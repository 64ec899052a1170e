----------------------------- MODULE MCMovement -----------------------------
(* A room with a slab under a low ceiling, a slab in the open, a pit with slime *)
(* at its bottom, a fence, a web, a vine and water; the last column is not      *)
(* loaded.                                                                      *)
EXTENDS Movement

\* From the left; each column from the bottom.
MCColumns ==
    <<<<"stone", "stone", "stone", "stone", "stone">>,
      <<"stone", "slab",  "air",   "stone", "stone">>,
      <<"stone", "air",   "web",   "air",   "stone">>,
      <<"slime", "slab",  "air",   "air",   "stone">>,
      <<"fence", "air",   "vine",  "air",   "stone">>,
      <<"water", "stone", "air",   "air",   "stone">>,
      <<"stone", "stone", "air",   "air",   "stone">>>>
MCWorld == [c \in Cells |-> MCColumns[c[1] + 1][c[2] + 1]]

Base == [dx |-> 0, jump |-> FALSE, hold |-> FALSE, sneak |-> FALSE, fly |-> "none", sprint |-> "none",
         glide |-> "none", elytra |-> TRUE, glideVel |-> <<1, -1>>, move |-> <<0, -1>>]
MCInputs ==
    {[Base EXCEPT !.dx = d] : d \in {-1, 0, 1}}
    \cup {[Base EXCEPT !.dx = d, !.sneak = TRUE, !.sprint = "start"] : d \in {-1, 1}}
    \cup {[Base EXCEPT !.dx = 1, !.jump = TRUE, !.hold = TRUE, !.move = <<0, 0>>, !.glide = "start"],
          [Base EXCEPT !.move = <<1, 1>>, !.fly = "start"],
          [Base EXCEPT !.move = <<0, 0>>, !.fly = "stop", !.sprint = "both", !.glide = "stop", !.elytra = FALSE]}

Abilities(may, flying, noClip) == [kind |-> "abilities", mayFly |-> may, flying |-> flying, noClip |-> noClip]
MCUpdates ==
    {[kind |-> "knockback", vel |-> <<-2, 2>>],
     [kind |-> "teleport", pos |-> <<3, 2>>, onGround |-> FALSE, smoothed |-> TRUE],
     [kind |-> "teleport", pos |-> <<12, 4>>, onGround |-> TRUE, smoothed |-> FALSE],
     Abilities(TRUE, FALSE, FALSE), Abilities(FALSE, TRUE, TRUE),
     [kind |-> "data", immobile |-> TRUE, sprint |-> TRUE, gravity |-> FALSE],
     [kind |-> "effect", add |-> TRUE],
     [kind |-> "health", alive |-> FALSE]}
MCSpawns == {<<4, 2>>, <<7, 4>>}
=============================================================================
