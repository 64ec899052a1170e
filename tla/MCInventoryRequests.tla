----------------------- MODULE MCInventoryRequests -----------------------
(* A small inventory for InventoryRequests: two slots, a two-slot crafting  *)
(* grid, the output slot and one slot of an open container.                 *)
EXTENDS InventoryRequests

S(k, n) == [kind |-> k, count |-> n]
W(op, src, dst, n) == [op |-> op, src |-> src, dst |-> dst, count |-> n,
                       input |-> <<>>, stack |-> NoItem]
Made(op, input, st) == [op |-> op, src |-> "out", dst |-> "out", count |-> 0,
                        input |-> input, stack |-> st]

MCInitial == [s \in Slots |-> CASE s = "a" -> S("wood", 2)
                                [] s = "g1" -> S("wood", 1)
                                [] OTHER -> NoItem]

\* Moves that share slots, a request of dependent actions, a move to the
\* container, crafts with and without the ingredients.  A move to a container that
\* is not open is not tracked.
MCRequests == {
    <<W("transfer", "a", "b", 1)>>,
    <<W("transfer", "b", "a", 1), W("swap", "a", "b", 0),
      W("destroy", "a", "a", 1), W("nop", "a", "a", 0), W("unknown", "a", "a", 0)>>,
    <<W("transfer", "b", "box", 1)>>,
    <<Made("craft", <<S("wood", 1)>>, S("plank", 2)), W("transfer", "out", "b", 2)>>,
    <<Made("craft", <<S("wood", 1), S("wood", 1)>>, S("plank", 2)),
      Made("creative", <<>>, S("plank", 1))>> }

MCUpdates == { [s \in {"a"} |-> S("plank", 1)], [s \in {"box"} |-> S("wood", 1)] }
MCDrops == { [slot |-> "a", count |-> 1] }
MCSmallGrid == <<"g1", "g2">>
MCBigGrid == <<"g2">>
===========================================================================
