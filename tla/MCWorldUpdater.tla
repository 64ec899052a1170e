--------------------------- MODULE MCWorldUpdater ---------------------------
(* The options WorldUpdater is checked with: no ghost blocks, a chain of one, *)
(* and no limit on ghosts with updates that time out or are not waited for.   *)
EXTENDS WorldUpdater

Lag(maxChain, delay, cutoff) == [maxChain |-> maxChain, delay |-> delay, cutoff |-> cutoff]

MCOptions == {Lag(0, -1, FALSE), Lag(1, -1, FALSE), Lag(-1, 1, TRUE)}

=============================================================================
