----------------------------- MODULE MCDetections -----------------------------
EXTENDS Detections, TLC

\* Every client in time with the changes that could disturb it, two whose packets and ticks
\* are late, and one that still waits for its first chunk.
Scenes(acts, us, n) == [act : acts, change : us, lag : {n}, ready : {TRUE}]
InTime ==
    UNION {Scenes({"walk"}, Changes, 0), Scenes({"land", "ride"}, {"teleport", "smoothed"}, 0),
           Scenes({"creative", "break", "craft"}, {"creative", "survival"}, 0),
           Scenes(Legitimate \ {"walk"}, {"knockback"}, 0), Scenes(Modified, {"teleport"}, 0)}
Late == Scenes({"land"}, {"teleport"}, 1) \cup Scenes({"gui"}, {"latency"}, 1)
Joining == [act : {"gui"}, change : {"latency", "chunk"}, lag : {1}, ready : {FALSE}]
MCScenarios == InTime \cup Late \cup Joining

\* The default configuration, and a limit of two flags for a detection it does not name.
MCConfigured == "BadPacketG" :> 2 * Violation @@ DefaultDetections

\* A client that is teleported, and nothing else.
MCTeleported == Scenes({"walk"}, {"teleport"}, 0)
=============================================================================
