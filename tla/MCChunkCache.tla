---------------------------- MODULE MCChunkCache ----------------------------
EXTENDS ChunkCache, TLC

\* Two dimensions of which the other begins a sub-chunk higher.
MCLayerOf == "overworld" :> (0 :> 1) @@ "nether" :> (0 :> 0)

\* One payload that is sent in both, and one of a dimension nobody knows.
Level(data, d, n) == [data |-> data, dimension |-> d, count |-> n]
MCDecodable == {Level("a", "overworld", 2), Level("a", "nether", 1)}
MCLevelChunks == MCDecodable \cup {Level("a", "unknown", 2)}

Entry(c, result) == [pos |-> c, result |-> result, y |-> 0, data |-> "a"]
Subs(d, es) == [dimension |-> d, entries |-> es]

\* The same sub-chunk twice, in a dimension nobody knows; and in the other dimension two
\* positions: one that is missing, and one whose second sub-chunk cannot be decoded.
MCSubPackets ==
    {Subs("unknown", <<Entry(0, "success"), Entry(0, "success")>>),
     Subs("nether", <<Entry(3, "success"), Entry(0, "missing"), Entry(3, "corrupt")>>)}

\* Two players of one kind of backend until a transfer, with one representation or, for whole
\* chunks, with two.
Session(m1, m2, r1, r2) ==
    [mode |-> 1 :> m1 @@ 2 :> m2, request |-> 1 :> r1 @@ 2 :> r2]
MCSessions ==
    {Session("ids", "ids", r, r) : r \in BOOLEAN} \cup {Session("ids", "hashes", FALSE, FALSE)}
=============================================================================
