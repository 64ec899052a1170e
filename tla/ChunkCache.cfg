CONSTANTS
    Players = {1, 2}
    Positions = {0, 1, 3}
    Layers = {0, 1}
    Heights = {0}
    Dimensions = {"overworld", "nether"}
    LayerOf <- MCLayerOf
    Payloads = {"a"}
    LevelChunks <- MCLevelChunks
    Decodable <- MCDecodable
    SubPackets <- MCSubPackets
    Radii = {1}
    Sessions <- MCSessions
    Travellers = {1}
    Leavers = {2}
    MaxCalls = 3
SPECIFICATION Spec
INVARIANTS CountsExact ReadsOwnChunks ChunksAheadKept
PROPERTIES CloseReleases
CHECK_DEADLOCK FALSE
