SPECIFICATION InventorySpec
CONSTANTS
    InvSlots = {"a", "b"}
    UISlots = {"g1", "g2", "out"}
    BoxSlots = {"box"}
    OutputSlot = "out"
    SmallGrid <- MCSmallGrid
    BigGrid <- MCBigGrid
    Kinds = {"wood", "plank"}
    WindowIDs = {1}
    Requests <- MCRequests
    InitialItems <- MCInitial
    Updates <- MCUpdates
    Drops <- MCDrops
    MaxRequests = 3
    MaxUpdates = 2
    MaxBackendChanges = 1
    MaxBatch = 2
INVARIANTS ChainConsistent PredictionIsReplay
CHECK_DEADLOCK FALSE
