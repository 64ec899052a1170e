SPECIFICATION Spec
CONSTANTS
    RuntimeIDs = {1, 2}
    Players = {1}
    Positions = {0, 8}
    HistorySize = 3
    MaxTick = 9
    MaxMoves = 3
INVARIANTS RewindNearest SettledWhereReceived
CHECK_DEADLOCK FALSE
