SPECIFICATION Spec
CONSTANTS
    Unit = 2
    Columns = 7
    Rows = 5
    World <- MCWorld
    Width = 2
    Height = 4
    StepHeight = 1
    JumpHeight = 2
    JumpDelayTicks = 2
    Terminal = 3
    MaxSpeed = 2
    Loaded = {0, 1, 2, 3, 4, 5}
    Inputs <- MCInputs
    Updates <- MCUpdates
    Spawns <- MCSpawns
    MaxKnockbackDelay = 1
    Budget = 10
    ChangeCost = 4
INVARIANTS
    NoEntry
    EdgeSafe
    MovedOnce
    FlightGranted
CHECK_DEADLOCK FALSE
