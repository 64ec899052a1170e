CONSTANTS
    Settle = 1
    SwingTicks = 2
    Window = 2
    Tolerance = 1
    Ring = 2
    LeftCPSLimit = 2
    RightCPSLimit = 2
    LeftCPSLimitMobile = 1
    RightCPSLimitMobile = 1
    Configured <- MCConfigured
    AllowNonMobileTouch = FALSE
    MaxTime = 4
    MaxChanges = 1
    Scenarios <- MCTeleported
SPECIFICATION Spec
INVARIANTS AuthorisedTeleportNotFlagged
CHECK_DEADLOCK FALSE
