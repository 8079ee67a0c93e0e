SPECIFICATION FairSpec
CONSTANTS
    Left = Left
    Right = Right
    Wheels = {Left}
    Throttled = TRUE
    EstopRequired = TRUE
    EstopTimeout = 1
    PermissionRequired = TRUE
    PermissionLease = 1
    CmdTimeout = 1
    StopRetry = 1
    ClockBack = 1
    AutoStart = TRUE
PROPERTY StopFaultAlwaysRetried
