SPECIFICATION Spec
CONSTANTS
    Left = Left
    Right = Right
    Wheels = {Left, Right}
    Throttled = TRUE
    EstopRequired = TRUE
    EstopTimeout = 1
    PermissionRequired = TRUE
    PermissionLease = 1
    CmdTimeout = 1
    StopRetry = 1
    ClockBack = 0
    AutoStart = TRUE
INVARIANT GateSafety
PROPERTIES
  WheelsObeyTheGate
SYMMETRY WheelSymmetry
