SPECIFICATION ChainSpec
CONSTANTS
    Quiet = 1
    JoyTimeout = 0
    LabTimeout = 1
    Wrap = 4
    InputTimeout = 1
    MaxSteps = 1
    NoTilt = NoTilt
    JoyCommands <- MCJoyCommands
    LabCommands <- MCLabCommands
    LabMaxPower = 1
    MinFirePower = 1
    TiltMin = 0
    TiltMax = 3
    SpinUp = 1
    FireInterval = 1
    MaxShots = 2
    MaxShift = 1
INVARIANT LauncherSafety
PROPERTY LauncherSteps
