\* The timeouts in the order of the configuration: quiet, lab, controller; a lab twist
\* above the cap, a controller twist below the neutral threshold and one at it.
SPECIFICATION FairSpec
CONSTANTS
    Quiet = 0
    JoyTimeout = 1
    LabTimeout = 1
    Wrap = 4
    JoyTwists <- SmallAndActive
    LabTwists <- StopAndExcess
    Invalid = Invalid
    Neutral = 2
    LabMax = 1
    Lease = 1
INVARIANT ArbiterSafety
PROPERTIES
    HandsOver
    SilenceReleasesDrive
