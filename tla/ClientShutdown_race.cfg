SPECIFICATION FairSpec
INVARIANTS
    ShownWasRaised
PROPERTIES
    LoneStopIsSafe
    ErrorEndsProcess
CHECK_DEADLOCK FALSE
CONSTANT Raisers <- TwoRaisers
