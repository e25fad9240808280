SPECIFICATION DiagnosticsSpec
CONSTANTS
    SeqMod = 2
    AckTimeout = 0
    FeedbackTimeout = 0
    MaxFramesPerRead = 3
    MaxPending = 1
    WireMax = 0
    Velocities = {0}
    FeedbackVelocities = {0}
    Masks <- MCMasks
PROPERTIES
    SeverityChangePublishes
CHECK_DEADLOCK FALSE
