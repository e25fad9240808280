SPECIFICATION DiagnosticsSpec
CONSTANTS
    SeqMod = 2
    AckTimeout = 0
    FeedbackTimeout = 0
    MaxFramesPerRead = 1
    MaxPending = 1
    WireMax = 0
    Velocities = {0}
    FeedbackVelocities = {0}
    Masks <- MCMasks
INVARIANTS
    OperatorIsInformed
    AckFaultStops
CHECK_DEADLOCK FALSE
