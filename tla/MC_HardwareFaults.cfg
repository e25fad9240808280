SPECIFICATION FairSpec
CONSTANTS
    SeqMod = 2
    AckTimeout = 0
    FeedbackTimeout = 0
    MaxFramesPerRead = 2
    MaxPending = 1
    WireMax = 1
    Velocities = {0}
    FeedbackVelocities = {0}
INVARIANTS
    TypeOK
    StopProtocol
    FaultIsReported
    DiagnosticsNotLost
    StopReasonIsTrue
PROPERTIES
    FaultSticky
    StopResultHonest
    SilenceIsDetected
CHECK_DEADLOCK FALSE
