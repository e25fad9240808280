SPECIFICATION Spec
CONSTANTS
    SeqMod = 2
    AckTimeout = 0
    FeedbackTimeout = 0
    MaxFramesPerRead = 1
    MaxPending = 1
    WireMax = 1
    Velocities = {0}
    FeedbackVelocities = {0, 1}
PROPERTIES
    ActivationZeroesState
CHECK_DEADLOCK FALSE
