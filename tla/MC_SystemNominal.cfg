SPECIFICATION SystemSpec
CONSTANTS
    SeqMod = 2
    AckTimeout = 1
    FeedbackTimeout = 1
    MaxFramesPerRead = 7
    MaxPending = 1
    WireMax = 0
    Velocities = {0}
    FeedbackVelocities <- MCFeedback
    Faults = {"noise"}
    LossyWheels = {0}
    Duties = {"cycle", "advance", "report"}
    CommandWatchdog = 1
    Accel = 1
    MaxAge = 2
    MaxLag = 0
    QueueMax = 10
    MaxStale = 3
INVARIANTS
    NoSpuriousFault
PROPERTIES
    ShownFeedbackIsRecent
