SPECIFICATION SystemSpec
CONSTANTS
    SeqMod = 2
    AckTimeout = 0
    FeedbackTimeout = 0
    MaxFramesPerRead = 6
    MaxPending = 4
    WireMax = 0
    Velocities = {0}
    FeedbackVelocities <- MCFeedback
    Faults = {"late"}
    LossyWheels = {0}
    Duties = {"cycle", "report"}
    CommandWatchdog = 0
    Accel = 1
    MaxAge = 1
    MaxLag = 0
    QueueMax = 6
    MaxStale = 2
PROPERTIES
    OldFeedbackIsAnError
