SPECIFICATION SystemSpec
CONSTANTS
    SeqMod = 5
    AckTimeout = 1
    FeedbackTimeout = 2
    MaxFramesPerRead = 2
    MaxPending = 2
    WireMax = 0
    Velocities = {0}
    FeedbackVelocities <- MCFeedback
    Faults = {"command", "ack", "late", "restless"}
    LossyWheels = {0}
    Duties = {"cycle"}
    CommandWatchdog = 0
    Accel = 1
    MaxAge = 1
    MaxLag = 0
    QueueMax = 8
    MaxStale = 0
INVARIANTS
    AckMeansObeyed
    UnexpectedAckHasCause
    LossStaysAwaited
    PendingContiguous
PROPERTIES
    GoodReadIsHealthy
