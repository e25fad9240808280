SPECIFICATION FairSystemSpec
CONSTANTS
    SeqMod = 1
    AckTimeout = 0
    FeedbackTimeout = 0
    MaxFramesPerRead = 6
    MaxPending = 4
    WireMax = 1
    Velocities = {0, 1}
    FeedbackVelocities <- MCFeedback
    Faults = {"command", "send"}
    LossyWheels = {0}
    Duties = {"cycle", "advance"}
    CommandWatchdog = 0
    Accel = 1
    MaxAge = 1
    MaxLag = 0
    QueueMax = 8
    MaxStale = 0
INVARIANTS
    SystemTypeOK
PROPERTIES
    FaultStopsMotors
