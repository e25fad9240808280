SPECIFICATION FairSpec
CONSTANTS
    Sequences = {0, 1}
    Targets = {0, 2}
    Watchdogs = {1}
    Accel = 1
    Commands <- MCLeft
    DropCommandEveryN = 0
    DropCommandWheels = {}
    DropFeedbackEveryN = 0
    DropFeedbackWheels = {}
    MalformedFeedbackEveryN = 0
    ErrorFrameEveryN = 0
    FeedbackDelay = 0
    CountCycle = 1
    MaxAge = 3
    MaxLag = 1
    MaxDelayed = 2
INVARIANTS
    TypeOK
    TargetNeedsPermission
PROPERTIES
    WatchdogNeverEarly
    AckTellsTruth
    SilenceStopsMotors
    KeepsContract
