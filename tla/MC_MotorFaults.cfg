SPECIFICATION Spec
CONSTANTS
    Sequences = {0}
    Targets = {0}
    Watchdogs = {0}
    Accel = 1
    Commands <- MCCount
    DropCommandEveryN = 2
    DropCommandWheels = {}
    DropFeedbackEveryN = 3
    DropFeedbackWheels = {}
    MalformedFeedbackEveryN = 2
    ErrorFrameEveryN = 2
    FeedbackDelay = 1
    CountCycle = 6
    MaxAge = 2
    MaxLag = 1
    MaxDelayed = 4
PROPERTIES
    OverdueFeedbackLeaves
    KeepsContract
