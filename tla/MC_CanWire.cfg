SPECIFICATION Spec
CONSTANTS
    Nodes <- MCNodes
    Watchdogs <- MCWatchdogs
    Numbers <- MCNumbers
    Velocities <- MCVelocities
    Positions <- MCPositions
    CountMax = 2147483000
    Strangers <- MCStrangers
INVARIANTS
    CommandArrives
    FeedbackArrives
    OthersIgnored
CHECK_DEADLOCK FALSE
