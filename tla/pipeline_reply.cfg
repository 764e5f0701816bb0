SPECIFICATION Spec
CONSTANTS
    QueueLen = 2
    Commands <- AllKinds
    MaxArrivals = 1
    MaxLosses = 0
INVARIANT RepliesFit
CHECK_DEADLOCK FALSE
