SPECIFICATION FairSpec
CONSTANTS
    QueueLen = 2
    Commands <- AllKinds
    MaxArrivals = 3
    MaxLosses = 2
INVARIANTS InOrder Accounted RepliesTellTheTruth
PROPERTIES LossHasCause IsLossyFifo CommandsSettle
CHECK_DEADLOCK FALSE
