SPECIFICATION HeardSpec
CONSTANTS
    button = button
    publisher = publisher
    Tasks <- TwoTasks
    SentenceLen = 2
    EarlyEnd = FALSE
INVARIANT WaitEndsWithClip
CHECK_DEADLOCK FALSE
