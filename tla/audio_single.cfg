SPECIFICATION HeardSpec
CONSTANTS
    button = button
    publisher = publisher
    Tasks <- OneTask
    SentenceLen = 5
    EarlyEnd = FALSE
PROPERTIES SentencesEnd SpeaksInTurn
CHECK_DEADLOCK FALSE
