SPECIFICATION BoxSpec
CONSTANTS
    echo = echo
    publisher = publisher
    Tasks <- BothTasks
    SentenceLen = 1
    EarlyEnd = TRUE
    MaxGlitches = 2
INVARIANTS StuckOnlyIfHurried DeafHasCause WelcomeIsTrue
PROPERTIES ReconnectsWhenLinkHolds OutageIsNoticed LedTellsTheTruth HoldUpHasCause
