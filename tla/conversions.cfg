SPECIFICATION Spec
CONSTANTS
    Word = 65536
    Texts <- MCTexts
    Strings <- MCStrings
    Lines <- MCLines
INVARIANTS StringsMeanWhatIsWritten StringsReadBack LogSaysTheLine
CHECK_DEADLOCK FALSE
