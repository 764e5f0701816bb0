SPECIFICATION Spec
CONSTANT LongTicks = 2
INVARIANT WifiFollowsVerdict
PROPERTIES JudgedByItsLength OneAnswerPerRelease CleanReleaseIsAnswered
