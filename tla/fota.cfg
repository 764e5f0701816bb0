SPECIFICATION FotaSpec
CONSTANTS
    FileLengths = {2, 3}
    MaxDownloads = 3
INVARIANTS FlagMeansFirmware FtpRetryCannotSucceed SilentFailureHasCause
CHECK_DEADLOCK FALSE
