SPECIFICATION FairSpec
CONSTANTS
    a = a
    b = b
    c = c
    d = d
    e = e
    Serials <- EveryLength
    MinLen = 1
    ReadLen = 4
    ReplyRoom = 5
    SNLimit = 7
    MaxSets = 3
    MaxLosses = 1
INVARIANTS IdentityIsWhole NeverABlend ConfirmedIsKept
PROPERTY IdentityFollows
CHECK_DEADLOCK FALSE
