SPECIFICATION LibrarySpec
CONSTANTS
    MaxText = 8
    DepthLimit = 3
    Quoted = 3
    Default = 8
    Sizes <- MCSizes
    Item = {i1, i2, i3, i4}
    Key <- MCKey
    Lower <- MCLower
    NoItem = NoItem
SYMMETRY Symmetry
INVARIANTS
    ParsesJson
    MemoryIsReturned
    PrintsWhatWasParsed
    BufferSuffices
    ListIsWhole
    MembersAreFound
PROPERTIES CallsMeanWhatTheySay
CHECK_DEADLOCK FALSE
