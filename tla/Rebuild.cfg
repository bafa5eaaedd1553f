SPECIFICATION FairSpec
CONSTANTS
    Binary = {1, 2}
    Size <- MCSize
    Span <- MCSpan
    Base = {1, 2}
    DefaultBase = 1
    NoBase = 0
    NoSpan = NoSpan
    NoHash = NoHash
    Gaps = {}
    Fn = {"f", "g", "h"}
    Input = {1, 2, 3}
    InputOf <- MCInputOf
    Gen <- MCGen
    NoInput = 0
    Absent = Absent
    Torn = Torn
    MaxCuts = 1
INVARIANTS
    AcceptedIsThisImage
    GoodIsAccepted
    RebuildTypeOK
    TreeIsIntended
    LibraryIsTheTree
    ChangedIsRemade
PROPERTIES
    Recovers
