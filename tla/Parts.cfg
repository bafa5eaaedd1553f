SPECIFICATION PartsSpec
CONSTANTS
    w1 = w1
    w2 = w2
    N = 5
    Programs <- MCPrograms
    Jobs = {w1, w2}
    Thread = {t1}
    Stack = {s1, s2}
    NoStack = NoStack
    MaxCalls = 3
    MaxWords = 2
    Nested = TRUE
    W32 = 4
    W64 = 8
    GpRegs = 4
    FpRegs = 2
    MaxArgs = 5
    Positional = FALSE
    Classes = 3
    MaxDepth = 1
    MaxBases = 2
    Width = 2
    MaxRecords = 3
    Chain = 3
    Inputs = {1, 4, 5}
    Cores = {1, 2, 3}
SYMMETRY Symmetry
INVARIANTS
    TypeOK
    DispatchLands
    CallsLand
    TargetsHaveRows
    FoldSeesWhatWasWritten
    CtorsOnceAndFirst
    NestedEntriesRestore
    FlagsAgree
    ComparesDecide
    ArgumentsArrive
    LookupIsTheSite
    WholeFolder
PROPERTY
    EachFunctionOnce
