SPECIFICATION Spec
CONSTANTS
    Word = 512
    Segments <- MCSegments
    GRo = 248
    GRw = 360
    Host <- MCHost
    Raw <- MCRaw
    RelrBits = 2
    Symbols <- MCSymbols
    Defined <- MCDefined
    DataImports <- MCDataImports
    Ignored <- MCIgnored
    Materialised <- MCMaterialised
    Frames <- MCFrames
    Lsdas <- MCLsdas
    Functions <- MCFunctions
    Cfg <- MCCfg
    Sites <- MCSites
    Slack = 8
    TableCap = 4
    Sparse = 1
    Key = 16
    Builds <- MCBuilds
    Calls <- MCCalls
INVARIANTS
    TransferTypeOK
    FindsTheRow
    ComparisonsAgree
    LandsWhereMeant
    ReachableIsTranslated
    DispatchIsTheSwitch
    PadsWereRecovered
PROPERTIES
    TransferEnds
