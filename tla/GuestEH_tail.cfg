SPECIFICATION Spec
CONSTANTS
    e1 = e1
    e2 = e2
    A = A
    B = B
    Exc = {e1, e2}
    Type = {A, B}
    Destroyed <- MCDestroyed
    Site <- MCSite
    NoExc = NoExc
    NoSite = NoSite
    MaxDepth = 3
    MaxHandlers = 1
    Rethrows = FALSE
    TailCalls = TRUE
SYMMETRY Symmetry
PROPERTIES
    LandsWhereControlIs
