SPECIFICATION CSpec
CONSTANTS
    e1 = e1
    A = A
    k1 = k1
    k2 = k2
    k3 = k3
    c1 = c1
    c2 = c2
    Exc = {e1}
    Type = {A}
    Destroyed = {}
    Site <- MCSite
    NoExc = NoExc
    NoSite = NoSite
    MaxDepth = 3
    MaxHandlers = 1
    Rethrows = TRUE
    TailCalls = TRUE
    Key = {k1, k2, k3}
    JBMax = 2
    Cmp = {c1, c2}
    NoCmp = NoCmp
    MaxSorts = 2
VIEW View
SYMMETRY Symmetry
INVARIANTS
    ShadowStack
    SortUsesItsComparator
    SlotsRestoreTheTop
