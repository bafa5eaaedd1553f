SPECIFICATION Spec
CONSTANTS
    e1 = e1
    e2 = e2
    A = A
    B = B
    Exc = {e1, e2}
    Type = {A, B}
    Destroyed <- MCDestroyed
    Site <- MCSite
    NoExc = NoExc
    NoSite = NoSite
    MaxDepth = 4
    MaxHandlers = 1
    Rethrows = FALSE
    TailCalls = FALSE
INVARIANTS
    TypeOK
    ShadowStack
    HandlerAhead
    HandlersInOrder
    OwnedIffLive
    FallbackAgrees
    NoUseAfterFree
PROPERTIES
    ImplementsCxx
