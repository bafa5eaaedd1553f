SPECIFICATION EntrySpec
CONSTANTS
    Thread = {t1}
    Stack = {s1, s2}
    NoStack = NoStack
    MaxCalls = 3
    MaxWords = 2
    Nested = TRUE
INVARIANTS
    FramesIntact
