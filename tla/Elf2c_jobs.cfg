SPECIFICATION Spec
CONSTANTS
    w1 = w1
    w2 = w2
    N = 5
    Programs <- MCFew
    Jobs = {w1, w2}
SYMMETRY Symmetry
INVARIANT
    SameTree
