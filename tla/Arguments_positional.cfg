SPECIFICATION ArgSpec
CONSTANTS
    GpRegs = 4
    FpRegs = 2
    MaxArgs = 5
    Positional = TRUE
INVARIANTS
    ArgumentsArrive
