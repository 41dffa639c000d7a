SPECIFICATION Spec
CONSTANTS
    MaxWrites = 2
    PipeCap = 2
    SlowClient = TRUE
INVARIANT
    OutputComplete
