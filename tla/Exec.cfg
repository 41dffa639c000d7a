SPECIFICATION FairSpec
CONSTANTS
    MaxWrites = 2
    PipeCap = 2
    SlowClient = FALSE
INVARIANTS
    ExecInv
    GroupIsDead
    OutputComplete
PROPERTIES
    ImplementsRunCommand
    ExitReturns
    ForceKills
    DisconnectEnds
