SPECIFICATION FairSpec
CONSTANTS
    Daemons = {d1, d2}
    No = No
    Calls = {c1}
    MaxWrites = 1
    Overlap = FALSE
    LateKill = FALSE
INVARIANTS
    WsbInv
    OneSandbox
    AcceptingIsReachable
    ReadyIsOwn
    CleanExit
    ExitCodeIsTrue
    DrainedCallsAnswered
PROPERTIES
    LaunchSettles
    ClientReturns
CHECK_DEADLOCK FALSE
