SPECIFICATION FairChildSpec
CONSTANTS
    Children = {c1}
    Tools = {t1}
    Stoppers = {k1, k2}
    Callers = {u1, u2}
    NoChild = NoChild
    EarlyCalls = FALSE
INVARIANTS
    OwnedProcess
    StoppedIsDead
    FailedStartIsDead
    CloseIsExclusive
    IInv
PROPERTIES
    ImplementsLifecycle
    StopReturns
    CrashDetected
    CancelledStartReturns
