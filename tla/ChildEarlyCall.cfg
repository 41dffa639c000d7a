SPECIFICATION FairChildSpec
CONSTANTS
    Children = {c1}
    Tools = {t1}
    Stoppers = {k1}
    Callers = {u1}
    NoChild = NoChild
    EarlyCalls = TRUE
PROPERTIES
    StopReturns
