SPECIFICATION Spec
CONSTANTS
    Requests = {r1, r2, r3}
    Children = {r1, r2, r3}
    Callers = {r1, r2, r3}
    Stoppers = {r1, r2, r3, main}
    Main = main
    Names = {n1}
    Tools = {t1}
    NoChild = NoChild
    NoName = NoName
    EarlyCalls = TRUE
    Ops = {"add", "remove"}
    MaxInFlight = 3
    MaxCreators = 3
    OnePerServer = FALSE
INVARIANTS
    NoOrphan
SYMMETRY RequestSymmetry
