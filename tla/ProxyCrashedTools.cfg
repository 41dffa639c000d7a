SPECIFICATION Spec
CONSTANTS
    Requests = {r1}
    Children = {r1}
    Callers = {r1}
    Stoppers = {r1, main}
    Main = main
    Names = {n1}
    Tools = {t1}
    NoChild = NoChild
    NoName = NoName
    EarlyCalls = TRUE
    Ops = {"add"}
    MaxInFlight = 1
    MaxCreators = 3
    OnePerServer = FALSE
INVARIANTS
    CrashedToolsGone
