SPECIFICATION Spec
CONSTANTS
    Requests = {r1, r2, r3}
    Children = {r1, r2, r3}
    Callers = {r1, r2, r3}
    Stoppers = {r1, r2, r3, main}
    Main = main
    Names = {n1, n2}
    Tools = {t1}
    NoChild = NoChild
    NoName = NoName
    EarlyCalls = TRUE
    Ops = {"add", "remove", "reload", "list", "call"}
    MaxInFlight = 3
    MaxCreators = 2
    OnePerServer = TRUE
INVARIANTS
    NoOrphan
    ToolsMatchChildren
PROPERTIES
    ImplementsRegistry
SYMMETRY RequestSymmetry
