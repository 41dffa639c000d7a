SPECIFICATION Spec
CONSTANTS
    Daemons = {d1, d2, d3}
    No = No
    Calls = {}
    MaxWrites = 1
    Overlap = TRUE
    LateKill = FALSE
INVARIANT
    ClaimIsExclusive
CHECK_DEADLOCK FALSE
