SPECIFICATION TextSpec
CONSTANTS
    Letters = {"a"}
    MaxServer = 6
    MaxTool = 4
    MaxArgs = 3
    MaxChars = 5
    Dirs <- HostDirs
    Links <- HostLinks
    Homes <- HostHomes
    MaxMounts = 3
INVARIANTS
    RoundTrips
    RefusalsAreNeeded
    ArgsSurvive
    JailShowsWhatWasAsked
CHECK_DEADLOCK FALSE
