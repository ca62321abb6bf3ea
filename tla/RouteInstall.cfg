CONSTANTS
    Prefix = {p, q}
    NextHop = {a, b}
    Metric = {1}
    Standalone = FALSE
    BufferSize = 2
    MaxRuns = 2
    MaxRestarts = 1
SPECIFICATION FairSpec
CHECK_DEADLOCK FALSE
INVARIANT InstalledWhenQuiet
PROPERTIES
    RunsEnd
    EventuallyInstalled
