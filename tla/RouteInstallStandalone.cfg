CONSTANTS
    Prefix = {p, q}
    NextHop = {a, b}
    Metric = {1}
    Standalone = TRUE
    BufferSize = 2
    MaxRuns = 2
    MaxRestarts = 0
SPECIFICATION Spec
CHECK_DEADLOCK FALSE
INVARIANT
    InstalledWhenQuiet
