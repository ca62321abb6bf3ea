SPECIFICATION Spec
CONSTANTS
    Router <- RouterSet
    Scenarios <- AllScenarios
    InitialTTL = 5
INVARIANTS FloodReachesAll
PROPERTIES FloodEnds ImplementsDissemination
CHECK_DEADLOCK FALSE
