CONSTANTS
    Node = {l, n1, n2, n3}
    Local = l
    Links <- MCLinks
    NoNode = none
SPECIFICATION FairSpec
CHECK_DEADLOCK FALSE
INVARIANTS
    ReturnsShortestPathTree
    DistancesAreShortest
    NextHopIsOnShortestPath
    OnlyLocalUnresolved
PROPERTIES
    EveryTurnVisits
    CalculationTerminates
