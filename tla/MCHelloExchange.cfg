CONSTANTS
    a = a
    b = b
    c = c
    Router = {a, b, c}
    Topologies <- BreakingLine
    HelloVtime = 1
SPECIFICATION FairExchange
INVARIANT SymmetricIsHeard
PROPERTIES
    OneWayDetected
    LinkEstablished
    ImplementsNeighborManager
