CONSTANTS
    a = a
    b = b
    c = c
    Router = {a, b, c}
    Topologies <- Line
    HelloVtime = 2
SPECIFICATION FairExchange
PROPERTY RelayKnowsSelector
