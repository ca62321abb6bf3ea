CONSTANTS
    s = s
    c = c
    d = d
    m = m
    n = n
    p = p
    q = q
    None = none
    Source = {s}
    Child = {c}
    NextHop = {m, n, p}
    ARP = {m, p}
    Iface <- MCIface
    HopTables <- MCHopTables
    BufferSize = 1
    Vtime = 0
    MaxVifs = 2
    MaxFailures = 1
SPECIFICATION FairSpec
INVARIANTS
    ForwardingMatchesTree
    RuleOnIncomingInterface
    NoOrphanRule
    FilterMatchesRoutes
    VifsSuffice
PROPERTY ForwardingStops
