CONSTANTS
    s = s
    c = c
    d = d
    m = m
    n = n
    p = p
    q = q
    None = none
    Source = {s}
    Child = {c, d}
    NextHop = {m, n, p, q}
    ARP = {m, n, p, q}
    Iface <- MCIface
    HopTables <- ParentTables
    BufferSize = 1
    Vtime = 0
    MaxVifs = 3
    MaxFailures = 0
SPECIFICATION FairSpec
INVARIANT RuleIsParent
