CONSTANTS
    a = a
    b = b
    c = c
    Addr = {a, b, c}
    Sender = {a, b}
    MaxVtime = 2
    Main <- MCMain
    Willing <- MCWilling
    Vtime <- MCVtime
    LinkCodes <- MCLinkCodes
SPECIFICATION FairSpec
INVARIANTS
    LinkNeighbourAgreement
    TwoHopThroughSymmetric
    MPRsAreEligible
PROPERTIES
    SymmetricChangePublished
    CoverageWhenPublished
    SilentPeerForgotten
