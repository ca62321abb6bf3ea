CONSTANTS
    Addr = {o, d, x}
    Originators = {o}
    Advertised = {d}
    Declarers = {o, d, x}
    Aliases = {o, d, x}
    NoAddr = none
    SeqMod = 6
    Window = 2
    Vtime = 1
SPECIFICATION MCSpec
INVARIANT PrimaryIsDeclared
PROPERTIES
    TopologyChangePublished
    NewerTCAccepted
    AdvertisedLinkRenewed
    WithdrawnLinkForgotten
