CONSTANTS
    Network = {n}
    Gateway = {g, h, k}
    Vtime = 1
    MaxDist = 2
SPECIFICATION FairSpec
INVARIANT NearestGateway
PROPERTIES
    GatewayChangePublished
    SilentGatewayForgotten
