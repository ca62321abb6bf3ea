CONSTANTS
    Managers = {"neighMgr", "topoMgr", "hnaMgr", "molsrMgr"}
    EventType = {"NeighborUpdate", "TopologyUpdate"}
    EventOf <- MCEventOf
    Updaters = {"udpReceiver", "aging", "api"}
    Handles <- MCHandles
    Clients = {"api"}
    NoOne = "none"
    NumReads = 5
    ReadFrom <- MCReadFrom
    BufferSize = 1
    MaxVersion = 2
SPECIFICATION FairSpec
CHECK_DEADLOCK FALSE
INVARIANTS
    TypeOK
    NoLostUpdate
PROPERTIES
    SPFCatchesUp
    HandlersReturn
