SPECIFICATION FairSpec
CONSTANTS
    Parts = {"hs", "lf", "mp", "ux", "up", "ul", "gc", "gx", "gn"}
    RmHosts <- MCHosts
    RmRegs <- MCRegs
    RmFaults = 2
    PsRails = 3
    PsInputs <- MCPosts
    PsBatch = 2
    PsStripe = 4
    PsFaults = TRUE
    RpSize = 2
    RpMax = 4
    RpFaults = 1
    RpUsers = {1, 2, 3, 4}
    UcConfigs <- MCConfigs
    UcCallers <- MCCallers
    UcAgents = {"b"}
    UcMems <- MCMems
    UcConns = 1
    UcFaults = 1
    UtAddrs = {1, 2}
    UtPeers = {"p"}
    UtSelf = "self"
    UtConnects = 2
    UtPosts = 2
    UtRegs = 2
    UtFaults = 1
    GsInputs <- MCStages
    GsSize = 2
    GsMaxLen = 4
    GsMaxRead = 3
    GvQps <- MCQps
    GvTries = 2
    GvFaults = 3
    GcAgents = {"a", "b"}
    GcLoads <- MCLoads
    GcFaults = 1
    GcRestarts = 0
    HsAgents = {"a", "b"}
    HsVersions <- MCVersions
    HsLoads <- MCLoads
    HsDisconnects = 0
    HsRestarts = 1
    HsFaults = 0
    LfRails = 2
    LfDescs = 3
    LfPosts = 1
    LfThreads = {0, 2}
    LfDepth = 1
    LfRingSize = 1
    LfFrags = 2
    LfGenNotifs = 0
    LfFaults = 1
    MpProducers = {1, 2, 3}
    MpCap = 2
    MpPushes = 5
    UxThreads = {0, 2}
    UxDescs = 3
    UxPosts = 1
    UxFaults = 1
    UxRepostFailed = FALSE
    UlAgents = {"a", "b", "c"}
    UlGraphs <- MCGraphs
    UlFaults = 1
    GxReqs = {1, 2}
    GxShapes <- MCShapes
    GxSlots = 3
    GxQps = 2
    GxDepth = 1
    GxBuffers = 1
    GxStreams = 1
    GxPosts = 2
    GxFaults = 1
    GnCallers = {1, 2}
    GnMsgs = 3
    GnBuffers = 2
    GnRing = 2
    GnFaults = 1
    UpWorkers = 2
    UpEvents = 3
PROPERTIES
    NetTransfersEnd
    
CHECK_DEADLOCK FALSE
