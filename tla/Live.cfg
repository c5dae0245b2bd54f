SPECIFICATION Spec
CONSTANTS
    Callers = {c1, c2}
    Tasks = {t1, t2}
    Worker = worker
    Nobody = nobody
    Poll = poll
    MaxStarts = 1
    MaxDeaths = 0
    b1 = b1
    b2 = b2
    b3 = b3
    i1 = i1
    i2 = i2
    Remotes = {r1}
    Engines = {b1, b2}
    Infos = {i1, i2}
    Blobs <- SelfContained
    Handles = {h1}
    Dlists = {d1}
    NotifEngines = {b1}
    Lenient = {}
    Cancels = {b1}
    EarlyErrors = {}
    None = None
    MaxGens = 2
    NoAgent = "none"
    GpuThreads = {g1, g2}
    Configs <- MCConfigs
    ViewTable <- MCViews
    Commands <- MCCommands
    PmProcs = {1, 2}
    PmScenarios <- MCPmScenarios
    PmNames = {"x"}
    PmTtl = 0
    TpThreads = {1, 2}
    TpScenarios <- MCTpScenarios
    SrScenarios <- MCSrScenarios
    DxAgents = {1}
    DxMaxEvents = 0
    DxMaxLives = 0
INVARIANT
    SameLife
PROPERTIES
    HandedOver
    HandlesEnd
CHECK_DEADLOCK FALSE
