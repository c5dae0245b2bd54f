SPECIFICATION Spec
CONSTANTS
    Handles = {h1, h2}
    N = 2
    MaxPosts = 2
    None = None
    Loadable = {"AZURE_BLOB", "OBJ", "REDIS", "GUSLI", "Mooncake", "GDS_MT", "GDS", "HF3FS", "POSIX", "INFINIA", "DOCA_MEMOS"}
    Solo = {"AZURE_BLOB", "OBJ", "REDIS", "GUSLI", "Mooncake", "GDS_MT", "HF3FS", "POSIX", "INFINIA"}
    Slots = {s1, s2}
    Batches = {b1, b2, b3}
    MaxPollFaults = 1
    PoolSize = 1
    MaxQueueFaults = 1
    NumTasks = 2
    MaxSubmitFaults = 1
    TableEngines = {"OBJ", "AZURE_BLOB", "OBJ_ACCEL", "DELL", "REDIS", "INFINIA", "DOCA_MEMOS", "Mooncake", "GUSLI", "POSIX", "GDS", "HF3FS"}
    Devs = {0, 1}
    Keys = {k}
    MaxLive = 3
    MaxRegs = 4
    Nil = Nil
    QueryEngines = {"AZURE_BLOB", "OBJ", "REDIS", "INFINIA", "DOCA_MEMOS"}
    NumQueries = 2
    TaskRoom = 1
    Buffers <- Overlapping
    Pins = {p1, p2}
    Rdmas = {"t1", "t2"}
    MaxPins = 2
INVARIANTS
    
    QueryAnswers
    RdmaWhole
PROPERTIES
    EnginesKeepContract
    StorageEnds
CHECK_DEADLOCK FALSE
