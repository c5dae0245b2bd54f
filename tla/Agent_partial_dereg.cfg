SPECIFICATION Spec
CONSTANTS
    b1 = b1
    b2 = b2
    i1 = i1
    i2 = i2
    Parts = {"registry"}
    RegistryLists <- PlainLists
    Callers = {c1, c2, c3}
    Tasks = {t1, t2, t3}
    Worker = worker
    Nobody = nobody
    Poll = poll
    MaxStarts = 2
    MaxDeaths = 1
    Remotes = {r1}
    Engines = {b1, b2}
    Infos = {i1, i2}
    Blobs <- PartialBlobs
    Handles = {h1, h2}
    Dlists = {d1}
    NotifEngines = {b1}
    Lenient = {b1}
    Cancels = {b1}
    EarlyErrors = {}
    None = None
    MaxGens = 2
    WordMax = 5
    Unbounded = "no"
    Bases <- MCBases
    Queries <- MCQueries
    RunQueries <- MCRunQueries
    MDs <- MCMDs
    EmptyMD = EmptyMD
PROPERTY
    FailedDeregisterKeeps
CHECK_DEADLOCK FALSE
