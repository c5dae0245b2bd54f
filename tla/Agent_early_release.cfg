SPECIFICATION Spec
CONSTANTS
    b1 = b1
    b2 = b2
    i1 = i1
    i2 = i2
    Parts = {"xfer"}
    RegistryLists <- PeerLists
    Callers = {c1, c2, c3}
    Tasks = {t1, t2, t3}
    Worker = worker
    Nobody = nobody
    Poll = poll
    MaxStarts = 2
    MaxDeaths = 1
    Remotes = {r1}
    Engines = {b1, b2}
    Infos = {i1, i2}
    Blobs <- PartialBlobs
    Handles = {h1}
    Dlists = {d1}
    NotifEngines = {b1}
    Lenient = {b1}
    Cancels = {}
    EarlyErrors = {b1}
    None = None
    MaxGens = 1
    WordMax = 5
    Unbounded = "no"
    Bases <- MCBases
    Queries <- MCQueries
    RunQueries <- MCRunQueries
    MDs <- MCMDs
    EmptyMD = EmptyMD
INVARIANT
    ReleasedMeansStopped
CHECK_DEADLOCK FALSE
