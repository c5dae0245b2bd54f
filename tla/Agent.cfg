SPECIFICATION Spec
CONSTANTS
    b1 = b1
    b2 = b2
    i1 = i1
    i2 = i2
    Parts = {"worker", "xfer", "populate", "registry", "merge"}
    RegistryLists <- PeerLists
    Callers = {c1, c2, c3}
    Tasks = {t1, t2, t3}
    Worker = worker
    Nobody = nobody
    Poll = poll
    MaxStarts = 2
    MaxDeaths = 1
    Remotes = {r1}
    Engines = {b1, b2}
    Infos = {i1, i2}
    Blobs <- PartialBlobs
    Handles = {h1, h2}
    Dlists = {d1}
    NotifEngines = {b1}
    Lenient = {b1}
    Cancels = {b1}
    EarlyErrors = {}
    None = None
    MaxGens = 2
    WordMax = 5
    Unbounded = "no"
    Bases <- MCBases
    Queries <- MCQueries
    RunQueries <- MCRunQueries
    MDs <- MCMDs
    EmptyMD = EmptyMD
SYMMETRY Symmetry
INVARIANTS
    AgentTypeOK
    SubmissionOrder
    StopProtocol
    TransfersHonest
    FlatSound
    PopulateExact
PROPERTIES
    StopMeansGone
    RunnerSpec
    PostsLoadedMetadata
    
    MergeExact
CHECK_DEADLOCK FALSE
