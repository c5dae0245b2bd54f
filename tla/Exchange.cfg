SPECIFICATION Spec
CONSTANTS
    A = A
    B = B
    Full = Full
    Part = Part
    None = None
    Agents = {A, B}
    Listeners = {A, B}
    MaxCalls <- Quota
    MaxVersion <- Versions
    MaxConns = 2
    MaxFaults = 1
    KeyOrder <- LabelOrder
    MaxAge = 2
    MaxStoreCalls = 3
    MaxFetches = 1
    MaxStoreFaults = 1
    NoValue = NoValue
    Parts = {"manager", "etcd"}
    Labels = {Full, Part}
    MaxEtcdCalls = 4
    MaxEtcdFetches = 2
    MaxEtcdFaults = 1
INVARIANTS
    
    EtcdIsLastCall
    LastCallReaches
    TCPStoreExact
PROPERTY
    FetchesEnd
CHECK_DEADLOCK FALSE
