SPECIFICATION Spec
CONSTANTS
    A = A
    B = B
    Full = Full
    Part = Part
    None = None
    Agents = {A, B}
    Listeners = {A, B}
    MaxCalls <- Quota
    MaxVersion <- Versions
    MaxConns = 2
    MaxFaults = 1
    KeyOrder <- LabelOrder
    MaxAge = 2
    MaxStoreCalls = 3
    MaxFetches = 1
    MaxStoreFaults = 1
    NoValue = NoValue
    Parts = {"etcd"}
    Labels = {Full}
    MaxEtcdCalls = 2
    MaxEtcdFetches = 1
    MaxEtcdFaults = 0
PROPERTY
    InvalidationReaches
CHECK_DEADLOCK FALSE
