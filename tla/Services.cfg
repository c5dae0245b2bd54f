SPECIFICATION Spec
CONSTANTS
    PmProcs = {1, 2}
    PmScenarios <- MCPmScenarios
    PmNames = {"x"}
    PmTtl = 0
    SrScenarios <- MCSrScenarios
    TpThreads = {1, 2}
    TpScenarios <- MCTpScenarios
    PgAgents = {1, 2}
    PgScenarios <- MCPgScenarios
    AvSelf = "self"
    AvNull = "NULL_AGENT"
    AvScenarios <- MCAvScenarios
    TcScenarios <- MCTcScenarios
    DxAgents = {1, 2}
    DxMaxEvents = 2
    DxMaxLives = 2
INVARIANTS
    
    
    ServicesAnswer
    TracesTold

    
CHECK_DEADLOCK FALSE
