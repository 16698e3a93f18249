CONSTANTS
    c1 = c1
    n1 = n1
    CRs = {c1}
    Nodes <- OneNode
    NodeOf <- OneNodeOf
    WriteRef = {c1}
    NoSecret = NoSecret
    NoDetails = NoDetails
    Env <- EveryEnv
    MaxNow = 2
SPECIFICATION FairSpec
INVARIANTS
    TypeOK
    NoSecondBootstrap
    BootstrappedWasHealthy
    RecordedCreateHappened
PROPERTIES
    KeepsThePromise
    ReadyIsRaisedByProbe
    OutageTakesReadyAway
    EventuallyReady
CHECK_DEADLOCK FALSE
