CONSTANTS
    c1 = c1
    n1 = n1
    CRs = {c1}
    Nodes <- OneNode
    NodeOf <- OneNodeOf
    WriteRef = {c1}
    NoSecret = NoSecret
    NoDetails = NoDetails
    Env <- FaultyEnv
    MaxNow = 1
SPECIFICATION Spec
INVARIANTS
    TypeOK
    NoSecondBootstrap
    OneCaller
PROPERTY KeepsThePromise
