CONSTANTS
    c1 = c1
    CRs = {c1}
    WriteRef = {c1}
    Valid = {c1}
    MaxBundles = 2
    NoSecret = NoSecret
    Env <- FaultyEnv
SPECIFICATION FairSpec
INVARIANTS
    TypeOK
    StatusNotAhead
PROPERTIES
    NeverBackwards
    EventuallyCurrent
