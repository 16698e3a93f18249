CONSTANTS
    c1 = c1
    c2 = c2
    c3 = c3
    CRs = {c1}
    WriteRef = {c1}
    BadVersion = {}
    NoSecret = NoSecret
    NoDetails = NoDetails
    Env <- DeleteEnv
    MaxBundles = 1
SPECIFICATION FairSpec
PROPERTY DeletionCompletes
CHECK_DEADLOCK FALSE
