CONSTANTS
    c1 = c1
    k1 = k1
    k2 = k2
    CRs = {c1}
    WriteRef = {c1}
    Configs = {k1, k2}
    Garbage = Garbage
    NoConfig = NoConfig
    NoSecret = NoSecret
    Env <- FaultyEnv
SPECIFICATION FairSpec
INVARIANT TypeOK
PROPERTIES
    KubeconfigKept
    EventuallyServed
CHECK_DEADLOCK FALSE
