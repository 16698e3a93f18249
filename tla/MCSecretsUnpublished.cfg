CONSTANTS
    c1 = c1
    c2 = c2
    c3 = c3
    CRs = {c1}
    WriteRef = {c1}
    BadVersion = {}
    NoSecret = NoSecret
    NoDetails = NoDetails
    Env <- PublishEnv
    MaxBundles = 2
SPECIFICATION Spec
INVARIANT GeneratedMeansPublished
