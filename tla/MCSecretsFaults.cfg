CONSTANTS
    c1 = c1
    c2 = c2
    c3 = c3
    CRs = {c1, c2, c3}
    WriteRef = {c1, c3}
    BadVersion = {c3}
    NoSecret = NoSecret
    NoDetails = NoDetails
    Env <- FaultyEnv
    MaxBundles = 2
SPECIFICATION FairSpec
INVARIANTS
    TypeOK
    GeneratedMeansPublished
    HashMatchesSecret
    PublishedFormsAgree
PROPERTIES
    RecordedBundleIsFinal
    EventuallyPublished
CHECK_DEADLOCK FALSE
