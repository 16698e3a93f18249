CONSTANTS
    c1 = c1
    n1 = n1
    k1 = k1
    CRs = {c1}
    Machines <- OneMachine
    MachineOf <- OneMachineOf
    Specs <- LiveSpecs
    Configs = {k1}
    NoConfig = NoConfig
    WriteRef = {c1}
    NoSecret = NoSecret
    NoDetails = NoDetails
    Env <- FairEnv
SPECIFICATION FairSpec
INVARIANTS
    AppliedMeansConfigured
    UnreachableNotReady
PROPERTIES
    EventuallyApplied
    RunningIsReportedWithCredentials
