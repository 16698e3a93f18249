CONSTANTS
    c1 = c1
    n1 = n1
    k1 = k1
    CRs = {c1}
    Machines <- OneMachine
    MachineOf <- OneMachineOf
    Specs <- FaultySpecs
    Configs = {k1}
    NoConfig = NoConfig
    WriteRef = {c1}
    NoSecret = NoSecret
    NoDetails = NoDetails
    Env <- FaultyEnv
SPECIFICATION Spec
INVARIANTS
    TypeOK
    AppliedOnce
PROPERTY KeepsThePromise
CHECK_DEADLOCK FALSE
