CONSTANTS
    c1 = c1
    n1 = n1
    n2 = n2
    CRs = {c1}
    Nodes = {n1, n2}
    ControlPlaneNodes <- ControlPlane
    WorkerNodes <- Workers
    Kubernetes = Kubernetes
    Specs <- AllSpecs
    WriteRef = {c1}
    NoSecret = NoSecret
    NoDetails = NoDetails
    Env <- FaultyEnv
SPECIFICATION FairSpec
INVARIANTS
    TypeOK
    ReadyMeansHealthy
PROPERTIES
    OpensOnlyAfterCheck
    EventuallyOpen
    EventuallyClosed
