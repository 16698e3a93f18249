----------------------------- MODULE ClusterHealth -----------------------------
(***************************************************************************)
(* The ClusterHealth kind:                                                 *)
(* src/internal/controller/clusterhealth/clusterhealth.go.                 *)
(*                                                                         *)
(* A ClusterHealth is a gate: it is Ready once the cluster was checked and *)
(* found healthy.  Observe asks the kubelet of every node, one call after  *)
(* the other, or lets a control-plane node check the whole cluster and     *)
(* reads its progress from a stream.  Everything it finds it writes into   *)
(* the status; the other handlers do nothing.  Messages and times, which   *)
(* nothing reads, are left out.                                            *)
(***************************************************************************)
EXTENDS Sequences, SequencesExt

CONSTANTS
    CRs,                \* ClusterHealth resources
    Nodes,
    ControlPlaneNodes,  \* spec.forProvider.controlPlaneNodes of each resource
    WorkerNodes,        \* spec.forProvider.workerNodes
    Kubernetes,         \* what the full check checks besides the kubelets
    Specs,              \* the specs a resource may have, a subset of SpecType
    WriteRef,           \* resources with a spec.writeConnectionSecretToRef: an empty Secret
    NoSecret,
    NoDetails,
    Env                 \* faults allowed: ManagedReconciler's, "rpcError" and "outage"

\* spec.skipKubernetesChecks, and whether the spec and its credentials are complete
\* and can be parsed.
SpecType == [skip : BOOLEAN, valid : BOOLEAN]

ASSUME ClusterHealthAssumption ==
    /\ ControlPlaneNodes \in [CRs -> Seq(Nodes)]
    /\ WorkerNodes \in [CRs -> Seq(Nodes)]
    /\ Kubernetes \notin Nodes
    /\ Specs \subseteq SpecType
    /\ WriteRef \subseteq CRs
    /\ NoDetails # NoSecret

VARIABLES api, cache, conn, connCache, pc, mem, base, obs,
    spec,     \* the spec of each resource, which does not change
    serving,  \* the nodes whose kubelet serves, and Kubernetes when it does
    left,     \* the nodes a worker has still to ask
    seen      \* history: what has served at some moment of the last check

Status == [healthy : BOOLEAN]

InitStatus == [healthy |-> FALSE]

INSTANCE ManagedReconciler

clusterVars == <<spec, serving, left, seen>>

vars == <<api, cache, conn, connCache, pc, mem, base, obs, spec, serving, left, seen>>

Parts == Nodes \cup {Kubernetes}

AllNodes(c) == ControlPlaneNodes[c] \o WorkerNodes[c]

\* What has to serve for c to be healthy.
Checked(c) == ToSet(AllNodes(c)) \cup (IF spec[c].skip THEN {} ELSE {Kubernetes})

----------------------------------------------------------------------------
(* The cluster *)

Checking(c) == pc[c] \in {"checkNodes", "stream"}

\* A kubelet, or Kubernetes, starts or stops to serve.
Toggle(part) ==
    /\ part \in serving => "outage" \in Env
    /\ serving' = IF part \in serving THEN serving \ {part} ELSE serving \cup {part}
    /\ seen' = [c \in CRs |->
          IF Checking(c) THEN seen[c] \cup (serving' \cap Checked(c)) ELSE seen[c]]
    /\ UNCHANGED <<api, cache, conn, connCache, pc, mem, base, obs, spec, left>>

Info(state, health) == [state |-> state, health |-> health]

\* The answers to ServiceInfo("kubelet"); a call that fails answers nothing.
Replies(n) ==
    (IF n \in serving THEN {<<Info("Running", "healthy")>>}
     ELSE {<<>>, <<Info("Running", "none")>>, <<Info("Running", "unhealthy")>>,
           <<Info("Finished", "healthy")>>})
    \cup (IF "rpcError" \in Env THEN {<<>>} ELSE {})

----------------------------------------------------------------------------
(* The handlers *)

ConnectFails(c) ==
    /\ "connectError" \in Env
    /\ pc[c] = "observe"
    /\ Fail(c, "status")
    /\ UNCHANGED <<cache, connCache, clusterVars>>

ObservedWithoutUnavailable(object, healthy) ==
    [object EXCEPT !.status.healthy = healthy, !.ready = IF healthy THEN "true" ELSE @]

ObservedOnce(object, healthy) ==
    IF object.status.healthy THEN object
    ELSE [object EXCEPT !.status.healthy = healthy, !.ready = IF healthy THEN "true" ELSE "false"]

Observed(object, healthy) ==
    [object EXCEPT !.status.healthy = healthy, !.ready = IF healthy THEN "true" ELSE "false"]

ExistsWhenHealthy(healthy) == [exists |-> healthy, upToDate |-> healthy, details |-> NoDetails]

Observation(healthy) == [exists |-> TRUE, upToDate |-> healthy, details |-> NoDetails]

Verdict(c, healthy) ==
    /\ ObserveReturns(c, Observed(mem[c], healthy), Observation(healthy))
    /\ left' = [left EXCEPT ![c] = <<>>]
    /\ UNCHANGED <<spec, serving, seen>>

NodesToAsk(c) == ControlPlaneNodes[c]

\* The nodes asked when the Kubernetes checks are skipped.
AskedNodes(c) == AllNodes(c)

\* A spec that is not valid is an error, stored like a verdict; a client that cannot
\* be made or a stream that cannot be opened is a verdict.
Observe(c) ==
    /\ pc[c] = "observe"
    /\ \/ /\ ~spec[c].valid
          /\ mem' = [mem EXCEPT ![c] = Observed(@, FALSE)]
          /\ Goto(c, "status")
          /\ UNCHANGED <<api, cache, conn, connCache, base, obs, clusterVars>>
       \/ /\ spec[c].valid /\ "rpcError" \in Env
          /\ Verdict(c, FALSE)
       \/ /\ spec[c].valid
          /\ Goto(c, IF spec[c].skip THEN "checkNodes" ELSE "stream")
          /\ left' = [left EXCEPT ![c] = IF spec[c].skip THEN AskedNodes(c) ELSE <<>>]
          /\ seen' = [seen EXCEPT ![c] = serving \cap Checked(c)]
          /\ UNCHANGED <<api, cache, conn, connCache, mem, base, obs, spec, serving>>

KubeletServes(infos) ==
    infos # <<>> /\ \A info \in ToSet(infos) : info.state = "Running" /\ info.health = "healthy"

\* One call, to the next node.
CheckNodeServices(c) ==
    /\ pc[c] = "checkNodes"
    /\ \/ left[c] = <<>> /\ Verdict(c, TRUE)
       \/ /\ left[c] # <<>>
          /\ \E infos \in Replies(Head(left[c])) :
                \/ /\ KubeletServes(infos)
                   /\ left' = [left EXCEPT ![c] = Tail(@)]
                   /\ UNCHANGED <<api, cache, conn, connCache, pc, mem, base, obs, spec, serving, seen>>
                \/ ~KubeletServes(infos) /\ Verdict(c, FALSE)

AskedNext(c, n) == left[c] # <<>> /\ Head(left[c]) = n

\* How the stream can end.  This is what the code assumes of Talos, which is no part
\* of the repository: the node closes the stream when all its checks have passed, one
\* after the other, and breaks it off when one has not in time.
StreamEnds(c) ==
    (IF Checked(c) \subseteq seen[c] THEN {"EOF"} ELSE {})
    \cup (IF Checked(c) \subseteq serving /\ "rpcError" \notin Env THEN {} ELSE {"error"})

EOFIsHealthy(end) == end = "EOF"

CheckFullClusterHealth(c) ==
    /\ pc[c] = "stream"
    /\ \E end \in StreamEnds(c) : Verdict(c, EOFIsHealthy(end))

\* Create is no action: a ClusterHealth always exists, and TypeOK checks that the
\* loop never gets to it.  Update and Delete do nothing.
Update(c) == pc[c] = "update" /\ UpdateReturns(c, mem[c], NoDetails) /\ UNCHANGED clusterVars

Delete(c) == pc[c] = "delete" /\ DeleteReturns(c) /\ UNCHANGED clusterVars

----------------------------------------------------------------------------
(* The specification *)

Init ==
    /\ ReconcilerInit
    /\ spec \in [CRs -> Specs]
    /\ serving \in SUBSET Parts
    /\ left = [c \in CRs |-> <<>>]
    /\ seen = [c \in CRs |-> {}]

\* One step of the worker that reconciles c, as Setup assembles it.
Reconcile(c) ==
    \/ ReconcileStep(c) /\ UNCHANGED clusterVars
    \/ ConnectFails(c)
    \/ Observe(c)
    \/ CheckNodeServices(c)
    \/ CheckFullClusterHealth(c)
    \/ Update(c)
    \/ Delete(c)

CrashChecks ==
    /\ Crash
    /\ left' = [c \in CRs |-> <<>>]
    /\ UNCHANGED <<spec, serving, seen>>

Next ==
    \/ \E c \in CRs : Reconcile(c)
    \/ \E c \in CRs : (CacheSync(c) \/ ConnSync(c) \/ RequestDelete(c)) /\ UNCHANGED clusterVars
    \/ CrashChecks
    \/ Start /\ UNCHANGED clusterVars
    \/ \E part \in Parts : Toggle(part)

Spec == Init /\ [][Next]_vars

\* The queue keeps handing the resource to a worker, the informers catch up, and
\* neither Connect nor the calls to a cluster that serves nor the status write
\* fail every time.
Fairness ==
    \A c \in CRs :
        /\ WF_vars(Reconcile(c))
        /\ WF_vars(CacheSync(c) /\ UNCHANGED clusterVars)
        /\ WF_vars(ConnSync(c) /\ UNCHANGED clusterVars)
        /\ SF_vars(Observe(c) /\ (spec[c].valid => pc'[c] \in {"checkNodes", "stream"}))
        /\ \A n \in Nodes : SF_vars(AskedNext(c, n) /\ CheckNodeServices(c)
                                     /\ (n \in serving => pc'[c] = "checkNodes"))
        /\ SF_vars(CheckFullClusterHealth(c) /\ mem'[c].status.healthy)

FairSpec == Spec /\ Fairness

----------------------------------------------------------------------------
(* Properties *)

Object == [life : {"live", "deleting", "gone"}, finalizer : BOOLEAN,
           latest : {"none", "pending", "succeeded", "failed"},
           succeeded : BOOLEAN, ready : {"none", "true", "false"}, status : Status]

\* Every variable has its type; in particular the loop never creates anything.
TypeOK ==
    /\ api \in [CRs -> Object]
    /\ cache \in [CRs -> Object]
    /\ mem \in [CRs -> Object]
    /\ base \in [CRs -> Object]
    /\ obs \in [CRs -> [exists : BOOLEAN, upToDate : BOOLEAN, details : {NoDetails}]]
    /\ conn \in [CRs -> {NoSecret, NoDetails}]
    /\ connCache \in [CRs -> {NoSecret, NoDetails}]
    /\ pc \in [CRs -> (Labels \ {"pending", "create", "created", "failed", "publishCreated"})
                         \cup {"checkNodes", "stream"}]
    /\ spec \in [CRs -> Specs]
    /\ serving \subseteq Parts
    /\ left \in [CRs -> Seq(Nodes)]
    /\ seen \in [CRs -> SUBSET Parts]

\* Two fields say the same to different readers: what waits for the Ready condition
\* does not get past a cluster whose status calls it unhealthy, as long as object
\* writes fail only for conflicts and what Observe returns is published
\* (EmptyIsPublished).  A Ready that was stored before the finalizer can be decoded
\* over the verdict of a later check, and the status not with it.
ReadyMeansHealthy == \A c \in CRs : api[c].ready = "true" => api[c].status.healthy

\* The gate opens only after a check in which every kubelet, and Kubernetes unless
\* its checks are skipped, was found to serve.  The calls are made one after the
\* other: nothing says that all served at the same time.
OpensOnlyAfterCheck ==
    [][\A c \in CRs : api[c].ready # "true" /\ api'[c].ready = "true"
          => Checked(c) \subseteq seen[c]]_vars

\* While the provider stays up, the gate of a cluster that is well for good is open
\* again and again, unless somebody deletes the resource.
EventuallyOpen ==
    \A c \in CRs :
        <>[](spec[c].valid /\ Checked(c) \subseteq serving /\ ~Down(c))
            => []<>(api[c].ready = "true" \/ api[c].life # "live")

\* And when one node, or Kubernetes, is out for good, the gate closes for good.
EventuallyClosed ==
    \A c \in CRs : \A part \in Parts :
        <>[](part \in Checked(c) /\ part \notin serving /\ api[c].life # "gone" /\ ~Down(c))
            => <>[](api[c].ready # "true")
===============================================================================
