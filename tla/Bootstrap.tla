------------------------------ MODULE Bootstrap ------------------------------
(***************************************************************************)
(* The Bootstrap kind: src/internal/controller/bootstrap/bootstrap.go.     *)
(*                                                                         *)
(* A Bootstrap asks one Talos node to initialise etcd, a call that must    *)
(* not be made again once it was answered, and becomes Ready when a probe  *)
(* of the node's etcd service says it is healthy.  The handlers run inside *)
(* the loop of ManagedReconciler, interleaved with the node, with other    *)
(* Bootstraps of the same node and with the faults Env allows.             *)
(***************************************************************************)
EXTENDS Naturals

CONSTANTS
    CRs,        \* Bootstrap resources
    Nodes,      \* Talos control plane nodes
    NodeOf,     \* spec.forProvider.node of each resource
    WriteRef,   \* resources with a spec.writeConnectionSecretToRef: an empty Secret
    NoSecret,
    NoDetails,
    Env,        \* faults allowed: ManagedReconciler's and BootstrapHazards
    MaxNow      \* bound on the clock

BootstrapHazards == {"rpcError", "lostReply", "etcdDown", "outside"}

ASSUME BootstrapAssumption ==
    /\ NodeOf \in [CRs -> Nodes]
    /\ WriteRef \subseteq CRs
    /\ NoDetails # NoSecret
    /\ MaxNow \in Nat \ {0}

VARIABLES api, cache, conn, connCache, pc, mem, base, obs,
    etcd,           \* the phase of etcd on each node
    acknowledged,   \* history: resources whose Bootstrap call returned no error
    now             \* the clock metav1.Now reads; 0 is a nil time

\* BootstrapObservation before any probe succeeded.
InitStatus == [bootstrapped |-> FALSE, bootstrapTime |-> 0]

INSTANCE ManagedReconciler

vars == <<api, cache, conn, connCache, pc, mem, base, obs, etcd, acknowledged, now>>

nodeVars == <<etcd, acknowledged, now>>

----------------------------------------------------------------------------
(* The Talos node *)

Phases == {"waiting", "starting", "healthy", "down"}

\* What ServiceInfo("etcd") reports.  message and event say whether the last
\* health message or the event history asks for "talosctl bootstrap".
Report == [state : {"Preparing", "Running"},
           health : {"absent", "unknown", "failing", "passing"},
           message : BOOLEAN, event : BOOLEAN]

\* The reports a node can give in each phase: before the bootstrap it asks for
\* it; afterwards the request is gone, at the latest from the last message.
Reports(phase) ==
    CASE phase = "waiting" -> {r \in Report : r.message \/ r.event}
      [] phase = "healthy" -> {r \in Report : /\ r.state = "Running"
                                              /\ r.health = "passing"
                                              /\ ~r.message}
      [] OTHER -> {r \in Report : r.state # "Running" \/ r.health # "passing"}

\* No report at all: the client cannot be built, the call fails or takes longer
\* than two seconds, or the answer is empty.
ServiceInfo(n) == {{}} \cup {{r} : r \in Reports(etcd[n])}

IgnoringEvents(r) == r.state = "Running" /\ r.health = "passing" /\ ~r.message

IsHealthyEtcdService(r) ==
    /\ r.state = "Running"
    /\ r.health = "passing"
    /\ ~r.message
    /\ ~r.event

IsBootstrappedHealthy(services) == \E r \in services : IsHealthyEtcdService(r)

\* The answers the probe of c's node can come back with now.
Probe(c) == {IsBootstrappedHealthy(services) : services \in ServiceInfo(NodeOf[c])}

EtcdStep(n) ==
    /\ \/ etcd[n] \in {"starting", "down"} /\ etcd' = [etcd EXCEPT ![n] = "healthy"]
       \/ /\ "etcdDown" \in Env
          /\ etcd[n] = "healthy"
          /\ etcd' = [etcd EXCEPT ![n] = "down"]
       \/ /\ "outside" \in Env       \* somebody runs talosctl bootstrap
          /\ etcd[n] = "waiting"
          /\ etcd' = [etcd EXCEPT ![n] = "starting"]
    /\ UNCHANGED <<api, cache, conn, connCache, pc, mem, base, obs, acknowledged, now>>

Tick ==
    /\ now < MaxNow
    /\ now' = now + 1
    /\ UNCHANGED <<api, cache, conn, connCache, pc, mem, base, obs, etcd, acknowledged>>

----------------------------------------------------------------------------
(* The handlers *)

IgnoringAnnotation(object) == FALSE

HasSuccessfulExternalCreate(object) == object.succeeded

MarkedWithoutTime(object) ==
    [object EXCEPT !.status.bootstrapped = TRUE, !.ready = "true"]

MarkBootstrapped(object) ==
    [object EXCEPT !.status = [bootstrapped |-> TRUE, bootstrapTime |-> now],
                   !.ready = "true"]

\* Connect: tracking the usage, the ProviderConfig or its credentials fail.
ConnectFails(c) ==
    /\ "connectError" \in Env
    /\ pc[c] = "observe"
    /\ Fail(c, "status")
    /\ UNCHANGED <<cache, connCache, nodeVars>>

KnownBootstrapped(object) ==
    HasSuccessfulExternalCreate(object) \/ object.status.bootstrapped

ObservedWithoutUnavailable(object, healthy) ==
    IF healthy THEN MarkBootstrapped(object) ELSE object

ObservedMarkingOnce(object, healthy) ==
    IF healthy /\ ~KnownBootstrapped(object) THEN MarkBootstrapped(object)
    ELSE IF KnownBootstrapped(object) /\ ~healthy THEN [object EXCEPT !.ready = "false"]
    ELSE object

ObservedFromRecords(object, healthy) ==
    IF healthy \/ HasSuccessfulExternalCreate(object) THEN MarkBootstrapped(object)
    ELSE IF KnownBootstrapped(object) THEN [object EXCEPT !.ready = "false"]
    ELSE object

Observed(object, healthy) ==
    IF healthy THEN MarkBootstrapped(object)
    ELSE IF KnownBootstrapped(object) THEN [object EXCEPT !.ready = "false"]
    ELSE object

Observation(object, healthy) ==
    [exists |-> healthy \/ KnownBootstrapped(object), upToDate |-> healthy,
     details |-> NoDetails]

Observe(c) ==
    /\ pc[c] = "observe"
    /\ \E healthy \in Probe(c) :
          ObserveReturns(c, Observed(mem[c], healthy), Observation(mem[c], healthy))
    /\ UNCHANGED nodeVars

\* The Bootstrap call initialises an etcd that waits for it and is refused with
\* AlreadyExists by any other.  It may fail without effect, and an answer may
\* be lost.
Answers(n) ==
    (IF etcd[n] = "waiting" THEN {"ok"} ELSE {"alreadyExists"})
        \cup (IF "rpcError" \in Env THEN {"error"} ELSE {})
        \cup (IF "lostReply" \in Env THEN {"lost"} ELSE {})

IsBootstrapAlreadyExists(answer) == answer = "alreadyExists"

\* Create, up to the answer of the node.
Create(c) ==
    /\ pc[c] = "create"
    /\ \E answer \in Answers(NodeOf[c]) :
          /\ etcd' = IF answer \in {"ok", "lost"} /\ etcd[NodeOf[c]] = "waiting"
                     THEN [etcd EXCEPT ![NodeOf[c]] = "starting"] ELSE etcd
          /\ acknowledged' = IF answer = "ok" THEN acknowledged \cup {c} ELSE acknowledged
          /\ Goto(c, IF answer = "ok" THEN "verifyCreated"
                     ELSE IF IsBootstrapAlreadyExists(answer) THEN "verifyExists"
                     ELSE "failed")
    /\ UNCHANGED <<api, cache, conn, connCache, mem, base, obs, now>>

\* Create, after the node accepted: a healthy probe is a bonus.
VerifyCreated(c) ==
    /\ pc[c] = "verifyCreated"
    /\ \E healthy \in Probe(c) :
          CreateReturns(c, IF healthy THEN MarkBootstrapped(mem[c]) ELSE mem[c], NoDetails)
    /\ UNCHANGED nodeVars

VerifyNothing(c) ==
    pc[c] = "verifyExists" /\ CreateReturns(c, mem[c], NoDetails) /\ UNCHANGED nodeVars

\* Create, after AlreadyExists: only a healthy probe makes it a success.
VerifyExists(c) ==
    /\ pc[c] = "verifyExists"
    /\ \/ TRUE \in Probe(c) /\ CreateReturns(c, MarkBootstrapped(mem[c]), NoDetails)
       \/ /\ FALSE \in Probe(c)
          /\ Fail(c, "failed")
          /\ UNCHANGED <<cache, connCache>>
    /\ UNCHANGED nodeVars

\* Update and Delete change nothing on the node.
Update(c) == pc[c] = "update" /\ UpdateReturns(c, mem[c], NoDetails) /\ UNCHANGED nodeVars

Delete(c) == pc[c] = "delete" /\ DeleteReturns(c) /\ UNCHANGED nodeVars

----------------------------------------------------------------------------
(* The specification *)

Init ==
    /\ ReconcilerInit
    /\ etcd = [n \in Nodes |-> "waiting"]
    /\ acknowledged = {}
    /\ now = 1

\* One step of the worker that reconciles c, as Setup assembles it.
Reconcile(c) ==
    \/ ReconcileStep(c) /\ UNCHANGED nodeVars
    \/ ConnectFails(c)
    \/ Observe(c)
    \/ Create(c)
    \/ VerifyCreated(c)
    \/ VerifyExists(c)
    \/ Update(c)
    \/ Delete(c)

Next ==
    \/ \E c \in CRs : Reconcile(c)
    \/ EnvironmentStep /\ UNCHANGED nodeVars
    \/ \E n \in Nodes : EtcdStep(n)
    \/ Tick

Spec == Init /\ [][Next]_vars

\* The controller's queue keeps handing the resource to a worker (watch events
\* and the poll interval), the informers catch up, and neither Connect nor the
\* probe of a healthy node nor the status write, whatever the probe found, fails every
\* time.
Fairness ==
    \A c \in CRs :
        /\ WF_vars(Reconcile(c))
        /\ WF_vars(CacheSync(c) /\ UNCHANGED nodeVars)
        /\ WF_vars(ConnSync(c) /\ UNCHANGED nodeVars)
        /\ SF_vars(Observe(c))
        /\ SF_vars(Observe(c) /\ obs'[c].upToDate)
        /\ \A found \in BOOLEAN :
               SF_vars(WriteStatus(c) /\ obs[c].exists /\ obs[c].upToDate = found
                                      /\ UNCHANGED nodeVars)

FairSpec == Spec /\ Fairness

----------------------------------------------------------------------------
(* Properties *)

\* The flag and the time are set together.
Status == [bootstrapped : {FALSE}, bootstrapTime : {0}]
              \cup [bootstrapped : {TRUE}, bootstrapTime : 1..MaxNow]

Object == [life : {"live", "deleting", "gone"}, finalizer : BOOLEAN,
           latest : {"none", "pending", "succeeded", "failed"},
           succeeded : BOOLEAN, ready : {"none", "true", "false"}, status : Status]

Obs == [exists : BOOLEAN, upToDate : BOOLEAN, details : {NoDetails}]

\* Every variable has its type.
TypeOK ==
    /\ api \in [CRs -> Object]
    /\ cache \in [CRs -> Object]
    /\ mem \in [CRs -> Object]
    /\ base \in [CRs -> Object]
    /\ obs \in [CRs -> Obs]
    /\ conn \in [CRs -> {NoSecret, NoDetails}]
    /\ connCache \in [CRs -> {NoSecret, NoDetails}]
    /\ pc \in [CRs -> Labels \cup {"verifyCreated", "verifyExists"}]
    /\ etcd \in [Nodes -> Phases]
    /\ acknowledged \subseteq CRs
    /\ now \in 1..MaxNow

\* The "non-idempotent Talos bootstrap call" (bootstrap.go:172) is never made
\* again for a resource once a call was answered without error, whatever the
\* caches, crashes and lost writes in between.
NoSecondBootstrap == \A c \in CRs : pc[c] = "create" => c \notin acknowledged

\* status.bootstrapped is stored only for a node whose etcd has been healthy
\* since the bootstrap: no report of a waiting or starting etcd passes the probe.
BootstrappedWasHealthy ==
    \A c \in CRs : api[c].status.bootstrapped => etcd[NodeOf[c]] \in {"healthy", "down"}

\* A create is recorded as successful only when the node answered this resource's
\* call without error or, after AlreadyExists, when etcd was found healthy.
RecordedCreateHappened ==
    \A c \in CRs : api[c].succeeded =>
        c \in acknowledged \/ etcd[NodeOf[c]] \in {"healthy", "down"}

\* Ready turns true only in a reconcile whose own probe found etcd healthy, under all
\* faults: not from the annotation or the flag of an earlier success, not at the end of
\* Create, and not from a stale copy or a response decoded over the object.
ReadyIsRaisedByProbe ==
    [][\A c \in CRs :
          WriteStatus(c) /\ api'[c].ready = "true" =>
              obs[c].upToDate \/ api[c].ready = "true"]_vars

\* An unhealthy etcd takes Ready away at once: a reconcile whose probe did not find it
\* healthy stores no Ready=True, unless it never got to the probe and leaves what was
\* stored.  This holds as long as object writes fail only for conflicts and what Observe
\* returns is published (EmptyIsPublished).  When the publication or the finalizer
\* update fails, Ready=True is stored without the finalizer, and the response to the
\* next finalizer update puts it over the False of the probe.
ReadyFollowsProbe ==
    [][\A c \in CRs :
          WriteStatus(c) /\ api'[c].ready = "true" =>
              obs[c].upToDate \/ (obs[c] = NoObs /\ api[c].ready = "true")]_vars

\* And when the two conditions do not hold, what a response brought back does not stay:
\* while the provider is up, an etcd that is not healthy for good takes Ready away for
\* good, whatever publications and writes fail on the way.
OutageTakesReadyAway ==
    \A c \in CRs :
        <>[](etcd[NodeOf[c]] # "healthy" /\ api[c].life # "gone" /\ ~Down(c))
            => <>[](api[c].ready # "true")

\* While etcd stays healthy and the provider stays up, a resource nobody deletes
\* is Ready again and again, unless a create whose outcome was never recorded
\* blocks it.
EventuallyReady ==
    \A c \in CRs :
        <>[](etcd[NodeOf[c]] = "healthy" /\ api[c].life = "live" /\ ~Down(c))
            => []<>(api[c].ready = "true" \/ Blocked(c))

----------------------------------------------------------------------------
(* The abstract specification *)

\* The external-create annotations are the log of OneShot.
Promise == INSTANCE OneShot WITH
    Calls <- CRs, Targets <- Nodes, TargetOf <- NodeOf,
    log <- [c \in CRs |-> api[c].latest],
    logged <- {c \in CRs : api[c].succeeded},
    answered <- acknowledged,
    up <- {n \in Nodes : etcd[n] \in {"healthy", "down"}}

\* Through all caches, crashes, lost writes and answers, what the API server and the
\* nodes hold changes only as OneShot allows: intent, call, outcome.
KeepsThePromise == Promise!Spec
============================================================================
