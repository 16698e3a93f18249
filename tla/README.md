# provider-talos in TLA+

A verification project for the Crossplane provider for Talos Linux: TLA+ models of
its controllers, TLC runs that check them on small instances, and TLAPS proofs of the
results that should hold for every instance.

* [The system](#the-system)
* [The models](#the-models)
* [The runs](#the-runs)
* [What the runs found](#what-the-runs-found)
* [Fairness](#fairness)
* [The proofs](#the-proofs)
* [What is not modelled](#what-is-not-modelled)
* [Plan](#plan)

## The system

The provider is one process, or several: leader election is off by default
(`main.go:59`), so that two replicas, or the old and the new process of a rolling update,
work at once. `cmd/provider/main.go` builds a controller-runtime manager,
and `internal/controller/talos.go` registers one controller per kind with it. Every
managed kind has the same shape: `Setup` builds crossplane-runtime's `managed.Reconciler`,
`Connect` records the use of the ProviderConfig and reads its credentials (which no kind
uses afterwards), and the kind's `external` implements `Observe`, `Create`, `Update` and
`Delete`. The process keeps no state of its own: everything is in the custom resources,
in connection Secrets and on the Talos machines.

| part | state | operations | what is hard |
| --- | --- | --- | --- |
| reconcile loop (crossplane-runtime) | annotations `external-create-*`, finalizer, conditions, connection Secret | observe, publish, create, update, delete, in up to seven API writes per reconcile | stale informer caches, version conflicts, a crash between any two writes, writes overwritten by the decoding of an API response |
| `bootstrap` | `status.atProvider.{bootstrapped,bootstrapTime}`, Ready | probes etcd (2 s), calls `Bootstrap` | a call that must not be repeated; lost answers; etcd that is down or was bootstrapped by others; two resources for one node |
| `secrets` | `generated`, three hashes, connection Secret | generates the bundle **in Observe**, reloads it from the Secret later | two writes (Secret, then status) that have to agree; immutability; deletion |
| `configuration` | rendered configuration, hash, connection Secret | renders in every Observe, from the Secret of a `Secrets` | an input that changes under it |
| `configurationapply` | `applied`, `machineState`, Ready | probes the machine insecurely, then with credentials; sends the configuration | machines that reboot between two probes; answers lost in the reboot; configurations that vanish; machines that are reset |
| `kubeconfig` | connection Secret, parsed copy in the status | existence is read from the Secret; retrieves from the node | keys damaged or removed by users; a status that Create cannot set |
| `clusterhealth` | verdict and message in the status | full health stream or kubelet checks, 15 s | a partial stream; many nodes |
| `factoryschematic` | none | a scaffold | nothing |
| `config` (ProviderConfig) | usage count | crossplane-runtime's reconciler | none of its own code |

The parts interact through Kubernetes objects only. A `Configuration` reads the
connection Secret of a `Secrets`; a `ConfigurationApply` reads a Secret that may be the
connection Secret of a `Configuration`; `Bootstrap`, `ClusterHealth` and `Kubeconfig` talk
to machines a `ConfigurationApply` configured. Within one process a resource
is reconciled by one worker at a time; replicas, the resources of one kind, different kinds and
users run concurrently.

What makes each part correct:

* **Bootstrap**: an answered bootstrap call is never repeated, also not by another replica; nothing is recorded that
  did not happen; only a probe that finds etcd healthy turns Ready on, a lasting outage turns it off, and
  it comes back with etcd.
* **Secrets**: there is one bundle per resource; the status says *generated* only for a
  bundle that is published, with that bundle's hash; every form of it that is published
  says the same; deletion ends.
* **ConfigurationApply**: an answered configuration is not sent again; *applied* is true
  of the machine; an unreachable machine is not Ready; a waiting machine is served; a
  running one is reported.
* **Kubeconfig**: a published kubeconfig stays; Secret, status and Ready agree in the end.
* **Configuration**: Secret and status follow the bundle, the Secret first, and never go back to an
  older one.
* **ClusterHealth**: it is Ready only after every check of every node passed, and does
  not stay Ready when the cluster is not well.

`PROJECT.json` lists the hazards of this code with the line of each and the properties
that would catch it.

## The models

```
ManagedReconciler        the loop of every kind (crossplane-runtime)
  Bootstrap              its handlers, the node's etcd          MCBootstrap, BootstrapProofs
    BootstrapReplicas    two of them over one API server        MCBootstrapReplicas, BootstrapReplicasProofs
    OneShot              the abstract promise of Bootstrap,
                         its replicas and ConfigurationApply
  Secrets                its handlers, the bundles              MCSecrets, SecretsProofs
    MachineSecrets       the forms a bundle is published in     MachineSecretsProofs
  ConfigurationApply     its handlers, the machine              MCConfigurationApply, ConfigurationApplyProofs
    MachineConfiguration inline configurations, their document
  Kubeconfig             its handlers, edits of the Secret      MCKubeconfig, KubeconfigProofs
  Configuration          its handlers, the Secrets it reads     MCConfiguration, ConfigurationProofs
  ClusterHealth          its handlers, the cluster              MCClusterHealth, ClusterHealthProofs
```

**ManagedReconciler** is the only module about code outside the repository. It follows
`managed.Reconciler` as the `Setup` functions configure it. Its state:

| variable | stands for |
| --- | --- |
| `api`, `conn` | the custom resources and connection Secrets in the API server |
| `cache`, `connCache` | the informer's copies, which a reconcile reads |
| `pc` | where the reconcile of each resource stands |
| `mem` | the Go object the reconcile works on |
| `base` | the resource version a write of that object is based on |
| `obs` | what the handler returned |

A kind's module instantiates it and adds its own handlers, each an action that hands
the control back with `ObserveReturns`, `CreateReturns`, ... A resource is a record
of its life (live, deleting, gone), its finalizer, the latest `external-create-*`
annotation (`latest`), whether `external-create-succeeded` was ever set (`succeeded`),
its Ready condition and the kind's `status`. The parts of the loop that matter most:

* `SetPending`, `RecordSucceeded`, `RecordFailed`: the annotations around Create. A
  reconcile that begins with `latest = "pending"` stops at once (`Begin`, `Blocked`).
* `Decoded`: the response to an update is decoded into the same Go object, so a status
  set in memory and not yet stored can be replaced by the stored one. Which fields
  survive depends on what the response carries; the model allows every outcome.
* `UpdateObject`, `WriteStatus`: a write is refused when the stored object has changed
  since it was read. Annotation updates are retried over a fresh copy (`Annotate`).
* `SecretApplied`: what publishing does to the Secret, given a cached copy of it. Every `Setup`
  installs the `APISecretPublisher`, and every spec inlines `writeConnectionSecretToRef` (`WriteRef`, the
  resources that have one): a kind without connection details publishes an empty Secret between
  Observe and the finalizer. That can fail, by an error of the API server or, with a lagging copy of
  the Secret, because it already exists (`PublishCanFail`), and the error path then stores
  what Observe has set without adding the finalizer. `EmptyIsPublished` is the condition under
  which an empty Secret is always published: nobody asks for one, or there are neither
  `publishError` nor `stale`.
* `Fail`, `LoseStatus`: every error ends in a status write, which can fail as well.
* `Crash`, `Start`: the process dies in the middle of some reconcile, all workers with it
  (`pc = "down"`), and is started again later; what changed in between is not seen until
  then, and the workers start with synced caches.

`Env`, a constant, names what may go wrong: `crash`, `stale` (a reconcile may begin with
old caches), `writeError`, `publishError`, `connectError`, `delete` (somebody deletes the
resource), and the hazards of each kind.

**Bootstrap** adds the etcd of each node (`waiting`, `starting`, `healthy`, `down`), the
reports its service API can give in each phase, the clock, and `acknowledged`, a
history variable: the resources whose call was answered without error. `Create` is two
actions, the call and the probe after it, so that crashes, the node and other resources
can come between.

**OneShot** says what Bootstrap and ConfigurationApply promise without saying how: each call has a log; an intent is
written before the call is made, a success only for a call that was answered or a target
that is at work anyway, a failure only for a call that was never answered. Whoever keeps
to this repeats no answered call (`NeverAgain`). `Bootstrap` instantiates it
(`Promise`): the `external-create-*` annotations in the API server are the log, a node
whose etcd was healthy is a target at work; caches, workers, status and clock are
hidden. `ConfigurationApply` instantiates it the same way, except that no machine is ever a
target at work (a success is recorded only for an answered call) and that the log has only the
resources whose configuration is `Complete`: what can be sent of an incomplete one is sent at every
reconcile, since Observe never finds it up to date.

**BootstrapReplicas** is the provider run twice: two instances of `Bootstrap` over the same
`api`, `conn`, `etcd`, `acknowledged` and `now`, each with its own caches and workers. What keeps
the second replica out of Create is one thing only, the version check when the pending
annotation is written (`UpdateObject`).

**Secrets** counts bundles: a bundle is a number, a hash the number of what was hashed.
The seven keys of the Secret and the three hashes change together in the code and are
one value here. `Create` and `Update` are not actions: Observe always answers that the
resource exists and is up to date, and the type invariant, which leaves their labels
out, checks that the loop never gets there. `lost` remembers Secrets that a user deleted. What the
number stands for is `Details`: `NewBundle` gives every field of the bundle a text of its own, and

**MachineSecrets**, a module of operators without state, makes the seven connection keys of it:
the raw bundle, the structured contract with its certificates in base64, and the three ways in
which the client's certificate is published. It also reads the structured form back
(`MachineSecretsToSecretsBundle`), as the Configuration controller does, and refuses what is
not base64 or what the Talos SDK finds invalid. A text is anything that can be compared;
base64 is a constructor, so that a missing or doubled encoding shows.

**ConfigurationApply** adds machines (maintenance, rebooting, running, with a current and
a staged configuration), the place each resource takes its configuration from, and the
call a worker has prepared. A machine can reboot or be reset between the probe of
Observe, the probe that chooses the connection (`PrepareApply`) and the call
(`ApplyConfiguration`). The spec of a resource (kind of credentials, apply mode, a complete or
incomplete reference, an inline configuration) is a variable that never changes, so that one run
covers several specs.

**MachineConfiguration**, again without state, has the types of an inline configuration, the fields
`hasValidMachineConfig` asks for, and `GenerateMachineConfigurationYAML`: the defaults, the sections that are
left out, and which machine gets the private key of the machine CA. The document is
the record a YAML parser reads of it.

**Kubeconfig** has no state beyond the loop's: the content of the Secret is the pair of the
kubeconfig key and the keys derived from it, and users may remove or damage either.
`Update` is unreachable as in Secrets.

**Configuration** reads a Secret that is not its own: `source` is the connection Secret of the
`Secrets`, with its two keys, `sourceCache` the provider's copy. A configuration is the number of
the bundle it was rendered from. Bundles are numbered in the order they are published,
so that "older" can be said.

**ClusterHealth** splits Observe where it waits: one action per call to a node
(`CheckNodeServices`, with the nodes still to ask in `left`), or one for the end of the
stream (`CheckFullClusterHealth`; the messages before it only change wording). Kubelets and
Kubernetes start and stop to serve at any time. `seen`, a history variable, remembers
what served at some moment of the last check.

The definitions carry the names of the Go functions; `PROJECT.json` maps each to its lines.
Operators that no specification uses (`IgnoringAnnotation`, `ObserveAgain`, `NodesToAsk`, ...) are
plausible wrong versions of the operator that follows them: with one of them in its
place the property named in `PROJECT.json` must fail, which shows that it can.

## The runs

| run | instance | bounds | shows |
| --- | --- | --- | --- |
| `bootstrap_faults` | 1 resource, 1 node, 2 replicas; crash, stale, writeError, lostReply, outside | `MaxNow = 1` | `NoSecondBootstrap`, `OneCaller`, `KeepsThePromise` |
| `bootstrap_live` | 1 resource; every fault | `MaxNow = 2` | `NoSecondBootstrap`, `BootstrappedWasHealthy`, `RecordedCreateHappened`, `KeepsThePromise`, `ReadyIsRaisedByProbe`, `OutageTakesReadyAway`, `EventuallyReady` |
| `secrets_faults` | 3 resources: with a Secret, without, with a bad version; crash, writeError, connectError, delete, secretLost | `MaxBundles = 2` | `GeneratedMeansPublished`, `HashMatchesSecret`, `PublishedFormsAgree`, `RecordedBundleIsFinal`, `EventuallyPublished` |
| `apply_faults` | 1 resource, 1 machine, 5 specs; every fault | 1 configuration by reference, 2 inline | `AppliedOnce`, `KeepsThePromise` |
| `apply_live` | 1 resource, 1 machine, 5 specs; crash, stale, connectError, rpcError, lostReply, reboot, sourceChanges | 1 configuration | `AppliedMeansConfigured`, `UnreachableNotReady`, `EventuallyApplied`, `RunningIsReportedWithCredentials` |
| `kubeconfig_faults` | 1 resource; crash, writeError, connectError, delete, rpcError, secretEdited | 2 kubeconfigs | `KubeconfigKept`, `EventuallyServed` |
| `configuration_faults` | 1 resource; crash, writeError, connectError, delete, replaced, sourceDamaged, secretLost | `MaxBundles = 2` | `StatusNotAhead`, `NeverBackwards`, `EventuallyCurrent` |
| `clusterhealth_faults` | 1 resource, 2 nodes, 3 specs; crash, stale, connectError, delete, rpcError, outage | none | `ReadyMeansHealthy`, `OpensOnlyAfterCheck`, `EventuallyOpen`, `EventuallyClosed` |
| `secrets_replaced` | 1 resource; crash | `MaxBundles = 2` | a violation of `BundleNeverReplaced` |
| `secrets_unpublished` | 1 resource; publishError | `MaxBundles = 2` | a violation of `GeneratedMeansPublished` |
| `secrets_deletion` | 1 resource; delete | `MaxBundles = 1` | a violation of `DeletionCompletes` |
| `apply_insecure` | 1 resource, insecure client configuration; no fault | 1 configuration | a violation of `RunningIsReported` |

Every module's `TypeOK` is checked in one of its runs. In all runs of `Bootstrap`, `ConfigurationApply` and
`ClusterHealth` the resource has a `writeConnectionSecretToRef`, so that an empty Secret is published.

Why the bounds are enough. Resources of one kind share only the process (a crash stops
all of them) and the node or machine; what another resource does to the node of a `Bootstrap` is
what `outside` does, and the proofs remove the bound: they hold for any number of resources on
one node or machine. Two replicas are every pair of processes that can be in conflict
over one resource; a third would meet the same version check. Handlers do not compare times, so one later clock value is enough to
see a time change. A second bundle or kubeconfig is what a replacement needs; nothing in
the code depends on how many there were, and `EventuallyPublished` excuses a run only
when the bundles of the model are used up. Configurations are never compared by the
code, so one stands for all those in a Secret, and one per machine type for the inline ones; whether a *changed* one should be sent is out of the code's sight
(see below). Nothing counts retries, so faults are not bounded.

Two nodes are enough for `ClusterHealth`: one that was asked before and one that is asked after
something changed. Its run, and `apply_live`, leave failing writes and failing publications out, because
`ReadyMeansHealthy` and `UnreachableNotReady` need that (see below); the theorems about the other
safety properties allow them.

`CHECK_DEADLOCK FALSE` stands where the system really may stop: a resource that was
deleted, at the last value of the clock, leaves nothing to do.

## What the runs found

Four statements of the code's own comments and documents are not what the code does.

1. *A bundle can be replaced* (`secrets_replaced`). "MachineSecrets are immutable"
   (`secrets.go:270`), but Observe generates whenever the stored status does not say
   Generated. The bundle is published first, the status stored last; a crash between
   makes the next reconcile publish another bundle over the first. Once the status is
   stored the bundle is final (`RecordedBundleIsFinal`, `secrets_faults`).
2. *Generated without a Secret* (`secrets_unpublished`). "Generated indicates machine secrets
   have been generated and published" (`secrets_types.go:114`), but Observe sets it before
   the publication, and a failing publication stores the status all the same. Every
   later Observe then fails to reload. With no failed publication the statement holds.
3. *Deletion never ends* (`secrets_deletion`). Delete relies on "the status will be cleared
   by the managed resource reconciler" (`secrets.go:281-283`); nothing clears it, Observe
   keeps answering that the resource exists, and the finalizer stays.
4. *An insecure client never sees its machine run* (`apply_insecure`). `machineState`
   "indicates the current state of the machine" (`configurationapply_types.go:72`) and README.md
   tells users to use `insecure` for maintenance mode; with it the credentials probe is
   skipped, and the machine that was configured stays Unreachable. With credentials the
   statement holds (`RunningIsReportedWithCredentials`, `apply_live`).

## Fairness

Safety properties are checked without fairness or hold regardless of it. The liveness
properties assume, in the `Fairness` of each module:

* weak fairness of a resource's reconcile and of the informers: controller-runtime's queue
  hands a resource to a worker after each watch event, after an error with back-off and
  otherwise after the poll interval (`main.go:62`);
* that the provider is up for good from some time on (the premise `<>[]~Down(c)`; a premise
  about `Crash` steps would not do, as dropping an unwritten status looks like a crash),
  and for `EventuallyServed` that users stop editing the Secret;
* strong fairness of those steps whose failure is a matter of the network or of other
  systems: Connect and Observe, a probe of a machine that could answer, the call to it,
  an API write. Each is retried in every reconcile, so the assumption is that it does
  not fail every single time. It is stated per step, and never for a step that the
  code itself would refuse. For the status write of `Bootstrap` it is stated per
  verdict of the probe, so that not all verdicts of one kind are lost. Failing publications need no
  fairness there: Ready is stored by the error path as well;
* weak fairness of a machine's boot.

No property needs a clock or a probability. Liveness is stated for resources nobody
deletes and with the exceptions the loop makes: a create whose outcome was never recorded
blocks its resource until somebody removes the annotation (`Blocked`).

## The proofs

Every theorem is for all values of the constants that the module's `ASSUME` admits: any
finite or infinite sets of resources, nodes, machines, specs and configurations, any bounds,
and any subset of the faults unless the theorem says otherwise. TLC checked each
invariant on the instances before it was proved. A proof that a step preserves an
invariant has one step per action. Every safety property that a run expects to hold, invariant or action
property, is proved, some under a condition on `Env` that the run has as well.

**Bootstrap** (`BootstrapProofs`, from `BootstrapAssumption`): `TypeCorrect` and
`NeverASecondBootstrap`, which is `Spec => []NoSecondBootstrap`.
`NoSecondBootstrap` is not inductive: whether a worker gets to the call depends on an
annotation it read into memory from a cache some steps before. The inductive invariant
`BootstrapInvariant` says, per resource, what each copy knows:

* `AnnotationsAreBase`: while a reconcile runs, the annotations in memory are those of the
  version its writes are based on;
* `ObservedBase`: before the create, that version is not `pending`; once Observe has answered
  that nothing exists, it has no `external-create-succeeded` either;
* `CreateIsPending`: from the pending write until the outcome is recorded, the latest
  annotation of the stored object is `pending`;
* `AcknowledgedIsRecorded`: for an acknowledged call the stored object is `pending` or carries
  `external-create-succeeded`; and no worker that is about to call, or that will record a
  failure, works for a resource whose call was acknowledged.

The argument: a second call needs a worker that read an object that is neither pending nor
succeeded. If the read was from an old cache, its `SetPending` is refused, because the
stored object has the acknowledgement in it by then; if it was current, the object
would have been pending, and `Begin` stops, or succeeded, and Observe answers that the
resource exists.

**The refinement** (`BootstrapProofs`): `PromiseIsKept`, `Spec => KeepsThePromise`. With the
mapping of `Promise` in `Bootstrap`, initial states are initial states of `OneShot`, and each step is
shown to be the step `SetPending` → `Intend`, `Create` → `Answer`, `RecordSucceeded` →
`Succeed`, `RecordFailed` → `GiveUp`, `EtcdStep` → `ComeUp`, or a stutter. It needs
`BootstrapInvariant` (an answer finds its intent in the log; a failure is recorded for an
unanswered call) and `AllGrounds` (what is on its way to be recorded as a success was answered,
or the node was seen at work). From the same facts follow `RecordsAreTrue` and
`StatusIsFounded`, the latter by an invariant on every copy of the status.
`NeverRepeated`, from `TraceIsKept`, says what the promise is good for.

**Ready of a Bootstrap** (`BootstrapProofs`): `ReadyIsRaised` has no condition. On the way to the status
write a Ready=True in memory was set by the probe of this reconcile or is that of the stored
object (`RaisedByProbe`), and the write is refused when the stored object is not the one it is based on.
`ReadyIsProbed` is `ReadyFollowsProbe`, the stronger statement, which no run checks because `bootstrap_live` has the
faults it excludes. It has two conditions, `"writeError" \notin Env` and `EmptyIsPublished`, and rests on `Probed`. That says
where a Ready=True can come from: one that is stored, cached or read is that of a resource
that has its finalizer and knows that it is bootstrapped (`Earned`); one in memory is what
the probe of this reconcile saw, or what was stored before it (`ReadyWasProbed`). The response to
the finalizer update is the hard step: it may put the stored Ready over what the
probe had set. Under the two conditions that update happens only while the stored object
has no finalizer, and by `Earned` such an object is not Ready: nothing between Observe and
the finalizer can fail but for a conflict. For the publication this is `EmptyIsPublished` together with
`SecretCaughtUp`, which says that from the start of a reconcile to its publication the cached copy of the Secret
shows whether there is one.

**Two replicas** (`BootstrapReplicasProofs`, from `ReplicasAssumption`): `TypeCorrect`, `OnlyOneCalls`,
`NeverASecondBootstrap` and `PromiseIsKept` again, for two processes with separate caches and
workers. The module instantiates `BootstrapProofs` once per replica, so that every step of one
preserves that one's own invariants by the lemmas above; what is left is what a step
does to the *other* replica. It can only write the API server and the acknowledgements. A step
that writes an annotation from `pending` to something else, and one that adds an acknowledgement, is
taken by the process in Create, and the invariant says that only one is: the
pending write of a second is refused, because its `base` is not `pending` (`ObservedBase`) while
the stored object is (`CreateIsPending`). So `CreateIsPending` and
`AcknowledgedIsRecorded` of each replica survive the steps of the other.

**Secrets** (`SecretsProofs`, from `SecretsAssumption`): `TypeCorrect`, which includes that Create and
Update are unreachable, needs that what Observe returned still exists and is up to date at
each step of the loop. `RecordedWasPublished` (`"publishError" \notin Env`, the case
`secrets_unpublished` shows to be necessary) rests on `Founded`: a finalizer, a deletion or a *generated* in any
copy of the object is evidence that the Secret was written; only the object in memory between
Observe and the publication says so too early, and a process that dies forgets it
(`Together`). `HashAndSecretAgree` and `RecordedIsFinal` (in addition `"stale" \notin Env`)
rest on `Agrees`: a reconcile that began with fresh caches is the only writer of its
resource's status and Secret, so the bundle it read, the hash it has in memory and the ones in the
API server are the same or about to be. `EveryFormSaysTheSame` lifts the round trip below to
every published bundle.

**MachineSecrets** (`MachineSecretsProofs`, no assumption): `RoundTrip`, a valid bundle becomes a
contract that is read back as that bundle, and `DecodesItsOwnContract`, a contract that can
be read back is the one its bundle converts to.

**ConfigurationApply** (`ConfigurationApplyProofs`, from `ConfigurationApplyAssumption`): `TypeCorrect`, with
`AllDown` (a process dies as a whole, so no call is left over when it starts);
`NeverAppliedAgain`, whose `ApplyInvariant` follows the same copies as Bootstrap's, plus
`UpToDateOnceThere` (what exists is up to date, so Update is never called for a complete
configuration); and `AppliedIsFounded` (`"reset" \notin Env`): either the machine
has a configuration or no copy of the resource claims that it was applied. `PromiseIsKept` is the refinement of `OneShot`:
`RecordsWritten` lists the four things the loop can do to the annotations of a resource (nothing, `Intend`,
`Succeed`, `GiveUp`), `ApplyConfiguration` is `Answer`, and `CreatedWasAnswered` carries the
answer to the place where it is recorded. `UnreachableIsNotReady` (`"writeError" \notin Env` and
`EmptyIsPublished`) rests on `Coherent`: machine state and Ready
are set together by Observe, and what parts them in memory, the response to the finalizer
update, comes from an object that was never Ready, because it has no finalizer. A failed
publication or finalizer update would store a Ready without it. Several resources may
share a machine in all of them.

**Kubeconfig** (`KubeconfigProofs`, from `KubeconfigAssumption`): `TypeCorrect`, with it that Update is never
reached. `KubeconfigIsKept` (`"stale" \notin Env`), whoever edits the Secret in the meantime, rests
on `Kept`: between the fresh read and the publication, either what Observe read has the
kubeconfig the Secret has, or the Secret has none that works. Users can only take keys away or damage them, so a Secret
without a kubeconfig at the time of the read has none at the publication either. The
proof showed that `NoSecret` must not be a Secret, which the assumption now says.

**Configuration** (`ConfigurationProofs`, from `ConfigurationAssumption`): `TypeCorrect`; its invariant adds
to the types that a key that holds a bundle holds one of the bundles (`Sound`).
`NeverGoesBack`, under every fault, stale caches and failed publications included, rests on
`OrderInvariant`: whatever a resource has anywhere (`Known`: its status in the
API server, in the cache and in memory, what Observe returned, its Secret) is no newer than any
bundle that the copy of the source holds. A damaged copy holds none and asks
for nothing; a copy never holds an older bundle than before. So what Observe renders is at
least as new as all that is there, and stays so until it is published.
`SecretFirst` (`"stale" \notin Env`, `"publishError" \notin Env`) adds `Behind`: from a fresh start to
the publication, the Secret is what its cached copy shows or was deleted, so a refused
publication means that there is no Secret to be ahead of. It uses
`OrderInvariant` for the Secret that is deleted and written anew.

**ClusterHealth** (`ClusterHealthProofs`, from `ClusterHealthAssumption`): `TypeCorrect`.
`GateIsChecked`, for any number of nodes, in any order and with repetitions, under every fault:
`Gate` is the loop invariant of the calls, everything that is asked was seen to serve or is still in
`left`, carried through the writes that follow. `GateTellsTheTruth` (`"writeError" \notin Env` and
`EmptyIsPublished`) rests on
`Truthful`: Ready and the status are set together, and only the response to the finalizer update can
part them; it cannot bring Ready back, because a resource is never Ready before it has its finalizer.
Each assumption is used where a step before that may not fail: the publication not at all, by
`SecretCaughtUp`, and the finalizer update only for a conflict, after which the status write is
refused as well.

Only model-checked: the liveness properties (`EventuallyReady`, `OutageTakesReadyAway`, `EventuallyPublished`, `EventuallyApplied`,
`RunningIsReportedWithCredentials`, `EventuallyServed`, `EventuallyCurrent`, `EventuallyOpen`, `EventuallyClosed`), which need
fairness and with it `ENABLED`, out of the prover's reach; and the four violations. There is no
recursion over data in the models.

## What is not modelled

* Time, except Bootstrap's. `generatedTime`, `lastAppliedTime`, `lastCheckTime` are written
  and never read. Annotations carry second-granularity times that the loop compares; two
  annotations in one second are treated as ordered.
* Versions: two contents of an object count as the same version when they are equal, so a
  write is not refused after a change and a change back. Informers do not skip versions
  that matter here, since a copy holds only the latest.
* A resource re-created under the name of a deleted one, the pause annotation, management
  policies other than the default, external secret stores, spec edits during a reconcile.
* Contents: a certificate or token is a value that can be compared, a hash the identity of what
  was hashed; JSON and YAML are the records they are read into; the white space
  around a PEM block is dropped. What the Talos SDK renders for a Configuration is the number of
  the bundle. Which reports of a
  healthy etcd still carry the request to bootstrap is not in this repository: a
  report may, any number of times, and the fairness assumes one without again and again.
* Resets of machines in `apply_live`: the code deliberately calls a machine that went back
  to maintenance mode still applied (`configurationapply.go:200-202`), so `AppliedMeansConfigured`
  and `EventuallyApplied` are about machines that nobody resets.
* A changed configuration: `ConfigurationApply` never compares what it has sent with what it
  would send, so there is nothing to check before the pipeline model.
* `StatusNotAhead` holds without failing publications and for caches that have caught up when a
  reconcile begins; a failed publication stores the status before the Secret, as in
  `secrets_unpublished`. `NeverBackwards` is checked in the same run and proved without these
  conditions. A spec does not change.
* `ReadyFollowsProbe`, `UnreachableNotReady` and `ReadyMeansHealthy` are proved under two conditions: object writes
  fail only for conflicts, and what Observe returns is published (`EmptyIsPublished`). They do not hold when
  writes or publications fail in other ways.
  After a failed publication or a failed finalizer update the
  Ready condition is stored without the finalizer; the finalizer update of the next
  reconcile then may decode the stored Ready=True over the False its own probe had set, and
  stores it once more. The reconcile after that has a finalizer and corrects it. What is left of `ReadyFollowsProbe` without
  the conditions is checked under every fault by `bootstrap_live`: `ReadyIsRaisedByProbe` and `OutageTakesReadyAway`.
  The other two are checked with `stale`, which `EmptyIsPublished` excludes: with one process, whose
  writes are the only ones of the model, there is no second reconcile before the finalizer that could
  meet an existing Secret behind a lagging copy. A second replica or an edit by a user would allow it, so the
  theorems do not count on it.
* When Talos ends the stream of a health check is not in this repository. `StreamEnds` assumes that it does so
  without an error only after all checks have passed; what the code does with any other end of the stream,
  which it would take for a healthy cluster, is therefore not covered by a property.
* That the key of the machine CA is left out for workers (`IssuingCA`) is part of the model, but no property: it is
  one condition in a function without state.
* `HashMatchesSecret` excludes resources being deleted, for which Observe may still generate
  without ever publishing; `RecordedBundleIsFinal` and `KubeconfigKept` are checked and proved for
  caches that have caught up when a reconcile begins.
* `FactorySchematic` (a scaffold), registration and flags, generated code.

## Plan

Done: the loop, all kinds that do something, the abstract promise and its refinements by Bootstrap, two
replicas of it and ConfigurationApply, the contents of bundles and inline configurations, and the proofs
above. What
would add most from here:

1. The pipeline Secrets → Configuration → ConfigurationApply as one instance: the connection Secret of
   one is the source of the next. A replaced bundle reaches the Secret of the
   Configuration (`EventuallyCurrent`) and no machine, since ConfigurationApply does not compare; what is
   missing is a document that says what should happen.
2. Two ConfigurationApplies of one machine in a TLC instance; the proofs cover them for the properties
   that speak of one resource.
3. `parseKubeconfig`'s selection of a context and the defaulting of `configuration.go` as operators.
4. An abstract specification of Secrets and Configuration (a register whose status never runs ahead of
   its Secret) that both implement.
5. The usage counting of the ProviderConfig's reconciler, which is crossplane-runtime's.
