----------------------------- MODULE Configuration -----------------------------
(***************************************************************************)
(* The Configuration kind:                                                 *)
(* src/internal/controller/configuration/configuration.go.                 *)
(*                                                                         *)
(* A Configuration renders a Talos machine configuration in every Observe, *)
(* from the bundle in the connection Secret of a Secrets resource, and     *)
(* stores it twice: in its own connection Secret, where                    *)
(* ConfigurationApply finds it, and in its status.  Rendering is a         *)
(* function of the spec, which does not change here, and of the bundle: a  *)
(* configuration is the number of the bundle it was rendered from.         *)
(***************************************************************************)
EXTENDS Naturals

CONSTANTS
    CRs,         \* Configuration resources
    WriteRef,    \* those with spec.writeConnectionSecretToRef
    Valid,       \* those whose spec names a Secrets and renders without error
    MaxBundles,  \* bound on the bundles of the Secrets
    NoSecret,
    Env          \* faults allowed: ManagedReconciler's and SourceHazards

SourceHazards == {"replaced", "sourceDamaged", "secretLost"}

ASSUME ConfigurationAssumption ==
    /\ WriteRef \subseteq CRs
    /\ Valid \subseteq CRs
    /\ MaxBundles \in Nat \ {0}

VARIABLES api, cache, conn, connCache, pc, mem, base, obs,
    source,       \* the connection Secret of the Secrets the resources name
    sourceCache,  \* the informer's copy of source
    newest        \* the newest bundle there has been

Bundles == 1..MaxBundles

NoConfig == 0

InitStatus == NoConfig

\* The connection details are one key, with the configuration.
NoDetails == NoConfig

INSTANCE ManagedReconciler

sourceVars == <<source, sourceCache, newest>>

vars == <<api, cache, conn, connCache, pc, mem, base, obs, source, sourceCache, newest>>

----------------------------------------------------------------------------
(* The Secrets resource *)

\* Both keys hold the same bundle, unless somebody damages one.
Key == [state : {"absent", "garbage", "bundle"}, bundle : Bundles \cup {NoConfig}]

Absent == [state |-> "absent", bundle |-> NoConfig]

Garbage == [state |-> "garbage", bundle |-> NoConfig]

Holding(b) == [state |-> "bundle", bundle |-> b]

SourceSecret(json, structured) == [json |-> json, structured |-> structured]

NoSource == SourceSecret(Absent, Absent)

\* The Secrets publishes its bundle or, as it can after a crash, a new one; a damaged
\* Secret is repaired.
SourcePublished ==
    /\ \E b \in {newest, newest + 1} \cap Bundles :
          /\ b > newest => newest = 0 \/ "replaced" \in Env
          /\ source' = SourceSecret(Holding(b), Holding(b))
          /\ newest' = b
    /\ source' # source
    /\ UNCHANGED <<api, cache, conn, connCache, pc, mem, base, obs, sourceCache>>

\* Keys are removed or damaged (for the structured key, this is the same).
SourceDamaged ==
    /\ "sourceDamaged" \in Env
    /\ \E json \in {source.json, Absent, Garbage}, structured \in {source.structured, Absent} :
          source' = SourceSecret(json, structured)
    /\ source' # source
    /\ UNCHANGED <<api, cache, conn, connCache, pc, mem, base, obs, sourceCache, newest>>

SourceSync ==
    /\ \E c \in CRs : ~Down(c)
    /\ sourceCache # source
    /\ sourceCache' = source
    /\ UNCHANGED <<api, cache, conn, connCache, pc, mem, base, obs, source, newest>>

\* Somebody deletes the connection Secret of a Configuration.
LoseSecret(c) ==
    /\ "secretLost" \in Env
    /\ conn[c] # NoSecret
    /\ conn' = [conn EXCEPT ![c] = NoSecret]
    /\ UNCHANGED <<api, cache, connCache, pc, mem, base, obs, sourceVars>>

----------------------------------------------------------------------------
(* The handlers *)

ConnectFails(c) ==
    /\ "connectError" \in Env
    /\ pc[c] = "observe"
    /\ Fail(c, "status")
    /\ UNCHANGED <<cache, connCache, sourceVars>>

\* The bundle read from the Secret, or none: the structured key counts only when the
\* other is absent, not when it cannot be decoded.
GetMachineSecretsBundle(secret) ==
    LET key == IF secret.json.state = "absent" THEN secret.structured ELSE secret.json
    IN  IF key.state = "bundle" THEN {key.bundle} ELSE {}

RenderedOnce(c) ==
    IF mem[c].status # NoConfig THEN {mem[c].status}
    ELSE IF c \in Valid THEN GetMachineSecretsBundle(sourceCache) ELSE {}

RenderedOrStored(c) ==
    LET bundles == IF c \in Valid THEN GetMachineSecretsBundle(sourceCache) ELSE {}
    IN  IF bundles = {} /\ mem[c].status # NoConfig THEN {mem[c].status} ELSE bundles

\* Reading, generating, patching and encoding fail, or give one configuration.
GenerateMachineConfiguration(c) ==
    IF c \in Valid THEN GetMachineSecretsBundle(sourceCache) ELSE {}

Available(object, config) == [object EXCEPT !.status = config, !.ready = "true"]

NotUpToDate(config) == [exists |-> TRUE, upToDate |-> FALSE, details |-> config]

NothingNew(config) == [exists |-> TRUE, upToDate |-> TRUE, details |-> NoDetails]

Observation(config) == [exists |-> TRUE, upToDate |-> TRUE, details |-> config]

\* An error leaves the status, and the Ready condition, as they were.
Observe(c) ==
    /\ pc[c] = "observe"
    /\ \/ \E config \in GenerateMachineConfiguration(c) :
             ObserveReturns(c, Available(mem[c], config), Observation(config))
       \/ /\ GenerateMachineConfiguration(c) = {}
          /\ Fail(c, "status")
          /\ UNCHANGED <<cache, connCache>>
    /\ UNCHANGED sourceVars

\* Create and Update are no actions: what Observe can render exists and is up to
\* date, and TypeOK checks that the loop gets to neither.  Delete does nothing.
Delete(c) == pc[c] = "delete" /\ DeleteReturns(c) /\ UNCHANGED sourceVars

----------------------------------------------------------------------------
(* The specification *)

Init ==
    /\ ReconcilerInit
    /\ source = NoSource
    /\ sourceCache = NoSource
    /\ newest = 0

\* One step of the worker that reconciles c, as Setup assembles it.
Reconcile(c) ==
    \/ ReconcileStep(c) /\ UNCHANGED sourceVars
    \/ ConnectFails(c)
    \/ Observe(c)
    \/ Delete(c)

\* A process that starts reads the Secret anew as well.
StartSynced ==
    /\ Start
    /\ sourceCache' = source
    /\ UNCHANGED <<source, newest>>

Next ==
    \/ \E c \in CRs : Reconcile(c) \/ LoseSecret(c)
    \/ \E c \in CRs : (CacheSync(c) \/ ConnSync(c) \/ RequestDelete(c)) /\ UNCHANGED sourceVars
    \/ Crash /\ UNCHANGED sourceVars
    \/ StartSynced
    \/ SourcePublished
    \/ SourceDamaged
    \/ SourceSync

Spec == Init /\ [][Next]_vars

\* The queue keeps handing the resource to a worker, the informers catch up, and
\* neither Connect nor the writes fail every time.
Fairness ==
    /\ WF_vars(SourceSync)
    /\ \A c \in CRs :
        /\ WF_vars(Reconcile(c))
        /\ WF_vars((CacheSync(c) \/ ConnSync(c)) /\ UNCHANGED sourceVars)
        /\ SF_vars(Observe(c))
        /\ SF_vars(AddFinalizer(c) /\ api' # api /\ UNCHANGED sourceVars)
        /\ SF_vars(WriteStatus(c) /\ obs[c].exists /\ UNCHANGED sourceVars)

FairSpec == Spec /\ Fairness

----------------------------------------------------------------------------
(* Properties *)

Configs == Bundles \cup {NoConfig}

Object == [life : {"live", "deleting", "gone"}, finalizer : BOOLEAN,
           latest : {"none", "pending", "succeeded", "failed"}, succeeded : BOOLEAN,
           ready : {"none", "true", "false"}, status : Configs]

\* Every variable has its type; in particular an empty configuration is never
\* published, and the loop never creates or updates.
TypeOK ==
    /\ api \in [CRs -> Object]
    /\ cache \in [CRs -> Object]
    /\ mem \in [CRs -> Object]
    /\ base \in [CRs -> Object]
    /\ obs \in [CRs -> [exists : BOOLEAN, upToDate : BOOLEAN, details : Configs]]
    /\ conn \in [CRs -> Bundles \cup {NoSecret}]
    /\ connCache \in [CRs -> Bundles \cup {NoSecret}]
    /\ pc \in [CRs -> Labels \ {"pending", "create", "created", "failed", "publishCreated",
                                "update", "publishUpdated"}]
    /\ source \in [json : Key, structured : Key]
    /\ sourceCache \in [json : Key, structured : Key]
    /\ newest \in Configs

\* The status announces no configuration that the Secret does not have yet: who
\* waits for it there finds that one, or one from a newer bundle.  The Secret is
\* written first, the status after it, and crashes come between.  This holds as long
\* as publications succeed and the caches have caught up when a reconcile begins: after
\* a failed publication the error path stores the new status over the old Secret.
\* (A resource that is being deleted still renders, and publishes no more.)
StatusNotAhead ==
    \A c \in WriteRef :
        api[c].life = "live" /\ conn[c] # NoSecret => api[c].status <= conn[c]

\* A published configuration is never replaced by one from an older bundle, whatever
\* becomes of the Secrets, the caches and the writes in between.
NeverBackwards ==
    [][\A c \in CRs : conn[c] # NoSecret /\ conn'[c] # NoSecret => conn'[c] >= conn[c]]_vars

\* Once the Secrets has a bundle for good and the provider stays up, status, Secret
\* and the Ready condition agree on the configuration of this bundle, even if the
\* bundle is another than before or was unreadable for a while.
EventuallyCurrent ==
    \A c \in Valid \cap WriteRef, b \in Bundles :
        <>[](GetMachineSecretsBundle(source) = {b} /\ ~Down(c)) /\ <>[][~LoseSecret(c)]_vars
            => \/ <>(api[c].life # "live")
               \/ <>[](conn[c] = b /\ api[c].status = b /\ api[c].ready = "true")
===============================================================================
