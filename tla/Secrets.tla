------------------------------- MODULE Secrets -------------------------------
(***************************************************************************)
(* The Secrets kind: src/internal/controller/secrets/secrets.go.           *)
(*                                                                         *)
(* A Secrets generates one bundle of Talos machine secrets, publishes it   *)
(* in its connection Secret and keeps only hashes in its status.  There is *)
(* no external resource: the bundle is generated inside Observe and        *)
(* survives only if the loop of ManagedReconciler publishes it and then    *)
(* stores the status that says so, two writes with steps in between.  What *)
(* is published has several forms of the bundle: MachineSecrets.           *)
(***************************************************************************)
EXTENDS Naturals

CONSTANTS
    CRs,         \* Secrets resources
    WriteRef,    \* those with a spec.writeConnectionSecretToRef
    BadVersion,  \* those whose spec.forProvider.talosVersion does not parse
    NoSecret,
    NoDetails,
    Env,         \* faults allowed: ManagedReconciler's and "secretLost"
    MaxBundles   \* bound on the bundles generated

ASSUME SecretsAssumption ==
    /\ WriteRef \subseteq CRs
    /\ BadVersion \subseteq CRs
    /\ MaxBundles \in Nat \ {0}
    /\ NoSecret \notin 1..MaxBundles
    /\ NoDetails \notin 1..MaxBundles
    /\ NoSecret # NoDetails

VARIABLES api, cache, conn, connCache, pc, mem, base, obs,
    generated,  \* the number of bundles generated so far
    lost        \* history: resources whose connection Secret somebody deleted

\* SecretsObservation of a new resource.  A bundle is a number, a hash the number
\* of the bundle hashed, 0 the empty string; the three hashes and the seven
\* connection keys change together.
InitStatus == [generated |-> FALSE, hash |-> 0]

INSTANCE ManagedReconciler

vars == <<api, cache, conn, connCache, pc, mem, base, obs, generated, lost>>

bundleVars == <<generated, lost>>

Bundles == 1..MaxBundles

\* A text is known by the bundle and the field it was drawn for.  The empty text is
\* empty, and so is what a nil pointer points to.
Fields == {"id", "secret", "bootstrapToken", "secretbox", "aescbc", "token", "crt", "key"}

Parts == {"cluster", "secrets", "trustdInfo", "admin",
          "etcd", "k8s", "k8sAggregator", "k8sServiceAccount", "os"}

Text == {<<>>} \cup (Bundles \X Parts \X Fields)

Forms == INSTANCE MachineSecrets WITH Text <- Text, Empty <- <<>>, Nil <- <<>>

----------------------------------------------------------------------------
(* The handlers *)

\* Connect: tracking the usage, the ProviderConfig or its credentials fail.
ConnectFails(c) ==
    /\ "connectError" \in Env
    /\ pc[c] = "observe"
    /\ Fail(c, "status")
    /\ UNCHANGED <<cache, connCache, bundleVars>>

\* NewBundle draws fresh random secrets: every call returns a bundle never seen.
GenerateMachineSecrets(c) ==
    /\ c \notin BadVersion
    /\ generated < MaxBundles
    /\ generated' = generated + 1

\* The bundle that is number b.  The Talos version decides with which of the two
\* secrets etcd is encrypted.
NewBundle(b, encryption) ==
    [cluster |-> [id |-> <<b, "cluster", "id">>, secret |-> <<b, "cluster", "secret">>],
     secrets |-> [bootstrapToken |-> <<b, "secrets", "bootstrapToken">>,
                  secretbox |-> IF encryption = "secretbox" THEN <<b, "secrets", "secretbox">> ELSE <<>>,
                  aescbc |-> IF encryption = "aescbc" THEN <<b, "secrets", "aescbc">> ELSE <<>>],
     trustdInfo |-> [token |-> <<b, "trustdInfo", "token">>],
     certs |-> [n \in Forms!Certificates |-> [p \in Forms!Parts(n) |-> <<b, n, p>>]]]

\* The connection details that are number b.
Details(b, encryption) ==
    Forms!Published(NewBundle(b, encryption), [p \in {"crt", "key"} |-> <<b, "admin", p>>])

WithoutHashes(object, bundle) == [object EXCEPT !.status.generated = TRUE]

\* The generatedTime the code sets with them is left out.
PopulateStatusMetadata(object, bundle) ==
    [object EXCEPT !.status = [generated |-> TRUE, hash |-> bundle]]

\* connectionDetailsFromSecret: the cached Secret, with all its keys.
CanReload(c) == c \in WriteRef /\ connCache[c] \in Bundles

Unconditioned(object) == object

Available(object) == [object EXCEPT !.ready = "true"]

NotUpToDate(details) == [exists |-> TRUE, upToDate |-> FALSE, details |-> details]

Observation(details) == [exists |-> TRUE, upToDate |-> TRUE, details |-> details]

ObserveGenerated(c) ==
    /\ mem[c].status.generated
    /\ \/ /\ CanReload(c)
          /\ ObserveReturns(c, Available(mem[c]), Observation(connCache[c]))
       \/ /\ ~CanReload(c)
          /\ Fail(c, "status")
          /\ UNCHANGED <<cache, connCache>>
    /\ UNCHANGED generated

\* Generates whatever the status says.
ObserveAgain(c) ==
    /\ c \in WriteRef
    /\ GenerateMachineSecrets(c)
    /\ ObserveReturns(c, Available(PopulateStatusMetadata(mem[c], generated')),
                      Observation(generated'))

\* Generates without a place to publish to.
ObserveAnywhere(c) ==
    /\ ~mem[c].status.generated
    /\ GenerateMachineSecrets(c)
    /\ ObserveReturns(c, Available(PopulateStatusMetadata(mem[c], generated')),
                      Observation(generated'))

ObserveNew(c) ==
    /\ ~mem[c].status.generated
    /\ \/ /\ c \in WriteRef
          /\ GenerateMachineSecrets(c)
          /\ ObserveReturns(c, Available(PopulateStatusMetadata(mem[c], generated')),
                            Observation(generated'))
       \/ /\ c \notin WriteRef \/ c \in BadVersion
          /\ Fail(c, "status")
          /\ UNCHANGED <<cache, connCache, generated>>

Observe(c) == pc[c] = "observe" /\ (ObserveGenerated(c) \/ ObserveNew(c)) /\ UNCHANGED lost

\* Create and Update are no actions: Observe always says that the resource exists
\* and is up to date, and TypeOK checks that the loop never gets to them.

\* Delete does nothing.
Delete(c) == pc[c] = "delete" /\ DeleteReturns(c) /\ UNCHANGED bundleVars

----------------------------------------------------------------------------
(* The specification *)

\* Somebody deletes the connection Secret.
LoseSecret(c) ==
    /\ "secretLost" \in Env
    /\ conn[c] # NoSecret
    /\ conn' = [conn EXCEPT ![c] = NoSecret]
    /\ lost' = lost \cup {c}
    /\ UNCHANGED <<api, cache, connCache, pc, mem, base, obs, generated>>

Init == ReconcilerInit /\ generated = 0 /\ lost = {}

\* One step of the worker that reconciles c, as Setup assembles it.
Reconcile(c) ==
    \/ ReconcileStep(c) /\ UNCHANGED bundleVars
    \/ ConnectFails(c)
    \/ Observe(c)
    \/ Delete(c)

Next ==
    \/ \E c \in CRs : Reconcile(c) \/ LoseSecret(c)
    \/ EnvironmentStep /\ UNCHANGED bundleVars

Spec == Init /\ [][Next]_vars

\* The queue keeps handing the resource to a worker, the informers catch up, and
\* neither Connect nor the status write after a completed Observe fails every time.
Fairness ==
    \A c \in CRs :
        /\ WF_vars(Reconcile(c))
        /\ WF_vars((CacheSync(c) \/ ConnSync(c)) /\ UNCHANGED bundleVars)
        /\ SF_vars(Observe(c))
        /\ SF_vars(WriteStatus(c) /\ mem[c].ready = "true" /\ UNCHANGED bundleVars)

FairSpec == Spec /\ Fairness

----------------------------------------------------------------------------
(* Properties *)

Status == [generated : BOOLEAN, hash : 0..MaxBundles]

Object == [life : {"live", "deleting", "gone"}, finalizer : BOOLEAN,
           latest : {"none"}, succeeded : {FALSE},
           ready : {"none", "true", "false"}, status : Status]

\* Every variable has its type.  In particular the loop never calls Create, which
\* would record its annotation, nor Update, which "should not be called since
\* ResourceUpToDate is always true in Observe" (secrets.go:271).
TypeOK ==
    /\ api \in [CRs -> Object]
    /\ cache \in [CRs -> Object]
    /\ mem \in [CRs -> Object]
    /\ base \in [CRs -> Object]
    /\ obs \in [CRs -> [exists : BOOLEAN, upToDate : BOOLEAN,
                       details : Bundles \cup {NoDetails}]]
    /\ conn \in [CRs -> Bundles \cup {NoSecret}]
    /\ connCache \in [CRs -> Bundles \cup {NoSecret}]
    /\ pc \in [CRs -> {"idle", "observe", "publish", "finalizer", "delete",
                      "status", "creating", "down"}]
    /\ generated \in 0..MaxBundles
    /\ lost \subseteq CRs

\* "MachineSecrets are immutable" (secrets.go:270): a bundle that was published,
\* and may be in use by then, is never replaced by another.
BundleNeverReplaced ==
    [][\A c \in CRs : conn[c] \in Bundles /\ conn'[c] \in Bundles => conn'[c] = conn[c]]_vars

\* The same once the status says that the bundle was generated: from then on the
\* Secret keeps it, whatever crashes and lost writes follow.
RecordedBundleIsFinal ==
    [][\A c \in CRs :
          api[c].status.generated /\ conn[c] \in Bundles /\ conn'[c] \in Bundles
              => conn'[c] = conn[c]]_vars

\* "Generated indicates machine secrets have been generated and published to
\* connection details" (secrets_types.go:114): its connection Secret is there
\* unless somebody deleted it.
GeneratedMeansPublished ==
    \A c \in CRs :
        api[c].status.generated /\ api[c].life # "gone" /\ c \notin lost
            => conn[c] \in Bundles

\* "MachineSecretsHash is a SHA-256 hash of the machine secrets bundle connection
\* detail" (secrets_types.go:119): the status and the Secret belong together, as
\* long as nobody deletes the resource (Observe generates for it even then).
HashMatchesSecret ==
    \A c \in CRs :
        api[c].life = "live" /\ api[c].status.generated /\ conn[c] \in Bundles
            => api[c].status.hash = conn[c]

\* Whichever form of a published bundle a consumer reads, it finds the same secrets:
\* Configuration takes the raw bundle or decodes the structured one, the clients of
\* the Talos API take the single keys or client_configuration or talos_config.  The
\* tests compare two of the nine certificates and keys (secrets_test.go:153-157).
PublishedFormsAgree ==
    \A c \in CRs : conn[c] \in Bundles =>
        \A encryption \in {"secretbox", "aescbc"} :
            /\ Details(conn[c], encryption) # {}
            /\ \A details \in Details(conn[c], encryption) :
                /\ Forms!MachineSecretsToSecretsBundle(details.machine_secrets)
                        = {details.machine_secrets_bundle}
                /\ Forms!Decode(details.client_configuration)
                        = [caCertificate |-> details.ca_certificate,
                           clientCertificate |-> details.client_certificate,
                           clientKey |-> details.client_key]
                /\ details.talos_config.contexts.default
                        = Forms!Decode(details.client_configuration)
                /\ details.ca_certificate = details.machine_secrets_bundle.certs["os"]["crt"]

\* Once the provider stays up, a Secrets that can be generated, that nobody deletes
\* and whose Secret nobody deletes is, for good: published, recorded and Ready,
\* unless failed attempts used up all bundles of the model.
EventuallyPublished ==
    \A c \in WriteRef \ BadVersion :
        <>[]~Down(c) =>
            \/ <>(c \in lost \/ api[c].life # "live" \/ generated = MaxBundles)
            \/ <>[](api[c].status.generated /\ api[c].ready = "true" /\ conn[c] \in Bundles)

\* "deletion just clears the generated secrets from status ... The status will be
\* cleared by the managed resource reconciler" (secrets.go:281-283): a Secrets that
\* somebody deletes is, some day, cleared or gone.
DeletionCompletes ==
    \A c \in CRs : [](api[c].life = "deleting"
                        => <>(api[c].life = "gone" \/ ~api[c].status.generated))
==============================================================================
