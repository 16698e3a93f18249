------------------------------ MODULE Kubeconfig ------------------------------
(***************************************************************************)
(* The Kubeconfig kind: src/internal/controller/kubeconfig/kubeconfig.go.  *)
(*                                                                         *)
(* A Kubeconfig retrieves an admin kubeconfig from a Talos node and        *)
(* publishes it in its connection Secret, together with the host and the   *)
(* certificates it was parsed into.  The Secret is its only memory: what   *)
(* exists, what the status says and what is published again all follow     *)
(* from the kubeconfig key Observe finds there.                            *)
(***************************************************************************)

CONSTANTS
    CRs,       \* Kubeconfig resources
    WriteRef,  \* those with a complete spec.writeConnectionSecretToRef
    Configs,   \* kubeconfigs the node issues, a new one for every call
    Garbage,   \* data that parseKubeconfig refuses
    NoConfig,  \* an empty or missing kubeconfig
    NoSecret,
    Env        \* faults allowed: ManagedReconciler's, "rpcError" and "secretEdited"

\* A connection Secret has the kubeconfig key, and the host, certificate and key keys
\* derived from one, named by it.
Secret == [kubeconfig : Configs \cup {Garbage, NoConfig}, keys : Configs \cup {NoConfig}]

ASSUME KubeconfigAssumption ==
    /\ WriteRef \subseteq CRs
    /\ Garbage \notin Configs
    /\ NoConfig \notin Configs \cup {Garbage}
    /\ NoSecret \notin Secret

VARIABLES api, cache, conn, connCache, pc, mem, base, obs

\* The status is the client configuration parsed from a kubeconfig, named by it.
InitStatus == NoConfig

\* All the keys of a kubeconfig.
ConnectionDetails(config) == [kubeconfig |-> config, keys |-> config]

NoDetails == ConnectionDetails(NoConfig)

INSTANCE ManagedReconciler

vars == reconcilerVars

----------------------------------------------------------------------------
(* The handlers *)

AsStored(c) == connCache[c]

\* The details published again: all derived anew from the kubeconfig key.
Derived(c) == ConnectionDetails(connCache[c].kubeconfig)

ConnectFails(c) ==
    /\ "connectError" \in Env
    /\ pc[c] = "observe"
    /\ Fail(c, "status")
    /\ UNCHANGED <<cache, connCache>>

KnownFromStatus(c) ==
    /\ mem[c].status # NoConfig
    /\ c \in WriteRef /\ connCache[c] # NoSecret /\ connCache[c].kubeconfig # NoConfig

\* The Secret is found and has data under the kubeconfig key.
HasKubeconfig(c) ==
    c \in WriteRef /\ connCache[c] # NoSecret /\ connCache[c].kubeconfig # NoConfig

NotUpToDate(details) == [exists |-> TRUE, upToDate |-> FALSE, details |-> details]

Observation(details) == [exists |-> TRUE, upToDate |-> TRUE, details |-> details]

\* What data parse into: themselves, when every embedded field is there, or nothing.
ParseKubeconfig(data) == {data} \cap Configs

Observe(c) ==
    /\ pc[c] = "observe"
    /\ \/ ~HasKubeconfig(c) /\ ObserveReturns(c, mem[c], NoObs)
       \/ /\ HasKubeconfig(c)
          /\ \E config \in ParseKubeconfig(connCache[c].kubeconfig) :
                ObserveReturns(c, [mem[c] EXCEPT !.status = config, !.ready = "true"],
                               Observation(Derived(c)))
       \/ /\ HasKubeconfig(c)
          /\ ParseKubeconfig(connCache[c].kubeconfig) = {}
          /\ Fail(c, "status")
          /\ UNCHANGED <<cache, connCache>>

\* The node answers with some kubeconfig; broken credentials, a failing call and an
\* empty answer leave none.
RetrieveKubeconfig == Configs \cup (IF "rpcError" \in Env THEN {Garbage, NoConfig} ELSE {})

Create(c) ==
    /\ pc[c] = "create"
    /\ \E data \in RetrieveKubeconfig :
          \/ \E config \in ParseKubeconfig(data) :
                CreateReturns(c, mem[c], ConnectionDetails(config))
          \/ /\ ParseKubeconfig(data) = {}
             /\ Fail(c, "failed")
             /\ UNCHANGED <<cache, connCache>>

\* Update is no action: what exists is always up to date, and TypeOK checks that
\* the loop never gets to it.  Delete does nothing.
Delete(c) == pc[c] = "delete" /\ DeleteReturns(c)

----------------------------------------------------------------------------
(* The specification *)

\* What somebody can leave of a Secret: some of its keys missing or damaged.
Damaged(secret) ==
    {NoSecret} \cup [kubeconfig : {secret.kubeconfig, Garbage, NoConfig},
                     keys : {secret.keys, NoConfig}]

EditSecret(c) ==
    /\ "secretEdited" \in Env
    /\ conn[c] # NoSecret
    /\ \E secret \in Damaged(conn[c]) \ {conn[c]} : conn' = [conn EXCEPT ![c] = secret]
    /\ UNCHANGED <<api, cache, connCache, pc, mem, base, obs>>

Init == ReconcilerInit

\* One step of the worker that reconciles c, as Setup assembles it.
Reconcile(c) ==
    \/ ReconcileStep(c)
    \/ ConnectFails(c)
    \/ Observe(c)
    \/ Create(c)
    \/ Delete(c)

Next ==
    \/ \E c \in CRs : Reconcile(c) \/ EditSecret(c)
    \/ EnvironmentStep

Spec == Init /\ [][Next]_vars

\* The queue keeps handing the resource to a worker, the informers catch up, and
\* neither Connect, the node nor the writes fail every time.
Fairness ==
    \A c \in CRs :
        /\ WF_vars(Reconcile(c))
        /\ WF_vars(CacheSync(c) \/ ConnSync(c))
        /\ SF_vars(Observe(c))
        /\ SF_vars(Create(c) /\ pc'[c] = "created")
        /\ SF_vars((AddFinalizer(c) \/ SetPending(c)) /\ api' # api)
        /\ SF_vars(WriteStatus(c) /\ obs[c].exists)

FairSpec == Spec /\ Fairness

----------------------------------------------------------------------------
(* Properties *)

Object == [life : {"live", "deleting", "gone"}, finalizer : BOOLEAN,
           latest : {"none", "pending", "succeeded", "failed"}, succeeded : BOOLEAN,
           ready : {"none", "true", "false"}, status : Configs \cup {NoConfig}]

\* Every variable has its type.  In particular damaged data never get into the
\* status or back into the details, and the loop never calls Update, which would
\* retrieve another kubeconfig.
TypeOK ==
    /\ api \in [CRs -> Object]
    /\ cache \in [CRs -> Object]
    /\ mem \in [CRs -> Object]
    /\ base \in [CRs -> Object]
    /\ obs \in [CRs -> [exists : BOOLEAN, upToDate : BOOLEAN,
                       details : {ConnectionDetails(k) : k \in Configs \cup {NoConfig}}]]
    /\ conn \in [CRs -> Secret \cup {NoSecret}]
    /\ connCache \in [CRs -> Secret \cup {NoSecret}]
    /\ pc \in [CRs -> Labels \ {"update", "publishUpdated"}]

\* The provider never takes a working kubeconfig away from those who use the
\* Secret: whatever crashes and lost writes make it repeat, once the Secret has
\* one, no reconcile puts another in its place.
KubeconfigKept ==
    [][\A c \in CRs :
          conn[c] # NoSecret /\ conn[c].kubeconfig \in Configs /\ Reconcile(c)
              => \/ api'[c].life = "gone"
                 \/ conn'[c] # NoSecret /\ conn'[c].kubeconfig = conn[c].kubeconfig]_vars

\* The Secret, the status and the Ready condition agree on one kubeconfig.
Served(c) ==
    /\ conn[c] # NoSecret
    /\ conn[c].kubeconfig \in Configs
    /\ conn[c].keys = conn[c].kubeconfig
    /\ api[c].status = conn[c].kubeconfig
    /\ api[c].ready = "true"

\* Once the provider stays up and nobody edits the Secret any more, a resource
\* nobody deletes is served for good, even if somebody removed keys or
\* the whole Secret before.  Two things it never recovers from: a create whose
\* outcome was not recorded, and a kubeconfig key that does not parse.
EventuallyServed ==
    \A c \in WriteRef :
        <>[]~Down(c) /\ <>[][~EditSecret(c)]_vars =>
            \/ <>(api[c].life # "live" \/ Blocked(c))
            \/ <>[](conn[c] # NoSecret /\ conn[c].kubeconfig = Garbage)
            \/ <>[]Served(c)
===============================================================================
