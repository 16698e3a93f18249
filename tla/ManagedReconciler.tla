-------------------------- MODULE ManagedReconciler --------------------------
(***************************************************************************)
(* The loop every kind of this provider runs under: the managed.Reconciler *)
(* of crossplane-runtime, which Setup of each controller package builds    *)
(* with managed.NewReconciler and hands an ExternalClient (Observe,        *)
(* Create, Update, Delete).  The library is not part of the repository:    *)
(* it is modelled from the way src/internal/controller uses it.            *)
(*                                                                         *)
(* A kind's module INSTANCEs this one, adds its handlers as actions and    *)
(* sends the control back here with ObserveReturns, CreateReturns, ...     *)
(*                                                                         *)
(* One custom resource is reconciled by one worker at a time.  The worker  *)
(* reads the informer cache (cache, connCache), never the API server (api, *)
(* conn); a write carries the version it read (base) and the API server    *)
(* rejects it when the object has changed since.  Two contents are the     *)
(* same version here exactly when they are equal.                          *)
(***************************************************************************)

CONSTANTS
    CRs,         \* the custom resources of the kind
    WriteRef,    \* those with a spec.writeConnectionSecretToRef
    InitStatus,  \* the kind's empty status.atProvider
    NoSecret,    \* the connection Secret does not exist
    NoDetails,   \* connection details without any key
    Env          \* what the environment may do: a subset of Hazards

Hazards == {"crash", "stale", "writeError", "publishError", "connectError", "delete"}

VARIABLES
    api,        \* the custom resources in the API server
    cache,      \* the informer's copy of api
    conn,       \* the contents of each connection Secret in the API server
    connCache,  \* the informer's copy of conn
    pc,         \* where the reconcile of each custom resource stands
    mem,        \* the in-memory object the reconcile works on
    base,       \* the version of api the reconcile's writes are based on
    obs         \* what Observe, Create or Update returned

reconcilerVars == <<api, cache, conn, connCache, pc, mem, base, obs>>

Labels == {"idle", "observe", "publish", "finalizer", "pending", "create",
           "created", "failed", "publishCreated", "update", "publishUpdated",
           "delete", "unfinalize", "status", "creating", "down"}

NewObject == [life |-> "live", finalizer |-> FALSE, latest |-> "none",
              succeeded |-> FALSE, ready |-> "none", status |-> InitStatus]

NoObs == [exists |-> FALSE, upToDate |-> FALSE, details |-> NoDetails]

ReconcilerInit ==
    /\ api = [c \in CRs |-> NewObject]
    /\ cache = [c \in CRs |-> NewObject]
    /\ conn = [c \in CRs |-> NoSecret]
    /\ connCache = [c \in CRs |-> NoSecret]
    /\ pc = [c \in CRs |-> "idle"]
    /\ mem = [c \in CRs |-> NewObject]
    /\ base = [c \in CRs |-> NewObject]
    /\ obs = [c \in CRs |-> NoObs]

----------------------------------------------------------------------------
(* Writes *)

Goto(c, label) == pc' = [pc EXCEPT ![c] = label]

Finish(c) ==
    /\ Goto(c, "idle")
    /\ mem' = [mem EXCEPT ![c] = NewObject]
    /\ base' = [base EXCEPT ![c] = NewObject]
    /\ obs' = [obs EXCEPT ![c] = NoObs]

\* An Update leaves the status subresource to the API server.
Stored(c, object) == [object EXCEPT !.ready = api[c].ready, !.status = api[c].status]

\* The response is decoded over the in-memory object: what it carries replaces
\* the conditions and the status set there and not yet written.  A status the
\* server does not have yet is absent from the response and replaces nothing.
Decoded(c, object) ==
    {object, [object EXCEPT !.ready = api[c].ready]}
        \cup (IF api[c].status = InitStatus THEN {} ELSE {Stored(c, object)})

UpdateUnversioned(c, object) ==
    /\ api' = [api EXCEPT ![c] = Stored(c, object)]
    /\ base' = [base EXCEPT ![c] = Stored(c, object)]
    /\ \E o \in Decoded(c, object) : mem' = [mem EXCEPT ![c] = o]

\* client.Update of object, rejected when base is no longer the stored version.
UpdateObject(c, object) ==
    /\ base[c] = api[c]
    /\ api' = [api EXCEPT ![c] = Stored(c, object)]
    /\ base' = [base EXCEPT ![c] = Stored(c, object)]
    /\ \E o \in Decoded(c, object) : mem' = [mem EXCEPT ![c] = o]

WriteCanFail(c) == base[c] # api[c] \/ "writeError" \in Env

\* An error ends the reconcile with a status write: as the status is in memory
\* ("status") or, on the create path, with the Creating condition ("creating").
Fail(c, label) == Goto(c, label) /\ UNCHANGED <<api, conn, mem, base, obs>>

\* Secret apply: Create when the cache has none, nothing when the cached data
\* are the same, otherwise a merge patch, in which empty details change nothing.
SecretApplied(c, details) ==
    IF c \notin WriteRef \/ connCache[c] = details THEN conn[c]
    ELSE IF conn[c] # NoSecret /\ details = NoDetails THEN conn[c]
    ELSE details

SecretApplies(c, details) ==
    \/ c \notin WriteRef
    \/ connCache[c] = details
    \/ (connCache[c] = NoSecret) <=> (conn[c] = NoSecret)

Publish(c) ==
    /\ SecretApplies(c, obs[c].details)
    /\ conn' = [conn EXCEPT ![c] = SecretApplied(c, obs[c].details)]

PublishCanFail(c) ==
    /\ c \in WriteRef
    /\ "publishError" \in Env \/ ~SecretApplies(c, obs[c].details)

\* A condition under which what Observe returned is always published, as long as it
\* has no details: nobody asks for a Secret, or the API server refuses none and the
\* cached copy of the Secret has caught up when a reconcile begins.
EmptyIsPublished == WriteRef = {} \/ {"publishError", "stale"} \cap Env = {}

----------------------------------------------------------------------------
(* What a kind's handlers return *)

ObserveReturns(c, object, observation) ==
    /\ mem' = [mem EXCEPT ![c] = object]
    /\ obs' = [obs EXCEPT ![c] = observation]
    /\ Goto(c, IF object.life = "live" THEN "publish"
               ELSE IF observation.exists THEN "delete" ELSE "unfinalize")
    /\ UNCHANGED <<api, cache, conn, connCache, base>>

CreateReturns(c, object, details) ==
    /\ mem' = [mem EXCEPT ![c] = object]
    /\ obs' = [obs EXCEPT ![c].details = details]
    /\ Goto(c, "created")
    /\ UNCHANGED <<api, cache, conn, connCache, base>>

UpdateReturns(c, object, details) ==
    /\ mem' = [mem EXCEPT ![c] = object]
    /\ obs' = [obs EXCEPT ![c].details = details]
    /\ Goto(c, "publishUpdated")
    /\ UNCHANGED <<api, cache, conn, connCache, base>>

DeleteReturns(c) ==
    /\ Goto(c, "creating")
    /\ UNCHANGED <<api, cache, conn, connCache, mem, base, obs>>

----------------------------------------------------------------------------
(* The reconcile, between the calls of the kind's handlers *)

\* The worker reads the object (without "stale" never an old one) and gives up
\* at once on a create that was started and whose outcome was never recorded.
Begin(c) ==
    /\ pc[c] = "idle"
    /\ cache[c].life # "gone"
    /\ "stale" \in Env \/ (cache[c] = api[c] /\ connCache[c] = conn[c])
    /\ mem' = [mem EXCEPT ![c] = cache[c]]
    /\ base' = [base EXCEPT ![c] = cache[c]]
    /\ UNCHANGED <<api, cache, conn, connCache, obs>>
    /\ Goto(c, IF cache[c].latest = "pending" THEN "creating" ELSE "observe")

\* No process reconciles it.
Down(c) == pc[c] = "down"

\* Such a resource: no reconcile ever gets to its handlers again.
Blocked(c) == pc[c] = "idle" /\ api[c].latest = "pending"

PublishObserved(c) ==
    /\ pc[c] = "publish"
    /\ \/ Publish(c) /\ Goto(c, "finalizer") /\ UNCHANGED <<api, mem, base, obs>>
       \/ PublishCanFail(c) /\ Fail(c, "status")
    /\ UNCHANGED <<cache, connCache>>

AddFinalizer(c) ==
    /\ pc[c] = "finalizer"
    /\ \/ /\ IF mem[c].finalizer
             THEN UNCHANGED <<api, base, mem>>
             ELSE UpdateObject(c, [mem[c] EXCEPT !.finalizer = TRUE])
          /\ Goto(c, IF ~obs[c].exists THEN "pending"
                     ELSE IF obs[c].upToDate THEN "status" ELSE "update")
          /\ UNCHANGED <<conn, obs>>
       \/ ~mem[c].finalizer /\ WriteCanFail(c) /\ Fail(c, "status")
    /\ UNCHANGED <<cache, connCache>>

\* The external-create-pending annotation is stored before Create is called.
SetPending(c) ==
    /\ pc[c] = "pending"
    /\ \/ /\ UpdateObject(c, [mem[c] EXCEPT !.latest = "pending"])
          /\ Goto(c, "create")
          /\ UNCHANGED <<conn, obs>>
       \/ WriteCanFail(c) /\ Fail(c, "creating")
    /\ UNCHANGED <<cache, connCache>>

\* The critical annotations are written with retries: on a conflict the object
\* is read again from the cache, its status with it, and the annotations are
\* laid over it.
Annotated(object, outcome) ==
    [object EXCEPT !.latest = outcome, !.succeeded = @ \/ outcome = "succeeded"]

Annotate(c, outcome) ==
    \/ UpdateObject(c, Annotated(mem[c], outcome))
    \/ /\ base[c] # api[c]
       /\ cache[c] = api[c]
       /\ api[c].life # "gone"
       /\ LET object == Annotated(api[c], outcome)
          IN  /\ api' = [api EXCEPT ![c] = object]
              /\ base' = [base EXCEPT ![c] = object]
              /\ mem' = [mem EXCEPT ![c] = object]

RecordSucceeded(c) ==
    /\ pc[c] = "created"
    /\ \/ Annotate(c, "succeeded") /\ Goto(c, "publishCreated") /\ UNCHANGED <<conn, obs>>
       \/ WriteCanFail(c) /\ Fail(c, "creating")
    /\ UNCHANGED <<cache, connCache>>

\* Whether external-create-failed could be written is only logged.
RecordFailed(c) ==
    /\ pc[c] = "failed"
    /\ \/ Annotate(c, "failed") /\ Goto(c, "creating") /\ UNCHANGED <<conn, obs>>
       \/ WriteCanFail(c) /\ Fail(c, "creating")
    /\ UNCHANGED <<cache, connCache>>

PublishCreated(c) ==
    /\ pc[c] = "publishCreated"
    /\ \/ Publish(c) /\ Goto(c, "creating") /\ UNCHANGED <<api, mem, base, obs>>
       \/ PublishCanFail(c) /\ Fail(c, "creating")
    /\ UNCHANGED <<cache, connCache>>

PublishUpdated(c) ==
    /\ pc[c] = "publishUpdated"
    /\ \/ Publish(c) /\ Goto(c, "status") /\ UNCHANGED <<api, mem, base, obs>>
       \/ PublishCanFail(c) /\ Fail(c, "status")
    /\ UNCHANGED <<cache, connCache>>

\* The external resource is gone: remove the finalizer, and with it the object
\* and, by owner reference, its connection Secret.
Unfinalize(c) ==
    /\ pc[c] = "unfinalize"
    /\ \/ /\ base[c] = api[c]
          /\ api' = [api EXCEPT ![c].life = "gone", ![c].finalizer = FALSE]
          /\ conn' = [conn EXCEPT ![c] = NoSecret]
          /\ Finish(c)
       \/ WriteCanFail(c) /\ Fail(c, "status")
    /\ UNCHANGED <<cache, connCache>>

\* client.Status().Update ends every reconcile.  On the create and delete paths
\* it stores Ready=False (Creating, Deleting) whatever the handlers had set.
WriteStatus(c) ==
    /\ pc[c] \in {"status", "creating"}
    /\ base[c] = api[c]
    /\ api' = [api EXCEPT ![c].status = mem[c].status,
                          ![c].ready = IF pc[c] = "creating" THEN "false" ELSE mem[c].ready]
    /\ Finish(c)
    /\ UNCHANGED <<cache, conn, connCache>>

LoseStatus(c) ==
    /\ pc[c] \in {"status", "creating"}
    /\ WriteCanFail(c)
    /\ Finish(c)
    /\ UNCHANGED <<api, cache, conn, connCache>>

----------------------------------------------------------------------------
(* The environment *)

CacheSync(c) ==
    /\ ~Down(c)
    /\ cache[c] # api[c]
    /\ cache' = [cache EXCEPT ![c] = api[c]]
    /\ UNCHANGED <<api, conn, connCache, pc, mem, base, obs>>

ConnSync(c) ==
    /\ ~Down(c)
    /\ connCache[c] # conn[c]
    /\ connCache' = [connCache EXCEPT ![c] = conn[c]]
    /\ UNCHANGED <<api, cache, conn, pc, mem, base, obs>>

\* kubectl delete: an object with a finalizer stays until it is removed.
RequestDelete(c) ==
    /\ "delete" \in Env
    /\ api[c].life = "live"
    /\ api' = [api EXCEPT ![c].life = IF api[c].finalizer THEN "deleting" ELSE "gone"]
    /\ conn' = IF api[c].finalizer THEN conn ELSE [conn EXCEPT ![c] = NoSecret]
    /\ UNCHANGED <<cache, connCache, pc, mem, base, obs>>

\* The provider process dies in the middle of a reconcile ...
Crash ==
    /\ "crash" \in Env
    /\ \E c \in CRs : pc[c] \notin {"idle", "down"}
    /\ pc' = [c \in CRs |-> "down"]
    /\ mem' = [c \in CRs |-> NewObject]
    /\ base' = [c \in CRs |-> NewObject]
    /\ obs' = [c \in CRs |-> NoObs]
    /\ cache' = [c \in CRs |-> NewObject]
    /\ connCache' = [c \in CRs |-> NoSecret]
    /\ UNCHANGED <<api, conn>>

\* ... and is started again: its workers wait until the caches have synced.
Start ==
    /\ \E c \in CRs : Down(c)
    /\ pc' = [c \in CRs |-> "idle"]
    /\ cache' = api
    /\ connCache' = conn
    /\ UNCHANGED <<api, conn, mem, base, obs>>

ReconcileStep(c) ==
    \/ Begin(c)
    \/ PublishObserved(c)
    \/ AddFinalizer(c)
    \/ SetPending(c)
    \/ RecordSucceeded(c)
    \/ RecordFailed(c)
    \/ PublishCreated(c)
    \/ PublishUpdated(c)
    \/ Unfinalize(c)
    \/ WriteStatus(c)
    \/ LoseStatus(c)

EnvironmentStep ==
    \/ \E c \in CRs : CacheSync(c) \/ ConnSync(c) \/ RequestDelete(c)
    \/ Crash
    \/ Start
============================================================================
