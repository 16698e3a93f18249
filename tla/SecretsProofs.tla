---------------------------- MODULE SecretsProofs ----------------------------
(***************************************************************************)
(* Theorems about Secrets, for every set of resources, with and without a  *)
(* connection Secret, and every bound on the bundles.                      *)
(***************************************************************************)
EXTENDS Secrets, TLAPS

----------------------------------------------------------------------------
(* The type invariant *)

Obs == [exists : BOOLEAN, upToDate : BOOLEAN, details : Bundles \cup {NoDetails}]

\* What Observe returned keeps the loop from creating and updating, and is there to
\* publish.
Returned(c) ==
    /\ pc[c] \in {"publish", "finalizer"} => obs[c].exists /\ obs[c].upToDate
    /\ pc[c] = "publish" => obs[c].details \in Bundles /\ c \in WriteRef

TypeInvariant == TypeOK /\ \A c \in CRs : Returned(c)

LEMMA InitialValues ==
    /\ NewObject \in Object
    /\ NoObs \in Obs
    /\ 0 \in 0..MaxBundles
  <1>1. 0 \in 0..MaxBundles
    BY SecretsAssumption
  <1>2. InitStatus \in Status
    BY <1>1 DEF InitStatus, Status
  <1> QED
    BY <1>1, <1>2 DEF NewObject, NoObs, Object, Obs

\* What the actions change in an object leaves it an object.
LEMMA ReadyUpdate ==
    ASSUME NEW o \in Object, NEW r \in {"none", "true", "false"}
    PROVE  [o EXCEPT !.ready = r] \in Object
  BY DEF Object

LEMMA StatusUpdate ==
    ASSUME NEW o \in Object, NEW s \in Status
    PROVE  [o EXCEPT !.status = s] \in Object
  BY DEF Object

LEMMA FinalizerUpdate ==
    ASSUME NEW o \in Object, NEW b \in BOOLEAN
    PROVE  [o EXCEPT !.finalizer = b] \in Object
  BY DEF Object

LEMMA LifeUpdate ==
    ASSUME NEW o \in Object, NEW f \in {"live", "deleting", "gone"}
    PROVE  [o EXCEPT !.life = f] \in Object
  BY DEF Object

LEMMA ObjectFields ==
    ASSUME NEW o \in Object
    PROVE  /\ o.life \in {"live", "deleting", "gone"}
           /\ o.finalizer \in BOOLEAN
           /\ o.latest = "none"
           /\ o.ready \in {"none", "true", "false"}
           /\ o.status \in Status
  BY DEF Object

LEMMA UpdateObjectType ==
    ASSUME TypeOK, NEW c \in CRs, NEW object \in Object, UpdateObject(c, object)
    PROVE  /\ api' \in [CRs -> Object]
           /\ base' \in [CRs -> Object]
           /\ mem' \in [CRs -> Object]
  <1>1. api[c].ready \in {"none", "true", "false"} /\ api[c].status \in Status
    BY ObjectFields DEF TypeOK
  <1>2. Stored(c, object) \in Object /\ [object EXCEPT !.ready = api[c].ready] \in Object
    BY <1>1, ReadyUpdate, StatusUpdate DEF Stored
  <1>3. Decoded(c, object) \subseteq Object
    BY <1>2 DEF Decoded
  <1> QED
    BY <1>2, <1>3 DEF UpdateObject, TypeOK

\* The steps of the loop a Secrets never gets to, or never takes.
LEMMA NoSuchSteps ==
    ASSUME TypeOK, NEW c \in CRs
    PROVE  /\ ~SetPending(c) /\ ~RecordSucceeded(c) /\ ~RecordFailed(c)
           /\ ~PublishCreated(c) /\ ~PublishUpdated(c) /\ ~Unfinalize(c)
  BY DEF TypeOK, SetPending, RecordSucceeded, RecordFailed, PublishCreated, PublishUpdated,
         Unfinalize

\* A publication leaves a bundle in the Secret, or what was there.
LEMMA PublishType ==
    ASSUME TypeOK, NEW c \in CRs, Publish(c), obs[c].details \in Bundles
    PROVE  /\ conn' \in [CRs -> Bundles \cup {NoSecret}]
           /\ conn' = [conn EXCEPT ![c] = SecretApplied(c, obs[c].details)]
           /\ SecretApplied(c, obs[c].details) \in {conn[c], obs[c].details}
  BY DEF TypeOK, Publish, SecretApplied

LEMMA BeginType ==
    ASSUME TypeInvariant, NEW c \in CRs, Begin(c), UNCHANGED bundleVars
    PROVE  TypeInvariant'
  <1>1. cache[c] \in Object /\ cache[c].latest = "none"
    BY ObjectFields DEF TypeInvariant, TypeOK
  <1>2. pc' = [pc EXCEPT ![c] = "observe"]
    BY <1>1 DEF Begin, Goto
  <1>3. TypeOK'
    BY <1>1, <1>2 DEF Begin, bundleVars, TypeInvariant, TypeOK
  <1>4. \A d \in CRs : Returned(d)'
    BY <1>2 DEF Begin, TypeInvariant, TypeOK, Returned
  <1> QED
    BY <1>3, <1>4 DEF TypeInvariant

LEMMA PublishObservedType ==
    ASSUME TypeInvariant, NEW c \in CRs, PublishObserved(c), UNCHANGED bundleVars
    PROVE  TypeInvariant'
  <1>1. pc[c] = "publish" /\ obs[c].details \in Bundles
    BY DEF PublishObserved, TypeInvariant, Returned
  <1>2. conn' \in [CRs -> Bundles \cup {NoSecret}]
    BY <1>1, PublishType DEF PublishObserved, Fail, TypeInvariant, TypeOK
  <1>3. TypeOK'
    BY <1>2 DEF PublishObserved, Fail, Goto, bundleVars, TypeInvariant, TypeOK
  <1>4. \A d \in CRs : Returned(d)'
    BY <1>1 DEF PublishObserved, Fail, Goto, TypeInvariant, TypeOK, Returned
  <1> QED
    BY <1>3, <1>4 DEF TypeInvariant

LEMMA AddFinalizerType ==
    ASSUME TypeInvariant, NEW c \in CRs, AddFinalizer(c), UNCHANGED bundleVars
    PROVE  /\ TypeInvariant'
           /\ pc' = [pc EXCEPT ![c] = "status"]
  <1>1. [mem[c] EXCEPT !.finalizer = TRUE] \in Object
    BY FinalizerUpdate DEF TypeInvariant, TypeOK
  <1>2. /\ api' \in [CRs -> Object]
        /\ base' \in [CRs -> Object]
        /\ mem' \in [CRs -> Object]
    <2>1. CASE UpdateObject(c, [mem[c] EXCEPT !.finalizer = TRUE])
      BY <1>1, <2>1, UpdateObjectType DEF TypeInvariant
    <2>2. CASE UNCHANGED <<api, base, mem>>
      BY <2>2 DEF TypeInvariant, TypeOK
    <2> QED
      BY <2>1, <2>2 DEF AddFinalizer, Fail
  <1>3. pc' = [pc EXCEPT ![c] = "status"]
    BY DEF AddFinalizer, Fail, Goto, TypeInvariant, Returned
  <1>4. TypeOK'
    BY <1>2, <1>3 DEF AddFinalizer, Fail, bundleVars, TypeInvariant, TypeOK
  <1>5. \A d \in CRs : Returned(d)'
    BY <1>3 DEF AddFinalizer, Fail, TypeInvariant, TypeOK, Returned
  <1> QED
    BY <1>3, <1>4, <1>5 DEF TypeInvariant

LEMMA WriteStatusType ==
    ASSUME TypeInvariant, NEW c \in CRs, WriteStatus(c) \/ LoseStatus(c), UNCHANGED bundleVars
    PROVE  TypeInvariant'
  <1> DEFINE ready == IF pc[c] = "creating" THEN "false" ELSE mem[c].ready
  <1>1. api' \in [CRs -> Object]
    <2>1. ready \in {"none", "true", "false"} /\ mem[c].status \in Status
      BY ObjectFields DEF TypeInvariant, TypeOK
    <2>2. \/ api' = [api EXCEPT ![c] = [api[c] EXCEPT !.status = mem[c].status, !.ready = ready]]
          \/ api' = api
      BY DEF WriteStatus, LoseStatus
    <2> HIDE DEF ready
    <2>3. [api[c] EXCEPT !.status = mem[c].status, !.ready = ready] \in Object
      BY <2>1, ReadyUpdate, StatusUpdate DEF TypeInvariant, TypeOK
    <2> QED
      BY <2>2, <2>3 DEF TypeInvariant, TypeOK
  <1>2. TypeOK'
    <2>1. Finish(c) /\ UNCHANGED <<cache, conn, connCache>>
      BY DEF WriteStatus, LoseStatus
    <2> QED
      BY <1>1, <2>1, InitialValues DEF Finish, Goto, bundleVars, TypeInvariant, TypeOK, Obs
  <1>3. \A d \in CRs : Returned(d)'
    BY DEF WriteStatus, LoseStatus, Finish, Goto, TypeInvariant, TypeOK, Returned
  <1> QED
    BY <1>2, <1>3 DEF TypeInvariant

\* The four ways in which Observe ends: with what it reloaded, with what it generated,
\* or with an error.
LEMMA ObserveCases ==
    ASSUME TypeInvariant, NEW c \in CRs, Observe(c)
    PROVE  /\ pc[c] = "observe" /\ UNCHANGED <<api, cache, conn, connCache, base, lost>>
           /\ \/ /\ mem[c].status.generated /\ CanReload(c) /\ UNCHANGED generated
                 /\ ObserveReturns(c, Available(mem[c]), Observation(connCache[c]))
              \/ /\ ~mem[c].status.generated /\ c \in WriteRef
                 /\ generated' = generated + 1 /\ generated' \in Bundles
                 /\ ObserveReturns(c, Available(PopulateStatusMetadata(mem[c], generated')),
                                   Observation(generated'))
              \/ Fail(c, "status") /\ UNCHANGED generated
  <1>1. ASSUME GenerateMachineSecrets(c)
        PROVE  generated' = generated + 1 /\ generated' \in Bundles
    BY <1>1, SecretsAssumption DEF GenerateMachineSecrets, TypeInvariant, TypeOK, Bundles
  <1> QED
    BY <1>1 DEF Observe, ObserveGenerated, ObserveNew, ObserveReturns, Fail

\* What Observe hands the loop has its type.
LEMMA ObserveType ==
    ASSUME TypeInvariant, NEW c \in CRs, Observe(c)
    PROVE  TypeInvariant'
  <1>1. mem[c] \in Object /\ Available(mem[c]) \in Object
    BY ReadyUpdate DEF TypeInvariant, TypeOK, Available
  <1>2. ASSUME NEW b \in Bundles
        PROVE  Available(PopulateStatusMetadata(mem[c], b)) \in Object
    <2>1. [generated |-> TRUE, hash |-> b] \in Status
      BY SecretsAssumption DEF Status, Bundles
    <2>2. PopulateStatusMetadata(mem[c], b) \in Object
      BY <1>1, <2>1, StatusUpdate DEF PopulateStatusMetadata
    <2> QED
      BY <2>2, ReadyUpdate DEF Available
  <1>3. ASSUME NEW b \in Bundles
        PROVE  Observation(b) \in Obs
    BY DEF Observation, Obs
  <1>4. generated' \in 0..MaxBundles
    BY ObserveCases, SecretsAssumption DEF TypeInvariant, TypeOK, Bundles
  <1>5. ASSUME NEW o \in Object, NEW b \in Bundles, c \in WriteRef,
               ObserveReturns(c, o, Observation(b))
        PROVE  TypeInvariant'
    <2>1. /\ mem' = [mem EXCEPT ![c] = o]
          /\ obs' = [obs EXCEPT ![c] = Observation(b)]
          /\ pc' \in [CRs -> {"idle", "observe", "publish", "finalizer", "delete",
                              "status", "creating", "down"}]
          /\ pc' = [pc EXCEPT ![c] = IF o.life = "live" THEN "publish" ELSE "delete"]
          /\ UNCHANGED <<api, cache, conn, connCache, base>>
      BY <1>5 DEF ObserveReturns, Goto, Observation, TypeInvariant, TypeOK
    <2>2. TypeOK'
      BY <1>3, <1>4, <2>1, ObserveCases DEF TypeInvariant, TypeOK, Obs
    <2>3. \A d \in CRs : Returned(d)'
      BY <1>5, <2>1 DEF TypeInvariant, TypeOK, Returned, Observation
    <2> QED
      BY <2>2, <2>3 DEF TypeInvariant
  <1>6. CASE Fail(c, "status") /\ UNCHANGED generated
    <2>1. TypeOK'
      BY <1>6, ObserveCases DEF Fail, Goto, TypeInvariant, TypeOK
    <2>2. \A d \in CRs : Returned(d)'
      BY <1>6 DEF Fail, Goto, TypeInvariant, TypeOK, Returned
    <2> QED
      BY <2>1, <2>2 DEF TypeInvariant
  <1> QED
    BY <1>1, <1>2, <1>5, <1>6, ObserveCases DEF CanReload

LEMMA ReconcileType ==
    ASSUME TypeInvariant, NEW c \in CRs, Reconcile(c)
    PROVE  TypeInvariant'
  <1>1. CASE ReconcileStep(c) /\ UNCHANGED bundleVars
    BY <1>1, BeginType, PublishObservedType, AddFinalizerType, WriteStatusType, NoSuchSteps
    DEF ReconcileStep, TypeInvariant
  <1>2. CASE ConnectFails(c)
    <2>1. TypeOK'
      BY <1>2 DEF ConnectFails, Fail, Goto, bundleVars, TypeInvariant, TypeOK
    <2>2. \A d \in CRs : Returned(d)'
      BY <1>2 DEF ConnectFails, Fail, Goto, bundleVars, TypeInvariant, TypeOK, Returned
    <2> QED
      BY <2>1, <2>2 DEF TypeInvariant
  <1>3. CASE Delete(c)
    <2>1. TypeOK'
      BY <1>3 DEF Delete, DeleteReturns, Goto, bundleVars, TypeInvariant, TypeOK
    <2>2. \A d \in CRs : Returned(d)'
      BY <1>3 DEF Delete, DeleteReturns, Goto, bundleVars, TypeInvariant, TypeOK, Returned
    <2> QED
      BY <2>1, <2>2 DEF TypeInvariant
  <1> QED
    BY <1>1, <1>2, <1>3, ObserveType DEF Reconcile

LEMMA EnvironmentType ==
    ASSUME TypeInvariant, EnvironmentStep, UNCHANGED bundleVars
    PROVE  TypeInvariant'
  <1>1. ASSUME NEW c \in CRs, CacheSync(c) \/ ConnSync(c)
        PROVE  TypeInvariant'
    BY <1>1 DEF CacheSync, ConnSync, bundleVars, TypeInvariant, TypeOK, Returned
  <1>2. ASSUME NEW c \in CRs, RequestDelete(c)
        PROVE  TypeInvariant'
    <2> DEFINE life == IF api[c].finalizer THEN "deleting" ELSE "gone"
    <2>1. [api[c] EXCEPT !.life = life] \in Object
      BY LifeUpdate DEF TypeInvariant, TypeOK
    <2>2. api' = [api EXCEPT ![c] = [api[c] EXCEPT !.life = life]]
      BY <1>2 DEF RequestDelete
    <2> HIDE DEF life
    <2>3. TypeOK'
      <3>1. api' \in [CRs -> Object]
        BY <2>1, <2>2 DEF TypeInvariant, TypeOK
      <3>2. conn' \in [CRs -> Bundles \cup {NoSecret}]
        BY <1>2 DEF RequestDelete, TypeInvariant, TypeOK
      <3>3. UNCHANGED <<cache, connCache, pc, mem, base, obs, generated, lost>>
        BY <1>2 DEF RequestDelete, bundleVars
      <3> QED
        BY <3>1, <3>2, <3>3 DEF TypeInvariant, TypeOK
    <2>4. \A d \in CRs : Returned(d)'
      BY <1>2 DEF RequestDelete, TypeInvariant, Returned
    <2> QED
      BY <2>3, <2>4 DEF TypeInvariant
  <1>3. CASE Crash
    BY <1>3, InitialValues DEF Crash, bundleVars, TypeInvariant, TypeOK, Obs, Returned
  <1>4. CASE Start
    BY <1>4 DEF Start, bundleVars, TypeInvariant, TypeOK, Returned
  <1> QED
    BY <1>1, <1>2, <1>3, <1>4 DEF EnvironmentStep

LEMMA InitType == Init => TypeInvariant
  <1> SUFFICES ASSUME Init PROVE TypeInvariant
    OBVIOUS
  <1>1. TypeOK
    BY InitialValues DEF Init, ReconcilerInit, TypeOK, Obs
  <1> QED
    BY <1>1 DEF Init, ReconcilerInit, TypeInvariant, Returned

LEMMA TypeStep ==
    ASSUME TypeInvariant, [Next]_vars
    PROVE  TypeInvariant'
  <1>1. ASSUME NEW c \in CRs, LoseSecret(c)
        PROVE  TypeInvariant'
    BY <1>1 DEF LoseSecret, TypeInvariant, TypeOK, Returned
  <1>2. CASE UNCHANGED vars
    BY <1>2 DEF vars, TypeInvariant, TypeOK, Returned
  <1> QED
    BY <1>1, <1>2, ReconcileType, EnvironmentType DEF Next

LEMMA TypeInvariantHolds == Spec => []TypeInvariant
  BY InitType, TypeStep, PTL DEF Spec

\* Every variable has its type, and the loop calls neither Create nor Update.
THEOREM TypeCorrect == Spec => []TypeOK
  <1>1. TypeInvariant => TypeOK
    BY DEF TypeInvariant
  <1> QED
    BY <1>1, TypeInvariantHolds, PTL

----------------------------------------------------------------------------
(* What the status records was published *)

\* The Secret of c was written, unless it was deleted since.
Kept(c) == c \in lost \/ api[c].life = "gone" \/ conn[c] \in Bundles

\* An object that shows that the loop got past the publication.
Committed(o) == o.finalizer \/ o.life # "live" \/ o.status.generated

\* Whatever copy of the object shows it, the publication took place.  Between Observe
\* and the publication the object in memory says so too early.
Founded(c) ==
    /\ Committed(api[c]) => Kept(c)
    /\ Committed(cache[c]) => Kept(c)
    /\ Committed(base[c]) => Kept(c)
    /\ pc[c] # "publish" /\ Committed(mem[c]) => Kept(c)
    /\ pc[c] = "finalizer" => Kept(c)
    /\ connCache[c] \in Bundles => Kept(c)
    /\ base[c].life # "gone" /\ mem[c].life # "gone"

\* A process dies with all its workers.
Together == (\A c \in CRs : pc[c] = "down") \/ (\A c \in CRs : pc[c] # "down")

KeptInvariant == TypeInvariant /\ Together /\ \A c \in CRs : Founded(c)

\* A step that leaves what belongs to c alone.
Untouched(c) ==
    /\ api'[c] = api[c] /\ cache'[c] = cache[c] /\ conn'[c] = conn[c]
    /\ connCache'[c] = connCache[c] /\ pc'[c] = pc[c] /\ mem'[c] = mem[c]
    /\ base'[c] = base[c] /\ obs'[c] = obs[c] /\ (c \in lost)' = (c \in lost)

LEMMA OthersUntouched ==
    ASSUME TypeInvariant, NEW c \in CRs, NEW d \in CRs, c # d, Reconcile(c) \/ LoseSecret(c)
    PROVE  Untouched(d)
  <1> USE DEF TypeInvariant, TypeOK, Untouched
  <1>1. CASE ReconcileStep(c) /\ UNCHANGED bundleVars
    <2>1. CASE Begin(c)
      BY <1>1, <2>1 DEF Begin, Goto, bundleVars
    <2>2. CASE PublishObserved(c)
      BY <1>1, <2>2 DEF PublishObserved, Publish, Fail, Goto, bundleVars
    <2>3. CASE AddFinalizer(c)
      <3>1. \/ UpdateObject(c, [mem[c] EXCEPT !.finalizer = TRUE])
            \/ UNCHANGED <<api, base, mem>>
        BY <2>3 DEF AddFinalizer, Fail
      <3>2. api'[d] = api[d] /\ base'[d] = base[d] /\ mem'[d] = mem[d]
        BY <3>1 DEF UpdateObject
      <3> QED
        BY <1>1, <2>3, <3>2 DEF AddFinalizer, Fail, Goto, bundleVars
    <2>4. CASE WriteStatus(c) \/ LoseStatus(c)
      <3>1. api'[d] = api[d]
        BY <2>4 DEF WriteStatus, LoseStatus
      <3>2. Finish(c) /\ UNCHANGED <<cache, conn, connCache>>
        BY <2>4 DEF WriteStatus, LoseStatus
      <3> QED
        BY <1>1, <3>1, <3>2 DEF Finish, Goto, bundleVars
    <2> QED
      BY <1>1, <2>1, <2>2, <2>3, <2>4, NoSuchSteps DEF ReconcileStep
  <1>2. CASE ConnectFails(c)
    BY <1>2 DEF ConnectFails, Fail, Goto, bundleVars
  <1>3. CASE Observe(c)
    BY <1>3, ObserveCases DEF ObserveReturns, Fail, Goto
  <1>4. CASE Delete(c)
    BY <1>4 DEF Delete, DeleteReturns, Goto, bundleVars
  <1>5. CASE LoseSecret(c)
    BY <1>5 DEF LoseSecret
  <1> QED
    BY <1>1, <1>2, <1>3, <1>4, <1>5 DEF Reconcile

LEMMA TogetherStays ==
    ASSUME TypeInvariant, Together, [Next]_vars
    PROVE  Together'
  <1>1. ASSUME NEW c \in CRs, Reconcile(c)
        PROVE  Together'
    <2>1. pc[c] # "down" /\ pc'[c] # "down"
      <3>1. CASE ReconcileStep(c) /\ UNCHANGED bundleVars
        <4>1. CASE AddFinalizer(c)
          BY <3>1, <4>1, AddFinalizerType DEF AddFinalizer, TypeInvariant, TypeOK
        <4> QED
          BY <3>1, <4>1, NoSuchSteps
          DEF ReconcileStep, Begin, PublishObserved, WriteStatus, LoseStatus, Finish, Fail, Goto,
              TypeInvariant, TypeOK
      <3>2. CASE ConnectFails(c)
        BY <3>2 DEF ConnectFails, Fail, Goto, TypeInvariant, TypeOK
      <3>3. CASE Observe(c)
        BY <3>3, ObserveCases DEF ObserveReturns, Fail, Goto, TypeInvariant, TypeOK
      <3>4. CASE Delete(c)
        BY <3>4 DEF Delete, DeleteReturns, Goto, TypeInvariant, TypeOK
      <3> QED
        BY <1>1, <3>1, <3>2, <3>3, <3>4 DEF Reconcile
    <2>2. \A d \in CRs \ {c} : pc'[d] = pc[d]
      BY <1>1, OthersUntouched DEF Untouched
    <2> QED
      BY <2>1, <2>2 DEF Together
  <1>2. ASSUME NEW c \in CRs, LoseSecret(c) \/ CacheSync(c) \/ ConnSync(c) \/ RequestDelete(c)
        PROVE  Together'
    BY <1>2 DEF LoseSecret, CacheSync, ConnSync, RequestDelete, Together
  <1>3. CASE Crash
    BY <1>3 DEF Crash, Together
  <1>4. CASE Start
    BY <1>4 DEF Start, Together
  <1>5. CASE UNCHANGED vars
    BY <1>5 DEF vars, Together
  <1> QED
    BY <1>1, <1>2, <1>3, <1>4, <1>5 DEF Next, EnvironmentStep

LEMMA UntouchedFounded ==
    ASSUME KeptInvariant, NEW c \in CRs, Untouched(c)
    PROVE  Founded(c)'
  BY DEF KeptInvariant, Untouched, Founded, Committed, Kept

LEMMA BeginFounded ==
    ASSUME KeptInvariant, NEW c \in CRs, Begin(c), UNCHANGED bundleVars
    PROVE  Founded(c)'
  BY DEF KeptInvariant, TypeInvariant, TypeOK, Begin, Goto, bundleVars, Founded, Committed, Kept

LEMMA PublishFounded ==
    ASSUME KeptInvariant, NEW c \in CRs, PublishObserved(c), UNCHANGED bundleVars,
           "publishError" \notin Env
    PROVE  Founded(c)'
  <1>1. pc[c] = "publish" /\ obs[c].details \in Bundles /\ c \in WriteRef
    BY DEF PublishObserved, KeptInvariant, TypeInvariant, Returned
  <1>2. NoSecret \notin Bundles /\ NoDetails \notin Bundles
    BY SecretsAssumption DEF Bundles
  <1>3. UNCHANGED <<api, cache, connCache, mem, base, lost>>
    BY DEF PublishObserved, Fail, bundleVars
  <1>4. CASE Publish(c) /\ Goto(c, "finalizer")
    <2>1. conn'[c] = SecretApplied(c, obs[c].details)
      BY <1>4 DEF Publish, KeptInvariant, TypeInvariant, TypeOK
    <2>2. \/ connCache[c] = obs[c].details /\ conn'[c] = conn[c]
          \/ conn'[c] = obs[c].details
      BY <1>1, <1>2, <2>1 DEF SecretApplied
    <2>3. Kept(c)'
      BY <1>1, <1>3, <2>2 DEF KeptInvariant, Founded, Kept
    <2> QED
      BY <1>3, <2>3 DEF KeptInvariant, Founded
  <1>5. CASE PublishCanFail(c) /\ Fail(c, "status")
    <2>1. ~((connCache[c] = NoSecret) <=> (conn[c] = NoSecret)) /\ UNCHANGED conn
      BY <1>5 DEF PublishCanFail, SecretApplies, Fail
    <2>2. Kept(c)
      BY <2>1 DEF KeptInvariant, TypeInvariant, TypeOK, Founded, Kept
    <2>3. Kept(c)'
      BY <1>3, <2>1, <2>2 DEF Kept
    <2> QED
      BY <1>3, <2>3 DEF KeptInvariant, Founded
  <1> QED
    BY <1>4, <1>5 DEF PublishObserved

\* An update of an object that was not deleted leaves what was published where it is.
LEMMA FinalizerFounded ==
    ASSUME KeptInvariant, NEW c \in CRs, AddFinalizer(c), UNCHANGED bundleVars
    PROVE  Founded(c)'
  <1>1. pc[c] = "finalizer" /\ pc'[c] = "status" /\ Kept(c)
    BY AddFinalizerType DEF AddFinalizer, KeptInvariant, TypeInvariant, TypeOK, Founded
  <1>2. UNCHANGED <<conn, cache, connCache, lost>>
    BY DEF AddFinalizer, Fail, bundleVars
  <1> DEFINE object == [mem[c] EXCEPT !.finalizer = TRUE]
  <1>3. CASE UpdateObject(c, object)
    <2>1. object \in Object /\ object.life = mem[c].life
      BY FinalizerUpdate DEF KeptInvariant, TypeInvariant, TypeOK, Object
    <2> HIDE DEF object
    <2>2. \A o \in Decoded(c, object) \cup {Stored(c, object)} : o.life = mem[c].life
      BY <2>1 DEF Decoded, Stored, Object
    <2>3. /\ api'[c] = Stored(c, object) /\ base'[c] = Stored(c, object)
          /\ mem'[c] \in Decoded(c, object)
      BY <1>3 DEF UpdateObject, KeptInvariant, TypeInvariant, TypeOK
    <2>4. api'[c].life = mem[c].life /\ base'[c].life = mem[c].life /\ mem'[c].life = mem[c].life
      BY <2>2, <2>3
    <2>5. api[c].life # "gone"
      BY <1>3 DEF UpdateObject, KeptInvariant, Founded
    <2>6. Kept(c)'
      BY <1>1, <1>2, <2>5 DEF Kept
    <2> QED
      BY <2>4, <2>6 DEF KeptInvariant, Founded
  <1>4. CASE UNCHANGED <<api, base, mem>>
    <2>1. Kept(c)'
      BY <1>1, <1>2, <1>4 DEF Kept
    <2> QED
      BY <1>4, <2>1 DEF KeptInvariant, Founded
  <1> QED
    BY <1>3, <1>4 DEF AddFinalizer, Fail

LEMMA StatusFounded ==
    ASSUME KeptInvariant, NEW c \in CRs, WriteStatus(c) \/ LoseStatus(c), UNCHANGED bundleVars
    PROVE  Founded(c)'
  <1>1. pc[c] \in {"status", "creating"} /\ Finish(c) /\ UNCHANGED <<cache, conn, connCache, lost>>
    BY DEF WriteStatus, LoseStatus, bundleVars
  <1>2. mem'[c] = NewObject /\ base'[c] = NewObject /\ pc'[c] = "idle"
    BY <1>1 DEF Finish, Goto, KeptInvariant, TypeInvariant, TypeOK
  <1>3. ~Committed(NewObject) /\ NewObject.life # "gone"
    BY DEF NewObject, InitStatus, Committed
  <1>4. api'[c].life = api[c].life /\ (Committed(api'[c]) => Kept(c))
    <2>1. CASE WriteStatus(c)
      <3>1. /\ api'[c].life = api[c].life /\ api'[c].finalizer = api[c].finalizer
            /\ api'[c].status = mem[c].status
        BY <2>1 DEF WriteStatus, KeptInvariant, TypeInvariant, TypeOK, Object
      <3> QED
        BY <1>1, <3>1 DEF KeptInvariant, Founded, Committed
    <2>2. CASE LoseStatus(c)
      BY <2>2 DEF LoseStatus, KeptInvariant, Founded
    <2> QED
      BY <2>1, <2>2
  <1>5. Kept(c)' <=> Kept(c)
    BY <1>1, <1>4 DEF Kept
  <1>6. (Committed(cache[c]) \/ connCache[c] \in Bundles) => Kept(c)
    BY DEF KeptInvariant, Founded
  <1> QED
    BY <1>1, <1>2, <1>3, <1>4, <1>5, <1>6 DEF Founded

LEMMA ObserveFounded ==
    ASSUME KeptInvariant, NEW c \in CRs, Observe(c)
    PROVE  Founded(c)'
  <1>1. pc[c] = "observe" /\ UNCHANGED <<api, cache, conn, connCache, base, lost>>
    BY ObserveCases DEF KeptInvariant
  <1>2. Kept(c)' <=> Kept(c)
    BY <1>1 DEF Kept
  <1>3. CASE Fail(c, "status")
    BY <1>1, <1>2, <1>3 DEF Fail, Goto, KeptInvariant, TypeInvariant, TypeOK, Founded
  <1>4. ASSUME NEW o, NEW b, ObserveReturns(c, o, Observation(b)), o.life = mem[c].life
        PROVE  Founded(c)'
    <2>1. /\ mem'[c] = o
          /\ pc'[c] = IF mem[c].life = "live" THEN "publish" ELSE "delete"
      BY <1>4 DEF ObserveReturns, Observation, Goto, KeptInvariant, TypeInvariant, TypeOK
    <2>2. pc'[c] # "publish" => Kept(c)
      BY <1>1, <2>1 DEF KeptInvariant, Founded, Committed
    <2>3. pc'[c] # "finalizer"
      BY <2>1
    <2> QED
      BY <1>1, <1>2, <1>4, <2>1, <2>2, <2>3 DEF KeptInvariant, Founded
  <1>5. Available(mem[c]).life = mem[c].life
    BY DEF Available, KeptInvariant, TypeInvariant, TypeOK, Object
  <1>6. ASSUME NEW b
        PROVE  Available(PopulateStatusMetadata(mem[c], b)).life = mem[c].life
    BY DEF Available, PopulateStatusMetadata, KeptInvariant, TypeInvariant, TypeOK, Object
  <1> QED
    BY <1>3, <1>4, <1>5, <1>6, ObserveCases DEF KeptInvariant

LEMMA EnvironmentFounded ==
    ASSUME KeptInvariant, EnvironmentStep, UNCHANGED bundleVars, NEW c \in CRs
    PROVE  Founded(c)'
  <1>1. ASSUME NEW d \in CRs, CacheSync(d) \/ ConnSync(d)
        PROVE  Founded(c)'
    <2>1. UNCHANGED <<api, conn, pc, mem, base, lost>> /\ (Kept(c)' <=> Kept(c))
      BY <1>1 DEF CacheSync, ConnSync, bundleVars, Kept
    <2>2. cache'[c] \in {cache[c], api[c]} /\ connCache'[c] \in {connCache[c], conn[c]}
      BY <1>1 DEF CacheSync, ConnSync, KeptInvariant, TypeInvariant, TypeOK
    <2>3. conn[c] \in Bundles => Kept(c)
      BY DEF Kept
    <2> QED
      BY <2>1, <2>2, <2>3 DEF KeptInvariant, Founded
  <1>2. ASSUME NEW d \in CRs, RequestDelete(d)
        PROVE  Founded(c)'
    <2>1. UNCHANGED <<cache, connCache, pc, mem, base, lost>>
      BY <1>2 DEF RequestDelete, bundleVars
    <2>2. CASE c # d
      BY <1>2, <2>1, <2>2 DEF RequestDelete, KeptInvariant, TypeInvariant, TypeOK, Founded, Committed, Kept
    <2>3. CASE c = d
      <3>1. api'[c].life = IF api[c].finalizer THEN "deleting" ELSE "gone"
        BY <1>2, <2>3 DEF RequestDelete, KeptInvariant, TypeInvariant, TypeOK, Object
      <3>2. conn' = IF api[c].finalizer THEN conn ELSE [conn EXCEPT ![c] = NoSecret]
        BY <1>2, <2>3 DEF RequestDelete
      <3>3. api[c].life = "live"
        BY <1>2, <2>3 DEF RequestDelete
      <3>4. CASE api[c].finalizer
        <4>1. Kept(c)'
          BY <2>1, <3>2, <3>3, <3>4 DEF KeptInvariant, Founded, Committed, Kept
        <4> QED
          BY <2>1, <4>1 DEF KeptInvariant, Founded
      <3>5. CASE ~api[c].finalizer
        <4>1. Kept(c)'
          BY <3>1, <3>5 DEF Kept
        <4> QED
          BY <2>1, <4>1 DEF KeptInvariant, Founded
      <3> QED
        BY <3>4, <3>5
    <2> QED
      BY <2>2, <2>3
  <1>3. CASE Crash
    <2>1. ~Committed(NewObject) /\ NewObject.life # "gone"
      BY DEF NewObject, InitStatus, Committed
    <2>2. NoSecret \notin Bundles
      BY SecretsAssumption DEF Bundles
    <2>3. /\ UNCHANGED <<api, conn, lost>> /\ pc'[c] = "down"
          /\ cache'[c] = NewObject /\ mem'[c] = NewObject /\ base'[c] = NewObject
          /\ connCache'[c] = NoSecret
      BY <1>3 DEF Crash, bundleVars
    <2>4. Kept(c)' <=> Kept(c)
      BY <2>3 DEF Kept
    <2> QED
      BY <2>1, <2>2, <2>3, <2>4 DEF KeptInvariant, Founded
  <1>4. CASE Start
    <2>1. /\ UNCHANGED <<api, conn, mem, base, lost>> /\ pc'[c] = "idle"
          /\ cache'[c] = api[c] /\ connCache'[c] = conn[c] /\ (Kept(c)' <=> Kept(c))
      BY <1>4 DEF Start, bundleVars, Kept
    <2>2. pc[c] = "down"
      BY <1>4 DEF Start, Down, KeptInvariant, Together
    <2>3. conn[c] \in Bundles => Kept(c)
      BY DEF Kept
    <2>4. Committed(mem[c]) => Kept(c)
      BY <2>2 DEF KeptInvariant, Founded
    <2> QED
      BY <2>1, <2>3, <2>4 DEF KeptInvariant, Founded
  <1> QED
    BY <1>1, <1>2, <1>3, <1>4 DEF EnvironmentStep

LEMMA KeptInvariantHolds ==
    ASSUME "publishError" \notin Env
    PROVE  Spec => []KeptInvariant
  <1>1. Init => KeptInvariant
    <2> SUFFICES ASSUME Init PROVE Together /\ \A c \in CRs : Founded(c)
      BY InitType DEF KeptInvariant
    <2>1. ~Committed(NewObject) /\ NewObject.life # "gone"
      BY DEF NewObject, InitStatus, Committed
    <2>2. NoSecret \notin Bundles
      BY SecretsAssumption DEF Bundles
    <2> QED
      BY <2>1, <2>2 DEF Init, ReconcilerInit, Together, Founded
  <1>2. KeptInvariant /\ [Next]_vars => KeptInvariant'
    <2> SUFFICES ASSUME KeptInvariant, [Next]_vars PROVE KeptInvariant'
      OBVIOUS
    <2>1. TypeInvariant' /\ Together'
      BY TypeStep, TogetherStays DEF KeptInvariant
    <2>2. ASSUME NEW c \in CRs PROVE Founded(c)'
      <3>1. ASSUME NEW d \in CRs, d # c, Reconcile(d) \/ LoseSecret(d)
            PROVE  Founded(c)'
        BY <3>1, OthersUntouched, UntouchedFounded DEF KeptInvariant
      <3>2. CASE Reconcile(c)
        <4>1. CASE ReconcileStep(c) /\ UNCHANGED bundleVars
          BY <4>1, BeginFounded, PublishFounded, FinalizerFounded, StatusFounded, NoSuchSteps
          DEF ReconcileStep, KeptInvariant, TypeInvariant
        <4>2. CASE ConnectFails(c) \/ Delete(c)
          BY <4>2 DEF ConnectFails, Delete, DeleteReturns, Fail, Goto, bundleVars,
             KeptInvariant, TypeInvariant, TypeOK, Founded, Kept
        <4> QED
          BY <3>2, <4>1, <4>2, ObserveFounded DEF Reconcile
      <3>3. CASE LoseSecret(c)
        <4>1. Kept(c)' /\ UNCHANGED <<api, cache, connCache, pc, mem, base>>
          BY <3>3 DEF LoseSecret, Kept
        <4> QED
          BY <4>1 DEF KeptInvariant, Founded
      <3>4. CASE UNCHANGED vars
        BY <3>4 DEF vars, KeptInvariant, Founded, Kept
      <3> QED
        BY <3>1, <3>2, <3>3, <3>4, EnvironmentFounded DEF Next
    <2> QED
      BY <2>1, <2>2 DEF KeptInvariant
  <1> QED
    BY <1>1, <1>2, PTL DEF Spec

\* Unless publications fail, what the status calls generated was published and is
\* there, whatever crashes, stale caches, failed writes and deletions.
THEOREM RecordedWasPublished ==
    ASSUME "publishError" \notin Env
    PROVE  Spec => []GeneratedMeansPublished
  <1>1. KeptInvariant => GeneratedMeansPublished
    BY DEF KeptInvariant, Founded, Committed, Kept, GeneratedMeansPublished
  <1> QED
    BY <1>1, KeptInvariantHolds, PTL

----------------------------------------------------------------------------
(* Status and Secret belong together *)

Matches(c, o) ==
    o.life = "live" /\ o.status.generated /\ conn[c] \in Bundles => conn[c] = o.status.hash

\* What a reconcile that began with fresh caches relies on: only its own worker writes
\* the status and the Secret, others delete them.
Agrees(c) ==
    /\ Matches(c, api[c])
    /\ Matches(c, base[c])
    /\ pc[c] \notin {"idle", "down"} =>
          api[c].status = base[c].status /\ mem[c].life = base[c].life
    /\ pc[c] \in {"observe", "publish"} => conn[c] \in {connCache[c], NoSecret}
    /\ pc[c] = "observe" =>
          /\ mem[c].status = base[c].status
          /\ base[c].life = "live" /\ base[c].status.generated /\ connCache[c] \in Bundles
                => connCache[c] = base[c].status.hash
    /\ pc[c] = "publish" =>
          /\ mem[c].life = "live"
          /\ mem[c].status.hash = obs[c].details
          /\ base[c].status.generated => base[c].status.hash = obs[c].details
    /\ pc[c] \in {"finalizer", "delete", "status", "creating"} => Matches(c, mem[c])

HashInvariant == TypeInvariant /\ \A c \in CRs : Agrees(c)

LEMMA NoBundle == NoSecret \notin Bundles /\ NoDetails \notin Bundles
  BY SecretsAssumption DEF Bundles

LEMMA UntouchedAgrees ==
    ASSUME HashInvariant, NEW c \in CRs, Untouched(c)
    PROVE  Agrees(c)'
  BY DEF HashInvariant, Untouched, Agrees, Matches

LEMMA BeginAgrees ==
    ASSUME HashInvariant, NEW c \in CRs, Begin(c), "stale" \notin Env
    PROVE  Agrees(c)'
  <1>1. cache[c].latest = "none"
    BY ObjectFields DEF HashInvariant, TypeInvariant, TypeOK
  <1>2. /\ pc'[c] = "observe" /\ mem'[c] = api[c] /\ base'[c] = api[c] /\ connCache[c] = conn[c]
        /\ UNCHANGED <<api, conn, connCache, obs>>
    BY <1>1 DEF Begin, Goto, HashInvariant, TypeInvariant, TypeOK
  <1> QED
    BY <1>2 DEF HashInvariant, Agrees, Matches

\* What a publication can do to the Secret: nothing remains there that is not what the
\* reconcile publishes.
LEMMA PublishConn ==
    ASSUME HashInvariant, NEW c \in CRs, PublishObserved(c), "publishError" \notin Env
    PROVE  /\ pc[c] = "publish" /\ pc'[c] \in {"finalizer", "status"}
           /\ conn'[c] \in {obs[c].details, NoSecret}
           /\ conn[c] \in Bundles => connCache[c] = conn[c]
           /\ UNCHANGED <<api, base, mem>>
  <1>1. pc[c] = "publish" /\ obs[c].details \in Bundles /\ c \in WriteRef
    BY DEF PublishObserved, HashInvariant, TypeInvariant, Returned
  <1>2. conn[c] \in {connCache[c], NoSecret}
    BY <1>1 DEF HashInvariant, Agrees
  <1>3. CASE Publish(c) /\ Goto(c, "finalizer") /\ UNCHANGED <<api, mem, base, obs>>
    <2>1. conn'[c] = SecretApplied(c, obs[c].details) /\ pc'[c] = "finalizer"
      BY <1>3 DEF Publish, Goto, HashInvariant, TypeInvariant, TypeOK
    <2>2. conn'[c] \in {obs[c].details, NoSecret}
      BY <1>1, <1>2, <2>1, NoBundle DEF SecretApplied
    <2> QED
      BY <1>1, <1>2, <1>3, <2>1, <2>2, NoBundle
  <1>4. CASE PublishCanFail(c) /\ Fail(c, "status")
    <2>1. ~((connCache[c] = NoSecret) <=> (conn[c] = NoSecret))
      BY <1>4 DEF PublishCanFail, SecretApplies
    <2>2. conn[c] = NoSecret /\ conn'[c] = NoSecret /\ pc'[c] = "status"
      BY <1>2, <1>4, <2>1 DEF Fail, Goto, HashInvariant, TypeInvariant, TypeOK
    <2> QED
      BY <1>1, <1>4, <2>2, NoBundle DEF Fail
  <1> QED
    BY <1>3, <1>4 DEF PublishObserved

LEMMA PublishAgrees ==
    ASSUME HashInvariant, NEW c \in CRs, PublishObserved(c), "publishError" \notin Env
    PROVE  Agrees(c)'
  <1>1. /\ mem[c].life = "live" /\ mem[c].status.hash = obs[c].details
        /\ base[c].status.generated => base[c].status.hash = obs[c].details
        /\ api[c].status = base[c].status /\ mem[c].life = base[c].life
    BY PublishConn DEF HashInvariant, Agrees
  <1> QED
    BY <1>1, PublishConn, NoBundle DEF Agrees, Matches

LEMMA FinalizerAgrees ==
    ASSUME HashInvariant, NEW c \in CRs, AddFinalizer(c), UNCHANGED bundleVars
    PROVE  Agrees(c)'
  <1>1. pc[c] = "finalizer" /\ pc'[c] = "status" /\ UNCHANGED conn
    BY AddFinalizerType DEF AddFinalizer, Fail, HashInvariant, TypeInvariant, TypeOK
  <1>2. /\ api[c].status = base[c].status /\ mem[c].life = base[c].life
        /\ Matches(c, base[c]) /\ Matches(c, mem[c])
    BY <1>1 DEF HashInvariant, Agrees
  <1> DEFINE object == [mem[c] EXCEPT !.finalizer = TRUE]
  <1>3. CASE UpdateObject(c, object)
    <2>1. /\ object \in Object /\ object.life = mem[c].life
          /\ object.status = mem[c].status
      <3>1. mem[c] \in Object
        BY DEF HashInvariant, TypeInvariant, TypeOK
      <3>2. object \in Object
        BY <3>1, FinalizerUpdate
      <3> QED
        BY <3>1, <3>2 DEF Object
    <2> HIDE DEF object
    <2>2. Stored(c, object).life = mem[c].life /\ Stored(c, object).status = api[c].status
      BY <2>1 DEF Stored, Object
    <2>3. \A o \in Decoded(c, object) :
              o.life = mem[c].life /\ o.status \in {mem[c].status, api[c].status}
      BY <2>1, <2>2 DEF Decoded, Object
    <2>4. /\ api'[c] = Stored(c, object) /\ base'[c] = Stored(c, object)
          /\ mem'[c] \in Decoded(c, object)
      BY <1>3 DEF UpdateObject, HashInvariant, TypeInvariant, TypeOK
    <2>5. /\ api'[c].life = mem[c].life /\ base'[c].life = mem[c].life
          /\ api'[c].status = api[c].status /\ base'[c].status = api[c].status
          /\ mem'[c].life = mem[c].life /\ mem'[c].status \in {mem[c].status, api[c].status}
      BY <2>2, <2>3, <2>4
    <2> QED
      BY <1>1, <1>2, <2>5 DEF Agrees, Matches
  <1>4. CASE UNCHANGED <<api, base, mem>>
    BY <1>1, <1>2, <1>4 DEF HashInvariant, Agrees, Matches
  <1> QED
    BY <1>3, <1>4 DEF AddFinalizer, Fail

LEMMA StatusAgrees ==
    ASSUME HashInvariant, NEW c \in CRs, WriteStatus(c) \/ LoseStatus(c)
    PROVE  Agrees(c)'
  <1>1. /\ pc[c] \in {"status", "creating"} /\ UNCHANGED conn
        /\ pc'[c] = "idle" /\ base'[c] = NewObject
    BY DEF WriteStatus, LoseStatus, Finish, Goto, HashInvariant, TypeInvariant, TypeOK
  <1>2. ~NewObject.status.generated
    BY DEF NewObject, InitStatus
  <1>3. Matches(c, mem[c]) /\ Matches(c, api[c]) /\ mem[c].life = base[c].life
    BY <1>1 DEF HashInvariant, Agrees
  <1>4. CASE WriteStatus(c)
    <2>1. api'[c].life = api[c].life /\ api'[c].status = mem[c].status /\ base[c] = api[c]
      BY <1>4 DEF WriteStatus, HashInvariant, TypeInvariant, TypeOK, Object
    <2> QED
      BY <1>1, <1>2, <1>3, <2>1 DEF Agrees, Matches
  <1>5. CASE LoseStatus(c)
    BY <1>1, <1>2, <1>3, <1>5 DEF LoseStatus, Agrees, Matches
  <1> QED
    BY <1>4, <1>5

LEMMA ObserveAgrees ==
    ASSUME HashInvariant, NEW c \in CRs, Observe(c)
    PROVE  Agrees(c)'
  <1>1. pc[c] = "observe" /\ UNCHANGED <<api, cache, conn, connCache, base>>
    BY ObserveCases DEF HashInvariant
  <1>2. /\ api[c].status = base[c].status /\ mem[c].life = base[c].life
        /\ mem[c].status = base[c].status /\ conn[c] \in {connCache[c], NoSecret}
        /\ base[c].life = "live" /\ base[c].status.generated /\ connCache[c] \in Bundles
              => connCache[c] = base[c].status.hash
        /\ Matches(c, api[c]) /\ Matches(c, base[c])
    BY <1>1 DEF HashInvariant, Agrees
  <1>3. CASE Fail(c, "status")
    <2>1. pc'[c] = "status" /\ UNCHANGED <<mem, obs>>
      BY <1>3 DEF Fail, Goto, HashInvariant, TypeInvariant, TypeOK
    <2> QED
      BY <1>1, <1>2, <2>1 DEF Agrees, Matches
  <1>4. ASSUME NEW o, NEW b, ObserveReturns(c, o, Observation(b)),
               o.life = mem[c].life, o.status.hash = b,
               base[c].life = "live" /\ base[c].status.generated => base[c].status.hash = b
        PROVE  Agrees(c)'
    <2>1. /\ mem'[c] = o /\ obs'[c].details = b
          /\ pc'[c] = IF o.life = "live" THEN "publish" ELSE "delete"
      BY <1>4 DEF ObserveReturns, Observation, Goto, HashInvariant, TypeInvariant, TypeOK
    <2>2. CASE o.life = "live"
      BY <1>1, <1>2, <1>4, <2>1, <2>2 DEF Agrees, Matches
    <2>3. CASE o.life # "live"
      BY <1>1, <1>2, <1>4, <2>1, <2>3 DEF Agrees, Matches
    <2> QED
      BY <2>2, <2>3
  <1>5. /\ Available(mem[c]).life = mem[c].life
        /\ Available(mem[c]).status = mem[c].status
    BY DEF Available, HashInvariant, TypeInvariant, TypeOK, Object
  <1>6. ASSUME NEW b
        PROVE  /\ Available(PopulateStatusMetadata(mem[c], b)).life = mem[c].life
               /\ Available(PopulateStatusMetadata(mem[c], b)).status.hash = b
    BY DEF Available, PopulateStatusMetadata, HashInvariant, TypeInvariant, TypeOK, Object
  <1>7. ASSUME mem[c].status.generated, connCache[c] \in Bundles,
               ObserveReturns(c, Available(mem[c]), Observation(connCache[c]))
        PROVE  Agrees(c)'
    <2>1. CASE mem[c].life = "live"
      BY <1>2, <1>4, <1>5, <1>7, <2>1
    <2>2. CASE mem[c].life # "live"
      <3>1. mem'[c].life # "live" /\ pc'[c] = "delete" /\ mem'[c].life = mem[c].life
        BY <1>5, <1>7, <2>2
        DEF ObserveReturns, Observation, Goto, HashInvariant, TypeInvariant, TypeOK
      <3> QED
        BY <1>1, <1>2, <3>1 DEF Agrees, Matches
    <2> QED
      BY <2>1, <2>2
  <1>8. ASSUME ~mem[c].status.generated,
               ObserveReturns(c, Available(PopulateStatusMetadata(mem[c], generated')),
                              Observation(generated'))
        PROVE  Agrees(c)'
    BY <1>2, <1>4, <1>6, <1>8
  <1> QED
    BY <1>3, <1>7, <1>8, ObserveCases DEF CanReload, HashInvariant

LEMMA EnvironmentAgrees ==
    ASSUME HashInvariant, EnvironmentStep, NEW c \in CRs
    PROVE  Agrees(c)'
  <1>1. ASSUME NEW d \in CRs, CacheSync(d) \/ ConnSync(d)
        PROVE  Agrees(c)'
    <2>1. UNCHANGED <<api, conn, pc, mem, base, obs>>
      BY <1>1 DEF CacheSync, ConnSync
    <2>2. connCache'[c] \in {connCache[c], conn[c]}
      BY <1>1 DEF CacheSync, ConnSync, HashInvariant, TypeInvariant, TypeOK
    <2> QED
      BY <2>1, <2>2 DEF HashInvariant, Agrees, Matches
  <1>2. ASSUME NEW d \in CRs, RequestDelete(d)
        PROVE  Agrees(c)'
    <2>1. UNCHANGED <<connCache, pc, mem, base, obs>>
      BY <1>2 DEF RequestDelete
    <2>2. conn'[c] \in {conn[c], NoSecret}
      BY <1>2 DEF RequestDelete, HashInvariant, TypeInvariant, TypeOK
    <2>3. api'[c].status = api[c].status /\ (api'[c].life = "live" => api'[c] = api[c])
      <3>1. CASE c = d
        BY <1>2, <3>1 DEF RequestDelete, HashInvariant, TypeInvariant, TypeOK, Object
      <3>2. CASE c # d
        BY <1>2, <3>2 DEF RequestDelete, HashInvariant, TypeInvariant, TypeOK
      <3> QED
        BY <3>1, <3>2
    <2> QED
      BY <2>1, <2>2, <2>3, NoBundle DEF HashInvariant, Agrees, Matches
  <1>3. CASE Crash
    <2>1. ~NewObject.status.generated
      BY DEF NewObject, InitStatus
    <2> QED
      BY <1>3, <2>1 DEF Crash, HashInvariant, Agrees, Matches
  <1>4. CASE Start
    BY <1>4 DEF Start, HashInvariant, Agrees, Matches
  <1> QED
    BY <1>1, <1>2, <1>3, <1>4 DEF EnvironmentStep

LEMMA HashInvariantHolds ==
    ASSUME "publishError" \notin Env, "stale" \notin Env
    PROVE  Spec => []HashInvariant
  <1>1. Init => HashInvariant
    <2> SUFFICES ASSUME Init PROVE \A c \in CRs : Agrees(c)
      BY InitType DEF HashInvariant
    <2>1. ~NewObject.status.generated
      BY DEF NewObject, InitStatus
    <2> QED
      BY <2>1 DEF Init, ReconcilerInit, Agrees, Matches
  <1>2. HashInvariant /\ [Next]_vars => HashInvariant'
    <2> SUFFICES ASSUME HashInvariant, [Next]_vars PROVE HashInvariant'
      OBVIOUS
    <2>1. TypeInvariant'
      BY TypeStep DEF HashInvariant
    <2>2. ASSUME NEW c \in CRs PROVE Agrees(c)'
      <3>1. ASSUME NEW d \in CRs, d # c, Reconcile(d) \/ LoseSecret(d)
            PROVE  Agrees(c)'
        BY <3>1, OthersUntouched, UntouchedAgrees DEF HashInvariant
      <3>2. CASE Reconcile(c)
        <4>1. CASE ReconcileStep(c) /\ UNCHANGED bundleVars
          BY <4>1, BeginAgrees, PublishAgrees, FinalizerAgrees, StatusAgrees, NoSuchSteps
          DEF ReconcileStep, HashInvariant, TypeInvariant
        <4>2. CASE ConnectFails(c) \/ Delete(c)
          <5>1. /\ UNCHANGED <<api, conn, connCache, mem, base, obs>>
                /\ \/ pc[c] = "observe" /\ pc'[c] = "status"
                   \/ pc[c] = "delete" /\ pc'[c] = "creating"
            BY <4>2 DEF ConnectFails, Delete, DeleteReturns, Fail, Goto, HashInvariant,
                        TypeInvariant, TypeOK
          <5> QED
            BY <5>1 DEF HashInvariant, Agrees, Matches
        <4> QED
          BY <3>2, <4>1, <4>2, ObserveAgrees DEF Reconcile
      <3>3. CASE LoseSecret(c)
        <4>1. conn'[c] = NoSecret /\ UNCHANGED <<api, connCache, pc, mem, base, obs>>
          BY <3>3 DEF LoseSecret, HashInvariant, TypeInvariant, TypeOK
        <4> QED
          BY <4>1, NoBundle DEF HashInvariant, Agrees, Matches
      <3>4. CASE UNCHANGED vars
        BY <3>4 DEF vars, HashInvariant, Agrees, Matches
      <3> QED
        BY <3>1, <3>2, <3>3, <3>4, EnvironmentAgrees DEF Next
    <2> QED
      BY <2>1, <2>2 DEF HashInvariant
  <1> QED
    BY <1>1, <1>2, PTL DEF Spec

\* With fresh caches and publications that do not fail, the hash a live resource records
\* is that of the bundle in its Secret, whatever crashes and lost writes.
THEOREM HashAndSecretAgree ==
    ASSUME "publishError" \notin Env, "stale" \notin Env
    PROVE  Spec => []HashMatchesSecret
  <1>1. HashInvariant => HashMatchesSecret
    BY DEF HashInvariant, Agrees, Matches, HashMatchesSecret
  <1> QED
    BY <1>1, HashInvariantHolds, PTL

\* Under the same conditions a recorded bundle is never replaced in its Secret.
THEOREM RecordedIsFinal ==
    ASSUME "publishError" \notin Env, "stale" \notin Env
    PROVE  Spec => RecordedBundleIsFinal
  <1> DEFINE Final(c) ==
          api[c].status.generated /\ conn[c] \in Bundles /\ conn'[c] \in Bundles
              => conn'[c] = conn[c]
  <1>1. ASSUME HashInvariant, [Next]_vars, NEW c \in CRs
        PROVE  Final(c)
    <2>1. ASSUME NEW d \in CRs, d # c, Reconcile(d) \/ LoseSecret(d)
          PROVE  Final(c)
      BY <1>1, <2>1, OthersUntouched DEF HashInvariant, Untouched
    <2>2. CASE Reconcile(c)
      <3>1. CASE PublishObserved(c)
        <4>1. /\ mem[c].life = "live" /\ mem[c].life = base[c].life
              /\ api[c].status = base[c].status
              /\ base[c].status.generated => base[c].status.hash = obs[c].details
              /\ Matches(c, base[c])
          BY <1>1, <3>1, PublishConn DEF HashInvariant, Agrees
        <4> QED
          BY <1>1, <3>1, <4>1, PublishConn, NoBundle DEF Matches
      <3>2. CASE ~PublishObserved(c)
        <4>1. UNCHANGED conn
          <5>1. CASE ReconcileStep(c)
            BY <1>1, <3>2, <5>1, NoSuchSteps
            DEF ReconcileStep, Begin, AddFinalizer, WriteStatus, LoseStatus, Fail, HashInvariant,
                TypeInvariant
          <5>2. CASE Observe(c)
            BY <1>1, <5>2, ObserveCases DEF HashInvariant
          <5>3. CASE ConnectFails(c) \/ Delete(c)
            BY <5>3 DEF ConnectFails, Delete, DeleteReturns, Fail
          <5> QED
            BY <2>2, <5>1, <5>2, <5>3 DEF Reconcile
        <4> QED
          BY <4>1
      <3> QED
        BY <3>1, <3>2
    <2>3. CASE LoseSecret(c)
      BY <1>1, <2>3, NoBundle DEF LoseSecret, HashInvariant, TypeInvariant, TypeOK
    <2>4. CASE EnvironmentStep
      <3>1. conn'[c] \in {conn[c], NoSecret}
        BY <1>1, <2>4 DEF EnvironmentStep, CacheSync, ConnSync, RequestDelete, Crash, Start,
                          HashInvariant, TypeInvariant, TypeOK
      <3> QED
        BY <3>1, NoBundle
    <2>5. CASE UNCHANGED vars
      BY <2>5 DEF vars
    <2> QED
      BY <1>1, <2>1, <2>2, <2>3, <2>4, <2>5 DEF Next
  <1>2. HashInvariant /\ [Next]_vars => [\A c \in CRs : Final(c)]_vars
    BY <1>1
  <1> QED
    BY <1>2, HashInvariantHolds, PTL DEF Spec, RecordedBundleIsFinal

----------------------------------------------------------------------------
(* The forms of a published bundle *)

FormsProofs == INSTANCE MachineSecretsProofs WITH Text <- Text, Empty <- <<>>, Nil <- <<>>

\* A function with something in its domain is not empty.
LEMMA NotEmpty ==
    ASSUME NEW f, NEW x \in DOMAIN f
    PROVE  f # <<>>
  <1>1. DOMAIN <<>> = {}
    OBVIOUS
  <1> QED
    BY <1>1

\* A bundle that was generated has every part, and no required text of it is empty.
LEMMA GeneratedIsWhole ==
    ASSUME NEW b \in Bundles, NEW encryption \in {"secretbox", "aescbc"}
    PROVE  /\ NewBundle(b, encryption) \in Forms!WholeBundle
           /\ Forms!Complete(NewBundle(b, encryption))
           /\ Forms!Validate(NewBundle(b, encryption))
  <1>1. ASSUME NEW group \in Parts, NEW field \in Fields
        PROVE  <<b, group, field>> \in Text /\ <<b, group, field>> # <<>>
    BY DEF Text
  <1>2. <<>> \in Text
    BY DEF Text
  <1> DEFINE certs == [n \in Forms!Certificates |-> [p \in Forms!Parts(n) |-> <<b, n, p>>]]
  <1>3. ASSUME NEW n \in Forms!Certificates
        PROVE  certs[n] \in [Forms!Parts(n) -> Text \ {<<>>}] /\ certs[n] # <<>>
    <2>1. ASSUME NEW p \in Forms!Parts(n)
          PROVE  <<b, n, p>> \in Text \ {<<>>}
      <3>1. n \in Parts /\ p \in Fields
        BY DEF Forms!Certificates, Forms!Parts, Parts, Fields
      <3> QED
        BY <1>1, <3>1
    <2>2. "key" \in Forms!Parts(n)
      BY DEF Forms!Parts
    <2>3. certs[n] = [p \in Forms!Parts(n) |-> <<b, n, p>>]
      OBVIOUS
    <2>4. "key" \in DOMAIN certs[n]
      BY <2>2, <2>3
    <2> QED
      BY <2>1, <2>3, <2>4, NotEmpty
  <1>4. certs \in Forms!CertsOf(Text)
    BY <1>3 DEF Forms!CertsOf
  <1> DEFINE cluster == [id |-> <<b, "cluster", "id">>, secret |-> <<b, "cluster", "secret">>]
             secrets == [bootstrapToken |-> <<b, "secrets", "bootstrapToken">>,
                         secretbox |-> IF encryption = "secretbox"
                                       THEN <<b, "secrets", "secretbox">> ELSE <<>>,
                         aescbc |-> IF encryption = "aescbc"
                                    THEN <<b, "secrets", "aescbc">> ELSE <<>>]
             trustdInfo == [token |-> <<b, "trustdInfo", "token">>]
  <1>5. /\ cluster \in Forms!Cluster /\ cluster.id # <<>> /\ cluster.secret # <<>>
        /\ cluster # <<>>
    <2>1. "id" \in DOMAIN cluster
      OBVIOUS
    <2>2. cluster # <<>>
      BY <2>1, NotEmpty
    <2>3. /\ <<b, "cluster", "id">> \in Text /\ <<b, "cluster", "id">> # <<>>
          /\ <<b, "cluster", "secret">> \in Text /\ <<b, "cluster", "secret">> # <<>>
      BY <1>1 DEF Parts, Fields
    <2> QED
      BY <2>2, <2>3 DEF Forms!Cluster
  <1>6. /\ secrets \in Forms!Secrets /\ secrets.bootstrapToken # <<>>
        /\ secrets.secretbox # <<>> \/ secrets.aescbc # <<>>
        /\ secrets # <<>>
    <2>1. "aescbc" \in DOMAIN secrets
      OBVIOUS
    <2>2. secrets # <<>>
      BY <2>1, NotEmpty
    <2>3. /\ <<b, "secrets", "bootstrapToken">> \in Text /\ <<b, "secrets", "bootstrapToken">> # <<>>
          /\ <<b, "secrets", "secretbox">> \in Text /\ <<b, "secrets", "secretbox">> # <<>>
          /\ <<b, "secrets", "aescbc">> \in Text /\ <<b, "secrets", "aescbc">> # <<>>
      BY <1>1 DEF Parts, Fields
    <2> QED
      BY <1>2, <2>2, <2>3 DEF Forms!Secrets
  <1>7. trustdInfo \in Forms!TrustdInfo /\ trustdInfo.token # <<>> /\ trustdInfo # <<>>
    <2>1. "token" \in DOMAIN trustdInfo
      OBVIOUS
    <2>2. trustdInfo # <<>>
      BY <2>1, NotEmpty
    <2>3. <<b, "trustdInfo", "token">> \in Text /\ <<b, "trustdInfo", "token">> # <<>>
      BY <1>1 DEF Parts, Fields
    <2> QED
      BY <2>2, <2>3 DEF Forms!TrustdInfo
  <1>8. certs # <<>>
    <2>1. "os" \in DOMAIN certs
      BY DEF Forms!Certificates
    <2> QED
      BY <2>1, NotEmpty
  <1>9. NewBundle(b, encryption) = [cluster |-> cluster, secrets |-> secrets,
                                    trustdInfo |-> trustdInfo, certs |-> certs]
    BY DEF NewBundle
  <1>10. \A n \in Forms!Certificates : \A p \in Forms!Parts(n) : certs[n][p] # <<>>
    BY <1>3
  <1> HIDE DEF cluster, secrets, trustdInfo, certs
  <1> DEFINE bundle == [cluster |-> cluster, secrets |-> secrets,
                        trustdInfo |-> trustdInfo, certs |-> certs]
  <1>11. bundle # <<>>
    <2>1. "certs" \in DOMAIN bundle
      OBVIOUS
    <2> QED
      BY <2>1, NotEmpty
  <1>12. bundle \in Forms!WholeBundle
    BY <1>4, <1>5, <1>6, <1>7 DEF Forms!WholeBundle
  <1>13. Forms!Complete(bundle)
    BY <1>3, <1>5, <1>6, <1>7, <1>8, <1>11 DEF Forms!Complete
  <1>14. Forms!Validate(bundle)
    BY <1>5, <1>6, <1>7, <1>10 DEF Forms!Validate
  <1> QED
    BY <1>9, <1>12, <1>13, <1>14

\* Whatever bundle a Secret holds, its forms say the same.
LEMMA FormsAgree ==
    ASSUME NEW b \in Bundles, NEW encryption \in {"secretbox", "aescbc"}
    PROVE  /\ Details(b, encryption) # {}
           /\ \A details \in Details(b, encryption) :
                /\ Forms!MachineSecretsToSecretsBundle(details.machine_secrets)
                        = {details.machine_secrets_bundle}
                /\ Forms!Decode(details.client_configuration)
                        = [caCertificate |-> details.ca_certificate,
                           clientCertificate |-> details.client_certificate,
                           clientKey |-> details.client_key]
                /\ details.talos_config.contexts.default
                        = Forms!Decode(details.client_configuration)
                /\ details.ca_certificate = details.machine_secrets_bundle.certs["os"]["crt"]
  <1> DEFINE bundle == NewBundle(b, encryption)
             issued == [p \in {"crt", "key"} |-> <<b, "admin", p>>]
  <1>1. bundle \in Forms!WholeBundle /\ Forms!Complete(bundle) /\ Forms!Validate(bundle)
    BY GeneratedIsWhole
  <1> HIDE DEF bundle, issued
  <1> DEFINE contract == [bundle EXCEPT !.certs = [n \in Forms!Certificates |-> Forms!Encode(@[n])]]
             client == [caCertificate |-> bundle.certs["os"]["crt"],
                        clientCertificate |-> issued["crt"], clientKey |-> issued["key"]]
  <1>2. Forms!SecretsBundleToMachineSecrets(bundle) = {contract}
    BY <1>1 DEF Forms!SecretsBundleToMachineSecrets
  <1>3. Forms!GenerateClientConfiguration(bundle, issued) = {client}
    BY <1>1 DEF Forms!GenerateClientConfiguration, Forms!Complete, Forms!Certificates
  <1>4. contract # <<>>
    <2>1. "certs" \in DOMAIN contract
      BY <1>1 DEF Forms!WholeBundle
    <2> QED
      BY <2>1, NotEmpty
  <1>5. Forms!MachineSecretsToSecretsBundle(contract) = {bundle}
    <2> HIDE DEF contract
    <2>1. /\ FormsProofs!WholeBundle = Forms!WholeBundle
          /\ FormsProofs!Validate(bundle) = Forms!Validate(bundle)
          /\ FormsProofs!SecretsBundleToMachineSecrets(bundle)
                = Forms!SecretsBundleToMachineSecrets(bundle)
          /\ FormsProofs!MachineSecretsToSecretsBundle(contract)
                = Forms!MachineSecretsToSecretsBundle(contract)
      BY DEF FormsProofs!WholeBundle, Forms!WholeBundle, FormsProofs!Cluster, Forms!Cluster,
             FormsProofs!Secrets, Forms!Secrets, FormsProofs!TrustdInfo, Forms!TrustdInfo,
             FormsProofs!CertsOf, Forms!CertsOf, FormsProofs!Certificates,
             Forms!Certificates, FormsProofs!Parts, Forms!Parts, FormsProofs!Validate,
             Forms!Validate, FormsProofs!Complete, Forms!Complete, FormsProofs!Encode,
             Forms!Encode, FormsProofs!Decode, Forms!Decode, FormsProofs!DecodeAll,
             Forms!DecodeAll, FormsProofs!Encoded, Forms!Encoded, FormsProofs!Decodable,
             Forms!Decodable, FormsProofs!SecretsBundleToMachineSecrets,
             Forms!SecretsBundleToMachineSecrets, FormsProofs!MachineSecretsToSecretsBundle,
             Forms!MachineSecretsToSecretsBundle
    <2>2. /\ bundle \in FormsProofs!WholeBundle
          /\ FormsProofs!Validate(bundle)
          /\ contract \in FormsProofs!SecretsBundleToMachineSecrets(bundle)
      BY <1>1, <1>2, <2>1
    <2>3. FormsProofs!MachineSecretsToSecretsBundle(contract) = {bundle}
      BY <2>2, <1>4, FormsProofs!RoundTrip
    <2> QED
      BY <2>1, <2>3
  <1>6. Details(b, encryption) = {Forms!ConnectionDetails(bundle, contract, client)}
    <2>1. Details(b, encryption) = Forms!Published(bundle, issued)
      BY DEF Details, bundle, issued
    <2> HIDE DEF contract, client
    <2>2. Forms!Published(bundle, issued) = {Forms!ConnectionDetails(bundle, contract, client)}
      BY <1>2, <1>3 DEF Forms!Published
    <2> QED
      BY <2>1, <2>2
  <1>7. Forms!Decode(Forms!Encode(client)) = client
    BY DEF Forms!Decode, Forms!Encode, Forms!Encoded
  <1> QED
    BY <1>5, <1>6, <1>7 DEF Forms!ConnectionDetails

\* Every consumer of a published bundle finds the same secrets in the form it reads.
THEOREM EveryFormSaysTheSame == Spec => []PublishedFormsAgree
  <1>1. PublishedFormsAgree
    BY FormsAgree DEF PublishedFormsAgree
  <1> QED
    BY <1>1, PTL
===============================================================================
