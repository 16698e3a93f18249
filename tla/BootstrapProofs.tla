--------------------------- MODULE BootstrapProofs ---------------------------
(***************************************************************************)
(* Theorems about Bootstrap, for every set of resources and nodes, every   *)
(* set Env of faults and every bound on the clock (ReadyIsProbed: under    *)
(* two conditions on the faults), and the refinement of OneShot.           *)
(***************************************************************************)
EXTENDS Bootstrap, TLAPS

----------------------------------------------------------------------------
(* The type invariant *)

\* The pieces of TypeOK a step of one reconcile can disturb.
ReconcilerTypeOK ==
    /\ api \in [CRs -> Object]
    /\ cache \in [CRs -> Object]
    /\ mem \in [CRs -> Object]
    /\ base \in [CRs -> Object]
    /\ obs \in [CRs -> Obs]
    /\ conn \in [CRs -> {NoSecret, NoDetails}]
    /\ connCache \in [CRs -> {NoSecret, NoDetails}]
    /\ pc \in [CRs -> Labels \cup {"verifyCreated", "verifyExists"}]

LEMMA InitialValues ==
    /\ NewObject \in Object
    /\ NoObs \in Obs
  <1>1. 0 \in 0..MaxNow
    BY BootstrapAssumption
  <1>2. InitStatus \in Status
    BY <1>1 DEF InitStatus, Status
  <1> QED
    BY <1>2 DEF NewObject, NoObs, Object, Obs

\* What the actions change in an object leaves it an object.
LEMMA ReadyUpdate ==
    ASSUME NEW o \in Object, NEW r \in {"none", "true", "false"}
    PROVE  [o EXCEPT !.ready = r] \in Object
  BY DEF Object

LEMMA StatusUpdate ==
    ASSUME NEW o \in Object, NEW s \in Status
    PROVE  [o EXCEPT !.status = s] \in Object
  BY DEF Object

LEMMA LatestUpdate ==
    ASSUME NEW o \in Object, NEW l \in {"none", "pending", "succeeded", "failed"}
    PROVE  /\ [o EXCEPT !.latest = l] \in Object
           /\ [o EXCEPT !.latest = l].latest = l
           /\ [o EXCEPT !.latest = l].succeeded = o.succeeded
  BY DEF Object

LEMMA SucceededUpdate ==
    ASSUME NEW o \in Object, NEW b \in BOOLEAN
    PROVE  [o EXCEPT !.succeeded = b] \in Object
  BY DEF Object

LEMMA FinalizerUpdate ==
    ASSUME NEW o \in Object, NEW b \in BOOLEAN
    PROVE  /\ [o EXCEPT !.finalizer = b] \in Object
           /\ [o EXCEPT !.finalizer = b].latest = o.latest
           /\ [o EXCEPT !.finalizer = b].succeeded = o.succeeded
  BY DEF Object

LEMMA LifeUpdate ==
    ASSUME NEW o \in Object, NEW f \in {"live", "deleting", "gone"}
    PROVE  [o EXCEPT !.life = f] \in Object
  BY DEF Object

LEMMA ObjectFields ==
    ASSUME NEW o \in Object
    PROVE  /\ o.life \in {"live", "deleting", "gone"}
           /\ o.finalizer \in BOOLEAN
           /\ o.latest \in {"none", "pending", "succeeded", "failed"}
           /\ o.succeeded \in BOOLEAN
           /\ o.ready \in {"none", "true", "false"}
           /\ o.status \in Status
  BY DEF Object

\* There is nothing in a connection Secret of this kind.
LEMMA NothingPublished ==
    ASSUME TypeOK, NEW c \in CRs, Publish(c)
    PROVE  conn' \in [CRs -> {NoSecret, NoDetails}]
  BY DEF TypeOK, Obs, Publish, SecretApplied

LEMMA UpdateObjectType ==
    ASSUME TypeOK, NEW c \in CRs, NEW object \in Object, UpdateObject(c, object)
    PROVE  /\ api' \in [CRs -> Object]
           /\ base' \in [CRs -> Object]
           /\ mem' \in [CRs -> Object]
  <1>1. api[c].ready \in {"none", "true", "false"} /\ api[c].status \in Status
    BY ObjectFields DEF TypeOK
  <1>2. Stored(c, object) \in Object /\ [object EXCEPT !.ready = api[c].ready] \in Object
    BY <1>1, ReadyUpdate, StatusUpdate DEF Stored
  <1>3. Decoded(c, object) \subseteq Object
    BY <1>2 DEF Decoded
  <1> QED
    BY <1>2, <1>3 DEF UpdateObject, TypeOK

LEMMA AnnotatedType ==
    ASSUME NEW o \in Object, NEW outcome \in {"succeeded", "failed"}
    PROVE  Annotated(o, outcome) \in Object
  <1> DEFINE b == o.succeeded \/ outcome = "succeeded"
  <1>1. b \in BOOLEAN
    OBVIOUS
  <1>2. Annotated(o, outcome) = [o EXCEPT !.latest = outcome, !.succeeded = b]
    BY DEF Annotated
  <1> DEFINE recorded == [o EXCEPT !.latest = outcome]
  <1>3. recorded \in Object /\ recorded.succeeded = o.succeeded
    BY LatestUpdate DEF Object
  <1>4. Annotated(o, outcome) = [recorded EXCEPT !.succeeded = b]
    BY <1>2
  <1> HIDE DEF b, recorded
  <1> QED
    BY <1>1, <1>3, <1>4, SucceededUpdate

LEMMA AnnotateType ==
    ASSUME TypeOK, NEW c \in CRs, NEW outcome \in {"succeeded", "failed"},
           Annotate(c, outcome)
    PROVE  /\ api' \in [CRs -> Object]
           /\ base' \in [CRs -> Object]
           /\ mem' \in [CRs -> Object]
  <1>1. Annotated(mem[c], outcome) \in Object /\ Annotated(api[c], outcome) \in Object
    BY AnnotatedType DEF TypeOK
  <1>2. CASE UpdateObject(c, Annotated(mem[c], outcome))
    BY <1>1, <1>2, UpdateObjectType
  <1>3. CASE ~UpdateObject(c, Annotated(mem[c], outcome))
    BY <1>1, <1>3 DEF Annotate, TypeOK
  <1> QED
    BY <1>2, <1>3

LEMMA ReconcileStepType ==
    ASSUME TypeOK, NEW c \in CRs, ReconcileStep(c)
    PROVE  ReconcilerTypeOK'
  <1> USE DEF Labels
  <1>1. CASE Begin(c)
    BY <1>1 DEF Begin, Goto, TypeOK, ReconcilerTypeOK
  <1>2. CASE PublishObserved(c)
    BY <1>2, NothingPublished DEF PublishObserved, Fail, Goto, TypeOK, ReconcilerTypeOK
  <1>3. CASE AddFinalizer(c)
    <2>1. [mem[c] EXCEPT !.finalizer = TRUE] \in Object
      BY FinalizerUpdate DEF TypeOK
    <2>2. /\ api' \in [CRs -> Object]
          /\ base' \in [CRs -> Object]
          /\ mem' \in [CRs -> Object]
      <3>1. CASE UpdateObject(c, [mem[c] EXCEPT !.finalizer = TRUE])
        BY <2>1, <3>1, UpdateObjectType
      <3>2. CASE UNCHANGED <<api, base, mem>>
        BY <3>2 DEF TypeOK
      <3> QED
        BY <1>3, <3>1, <3>2 DEF AddFinalizer, Fail
    <2> QED
      BY <1>3, <2>2 DEF AddFinalizer, Fail, Goto, TypeOK, ReconcilerTypeOK
  <1>4. CASE SetPending(c)
    <2>1. [mem[c] EXCEPT !.latest = "pending"] \in Object
      BY LatestUpdate DEF TypeOK
    <2>2. /\ api' \in [CRs -> Object]
          /\ base' \in [CRs -> Object]
          /\ mem' \in [CRs -> Object]
      <3>1. CASE UpdateObject(c, [mem[c] EXCEPT !.latest = "pending"])
        BY <2>1, <3>1, UpdateObjectType
      <3>2. CASE Fail(c, "creating")
        BY <3>2 DEF TypeOK, Fail
      <3> QED
        BY <1>4, <3>1, <3>2 DEF SetPending
    <2> QED
      BY <1>4, <2>2 DEF SetPending, Fail, Goto, TypeOK, ReconcilerTypeOK
  <1>5. CASE RecordSucceeded(c)
    <2>1. /\ api' \in [CRs -> Object]
          /\ base' \in [CRs -> Object]
          /\ mem' \in [CRs -> Object]
      BY <1>5, AnnotateType DEF RecordSucceeded, Fail, TypeOK
    <2> QED
      BY <1>5, <2>1 DEF RecordSucceeded, Fail, Goto, TypeOK, ReconcilerTypeOK
  <1>6. CASE RecordFailed(c)
    <2>1. /\ api' \in [CRs -> Object]
          /\ base' \in [CRs -> Object]
          /\ mem' \in [CRs -> Object]
      BY <1>6, AnnotateType DEF RecordFailed, Fail, TypeOK
    <2> QED
      BY <1>6, <2>1 DEF RecordFailed, Fail, Goto, TypeOK, ReconcilerTypeOK
  <1>7. CASE PublishCreated(c)
    BY <1>7, NothingPublished DEF PublishCreated, Fail, Goto, TypeOK, ReconcilerTypeOK
  <1>8. CASE PublishUpdated(c)
    BY <1>8, NothingPublished DEF PublishUpdated, Fail, Goto, TypeOK, ReconcilerTypeOK
  <1>9. CASE Unfinalize(c)
    <2>1. [api[c] EXCEPT !.life = "gone", !.finalizer = FALSE] \in Object
      BY LifeUpdate, FinalizerUpdate DEF TypeOK
    <2>2. api' = [api EXCEPT ![c] = [api[c] EXCEPT !.life = "gone", !.finalizer = FALSE]]
              \/ api' = api
      BY <1>9 DEF Unfinalize, Fail
    <2>3. api' \in [CRs -> Object]
      BY <2>1, <2>2 DEF TypeOK
    <2> QED
      BY <1>9, <2>3, InitialValues DEF Unfinalize, Finish, Fail, Goto, TypeOK, ReconcilerTypeOK
  <1>10. CASE WriteStatus(c)
    <2> DEFINE ready == IF pc[c] = "creating" THEN "false" ELSE mem[c].ready
    <2>1. ready \in {"none", "true", "false"} /\ mem[c].status \in Status
      BY ObjectFields DEF TypeOK
    <2>2. api' = [api EXCEPT ![c] = [api[c] EXCEPT !.status = mem[c].status, !.ready = ready]]
      BY <1>10 DEF WriteStatus
    <2> HIDE DEF ready
    <2>3. [api[c] EXCEPT !.status = mem[c].status, !.ready = ready] \in Object
      BY <2>1, ReadyUpdate, StatusUpdate DEF TypeOK
    <2>4. api' \in [CRs -> Object]
      BY <2>2, <2>3 DEF TypeOK
    <2> QED
      BY <1>10, <2>4, InitialValues DEF WriteStatus, Finish, Goto, TypeOK, ReconcilerTypeOK
  <1>11. CASE LoseStatus(c)
    BY <1>11, InitialValues DEF LoseStatus, Finish, Goto, TypeOK, ReconcilerTypeOK
  <1> QED
    BY <1>1, <1>2, <1>3, <1>4, <1>5, <1>6, <1>7, <1>8, <1>9, <1>10, <1>11
    DEF ReconcileStep

LEMMA MarkedType ==
    ASSUME TypeOK, NEW o \in Object
    PROVE  MarkBootstrapped(o) \in Object
  <1> DEFINE s == [bootstrapped |-> TRUE, bootstrapTime |-> now]
  <1>1. s \in Status
    BY DEF TypeOK, Status
  <1>2. MarkBootstrapped(o) = [o EXCEPT !.status = s, !.ready = "true"]
    BY DEF MarkBootstrapped
  <1> HIDE DEF s
  <1>3. [o EXCEPT !.status = s] \in Object
    BY <1>1, StatusUpdate
  <1>4. MarkBootstrapped(o) = [[o EXCEPT !.status = s] EXCEPT !.ready = "true"]
    BY <1>2
  <1> QED
    BY <1>3, <1>4, ReadyUpdate

\* Observe and Create may hand the loop any object of the type.
LEMMA ReturnsType ==
    ASSUME TypeOK, NEW c \in CRs, NEW o \in Object, NEW b \in Obs,
           \/ ObserveReturns(c, o, b)
           \/ CreateReturns(c, o, NoDetails)
           \/ UpdateReturns(c, o, NoDetails)
    PROVE  ReconcilerTypeOK'
  <1>1. obs' \in [CRs -> Obs]
    <2>1. [obs[c] EXCEPT !.details = NoDetails] \in Obs
      BY DEF TypeOK, Obs
    <2>2. \/ obs' = [obs EXCEPT ![c] = b]
          \/ obs' = [obs EXCEPT ![c] = [obs[c] EXCEPT !.details = NoDetails]]
      BY DEF ObserveReturns, CreateReturns, UpdateReturns
    <2> QED
      BY <2>1, <2>2 DEF TypeOK
  <1> QED
    BY <1>1 DEF ObserveReturns, CreateReturns, UpdateReturns, Goto, Labels,
                TypeOK, ReconcilerTypeOK

LEMMA ProbeType ==
    ASSUME NEW c
    PROVE  Probe(c) \subseteq BOOLEAN
  BY DEF Probe, IsBootstrappedHealthy

LEMMA ObserveType ==
    ASSUME TypeOK, NEW c \in CRs, Observe(c)
    PROVE  TypeOK'
  <1>1. PICK healthy \in Probe(c) :
            ObserveReturns(c, Observed(mem[c], healthy), Observation(mem[c], healthy))
    BY DEF Observe
  <1>2. healthy \in BOOLEAN
    BY ProbeType
  <1>3. mem[c] \in Object
    BY DEF TypeOK
  <1>4. Observed(mem[c], healthy) \in Object
    BY <1>3, MarkedType, ReadyUpdate DEF Observed
  <1>5. Observation(mem[c], healthy) \in Obs
    <2>1. KnownBootstrapped(mem[c]) \in BOOLEAN
      BY DEF KnownBootstrapped
    <2>2. (healthy \/ KnownBootstrapped(mem[c])) \in BOOLEAN
      OBVIOUS
    <2> QED
      BY <1>2, <2>2 DEF Observation, Obs
  <1> HIDE DEF Observed, Observation
  <1>6. ReconcilerTypeOK'
    BY <1>1, <1>4, <1>5, ReturnsType
  <1> QED
    BY <1>6 DEF Observe, nodeVars, ReconcilerTypeOK, TypeOK

LEMMA CreateType ==
    ASSUME TypeOK, NEW c \in CRs, Create(c)
    PROVE  TypeOK'
  <1>1. NodeOf[c] \in Nodes
    BY BootstrapAssumption
  <1>2. etcd' \in [Nodes -> Phases] /\ acknowledged' \subseteq CRs
    BY <1>1 DEF Create, TypeOK, Phases
  <1>3. pc' \in [CRs -> Labels \cup {"verifyCreated", "verifyExists"}]
    BY DEF Create, Goto, Labels, TypeOK
  <1> QED
    BY <1>2, <1>3 DEF Create, TypeOK

LEMMA VerifyType ==
    ASSUME TypeOK, NEW c \in CRs, VerifyCreated(c) \/ VerifyExists(c)
    PROVE  TypeOK'
  <1>1. mem[c] \in Object /\ MarkBootstrapped(mem[c]) \in Object /\ obs[c] \in Obs
    BY MarkedType DEF TypeOK
  <1>2. CASE VerifyCreated(c)
    <2>1. PICK healthy \in Probe(c) :
            CreateReturns(c, IF healthy THEN MarkBootstrapped(mem[c]) ELSE mem[c], NoDetails)
      BY <1>2 DEF VerifyCreated
    <2>2. ReconcilerTypeOK'
      BY <1>1, <2>1, ReturnsType
    <2> QED
      BY <1>2, <2>2 DEF VerifyCreated, nodeVars, ReconcilerTypeOK, TypeOK
  <1>3. CASE VerifyExists(c)
    <2>1. CASE CreateReturns(c, MarkBootstrapped(mem[c]), NoDetails)
      <3>1. ReconcilerTypeOK'
        BY <1>1, <2>1, ReturnsType
      <3> QED
        BY <1>3, <3>1 DEF VerifyExists, nodeVars, ReconcilerTypeOK, TypeOK
    <2>2. CASE Fail(c, "failed") /\ UNCHANGED <<cache, connCache>>
      BY <1>3, <2>2 DEF VerifyExists, Fail, Goto, Labels, nodeVars, TypeOK
    <2> QED
      BY <1>3, <2>1, <2>2 DEF VerifyExists
  <1> QED
    BY <1>2, <1>3

LEMMA ReconcileType ==
    ASSUME TypeOK, NEW c \in CRs, Reconcile(c)
    PROVE  TypeOK'
  <1>1. CASE ReconcileStep(c) /\ UNCHANGED nodeVars
    BY <1>1, ReconcileStepType DEF nodeVars, ReconcilerTypeOK, TypeOK
  <1>2. CASE ConnectFails(c)
    BY <1>2 DEF ConnectFails, Fail, Goto, Labels, nodeVars, TypeOK
  <1>3. CASE Update(c)
    <2>1. mem[c] \in Object /\ obs[c] \in Obs
      BY DEF TypeOK
    <2>2. ReconcilerTypeOK'
      BY <1>3, <2>1, ReturnsType DEF Update
    <2> QED
      BY <1>3, <2>2 DEF Update, nodeVars, ReconcilerTypeOK, TypeOK
  <1>4. CASE Delete(c)
    BY <1>4 DEF Delete, DeleteReturns, Goto, Labels, nodeVars, TypeOK
  <1> QED
    BY <1>1, <1>2, <1>3, <1>4, ObserveType, CreateType, VerifyType DEF Reconcile

LEMMA EnvironmentType ==
    ASSUME TypeOK, EnvironmentStep /\ UNCHANGED nodeVars
    PROVE  TypeOK'
  <1>1. CASE \E c \in CRs : CacheSync(c)
    <2>1. PICK c \in CRs : CacheSync(c)
      BY <1>1
    <2> QED
      BY <2>1 DEF CacheSync, nodeVars, TypeOK
  <1>2. CASE \E c \in CRs : ConnSync(c)
    <2>1. PICK c \in CRs : ConnSync(c)
      BY <1>2
    <2> QED
      BY <2>1 DEF ConnSync, nodeVars, TypeOK
  <1>3. CASE \E c \in CRs : RequestDelete(c)
    <2>1. PICK c \in CRs : RequestDelete(c)
      BY <1>3
    <2> DEFINE life == IF api[c].finalizer THEN "deleting" ELSE "gone"
    <2>2. [api[c] EXCEPT !.life = life] \in Object
      <3>1. life \in {"live", "deleting", "gone"}
        OBVIOUS
      <3> HIDE DEF life
      <3> QED
        BY <3>1, LifeUpdate DEF TypeOK
    <2>3. api' \in [CRs -> Object]
      BY <2>1, <2>2 DEF RequestDelete, TypeOK
    <2>4. conn' \in [CRs -> {NoSecret, NoDetails}]
      BY <2>1 DEF RequestDelete, TypeOK
    <2> QED
      BY <2>1, <2>3, <2>4 DEF RequestDelete, nodeVars, TypeOK
  <1>4. CASE Crash
    BY <1>4, InitialValues DEF Crash, Labels, nodeVars, TypeOK
  <1>5. CASE Start
    BY <1>5 DEF Start, Labels, nodeVars, TypeOK
  <1> QED
    BY <1>1, <1>2, <1>3, <1>4, <1>5 DEF EnvironmentStep

LEMMA TypeInit == Init => TypeOK
  BY InitialValues, BootstrapAssumption
  DEF Init, ReconcilerInit, TypeOK, Labels, Phases

LEMMA TypeStep ==
    ASSUME TypeOK, [Next]_vars
    PROVE  TypeOK'
  <1>1. CASE \E c \in CRs : Reconcile(c)
    BY <1>1, ReconcileType
  <1>2. CASE EnvironmentStep /\ UNCHANGED nodeVars
    BY <1>2, EnvironmentType
  <1>3. CASE \E n \in Nodes : EtcdStep(n)
    BY <1>3 DEF EtcdStep, Phases, TypeOK
  <1>4. CASE Tick
    BY <1>4, BootstrapAssumption DEF Tick, TypeOK
  <1>5. CASE UNCHANGED vars
    BY <1>5 DEF vars, TypeOK
  <1> QED
    BY <1>1, <1>2, <1>3, <1>4, <1>5 DEF Next

\* Every variable keeps its type: TypeOK of the runs, for every instance.
THEOREM TypeCorrect == Spec => []TypeOK
  BY TypeInit, TypeStep, PTL DEF Spec

----------------------------------------------------------------------------
(* NoSecondBootstrap *)

\* A reconcile never changes in memory what it has not stored: the annotations
\* it works with are those of the version its writes are based on.
AnnotationsAreBase(c) ==
    pc[c] # "idle" => /\ mem[c].latest = base[c].latest
                      /\ mem[c].succeeded = base[c].succeeded

\* What Observe concluded still holds for the version the writes are based on.
ObservedBase(c) ==
    /\ pc[c] \in {"observe", "publish", "finalizer", "pending"}
          => base[c].latest # "pending"
    /\ pc[c] \in {"publish", "finalizer", "pending"} /\ ~obs[c].exists
          => ~base[c].succeeded
    /\ pc[c] = "pending" => ~obs[c].exists

\* While Create runs the API server holds its pending annotation.
CreateIsPending(c) ==
    pc[c] \in {"create", "verifyCreated", "verifyExists", "created", "failed"}
        => api[c].latest = "pending"

\* An acknowledged call leaves a trace in the API server for ever, and only then
\* can the conclusion not to call again be drawn from it.
AcknowledgedIsRecorded(c) ==
    /\ c \in acknowledged => api[c].latest = "pending" \/ api[c].succeeded
    /\ pc[c] \in {"create", "verifyExists", "failed"} => c \notin acknowledged

Recorded(c) ==
    /\ AnnotationsAreBase(c)
    /\ ObservedBase(c)
    /\ CreateIsPending(c)
    /\ AcknowledgedIsRecorded(c)

BootstrapInvariant == TypeOK /\ \A c \in CRs : Recorded(c)

\* What the four parts read of a resource.
Untouched(c) ==
    /\ api'[c] = api[c]
    /\ pc'[c] = pc[c]
    /\ mem'[c] = mem[c]
    /\ base'[c] = base[c]
    /\ obs'[c] = obs[c]
    /\ c \in acknowledged' <=> c \in acknowledged

LEMMA UntouchedRecorded ==
    ASSUME NEW c \in CRs, Recorded(c), Untouched(c)
    PROVE  Recorded(c)'
  BY DEF Recorded, Untouched, AnnotationsAreBase, ObservedBase, CreateIsPending,
         AcknowledgedIsRecorded

LEMMA UpdateObjectEffect ==
    ASSUME TypeOK, NEW c \in CRs, NEW object \in Object, UpdateObject(c, object)
    PROVE  /\ base[c] = api[c]
           /\ api'[c].latest = object.latest /\ api'[c].succeeded = object.succeeded
           /\ base'[c].latest = object.latest /\ base'[c].succeeded = object.succeeded
           /\ mem'[c].latest = object.latest /\ mem'[c].succeeded = object.succeeded
           /\ \A d \in CRs \ {c} : api'[d] = api[d] /\ base'[d] = base[d] /\ mem'[d] = mem[d]
  <1>1. /\ Stored(c, object).latest = object.latest
        /\ Stored(c, object).succeeded = object.succeeded
    BY DEF Stored, Object
  <1>2. \A o \in Decoded(c, object) :
            o.latest = object.latest /\ o.succeeded = object.succeeded
    BY <1>1 DEF Decoded, Object
  <1> QED
    BY <1>1, <1>2 DEF UpdateObject, TypeOK

\* Every way to write the critical annotations leaves them in all three places.
LEMMA AnnotateEffect ==
    ASSUME TypeOK, NEW c \in CRs, NEW outcome \in {"succeeded", "failed"},
           Annotate(c, outcome)
    PROVE  /\ api'[c].latest = outcome /\ base'[c].latest = outcome /\ mem'[c].latest = outcome
           /\ base'[c].succeeded = api'[c].succeeded
           /\ mem'[c].succeeded = api'[c].succeeded
           /\ outcome = "succeeded" => api'[c].succeeded
           /\ \A d \in CRs \ {c} : api'[d] = api[d] /\ base'[d] = base[d] /\ mem'[d] = mem[d]
  <1>1. mem[c] \in Object /\ api[c] \in Object
    BY DEF TypeOK
  <1>2. \A o \in Object : /\ Annotated(o, outcome).latest = outcome
                          /\ outcome = "succeeded" => Annotated(o, outcome).succeeded
    BY DEF Annotated, Object
  <1>3. CASE UpdateObject(c, Annotated(mem[c], outcome))
    <2>1. Annotated(mem[c], outcome) \in Object
      BY <1>1, AnnotatedType
    <2> QED
      BY <1>1, <1>2, <1>3, <2>1, UpdateObjectEffect
  <1>4. CASE ~UpdateObject(c, Annotated(mem[c], outcome))
    BY <1>1, <1>2, <1>4 DEF Annotate, TypeOK
  <1> QED
    BY <1>3, <1>4

\* A step of one worker leaves the others' resources alone.
LEMMA OthersUntouched ==
    ASSUME TypeOK, NEW c \in CRs, Reconcile(c), NEW d \in CRs, d # c
    PROVE  Untouched(d)
  <1> USE DEF TypeOK, Goto, Fail, Finish
  <1>1. CASE ReconcileStep(c) /\ UNCHANGED nodeVars
    <2>1. acknowledged' = acknowledged
      BY <1>1 DEF nodeVars
    <2>2. CASE \/ Begin(c) \/ PublishObserved(c) \/ PublishCreated(c) \/ PublishUpdated(c)
               \/ Unfinalize(c) \/ WriteStatus(c) \/ LoseStatus(c)
      BY <2>1, <2>2 DEF Begin, PublishObserved, PublishCreated, PublishUpdated,
         Unfinalize, WriteStatus, LoseStatus, Untouched
    <2>3. CASE AddFinalizer(c)
      BY <2>1, <2>3 DEF AddFinalizer, UpdateObject, Untouched
    <2>4. CASE SetPending(c)
      BY <2>1, <2>4 DEF SetPending, UpdateObject, Untouched
    <2>5. CASE RecordSucceeded(c)
      BY <2>1, <2>5, AnnotateEffect DEF RecordSucceeded, Untouched
    <2>6. CASE RecordFailed(c)
      BY <2>1, <2>6, AnnotateEffect DEF RecordFailed, Untouched
    <2> QED
      BY <1>1, <2>2, <2>3, <2>4, <2>5, <2>6 DEF ReconcileStep
  <1>2. CASE ConnectFails(c)
    BY <1>2 DEF ConnectFails, nodeVars, Untouched
  <1>3. CASE Observe(c)
    BY <1>3 DEF Observe, ObserveReturns, nodeVars, Untouched
  <1>4. CASE Create(c)
    BY <1>4 DEF Create, Untouched
  <1>5. CASE VerifyCreated(c) \/ VerifyExists(c)
    BY <1>5 DEF VerifyCreated, VerifyExists, CreateReturns, nodeVars, Untouched
  <1>6. CASE Update(c)
    BY <1>6 DEF Update, UpdateReturns, nodeVars, Untouched
  <1>7. CASE Delete(c)
    BY <1>7 DEF Delete, DeleteReturns, nodeVars, Untouched
  <1> QED
    BY <1>1, <1>2, <1>3, <1>4, <1>5, <1>6, <1>7 DEF Reconcile

LEMMA ObservedFields ==
    ASSUME NEW o \in Object, NEW healthy \in BOOLEAN
    PROVE  /\ Observed(o, healthy).latest = o.latest
           /\ Observed(o, healthy).succeeded = o.succeeded
           /\ MarkBootstrapped(o).latest = o.latest
           /\ MarkBootstrapped(o).succeeded = o.succeeded
  BY DEF Observed, MarkBootstrapped, Object

LEMMA ReconcileStepRecorded ==
    ASSUME TypeOK, NEW c \in CRs, Recorded(c), ReconcileStep(c), UNCHANGED nodeVars
    PROVE  Recorded(c)'
  <1> USE DEF TypeOK, Goto, Fail, Finish
  <1>1. acknowledged' = acknowledged
    BY DEF nodeVars
  <1>2. mem[c] \in Object /\ base[c] \in Object /\ api[c] \in Object
    OBVIOUS
  <1>3. CASE Begin(c)
    BY <1>1, <1>3 DEF Begin, Recorded, AnnotationsAreBase, ObservedBase,
       CreateIsPending, AcknowledgedIsRecorded
  <1>4. CASE PublishObserved(c) \/ PublishCreated(c) \/ PublishUpdated(c)
    BY <1>1, <1>4 DEF PublishObserved, PublishCreated, PublishUpdated, Recorded,
       AnnotationsAreBase, ObservedBase, CreateIsPending, AcknowledgedIsRecorded
  <1>5. CASE AddFinalizer(c)
    <2> DEFINE object == [mem[c] EXCEPT !.finalizer = TRUE]
    <2>1. /\ object \in Object
          /\ object.latest = mem[c].latest /\ object.succeeded = mem[c].succeeded
      BY <1>2, FinalizerUpdate
    <2> HIDE DEF object
    <2>2. CASE UpdateObject(c, object)
      <3>1. /\ base[c] = api[c]
            /\ api'[c].latest = mem[c].latest /\ api'[c].succeeded = mem[c].succeeded
            /\ base'[c].latest = mem[c].latest /\ base'[c].succeeded = mem[c].succeeded
            /\ mem'[c].latest = mem[c].latest /\ mem'[c].succeeded = mem[c].succeeded
        BY <2>1, <2>2, UpdateObjectEffect
      <3> QED
        BY <1>1, <1>5, <3>1 DEF AddFinalizer, Recorded, AnnotationsAreBase,
           ObservedBase, CreateIsPending, AcknowledgedIsRecorded
    <2>3. CASE UNCHANGED <<api, base, mem>>
      BY <1>1, <1>5, <2>3 DEF AddFinalizer, Recorded, AnnotationsAreBase,
         ObservedBase, CreateIsPending, AcknowledgedIsRecorded
    <2> QED
      BY <1>5, <2>2, <2>3 DEF AddFinalizer, object
  <1>6. CASE SetPending(c)
    <2> DEFINE object == [mem[c] EXCEPT !.latest = "pending"]
    <2>1. /\ object \in Object
          /\ object.latest = "pending" /\ object.succeeded = mem[c].succeeded
      BY <1>2, LatestUpdate
    <2> HIDE DEF object
    <2>2. CASE UpdateObject(c, object) /\ Goto(c, "create") /\ UNCHANGED <<conn, obs>>
      <3>1. /\ base[c] = api[c]
            /\ api'[c].latest = "pending"
            /\ base'[c].latest = "pending" /\ base'[c].succeeded = mem[c].succeeded
            /\ mem'[c].latest = "pending" /\ mem'[c].succeeded = mem[c].succeeded
        BY <2>1, <2>2, UpdateObjectEffect
      <3>2. c \notin acknowledged
        BY <1>6, <3>1 DEF SetPending, Recorded, ObservedBase, AcknowledgedIsRecorded
      <3> QED
        BY <1>1, <2>2, <3>1, <3>2 DEF Recorded, AnnotationsAreBase, ObservedBase,
           CreateIsPending, AcknowledgedIsRecorded
    <2>3. CASE Fail(c, "creating")
      BY <1>1, <1>6, <2>3 DEF SetPending, Recorded, AnnotationsAreBase,
         ObservedBase, CreateIsPending, AcknowledgedIsRecorded
    <2> QED
      BY <1>6, <2>2, <2>3 DEF SetPending, object
  <1>7. CASE RecordSucceeded(c)
    <2>1. CASE Annotate(c, "succeeded") /\ Goto(c, "publishCreated") /\ UNCHANGED <<conn, obs>>
      <3>1. /\ api'[c].succeeded
            /\ base'[c].latest = mem'[c].latest /\ base'[c].succeeded = mem'[c].succeeded
        BY <2>1, AnnotateEffect
      <3> QED
        BY <1>1, <2>1, <3>1 DEF Recorded, AnnotationsAreBase, ObservedBase,
           CreateIsPending, AcknowledgedIsRecorded
    <2>2. CASE Fail(c, "creating")
      BY <1>1, <1>7, <2>2 DEF RecordSucceeded, Recorded, AnnotationsAreBase,
         ObservedBase, CreateIsPending, AcknowledgedIsRecorded
    <2> QED
      BY <1>7, <2>1, <2>2 DEF RecordSucceeded
  <1>8. CASE RecordFailed(c)
    <2>1. c \notin acknowledged
      BY <1>8 DEF RecordFailed, Recorded, AcknowledgedIsRecorded
    <2>2. CASE Annotate(c, "failed") /\ Goto(c, "creating") /\ UNCHANGED <<conn, obs>>
      <3>1. base'[c].latest = mem'[c].latest /\ base'[c].succeeded = mem'[c].succeeded
        BY <2>2, AnnotateEffect
      <3> QED
        BY <1>1, <2>1, <2>2, <3>1 DEF Recorded, AnnotationsAreBase, ObservedBase,
           CreateIsPending, AcknowledgedIsRecorded
    <2>3. CASE Fail(c, "creating")
      BY <1>1, <1>8, <2>3 DEF RecordFailed, Recorded, AnnotationsAreBase,
         ObservedBase, CreateIsPending, AcknowledgedIsRecorded
    <2> QED
      BY <1>8, <2>2, <2>3 DEF RecordFailed
  <1>9. CASE Unfinalize(c)
    <2>1. api'[c].latest = api[c].latest /\ api'[c].succeeded = api[c].succeeded
      BY <1>2, <1>9 DEF Unfinalize, Object
    <2>2. CASE Finish(c)
      BY <1>1, <2>1, <2>2 DEF Recorded, AnnotationsAreBase, ObservedBase,
         CreateIsPending, AcknowledgedIsRecorded
    <2>3. CASE Fail(c, "status")
      BY <1>1, <1>9, <2>1, <2>3 DEF Unfinalize, Recorded, AnnotationsAreBase,
         ObservedBase, CreateIsPending, AcknowledgedIsRecorded
    <2> QED
      BY <1>9, <2>2, <2>3 DEF Unfinalize
  <1>10. CASE WriteStatus(c)
    <2>1. api'[c].latest = api[c].latest /\ api'[c].succeeded = api[c].succeeded
      BY <1>2, <1>10 DEF WriteStatus, Object
    <2> QED
      BY <1>1, <1>10, <2>1 DEF WriteStatus, Recorded, AnnotationsAreBase,
         ObservedBase, CreateIsPending, AcknowledgedIsRecorded
  <1>11. CASE LoseStatus(c)
    BY <1>1, <1>11 DEF LoseStatus, Recorded, AnnotationsAreBase, ObservedBase,
       CreateIsPending, AcknowledgedIsRecorded
  <1> QED
    BY <1>3, <1>4, <1>5, <1>6, <1>7, <1>8, <1>9, <1>10, <1>11 DEF ReconcileStep

LEMMA HandlerRecorded ==
    ASSUME TypeOK, NEW c \in CRs, Recorded(c), Reconcile(c),
           ~(ReconcileStep(c) /\ UNCHANGED nodeVars)
    PROVE  Recorded(c)'
  <1> USE DEF TypeOK, Goto, Fail, nodeVars, Recorded, AnnotationsAreBase, ObservedBase,
              CreateIsPending, AcknowledgedIsRecorded
  <1>1. mem[c] \in Object
    OBVIOUS
  <1>2. CASE ConnectFails(c)
    BY <1>2 DEF ConnectFails
  <1>3. CASE Observe(c)
    <2>1. PICK healthy \in Probe(c) :
            ObserveReturns(c, Observed(mem[c], healthy), Observation(mem[c], healthy))
      BY <1>3 DEF Observe
    <2>2. healthy \in BOOLEAN
      BY ProbeType
    <2>3. ~Observation(mem[c], healthy).exists => ~mem[c].succeeded
      BY DEF Observation, KnownBootstrapped, HasSuccessfulExternalCreate
    <2> QED
      BY <1>1, <1>3, <2>1, <2>2, <2>3, ObservedFields DEF Observe, ObserveReturns
  <1>4. CASE Create(c)
    BY <1>4 DEF Create
  <1>5. CASE VerifyCreated(c)
    <2>1. PICK healthy \in Probe(c) :
            CreateReturns(c, IF healthy THEN MarkBootstrapped(mem[c]) ELSE mem[c], NoDetails)
      BY <1>5 DEF VerifyCreated
    <2> DEFINE object == IF healthy THEN MarkBootstrapped(mem[c]) ELSE mem[c]
    <2>2. object.latest = mem[c].latest /\ object.succeeded = mem[c].succeeded
      BY <1>1, ObservedFields
    <2>3. CreateReturns(c, object, NoDetails)
      BY <2>1
    <2> HIDE DEF object
    <2> QED
      BY <1>5, <2>2, <2>3 DEF VerifyCreated, CreateReturns
  <1>6. CASE VerifyExists(c)
    <2> DEFINE object == MarkBootstrapped(mem[c])
    <2>1. object.latest = mem[c].latest /\ object.succeeded = mem[c].succeeded
      BY <1>1, ObservedFields
    <2> HIDE DEF object
    <2>2. CASE CreateReturns(c, object, NoDetails)
      BY <1>6, <2>1, <2>2 DEF VerifyExists, CreateReturns
    <2>3. CASE Fail(c, "failed")
      BY <1>6, <2>3 DEF VerifyExists
    <2> QED
      BY <1>6, <2>2, <2>3 DEF VerifyExists, object
  <1>7. CASE Update(c)
    BY <1>7 DEF Update, UpdateReturns
  <1>8. CASE Delete(c)
    BY <1>8 DEF Delete, DeleteReturns
  <1> QED
    BY <1>2, <1>3, <1>4, <1>5, <1>6, <1>7, <1>8 DEF Reconcile

LEMMA EnvironmentRecorded ==
    ASSUME TypeOK, NEW d \in CRs, Recorded(d), EnvironmentStep, UNCHANGED nodeVars
    PROVE  Recorded(d)'
  <1> USE DEF TypeOK, nodeVars
  <1>1. CASE \E c \in CRs : CacheSync(c) \/ ConnSync(c)
    <2>1. Untouched(d)
      BY <1>1 DEF CacheSync, ConnSync, Untouched
    <2> QED
      BY <2>1, UntouchedRecorded
  <1>2. CASE \E c \in CRs : RequestDelete(c)
    <2>1. PICK c \in CRs : RequestDelete(c)
      BY <1>2
    <2>2. api'[d].latest = api[d].latest /\ api'[d].succeeded = api[d].succeeded
      BY <2>1 DEF RequestDelete, Object
    <2> QED
      BY <2>1, <2>2 DEF RequestDelete, Recorded, AnnotationsAreBase, ObservedBase,
         CreateIsPending, AcknowledgedIsRecorded
  <1>3. CASE Crash
    BY <1>3 DEF Crash, Recorded, AnnotationsAreBase, ObservedBase, CreateIsPending,
       AcknowledgedIsRecorded
  <1>4. CASE Start
    BY <1>4 DEF Start, Recorded, AnnotationsAreBase, ObservedBase, CreateIsPending,
       AcknowledgedIsRecorded
  <1> QED
    BY <1>1, <1>2, <1>3, <1>4 DEF EnvironmentStep

LEMMA RecordsInit == Init => BootstrapInvariant
  <1> SUFFICES ASSUME Init PROVE \A c \in CRs : Recorded(c)
    BY TypeInit DEF BootstrapInvariant
  <1> QED
    BY DEF Init, ReconcilerInit, Recorded, AnnotationsAreBase, ObservedBase,
       CreateIsPending, AcknowledgedIsRecorded

LEMMA RecordsStep ==
    ASSUME BootstrapInvariant, [Next]_vars
    PROVE  BootstrapInvariant'
  <1>1. TypeOK /\ TypeOK'
    BY TypeStep DEF BootstrapInvariant
  <1>2. ASSUME NEW d \in CRs
        PROVE  Recorded(d)'
    <2>1. Recorded(d)
      BY DEF BootstrapInvariant
    <2>2. CASE \E c \in CRs : Reconcile(c)
      <3>1. PICK c \in CRs : Reconcile(c)
        BY <2>2
      <3>2. CASE c = d
        BY <1>1, <2>1, <3>1, <3>2, ReconcileStepRecorded, HandlerRecorded
      <3>3. CASE c # d
        BY <1>1, <2>1, <3>1, <3>3, OthersUntouched, UntouchedRecorded
      <3> QED
        BY <3>2, <3>3
    <2>3. CASE EnvironmentStep /\ UNCHANGED nodeVars
      BY <1>1, <2>1, <2>3, EnvironmentRecorded
    <2>4. CASE (\E n \in Nodes : EtcdStep(n)) \/ Tick \/ UNCHANGED vars
      <3>1. Untouched(d)
        BY <2>4 DEF EtcdStep, Tick, vars, Untouched
      <3> QED
        BY <2>1, <3>1, UntouchedRecorded
    <2> QED
      BY <2>2, <2>3, <2>4 DEF Next
  <1> QED
    BY <1>1, <1>2 DEF BootstrapInvariant

\* What the annotations, the caches and the workers know of a call is right in
\* every state: the inductive invariant the other theorems rest on.
THEOREM RecordsAgree == Spec => []BootstrapInvariant
  BY RecordsInit, RecordsStep, PTL DEF Spec

\* The Bootstrap call is never made again for a resource after a call that was
\* answered without error: NoSecondBootstrap of the runs, for any number of
\* resources and nodes, every set of faults and every history.
THEOREM NeverASecondBootstrap == Spec => []NoSecondBootstrap
  <1>1. BootstrapInvariant => NoSecondBootstrap
    BY DEF BootstrapInvariant, Recorded, AcknowledgedIsRecorded, NoSecondBootstrap
  <1> QED
    BY <1>1, RecordsAgree, PTL

----------------------------------------------------------------------------
(* What another process sees *)

\* From the pending write until the outcome is recorded.
Calling(c) == pc[c] \in {"create", "verifyCreated", "verifyExists", "created", "failed"}

\* What a step does to the records of d unless its own worker is at the call.
Quiet(d) ==
    /\ ~Calling(d)'
    /\ api'[d].latest = api[d].latest
    /\ api'[d].succeeded = api[d].succeeded

LEMMA ReconcileStepFromOutside ==
    ASSUME TypeOK, NEW c \in CRs, Recorded(c), ReconcileStep(c), ~Calling(c)
    PROVE  Quiet(c) \/ (pc[c] = "pending" /\ api[c].latest # "pending")
  <1> USE DEF TypeOK, Goto, Fail, Finish, Calling, Quiet
  <1>1. mem[c] \in Object /\ base[c] \in Object /\ api[c] \in Object
    OBVIOUS
  <1>2. CASE Begin(c)
    BY <1>2 DEF Begin
  <1>3. CASE PublishObserved(c) \/ PublishCreated(c) \/ PublishUpdated(c)
    BY <1>3 DEF PublishObserved, PublishCreated, PublishUpdated
  <1>4. CASE AddFinalizer(c)
    <2> DEFINE object == [mem[c] EXCEPT !.finalizer = TRUE]
    <2>1. /\ object \in Object
          /\ object.latest = mem[c].latest /\ object.succeeded = mem[c].succeeded
      BY <1>1, FinalizerUpdate
    <2> HIDE DEF object
    <2>2. pc[c] = "finalizer" /\ pc'[c] \in {"pending", "status", "update"}
      BY <1>4 DEF AddFinalizer
    <2>3. CASE UpdateObject(c, object)
      BY <2>1, <2>2, <2>3, UpdateObjectEffect DEF Recorded, AnnotationsAreBase
    <2>4. CASE UNCHANGED api
      BY <2>2, <2>4
    <2> QED
      BY <1>4, <2>3, <2>4 DEF AddFinalizer, object
  <1>5. CASE SetPending(c)
    <2>1. CASE base[c] = api[c]
      BY <1>5, <2>1 DEF SetPending, Recorded, ObservedBase
    <2>2. CASE base[c] # api[c]
      BY <1>5, <2>2 DEF SetPending, UpdateObject
    <2> QED
      BY <2>1, <2>2
  <1>6. CASE RecordSucceeded(c) \/ RecordFailed(c)
    BY <1>6 DEF RecordSucceeded, RecordFailed
  <1>7. CASE Unfinalize(c)
    BY <1>1, <1>7 DEF Unfinalize, Object
  <1>8. CASE WriteStatus(c)
    <2>1. api'[c].latest = api[c].latest /\ api'[c].succeeded = api[c].succeeded
      BY <1>1, <1>8 DEF WriteStatus, Object
    <2> QED
      BY <1>8, <2>1 DEF WriteStatus
  <1>9. CASE LoseStatus(c)
    BY <1>9 DEF LoseStatus
  <1> QED
    BY <1>2, <1>3, <1>4, <1>5, <1>6, <1>7, <1>8, <1>9 DEF ReconcileStep

\* A process that is not at the call for d leaves the records of d as they are, unless
\* it gets there with the pending annotation it lays over one that is not pending.
LEMMA OnlyTheCallerWrites ==
    ASSUME BootstrapInvariant, [Next]_vars, NEW d \in CRs, ~Calling(d)
    PROVE  /\ d \in acknowledged' <=> d \in acknowledged
           /\ Quiet(d) \/ api[d].latest # "pending"
  <1>1. TypeOK /\ Recorded(d) /\ api[d] \in Object
    BY DEF BootstrapInvariant, TypeOK
  <1>2. CASE Untouched(d)
    BY <1>2 DEF Untouched, Quiet, Calling
  <1>3. CASE \E c \in CRs : Reconcile(c)
    <2>1. PICK c \in CRs : Reconcile(c)
      BY <1>3
    <2>2. CASE c # d
      BY <1>1, <1>2, <2>1, <2>2, OthersUntouched
    <2>3. CASE c = d /\ ReconcileStep(d) /\ UNCHANGED nodeVars
      BY <1>1, <2>3, ReconcileStepFromOutside DEF nodeVars
    <2>4. CASE c = d /\ (ConnectFails(d) \/ Observe(d) \/ Update(d) \/ Delete(d))
      <3>1. UNCHANGED <<api, acknowledged>>
        BY <2>4 DEF ConnectFails, Observe, ObserveReturns, Update, UpdateReturns, Delete,
           DeleteReturns, Fail, nodeVars
      <3>2. ~Calling(d)'
        BY <1>1, <2>4 DEF ConnectFails, Observe, ObserveReturns, Update, UpdateReturns, Delete,
           DeleteReturns, Fail, Goto, Calling, TypeOK
      <3> QED
        BY <3>1, <3>2 DEF Quiet
    <2>5. ~(Create(d) \/ VerifyCreated(d) \/ VerifyExists(d))
      BY DEF Create, VerifyCreated, VerifyExists, Calling
    <2> QED
      BY <2>1, <2>2, <2>3, <2>4, <2>5 DEF Reconcile
  <1>4. CASE EnvironmentStep /\ UNCHANGED nodeVars
    <2>1. ASSUME NEW c \in CRs, RequestDelete(c)
          PROVE  Quiet(d)
      <3>1. api'[d].latest = api[d].latest /\ api'[d].succeeded = api[d].succeeded
        BY <1>1, <2>1 DEF RequestDelete, TypeOK, Object
      <3> QED
        BY <2>1, <3>1 DEF RequestDelete, Quiet, Calling
    <2>2. CASE \E c \in CRs : CacheSync(c) \/ ConnSync(c)
      BY <1>4, <2>2 DEF CacheSync, ConnSync, nodeVars, Quiet, Calling
    <2>3. CASE Crash \/ Start
      BY <1>4, <2>3 DEF Crash, Start, nodeVars, Quiet, Calling
    <2> QED
      BY <1>4, <2>1, <2>2, <2>3 DEF EnvironmentStep, nodeVars
  <1>5. CASE (\E n \in Nodes : EtcdStep(n)) \/ Tick \/ UNCHANGED vars
    BY <1>2, <1>5 DEF EtcdStep, Tick, vars, Untouched
  <1> QED
    BY <1>3, <1>4, <1>5 DEF Next

----------------------------------------------------------------------------
(* What the records of a create say about the node *)

TargetUp(c) == etcd[NodeOf[c]] \in {"healthy", "down"}

\* A create on its way to be recorded as successful has a reason to be.
Grounds(c) ==
    /\ pc[c] = "verifyCreated" => c \in acknowledged
    /\ pc[c] = "created" => c \in acknowledged \/ TargetUp(c)

AllGrounds == \A c \in CRs : Grounds(c)

\* etcd that was at work on a node has been initialised for good, and answers
\* are not forgotten.
LEMMA NothingIsUndone ==
    ASSUME TypeOK, [Next]_vars
    PROVE  /\ \A c \in CRs : TargetUp(c) => TargetUp(c)'
           /\ acknowledged \subseteq acknowledged'
  <1> USE DEF TargetUp, TypeOK
  <1>0. \A c \in CRs : NodeOf[c] \in Nodes
    BY BootstrapAssumption
  <1>1. CASE UNCHANGED nodeVars
    BY <1>1 DEF nodeVars
  <1>2. ASSUME NEW c \in CRs, Create(c)
        PROVE  (\A d \in CRs : TargetUp(d) => TargetUp(d)') /\ acknowledged \subseteq acknowledged'
    BY <1>0, <1>2 DEF Create
  <1>3. ASSUME NEW c \in CRs, Reconcile(c), ~Create(c)
        PROVE  UNCHANGED nodeVars
    BY <1>3 DEF Reconcile, ConnectFails, Observe, VerifyCreated, VerifyExists, Update, Delete
  <1>4. ASSUME NEW n \in Nodes, EtcdStep(n)
        PROVE  (\A d \in CRs : TargetUp(d) => TargetUp(d)') /\ acknowledged \subseteq acknowledged'
    BY <1>0, <1>4 DEF EtcdStep
  <1>5. CASE Tick \/ UNCHANGED vars
    BY <1>5 DEF Tick, vars
  <1> QED
    BY <1>1, <1>2, <1>3, <1>4, <1>5 DEF Next

\* No report of a node passes the probe before its etcd is healthy.
LEMMA ProbeIsRight ==
    ASSUME NEW c \in CRs, TRUE \in Probe(c)
    PROVE  TargetUp(c)
  <1>1. PICK services \in ServiceInfo(NodeOf[c]) : IsBootstrappedHealthy(services)
    BY DEF Probe
  <1>2. PICK r \in services : IsHealthyEtcdService(r)
    BY <1>1 DEF IsBootstrappedHealthy
  <1>3. r \in Reports(etcd[NodeOf[c]])
    BY <1>1, <1>2 DEF ServiceInfo
  <1> QED
    BY <1>2, <1>3 DEF Reports, IsHealthyEtcdService, TargetUp

LEMMA StepKeepsGrounds ==
    ASSUME TypeOK, [Next]_vars, AllGrounds
    PROVE  AllGrounds'
  <1> SUFFICES ASSUME NEW d \in CRs PROVE Grounds(d)'
    BY DEF AllGrounds
  <1>1. /\ TargetUp(d) => TargetUp(d)'
        /\ acknowledged \subseteq acknowledged'
    BY NothingIsUndone
  <1>2. Grounds(d)
    BY DEF AllGrounds
  <1>3. CASE pc'[d] \notin {"verifyCreated", "created"} \/ pc'[d] = pc[d]
    BY <1>1, <1>2, <1>3 DEF Grounds
  <1>4. CASE \E c \in CRs : Reconcile(c)
    <2>1. PICK c \in CRs : Reconcile(c)
      BY <1>4
    <2>2. CASE c # d
      BY <1>3, <2>1, <2>2, OthersUntouched DEF Untouched
    <2>3. CASE c = d
      <3> USE DEF TypeOK, Goto, Fail, Finish
      <3>1. CASE ReconcileStep(d)
        BY <1>3, <3>1 DEF ReconcileStep, Begin, PublishObserved, AddFinalizer, SetPending,
           RecordSucceeded, RecordFailed, PublishCreated, PublishUpdated, Unfinalize,
           WriteStatus, LoseStatus
      <3>2. CASE ConnectFails(d) \/ Observe(d) \/ Update(d) \/ Delete(d)
        BY <1>3, <3>2 DEF ConnectFails, Observe, ObserveReturns, Update, UpdateReturns,
           Delete, DeleteReturns
      <3>3. CASE Create(d)
        BY <3>3 DEF Create, Grounds
      <3>4. CASE VerifyCreated(d)
        BY <1>1, <1>2, <3>4 DEF VerifyCreated, CreateReturns, Grounds
      <3>5. CASE VerifyExists(d)
        <4>1. CASE TRUE \in Probe(d) /\ CreateReturns(d, MarkBootstrapped(mem[d]), NoDetails)
          BY <1>1, <4>1, ProbeIsRight DEF CreateReturns, Grounds
        <4>2. CASE Fail(d, "failed")
          BY <1>3, <4>2
        <4> QED
          BY <3>5, <4>1, <4>2 DEF VerifyExists
      <3> QED
        BY <2>1, <2>3, <3>1, <3>2, <3>3, <3>4, <3>5 DEF Reconcile
    <2> QED
      BY <2>2, <2>3
  <1>5. CASE EnvironmentStep
    BY <1>3, <1>5 DEF EnvironmentStep, CacheSync, ConnSync, RequestDelete, Crash, Start, TypeOK
  <1>6. CASE (\E n \in Nodes : EtcdStep(n)) \/ Tick \/ UNCHANGED vars
    BY <1>3, <1>6 DEF EtcdStep, Tick, vars
  <1> QED
    BY <1>4, <1>5, <1>6 DEF Next

LEMMA GroundsInit == Init => AllGrounds
  BY DEF Init, ReconcilerInit, AllGrounds, Grounds

\* Every create that is on its way to be recorded as successful has a reason to be.
THEOREM GroundsHold == Spec => []AllGrounds
  BY GroundsInit, StepKeepsGrounds, TypeCorrect, PTL DEF Spec

\* Nothing else ever writes external-create-succeeded.
LEMMA OnlyRecordSucceeded ==
    ASSUME BootstrapInvariant, [Next]_vars, NEW d \in CRs,
           ~api[d].succeeded, api'[d].succeeded
    PROVE  RecordSucceeded(d)
  <1>1. /\ TypeOK /\ Recorded(d)
        /\ mem[d] \in Object /\ base[d] \in Object /\ api[d] \in Object
    BY DEF BootstrapInvariant, TypeOK
  <1>2. PICK c \in CRs : Reconcile(c) \/ RequestDelete(c)
    BY <1>1 DEF Next, EnvironmentStep, CacheSync, ConnSync, Crash, Start, EtcdStep, Tick, vars
  <1>3. ~RequestDelete(c)
    <2> SUFFICES ASSUME RequestDelete(c) PROVE FALSE
      OBVIOUS
    <2>1. api'[d].succeeded = api[d].succeeded
      BY <1>1 DEF RequestDelete, TypeOK, Object
    <2> QED
      BY <2>1
  <1>4. c = d
    BY <1>1, <1>2, <1>3, OthersUntouched DEF Untouched
  <1>5. ReconcileStep(d)
    BY <1>2, <1>3, <1>4 DEF Reconcile, ConnectFails, Observe, ObserveReturns, Create,
       VerifyCreated, VerifyExists, CreateReturns, Update, UpdateReturns, Delete,
       DeleteReturns, Fail
  <1>6. ASSUME NEW object \in Object, UpdateObject(d, object),
               object.succeeded = mem[d].succeeded, pc[d] # "idle"
        PROVE  FALSE
    BY <1>1, <1>6, UpdateObjectEffect DEF Recorded, AnnotationsAreBase
  <1>7. ~AddFinalizer(d)
    <2>1. /\ [mem[d] EXCEPT !.finalizer = TRUE] \in Object
          /\ [mem[d] EXCEPT !.finalizer = TRUE].succeeded = mem[d].succeeded
      BY <1>1, FinalizerUpdate
    <2> QED
      BY <1>6, <2>1 DEF AddFinalizer, Fail
  <1>8. ~SetPending(d)
    <2>1. /\ [mem[d] EXCEPT !.latest = "pending"] \in Object
          /\ [mem[d] EXCEPT !.latest = "pending"].succeeded = mem[d].succeeded
      BY <1>1, LatestUpdate
    <2> QED
      BY <1>6, <2>1 DEF SetPending, Fail
  <1>9. ~RecordFailed(d)
    <2> DEFINE o == Annotated(mem[d], "failed")
    <2>1. /\ o.succeeded = mem[d].succeeded
          /\ Annotated(api[d], "failed").succeeded = api[d].succeeded
      BY <1>1 DEF Annotated, Object
    <2>4. o \in Object
      BY <1>1, AnnotatedType
    <2>2. CASE RecordFailed(d) /\ UpdateObject(d, o)
      BY <1>6, <2>1, <2>2, <2>4 DEF RecordFailed
    <2>3. CASE RecordFailed(d) /\ ~UpdateObject(d, o)
      <3>1. api' = api \/ api' = [api EXCEPT ![d] = Annotated(api[d], "failed")]
        BY <2>3 DEF RecordFailed, Annotate, Fail
      <3> HIDE DEF o
      <3> QED
        BY <1>1, <2>1, <3>1 DEF TypeOK
    <2> QED
      BY <2>2, <2>3
  <1>10. ~(\/ Begin(d) \/ PublishObserved(d) \/ PublishCreated(d) \/ PublishUpdated(d)
           \/ LoseStatus(d))
    BY DEF Begin, PublishObserved, PublishCreated, PublishUpdated, LoseStatus, Fail
  <1>11. ~Unfinalize(d)
    <2>1. [api[d] EXCEPT !.life = "gone", !.finalizer = FALSE].succeeded = api[d].succeeded
      BY <1>1 DEF Object
    <2>2. Unfinalize(d) =>
              \/ api' = [api EXCEPT ![d] = [api[d] EXCEPT !.life = "gone", !.finalizer = FALSE]]
              \/ api' = api
      BY DEF Unfinalize, Fail
    <2> QED
      BY <1>1, <2>1, <2>2 DEF TypeOK
  <1>12. ~WriteStatus(d)
    <2>1. WriteStatus(d) => api'[d].succeeded = api[d].succeeded
      BY <1>1 DEF WriteStatus, TypeOK, Object
    <2> QED
      BY <2>1
  <1> QED
    BY <1>5, <1>7, <1>8, <1>9, <1>10, <1>11, <1>12 DEF ReconcileStep

\* A create recorded as successful was answered, or its node's etcd was at work.
THEOREM RecordsAreTrue == Spec => []RecordedCreateHappened
  <1>1. Init => RecordedCreateHappened
    BY DEF Init, ReconcilerInit, NewObject, RecordedCreateHappened
  <1>2. BootstrapInvariant /\ AllGrounds /\ RecordedCreateHappened /\ [Next]_vars
            => RecordedCreateHappened'
    <2> SUFFICES ASSUME BootstrapInvariant, AllGrounds, RecordedCreateHappened, [Next]_vars,
                        NEW d \in CRs, api'[d].succeeded
                 PROVE  d \in acknowledged' \/ TargetUp(d)'
      BY DEF RecordedCreateHappened, TargetUp
    <2>1. /\ TypeOK /\ Recorded(d) /\ Grounds(d)
          /\ mem[d] \in Object /\ base[d] \in Object /\ api[d] \in Object
      BY DEF BootstrapInvariant, AllGrounds, TypeOK
    <2>2. d \in acknowledged \/ TargetUp(d)
      <3>1. CASE api[d].succeeded
        BY <3>1 DEF RecordedCreateHappened, TargetUp
      <3>2. CASE ~api[d].succeeded
        <4>1. RecordSucceeded(d)
          BY <2>1, <3>2, OnlyRecordSucceeded
        <4> QED
          BY <2>1, <4>1 DEF RecordSucceeded, Grounds
      <3> QED
        BY <3>1, <3>2
    <2> QED
      BY <2>1, <2>2, NothingIsUndone
  <1> QED
    BY <1>1, <1>2, RecordsAgree, GroundsHold, PTL DEF Spec

----------------------------------------------------------------------------
(* The status *)

\* The statuses a step can write anywhere, unless a probe succeeded just now.
Statuses(d) == {api[d].status, cache[d].status, mem[d].status, InitStatus}

LEMMA UpdateObjectStatus ==
    ASSUME TypeOK, NEW c \in CRs, NEW object \in Object, UpdateObject(c, object),
           object.status = mem[c].status
    PROVE  api'[c].status = api[c].status /\ mem'[c].status \in Statuses(c)
  <1>1. Stored(c, object).status = api[c].status
    BY DEF Stored, Object
  <1>2. \A o \in Decoded(c, object) : o.status \in {object.status, api[c].status}
    BY <1>1 DEF Decoded, Object
  <1> QED
    BY <1>1, <1>2 DEF UpdateObject, TypeOK, Statuses

LEMMA AnnotateStatus ==
    ASSUME TypeOK, NEW c \in CRs, NEW outcome \in {"succeeded", "failed"},
           Annotate(c, outcome)
    PROVE  api'[c].status = api[c].status /\ mem'[c].status \in Statuses(c)
  <1>1. /\ Annotated(mem[c], outcome).status = mem[c].status
        /\ Annotated(api[c], outcome).status = api[c].status
    BY DEF Annotated, TypeOK, Object
  <1>2. CASE UpdateObject(c, Annotated(mem[c], outcome))
    BY <1>1, <1>2, AnnotatedType, UpdateObjectStatus DEF TypeOK
  <1>3. CASE ~UpdateObject(c, Annotated(mem[c], outcome))
    <2>1. /\ api' = [api EXCEPT ![c] = Annotated(api[c], outcome)]
          /\ mem' = [mem EXCEPT ![c] = Annotated(api[c], outcome)]
      BY <1>3 DEF Annotate
    <2> HIDE DEF Annotated
    <2> QED
      BY <1>1, <2>1 DEF TypeOK, Statuses
  <1> QED
    BY <1>2, <1>3

LEMMA ReconcileStatus ==
    ASSUME TypeOK, NEW c \in CRs, Reconcile(c)
    PROVE  /\ api'[c].status \in Statuses(c)
           /\ cache' = cache
           /\ mem'[c].status \in Statuses(c) \/ TargetUp(c)
  <1> USE DEF TypeOK, Goto, Fail, Finish, Statuses
  <1>1. mem[c] \in Object /\ api[c] \in Object /\ NewObject.status = InitStatus
    BY DEF NewObject
  <1>2. CASE ReconcileStep(c)
    <2>1. CASE \/ Begin(c) \/ PublishObserved(c) \/ PublishCreated(c) \/ PublishUpdated(c)
               \/ LoseStatus(c)
      BY <1>1, <2>1 DEF Begin, PublishObserved, PublishCreated, PublishUpdated, LoseStatus
    <2>2. CASE Unfinalize(c)
      BY <1>1, <2>2 DEF Unfinalize, Object
    <2>3. CASE WriteStatus(c)
      BY <1>1, <2>3 DEF WriteStatus, Object
    <2>4. CASE AddFinalizer(c)
      <3>1. /\ [mem[c] EXCEPT !.finalizer = TRUE] \in Object
            /\ [mem[c] EXCEPT !.finalizer = TRUE].status = mem[c].status
        BY <1>1, FinalizerUpdate DEF Object
      <3> QED
        BY <2>4, <3>1, UpdateObjectStatus DEF AddFinalizer
    <2>5. CASE SetPending(c)
      <3>1. /\ [mem[c] EXCEPT !.latest = "pending"] \in Object
            /\ [mem[c] EXCEPT !.latest = "pending"].status = mem[c].status
        BY <1>1, LatestUpdate DEF Object
      <3> QED
        BY <2>5, <3>1, UpdateObjectStatus DEF SetPending
    <2>6. CASE RecordSucceeded(c)
      BY <2>6, AnnotateStatus DEF RecordSucceeded
    <2>7. CASE RecordFailed(c)
      BY <2>7, AnnotateStatus DEF RecordFailed
    <2> QED
      BY <1>2, <2>1, <2>2, <2>3, <2>4, <2>5, <2>6, <2>7 DEF ReconcileStep
  <1>3. CASE ConnectFails(c) \/ Create(c) \/ Delete(c)
    BY <1>3 DEF ConnectFails, Create, Delete, DeleteReturns, nodeVars
  <1>4. CASE Update(c)
    BY <1>4 DEF Update, UpdateReturns
  <1>5. CASE Observe(c)
    <2>1. PICK healthy \in Probe(c) :
            ObserveReturns(c, Observed(mem[c], healthy), Observation(mem[c], healthy))
      BY <1>5 DEF Observe
    <2>2. CASE healthy = TRUE
      BY <2>1, <2>2, ProbeIsRight DEF ObserveReturns
    <2>3. CASE healthy = FALSE
      <3>1. Observed(mem[c], healthy).status = mem[c].status
        BY <1>1, <2>3 DEF Observed, Object
      <3> HIDE DEF Observed, Observation
      <3> QED
        BY <2>1, <3>1 DEF ObserveReturns
    <2> QED
      BY <2>2, <2>3, ProbeType
  <1>6. CASE VerifyCreated(c)
    <2>1. PICK healthy \in Probe(c) :
            CreateReturns(c, IF healthy THEN MarkBootstrapped(mem[c]) ELSE mem[c], NoDetails)
      BY <1>6 DEF VerifyCreated
    <2>2. CASE healthy = TRUE
      BY <2>1, <2>2, ProbeIsRight DEF CreateReturns
    <2>3. CASE healthy = FALSE
      BY <2>1, <2>3 DEF CreateReturns
    <2> QED
      BY <2>2, <2>3, ProbeType
  <1>7. CASE VerifyExists(c)
    BY <1>7, ProbeIsRight DEF VerifyExists, CreateReturns
  <1> QED
    BY <1>2, <1>3, <1>4, <1>5, <1>6, <1>7 DEF Reconcile

\* Wherever the object of a resource is read from, its status is true.
Founded(object, c) == object.status.bootstrapped => TargetUp(c)

StatusIsTrue ==
    \A c \in CRs : Founded(api[c], c) /\ Founded(cache[c], c) /\ Founded(mem[c], c)

LEMMA StepKeepsStatus ==
    ASSUME TypeOK, [Next]_vars, StatusIsTrue
    PROVE  StatusIsTrue'
  <1> SUFFICES ASSUME NEW d \in CRs
               PROVE  /\ Founded(api[d], d)' /\ Founded(cache[d], d)' /\ Founded(mem[d], d)'
    BY DEF StatusIsTrue
  <1>1. TargetUp(d) => TargetUp(d)'
    BY NothingIsUndone
  <1>2. Founded(api[d], d) /\ Founded(cache[d], d) /\ Founded(mem[d], d)
    BY DEF StatusIsTrue
  <1>3. \A s \in Statuses(d) : s.bootstrapped => TargetUp(d)
    BY <1>2 DEF Statuses, Founded, InitStatus
  <1>4. /\ api'[d].status \in Statuses(d)
        /\ cache'[d].status \in Statuses(d)
        /\ mem'[d].status \in Statuses(d) \/ TargetUp(d)
    <2>1. CASE \E c \in CRs : Reconcile(c)
      <3>1. PICK c \in CRs : Reconcile(c)
        BY <2>1
      <3>2. CASE c = d
        BY <3>1, <3>2, ReconcileStatus DEF Statuses
      <3>3. CASE c # d
        BY <3>1, <3>3, OthersUntouched, ReconcileStatus DEF Untouched, Statuses
      <3> QED
        BY <3>2, <3>3
    <2>2. CASE EnvironmentStep
      <3>1. NewObject.status = InitStatus
        BY DEF NewObject
      <3>2. CASE \E c \in CRs : RequestDelete(c)
        <4>1. PICK c \in CRs : RequestDelete(c)
          BY <3>2
        <4>2. api'[d].status = api[d].status /\ cache' = cache /\ mem' = mem
          BY <4>1 DEF RequestDelete, TypeOK, Object
        <4> QED
          BY <4>2 DEF Statuses
      <3>3. CASE ~\E c \in CRs : RequestDelete(c)
        BY <2>2, <3>1, <3>3 DEF EnvironmentStep, CacheSync, ConnSync, Crash, Start,
           Statuses, TypeOK
      <3> QED
        BY <3>2, <3>3
    <2>3. CASE (\E n \in Nodes : EtcdStep(n)) \/ Tick \/ UNCHANGED vars
      BY <2>3 DEF EtcdStep, Tick, vars, Statuses
    <2> QED
      BY <2>1, <2>2, <2>3 DEF Next
  <1>5. /\ api'[d].status.bootstrapped => TargetUp(d)
        /\ cache'[d].status.bootstrapped => TargetUp(d)
        /\ mem'[d].status.bootstrapped => TargetUp(d)
    BY <1>3, <1>4
  <1> QED
    BY <1>1, <1>5 DEF Founded

\* status.bootstrapped is stored only for a node whose etcd is at work, whatever
\* is decoded over what, and however old the object a reconcile begins with.
THEOREM StatusIsFounded == Spec => []BootstrappedWasHealthy
  <1>1. Init => StatusIsTrue
    <2>1. ~NewObject.status.bootstrapped
      BY DEF NewObject, InitStatus
    <2> SUFFICES ASSUME Init, NEW c \in CRs
                 PROVE  Founded(api[c], c) /\ Founded(cache[c], c) /\ Founded(mem[c], c)
      BY DEF StatusIsTrue
    <2>2. api[c] = NewObject /\ cache[c] = NewObject /\ mem[c] = NewObject
      BY DEF Init, ReconcilerInit
    <2> QED
      BY <2>1, <2>2 DEF Founded
  <1>2. TypeOK /\ StatusIsTrue /\ [Next]_vars => StatusIsTrue'
    BY StepKeepsStatus
  <1>3. StatusIsTrue => BootstrappedWasHealthy
    BY DEF StatusIsTrue, Founded, TargetUp, BootstrappedWasHealthy
  <1> QED
    BY <1>1, <1>2, <1>3, TypeCorrect, PTL DEF Spec

----------------------------------------------------------------------------
(* Ready is raised by the probe *)

\* Where a reconcile that does not come from Create stands between reading the object
\* and writing its status.
OnStatusPath(c) == pc[c] \in {"observe", "publish", "finalizer", "update", "publishUpdated",
                              "unfinalize", "status"}

\* There, a Ready in memory is that of the version that was read, or probed.
RaisedByProbe(c) ==
    /\ OnStatusPath(c) /\ mem[c].ready = "true" => base[c].ready = "true" \/ obs[c].upToDate
    /\ pc[c] = "observe" => mem[c] = base[c]

LEMMA UpdateObjectRaised ==
    ASSUME TypeOK, NEW c \in CRs, NEW object \in Object, UpdateObject(c, object)
    PROVE  /\ base'[c].ready = base[c].ready
           /\ mem'[c].ready \in {object.ready, base[c].ready}
  <1>1. api[c] \in Object /\ base[c] = api[c]
    BY DEF UpdateObject, TypeOK
  <1>2. /\ Stored(c, object).ready = api[c].ready
        /\ \A o \in Decoded(c, object) : o.ready \in {object.ready, api[c].ready}
    BY <1>1 DEF Stored, Decoded, Object
  <1> QED
    BY <1>1, <1>2 DEF UpdateObject, TypeOK

LEMMA ObserveRaised ==
    ASSUME TypeOK, NEW c \in CRs, RaisedByProbe(c), Observe(c)
    PROVE  RaisedByProbe(c)'
  <1>1. PICK healthy \in Probe(c) :
            ObserveReturns(c, Observed(mem[c], healthy), Observation(mem[c], healthy))
    BY DEF Observe
  <1> DEFINE object == Observed(mem[c], healthy)
  <1>2. healthy \in BOOLEAN /\ mem[c] \in Object
    BY ProbeType DEF TypeOK
  <1>3. ~healthy /\ object.ready = "true" => mem[c].ready = "true"
    BY <1>2 DEF Observed, Object
  <1> HIDE DEF object
  <1>4. /\ mem'[c] = object /\ base' = base /\ obs'[c].upToDate = healthy /\ pc[c] = "observe"
        /\ pc'[c] # "observe"
    BY <1>1 DEF Observe, ObserveReturns, Observation, Goto, object, TypeOK
  <1> QED
    BY <1>2, <1>3, <1>4 DEF RaisedByProbe

LEMMA ReconcileRaised ==
    ASSUME TypeOK, NEW c \in CRs, RaisedByProbe(c), Reconcile(c)
    PROVE  RaisedByProbe(c)'
  <1> USE DEF TypeOK, Goto, Fail, Finish
  <1>0. mem[c] \in Object /\ obs[c] \in Obs
    OBVIOUS
  <1>1. CASE PublishObserved(c) \/ PublishUpdated(c) \/ ConnectFails(c)
    <2>1. UNCHANGED <<base, mem, obs>> /\ OnStatusPath(c) /\ pc'[c] # "observe"
      BY <1>1 DEF PublishObserved, PublishUpdated, ConnectFails, OnStatusPath
    <2> QED
      BY <2>1 DEF RaisedByProbe
  <1>6. CASE Update(c)
    <2>1. [obs[c] EXCEPT !.details = NoDetails].upToDate = obs[c].upToDate
      BY <1>0 DEF Obs
    <2>2. /\ UNCHANGED base /\ mem'[c] = mem[c] /\ obs'[c].upToDate = obs[c].upToDate
          /\ OnStatusPath(c) /\ pc'[c] # "observe"
      BY <1>6, <2>1 DEF Update, UpdateReturns, OnStatusPath
    <2> QED
      BY <2>2 DEF RaisedByProbe
  <1>7. CASE Unfinalize(c)
    <2>1. \/ UNCHANGED <<base, mem, obs>> /\ OnStatusPath(c) /\ pc'[c] # "observe"
          \/ pc'[c] = "idle"
      BY <1>7 DEF Unfinalize, OnStatusPath
    <2> QED
      BY <2>1 DEF RaisedByProbe, OnStatusPath
  <1>2. CASE AddFinalizer(c)
    <2> DEFINE object == [mem[c] EXCEPT !.finalizer = TRUE]
    <2>1. object \in Object /\ object.ready = mem[c].ready
      BY <1>0, FinalizerUpdate DEF Object
    <2> HIDE DEF object
    <2>2. obs' = obs /\ OnStatusPath(c) /\ pc'[c] # "observe"
      BY <1>2 DEF AddFinalizer, OnStatusPath
    <2>3. /\ base'[c].ready = base[c].ready
          /\ mem'[c].ready \in {mem[c].ready, base[c].ready}
      BY <1>2, <2>1, UpdateObjectRaised DEF AddFinalizer, object
    <2> QED
      BY <2>2, <2>3 DEF RaisedByProbe
  <1>3. CASE SetPending(c) \/ RecordSucceeded(c) \/ RecordFailed(c) \/ PublishCreated(c)
             \/ Create(c) \/ VerifyCreated(c) \/ VerifyExists(c) \/ Delete(c)
    <2>1. ~OnStatusPath(c)'
      BY <1>3 DEF SetPending, RecordSucceeded, RecordFailed, PublishCreated, Create, VerifyCreated,
         VerifyExists, CreateReturns, Delete, DeleteReturns, OnStatusPath
    <2> QED
      BY <2>1 DEF RaisedByProbe, OnStatusPath
  <1>4. CASE WriteStatus(c) \/ LoseStatus(c)
    <2>1. pc'[c] = "idle"
      BY <1>4 DEF WriteStatus, LoseStatus
    <2> QED
      BY <2>1 DEF RaisedByProbe, OnStatusPath
  <1>5. CASE Begin(c)
    <2>1. mem'[c] = cache[c] /\ base'[c] = cache[c]
      BY <1>5 DEF Begin
    <2> QED
      BY <2>1 DEF RaisedByProbe
  <1> QED
    BY <1>1, <1>2, <1>3, <1>4, <1>5, <1>6, <1>7, ObserveRaised DEF Reconcile, ReconcileStep

LEMMA RaisedStep ==
    ASSUME TypeOK, NEW d \in CRs, RaisedByProbe(d), [Next]_vars
    PROVE  RaisedByProbe(d)'
  <1>1. ASSUME Untouched(d)
        PROVE  RaisedByProbe(d)'
    BY <1>1 DEF Untouched, RaisedByProbe, OnStatusPath
  <1>2. ASSUME NEW c \in CRs, Reconcile(c)
        PROVE  RaisedByProbe(d)'
    <2>1. CASE c = d
      BY <1>2, <2>1, ReconcileRaised
    <2>2. CASE c # d
      BY <1>1, <1>2, <2>2, OthersUntouched
    <2> QED
      BY <2>1, <2>2
  <1>3. CASE EnvironmentStep
    <2>1. \/ UNCHANGED <<pc, mem, base, obs>>
          \/ pc'[d] \in {"idle", "down"}
      BY <1>3 DEF EnvironmentStep, CacheSync, ConnSync, RequestDelete, Crash, Start
    <2> QED
      BY <2>1 DEF RaisedByProbe, OnStatusPath
  <1>4. CASE (\E n \in Nodes : EtcdStep(n)) \/ Tick \/ UNCHANGED vars
    BY <1>4 DEF EtcdStep, Tick, vars, RaisedByProbe, OnStatusPath
  <1> QED
    BY <1>2, <1>3, <1>4 DEF Next

\* Ready turns true only in a reconcile whose own probe found etcd healthy: under every
\* fault, whatever fails, is read from an old copy or is decoded over the object.
THEOREM ReadyIsRaised == Spec => ReadyIsRaisedByProbe
  <1> DEFINE Raised == \A c \in CRs : RaisedByProbe(c)
  <1>1. Init => Raised
    BY DEF Init, ReconcilerInit, RaisedByProbe, OnStatusPath
  <1>2. TypeOK /\ Raised /\ [Next]_vars => Raised'
    BY RaisedStep
  <1>3. TypeOK /\ Raised /\ [Next]_vars
            => [\A c \in CRs :
                  WriteStatus(c) /\ api'[c].ready = "true" =>
                      obs[c].upToDate \/ api[c].ready = "true"]_vars
    <2> SUFFICES ASSUME TypeOK, Raised, NEW c \in CRs, WriteStatus(c), api'[c].ready = "true"
                 PROVE  obs[c].upToDate \/ api[c].ready = "true"
      OBVIOUS
    <2>1. pc[c] = "status" /\ mem[c].ready = "true" /\ base[c] = api[c]
      BY DEF WriteStatus, TypeOK, Object
    <2> QED
      BY <2>1 DEF RaisedByProbe, OnStatusPath
  <1> QED
    BY <1>1, <1>2, <1>3, TypeCorrect, PTL DEF Spec, ReadyIsRaisedByProbe

----------------------------------------------------------------------------
(* Ready follows the probe *)

\* Without old caches, the cached copy of the Secret that a reconcile looks at before it
\* publishes is the Secret, unless that was deleted with its resource.
SecretCaughtUp(c) ==
    c \in WriteRef /\ pc[c] \in {"observe", "publish"}
        => connCache[c] = NoDetails \/ conn[c] = NoSecret

LEMMA SecretStep ==
    ASSUME TypeOK, "stale" \notin Env, NEW d \in CRs, SecretCaughtUp(d), [Next]_vars
    PROVE  SecretCaughtUp(d)'
  <1> USE DEF TypeOK, Goto, Fail, Finish
  <1>1. ASSUME NEW c \in CRs, Reconcile(c)
        PROVE  SecretCaughtUp(d)'
    <2>1. connCache' = connCache
      BY <1>1 DEF Reconcile, ReconcileStep, Begin, PublishObserved, AddFinalizer, SetPending,
         RecordSucceeded, RecordFailed, PublishCreated, PublishUpdated, Unfinalize, WriteStatus,
         LoseStatus, ConnectFails, Observe, ObserveReturns, Create, VerifyCreated, VerifyExists,
         CreateReturns, Update, UpdateReturns, Delete, DeleteReturns
    <2>2. CASE c = d
      <3>1. \/ connCache[d] = conn[d] /\ conn' = conn
            \/ pc[d] = "observe" /\ conn' = conn
            \/ pc'[d] \notin {"observe", "publish"}
        BY <1>1, <2>2 DEF Reconcile, ReconcileStep, Begin, PublishObserved, AddFinalizer, SetPending,
           RecordSucceeded, RecordFailed, PublishCreated, PublishUpdated, Unfinalize, WriteStatus,
           LoseStatus, ConnectFails, Observe, ObserveReturns, Create, VerifyCreated, VerifyExists,
           CreateReturns, Update, UpdateReturns, Delete, DeleteReturns
      <3> QED
        BY <2>1, <3>1 DEF SecretCaughtUp
    <2>3. CASE c # d
      <3>1. conn'[d] = conn[d]
        BY <1>1, <2>3 DEF Reconcile, ReconcileStep, Begin, PublishObserved, AddFinalizer, SetPending,
           RecordSucceeded, RecordFailed, PublishCreated, PublishUpdated, Publish, Unfinalize, WriteStatus,
           LoseStatus, ConnectFails, Observe, ObserveReturns, Create, VerifyCreated, VerifyExists,
           CreateReturns, Update, UpdateReturns, Delete, DeleteReturns
      <3>2. pc'[d] = pc[d]
        BY <1>1, <2>3, OthersUntouched DEF Untouched
      <3> QED
        BY <2>1, <3>1, <3>2 DEF SecretCaughtUp
    <2> QED
      BY <2>2, <2>3
  <1>2. CASE EnvironmentStep
    <2>1. \/ pc'[d] \in {"idle", "down"}
          \/ /\ pc' = pc
             /\ \/ connCache'[d] = connCache[d] /\ conn'[d] \in {conn[d], NoSecret}
                \/ connCache'[d] = conn[d] /\ conn' = conn
      BY <1>2 DEF EnvironmentStep, CacheSync, ConnSync, RequestDelete, Crash, Start
    <2> QED
      BY <2>1 DEF SecretCaughtUp
  <1>3. CASE (\E n \in Nodes : EtcdStep(n)) \/ Tick \/ UNCHANGED vars
    BY <1>3 DEF EtcdStep, Tick, vars, SecretCaughtUp
  <1> QED
    BY <1>1, <1>2, <1>3 DEF Next

\* What Observe returned is published: the condition of ReadyIsProbed.
LEMMA ObservedIsPublished ==
    ASSUME TypeOK, NEW c \in CRs, PublishObserved(c), EmptyIsPublished, SecretCaughtUp(c)
    PROVE  Publish(c) /\ pc'[c] = "finalizer"
  <1>1. obs[c].details = NoDetails
    BY DEF TypeOK, Obs
  <1>2. ~PublishCanFail(c)
    BY <1>1 DEF PublishCanFail, SecretApplies, PublishObserved, EmptyIsPublished, SecretCaughtUp, TypeOK
  <1> QED
    BY <1>2 DEF PublishObserved, Goto, TypeOK

\* A Ready that was stored, or is read from a copy, was earned: its resource is known
\* to be bootstrapped and has its finalizer, which is stored before the first Ready.
Earned(object) == object.ready = "true" => KnownBootstrapped(object) /\ object.finalizer

\* What the status write can do when it comes with a Ready that was probed: it follows
\* a finalizer that is stored or was refused because the object has changed.
FinalizerFirst(c) == base[c].finalizer \/ (base[c] # api[c] /\ base[c].life = "live")

\* From the probe on, Ready is in memory only if the probe found etcd healthy.
ReadyWasProbed(c) ==
    /\ pc[c] \in {"idle", "down", "observe"} => obs[c] = NoObs
    /\ pc[c] = "observe" => mem[c] = base[c]
    /\ pc[c] \in {"publish", "finalizer", "update", "publishUpdated"} /\ mem[c].ready = "true"
          => obs[c].upToDate /\ mem[c].status.bootstrapped
    /\ pc[c] \in {"publish", "finalizer"} => base[c].life = "live"
    /\ pc[c] \in {"update", "publishUpdated"} => base[c].finalizer
    /\ pc[c] = "unfinalize" => mem[c].ready # "true" /\ base[c].ready # "true"
    /\ pc[c] = "status" /\ mem[c].ready = "true" =>
          \/ obs[c] = NoObs /\ mem[c] = base[c]
          \/ obs[c].upToDate /\ mem[c].status.bootstrapped /\ FinalizerFirst(c)

Probed(c) ==
    /\ Earned(api[c]) /\ Earned(cache[c]) /\ Earned(base[c])
    /\ mem[c].life = base[c].life /\ mem[c].finalizer = base[c].finalizer
    /\ ReadyWasProbed(c)

\* On the way to the end of Create nothing but the stored object counts.
OnCreatePath(c) == pc[c] \in {"pending", "create", "created", "failed", "publishCreated",
                              "verifyCreated", "verifyExists", "delete", "creating"}

LEMMA CreatePathProbed ==
    ASSUME NEW c \in CRs, OnCreatePath(c)', Earned(api[c])', Earned(cache[c])', Earned(base[c])',
           mem'[c].life = base'[c].life, mem'[c].finalizer = base'[c].finalizer
    PROVE  Probed(c)'
  BY DEF OnCreatePath, Probed, ReadyWasProbed

\* Earned reads three parts of an object.
LEMMA SameEarned ==
    ASSUME NEW o, NEW p, Earned(o), p.ready = o.ready, p.status = o.status,
           p.succeeded = o.succeeded, p.finalizer = o.finalizer
    PROVE  Earned(p)
  BY DEF Earned, KnownBootstrapped, HasSuccessfulExternalCreate

LEMMA NewObjectEarned == Earned(NewObject) /\ NewObject.ready # "true"
  BY DEF Earned, NewObject

\* What an update stores, and what its response leaves in memory.
LEMMA UpdateObjectReady ==
    ASSUME TypeOK, NEW c \in CRs, NEW object \in Object, UpdateObject(c, object),
           Earned(api[c]), api[c].succeeded => object.succeeded, api[c].finalizer => object.finalizer
    PROVE  /\ base[c] = api[c] /\ Earned(api[c])' /\ Earned(base[c])'
           /\ base'[c].life = object.life /\ mem'[c].life = object.life
           /\ base'[c].finalizer = object.finalizer /\ mem'[c].finalizer = object.finalizer
           /\ \/ mem'[c].ready = api[c].ready
              \/ mem'[c].ready = object.ready /\ mem'[c].status = object.status
  <1>1. api[c].ready \in {"none", "true", "false"} /\ api[c].status \in Status
    BY ObjectFields DEF TypeOK
  <1> DEFINE stored == Stored(c, object)
             answered == [object EXCEPT !.ready = api[c].ready]
  <1>2. /\ stored.ready = api[c].ready /\ stored.status = api[c].status
        /\ stored.life = object.life /\ stored.finalizer = object.finalizer
        /\ stored.succeeded = object.succeeded
    BY <1>1 DEF Stored, Object
  <1>3. /\ answered.ready = api[c].ready /\ answered.status = object.status
        /\ answered.life = object.life /\ answered.finalizer = object.finalizer
    BY <1>1 DEF Object
  <1>4. Decoded(c, object) \subseteq {object, answered, stored}
    BY DEF Decoded
  <1>5. /\ base[c] = api[c]
        /\ api' = [api EXCEPT ![c] = stored] /\ base' = [base EXCEPT ![c] = stored]
        /\ \E o \in {object, answered, stored} : mem' = [mem EXCEPT ![c] = o]
    BY <1>4 DEF UpdateObject
  <1>6. Earned(stored)
    BY <1>2 DEF Earned, KnownBootstrapped, HasSuccessfulExternalCreate
  <1> HIDE DEF stored, answered
  <1>7. PICK o \in {object, answered, stored} : mem' = [mem EXCEPT ![c] = o]
    BY <1>5
  <1>8. api'[c] = stored /\ base'[c] = stored /\ mem'[c] = o
    BY <1>5, <1>7 DEF TypeOK
  <1>9. Earned(api[c])' /\ Earned(base[c])'
    BY <1>6, <1>8 DEF Earned
  <1> QED
    BY <1>2, <1>3, <1>5, <1>8, <1>9

LEMMA AnnotateReady ==
    ASSUME TypeOK, NEW c \in CRs, NEW outcome \in {"succeeded", "failed"}, Annotate(c, outcome),
           Recorded(c), pc[c] # "idle", Probed(c)
    PROVE  /\ Earned(api[c])' /\ Earned(base[c])'
           /\ mem'[c].life = base'[c].life /\ mem'[c].finalizer = base'[c].finalizer
  <1>1. mem[c] \in Object /\ api[c] \in Object /\ base[c] \in Object
    BY DEF TypeOK
  <1>2. ASSUME NEW o \in Object
        PROVE  /\ Annotated(o, outcome).ready = o.ready /\ Annotated(o, outcome).status = o.status
               /\ Annotated(o, outcome).life = o.life
               /\ Annotated(o, outcome).finalizer = o.finalizer
               /\ o.succeeded => Annotated(o, outcome).succeeded
    BY DEF Annotated, Object
  <1>3. CASE UpdateObject(c, Annotated(mem[c], outcome))
    <2>1. /\ mem[c].succeeded = base[c].succeeded /\ mem[c].finalizer = base[c].finalizer
          /\ Earned(api[c]) /\ base[c] = api[c]
      BY <1>3 DEF Recorded, AnnotationsAreBase, Probed, UpdateObject
    <2>2. /\ Annotated(mem[c], outcome) \in Object
          /\ api[c].succeeded => Annotated(mem[c], outcome).succeeded
          /\ api[c].finalizer => Annotated(mem[c], outcome).finalizer
      BY <1>1, <1>2, <2>1, AnnotatedType
    <2> QED
      BY <1>3, <2>1, <2>2, UpdateObjectReady
  <1>4. CASE ~UpdateObject(c, Annotated(mem[c], outcome))
    <2> DEFINE object == Annotated(api[c], outcome)
    <2>1. /\ api' = [api EXCEPT ![c] = object] /\ base' = [base EXCEPT ![c] = object]
          /\ mem' = [mem EXCEPT ![c] = object]
      BY <1>4 DEF Annotate
    <2>2. Earned(object)
      BY <1>1, <1>2 DEF Probed, Earned, KnownBootstrapped, HasSuccessfulExternalCreate
    <2> HIDE DEF object
    <2> QED
      BY <2>1, <2>2 DEF TypeOK, Earned
  <1> QED
    BY <1>3, <1>4

LEMMA FinalizerProbed ==
    ASSUME TypeOK, NEW c \in CRs, Recorded(c), Probed(c), AddFinalizer(c), "writeError" \notin Env
    PROVE  Probed(c)'
  <1> DEFINE object == [mem[c] EXCEPT !.finalizer = TRUE]
  <1>1. mem[c] \in Object /\ api[c] \in Object /\ base[c] \in Object
    BY DEF TypeOK
  <1>2. /\ object \in Object /\ object.finalizer /\ object.ready = mem[c].ready
        /\ object.status = mem[c].status /\ object.life = mem[c].life
        /\ object.succeeded = mem[c].succeeded
    BY <1>1, FinalizerUpdate DEF Object
  <1> HIDE DEF object
  <1>3. /\ pc[c] = "finalizer" /\ cache' = cache /\ obs' = obs
        /\ mem[c].succeeded = base[c].succeeded
        /\ base[c].life = "live" /\ mem[c].life = "live"
        /\ mem[c].ready = "true" => obs[c].upToDate /\ mem[c].status.bootstrapped
    BY DEF AddFinalizer, Fail, Recorded, AnnotationsAreBase, Probed, ReadyWasProbed
  <1>4. CASE mem[c].finalizer
    <2>1. UNCHANGED <<api, base, mem>> /\ pc'[c] \in {"pending", "status", "update"}
      BY <1>3, <1>4 DEF AddFinalizer, Fail, Goto, TypeOK
    <2> QED
      BY <1>3, <1>4, <2>1 DEF Probed, ReadyWasProbed, FinalizerFirst
  <1>5. CASE ~mem[c].finalizer /\ UpdateObject(c, object)
    <2>1. base[c] = api[c] /\ Earned(api[c]) /\ ~api[c].finalizer /\ api[c].ready # "true"
      BY <1>5 DEF UpdateObject, Probed, Earned
    <2>2. /\ Earned(api[c])' /\ Earned(base[c])'
          /\ base'[c].life = object.life /\ mem'[c].life = object.life
          /\ base'[c].finalizer /\ mem'[c].finalizer = base'[c].finalizer
          /\ \/ mem'[c].ready = api[c].ready
             \/ mem'[c].ready = object.ready /\ mem'[c].status = object.status
      BY <1>2, <1>3, <1>5, <2>1, UpdateObjectReady
    <2>3. mem'[c].ready = "true" => obs'[c].upToDate /\ mem'[c].status.bootstrapped
      BY <1>2, <1>3, <2>1, <2>2
    <2>4. pc'[c] \in {"pending", "status", "update", "status"}
      BY <1>3 DEF AddFinalizer, Fail, Goto, TypeOK
    <2>5. Earned(cache[c])'
      BY <1>3 DEF Probed, Earned
    <2> QED
      BY <2>2, <2>3, <2>4, <2>5 DEF Probed, ReadyWasProbed, FinalizerFirst
  <1>6. CASE ~mem[c].finalizer /\ WriteCanFail(c) /\ Fail(c, "status")
    <2>1. UNCHANGED <<api, base, mem>> /\ pc'[c] = "status" /\ base[c] # api[c]
      BY <1>6 DEF WriteCanFail, Fail, Goto, TypeOK
    <2> QED
      BY <1>3, <2>1 DEF Probed, ReadyWasProbed, FinalizerFirst
  <1> QED
    BY <1>4, <1>5, <1>6 DEF AddFinalizer, object

LEMMA SetPendingProbed ==
    ASSUME TypeOK, NEW c \in CRs, Recorded(c), Probed(c), SetPending(c)
    PROVE  Probed(c)'
  <1> DEFINE object == [mem[c] EXCEPT !.latest = "pending"]
  <1>0. mem[c] \in Object
    BY DEF TypeOK
  <1>1. /\ object \in Object
        /\ object.succeeded = mem[c].succeeded /\ object.finalizer = mem[c].finalizer
    BY <1>0, LatestUpdate DEF Object
  <1> HIDE DEF object
  <1>2. pc[c] = "pending" /\ cache' = cache /\ OnCreatePath(c)'
    BY DEF SetPending, Fail, Goto, TypeOK, OnCreatePath
  <1>3. CASE UpdateObject(c, object)
    <2>1. /\ base[c] = api[c] /\ Earned(api[c])
          /\ object.succeeded = api[c].succeeded /\ object.finalizer = api[c].finalizer
      BY <1>1, <1>2, <1>3 DEF UpdateObject, Recorded, AnnotationsAreBase, Probed
    <2>2. /\ Earned(api[c])' /\ Earned(base[c])'
          /\ mem'[c].life = base'[c].life /\ mem'[c].finalizer = base'[c].finalizer
      BY <1>1, <1>3, <2>1, UpdateObjectReady
    <2> QED
      BY <1>2, <2>2, CreatePathProbed DEF Probed, Earned
  <1>4. CASE Fail(c, "creating")
    BY <1>2, <1>4, CreatePathProbed DEF Fail, Probed, Earned
  <1> QED
    BY <1>3, <1>4 DEF SetPending, object

LEMMA RecordProbed ==
    ASSUME TypeOK, NEW c \in CRs, Recorded(c), Probed(c), RecordSucceeded(c) \/ RecordFailed(c)
    PROVE  Probed(c)'
  <1>1. pc[c] # "idle" /\ cache' = cache /\ OnCreatePath(c)'
    BY DEF RecordSucceeded, RecordFailed, Fail, Goto, TypeOK, OnCreatePath
  <1>2. CASE Annotate(c, "succeeded") \/ Annotate(c, "failed")
    <2>1. /\ Earned(api[c])' /\ Earned(base[c])'
          /\ mem'[c].life = base'[c].life /\ mem'[c].finalizer = base'[c].finalizer
      BY <1>1, <1>2, AnnotateReady
    <2> QED
      BY <1>1, <2>1, CreatePathProbed DEF Probed, Earned
  <1>3. CASE Fail(c, "creating")
    BY <1>1, <1>3, CreatePathProbed DEF Fail, Probed, Earned
  <1> QED
    BY <1>2, <1>3 DEF RecordSucceeded, RecordFailed

LEMMA PublishProbed ==
    ASSUME TypeOK, NEW c \in CRs, Probed(c), EmptyIsPublished, SecretCaughtUp(c),
           PublishObserved(c) \/ PublishCreated(c) \/ PublishUpdated(c)
    PROVE  Probed(c)'
  <1>1. PublishObserved(c) => pc'[c] = "finalizer"
    BY ObservedIsPublished
  <1>2. /\ UNCHANGED <<api, cache, mem, base, obs>>
        /\ \/ pc[c] = "publish" /\ pc'[c] = "finalizer"
           \/ pc[c] = "publishCreated" /\ pc'[c] = "creating"
           \/ pc[c] = "publishUpdated" /\ pc'[c] = "status"
    BY <1>1 DEF PublishObserved, PublishCreated, PublishUpdated, Fail, Goto, TypeOK
  <1> QED
    BY <1>2 DEF Probed, ReadyWasProbed, FinalizerFirst

\* The ends of a reconcile: the status is stored or lost, or the finalizer removed.
LEMMA FinishProbed ==
    ASSUME TypeOK, NEW c \in CRs, Finish(c), Earned(api[c])', Earned(cache[c])'
    PROVE  Probed(c)'
  <1>1. mem'[c] = NewObject /\ base'[c] = NewObject /\ obs'[c] = NoObs /\ pc'[c] = "idle"
    BY DEF Finish, Goto, TypeOK
  <1>2. Earned(base[c])'
    BY <1>1, NewObjectEarned DEF Earned
  <1> QED
    BY <1>1, <1>2 DEF Probed, ReadyWasProbed

LEMMA StatusProbed ==
    ASSUME TypeOK, NEW c \in CRs, Probed(c), WriteStatus(c) \/ LoseStatus(c)
    PROVE  Probed(c)'
  <1>1. Finish(c) /\ cache' = cache
    BY DEF WriteStatus, LoseStatus
  <1>2. CASE WriteStatus(c)
    <2>1. /\ api'[c].status = mem[c].status
          /\ api'[c].ready = "true" => pc[c] = "status" /\ mem[c].ready = "true"
          /\ api'[c].finalizer = api[c].finalizer /\ api'[c].succeeded = api[c].succeeded
          /\ base[c] = api[c] /\ Earned(api[c])
      BY <1>2 DEF WriteStatus, TypeOK, Object, Probed
    <2>2. ASSUME api'[c].ready = "true"
          PROVE  KnownBootstrapped(api'[c]) /\ api'[c].finalizer
      <3>1. CASE mem[c] = api[c]
        BY <2>1, <2>2, <3>1 DEF Earned, KnownBootstrapped, HasSuccessfulExternalCreate
      <3>2. CASE mem[c] # api[c]
        BY <2>1, <2>2, <3>2 DEF Probed, ReadyWasProbed, FinalizerFirst, KnownBootstrapped
      <3> QED
        BY <3>1, <3>2
    <2>3. Earned(api[c])' /\ Earned(cache[c])'
      BY <1>1, <2>2 DEF Probed, Earned, KnownBootstrapped, HasSuccessfulExternalCreate
    <2> QED
      BY <1>1, <2>3, FinishProbed
  <1>3. CASE LoseStatus(c)
    BY <1>1, <1>3, FinishProbed DEF LoseStatus, Probed, Earned
  <1> QED
    BY <1>2, <1>3

LEMMA UnfinalizeProbed ==
    ASSUME TypeOK, NEW c \in CRs, Probed(c), Unfinalize(c)
    PROVE  Probed(c)'
  <1>1. CASE base[c] = api[c] /\ Finish(c) /\ api' = [api EXCEPT ![c].life = "gone", ![c].finalizer = FALSE]
    <2>1. api'[c].ready = api[c].ready /\ api[c].ready # "true" /\ cache' = cache
      BY <1>1 DEF Unfinalize, TypeOK, Object, Probed, ReadyWasProbed
    <2> QED
      BY <1>1, <2>1, FinishProbed DEF Probed, Earned
  <1>2. CASE Fail(c, "status")
    <2>1. UNCHANGED <<api, cache, mem, base, obs>> /\ pc'[c] = "status" /\ pc[c] = "unfinalize"
      BY <1>2 DEF Unfinalize, Fail, Goto, TypeOK
    <2> QED
      BY <2>1 DEF Probed, ReadyWasProbed
  <1> QED
    BY <1>1, <1>2 DEF Unfinalize

LEMMA ObserveProbed ==
    ASSUME TypeOK, NEW c \in CRs, Probed(c), Observe(c)
    PROVE  Probed(c)'
  <1>1. PICK healthy \in Probe(c) :
            ObserveReturns(c, Observed(mem[c], healthy), Observation(mem[c], healthy))
    BY DEF Observe
  <1> DEFINE object == Observed(mem[c], healthy)
             known == KnownBootstrapped(mem[c])
  <1>2. healthy \in BOOLEAN /\ mem[c] \in Object
    BY ProbeType DEF TypeOK
  <1>3. /\ object.life = mem[c].life /\ object.finalizer = mem[c].finalizer
        /\ healthy => object.ready = "true" /\ object.status.bootstrapped
        /\ ~healthy /\ known => object.ready = "false"
        /\ ~healthy /\ ~known => object = mem[c]
    BY <1>2 DEF Observed, MarkBootstrapped, Object
  <1>4. pc[c] = "observe" /\ mem[c] = base[c] /\ Earned(base[c])
    BY DEF Observe, Probed, ReadyWasProbed
  <1>5. /\ ~healthy => object.ready # "true"
        /\ ~healthy /\ ~known => base[c].ready # "true"
    BY <1>3, <1>4 DEF Earned
  <1>6. /\ mem'[c] = object /\ obs'[c].upToDate = healthy
        /\ UNCHANGED <<api, cache, base>>
        /\ \/ pc'[c] = "publish" /\ base[c].life = "live"
           \/ pc'[c] = "delete"
           \/ pc'[c] = "unfinalize" /\ ~healthy /\ ~known
    BY <1>1, <1>3, <1>4 DEF ObserveReturns, Observation, Goto, TypeOK
  <1> HIDE DEF object, known
  <1> QED
    BY <1>2, <1>3, <1>4, <1>5, <1>6 DEF Probed, ReadyWasProbed

LEMMA CallProbed ==
    ASSUME TypeOK, NEW c \in CRs, Probed(c),
           ConnectFails(c) \/ Create(c) \/ VerifyCreated(c) \/ VerifyExists(c) \/ Update(c) \/ Delete(c)
    PROVE  Probed(c)'
  <1>1. CASE ConnectFails(c)
    <2>1. UNCHANGED <<api, cache, mem, base, obs>> /\ pc[c] = "observe" /\ pc'[c] = "status"
      BY <1>1 DEF ConnectFails, Fail, Goto, TypeOK
    <2> QED
      BY <2>1 DEF Probed, ReadyWasProbed
  <1>2. CASE Create(c) \/ Delete(c)
    <2>1. UNCHANGED <<api, cache, mem, base>> /\ OnCreatePath(c)'
      BY <1>2 DEF Create, Delete, DeleteReturns, Goto, TypeOK, OnCreatePath
    <2> QED
      BY <2>1, CreatePathProbed DEF Probed, Earned
  <1>3. CASE VerifyCreated(c) \/ VerifyExists(c)
    <2>1. /\ UNCHANGED <<api, cache, base>> /\ OnCreatePath(c)'
          /\ \/ mem' = mem
             \/ mem' = [mem EXCEPT ![c] = mem[c]]
             \/ mem' = [mem EXCEPT ![c] = MarkBootstrapped(mem[c])]
      BY <1>3 DEF VerifyCreated, VerifyExists, CreateReturns, Fail, Goto, TypeOK, OnCreatePath
    <2>2. /\ mem[c] \in Object
          /\ MarkBootstrapped(mem[c]).life = mem[c].life
          /\ MarkBootstrapped(mem[c]).finalizer = mem[c].finalizer
      BY DEF TypeOK, Object, MarkBootstrapped
    <2>3. mem'[c] = mem[c] \/ mem'[c] = MarkBootstrapped(mem[c])
      BY <2>1 DEF TypeOK
    <2> QED
      BY <2>1, <2>2, <2>3, CreatePathProbed DEF Probed, Earned
  <1>4. CASE Update(c)
    <2>1. /\ UNCHANGED <<api, cache, base>> /\ mem'[c] = mem[c]
          /\ obs'[c].upToDate = obs[c].upToDate
          /\ pc[c] = "update" /\ pc'[c] = "publishUpdated"
      BY <1>4 DEF Update, UpdateReturns, Goto, TypeOK, Obs
    <2> QED
      BY <2>1 DEF Probed, ReadyWasProbed
  <1> QED
    BY <1>1, <1>2, <1>3, <1>4

LEMMA ReconcileProbed ==
    ASSUME BootstrapInvariant, NEW c \in CRs, Probed(c), SecretCaughtUp(c), Reconcile(c),
           "writeError" \notin Env, EmptyIsPublished
    PROVE  Probed(c)'
  <1>1. TypeOK /\ Recorded(c)
    BY DEF BootstrapInvariant
  <1>2. CASE Begin(c)
    <2>1. /\ mem'[c] = cache[c] /\ base'[c] = cache[c] /\ pc'[c] \in {"observe", "creating"}
          /\ UNCHANGED <<api, cache, obs>> /\ pc[c] = "idle"
      BY <1>1, <1>2 DEF Begin, Goto, TypeOK
    <2> QED
      BY <2>1 DEF Probed, Earned, ReadyWasProbed
  <1> QED
    BY <1>1, <1>2, FinalizerProbed, SetPendingProbed, RecordProbed, PublishProbed, StatusProbed,
       UnfinalizeProbed, ObserveProbed, CallProbed
    DEF Reconcile, ReconcileStep

\* A step that leaves the object of d, its copies and its worker alone.
LEMMA UntouchedProbed ==
    ASSUME NEW d \in CRs, Probed(d), Untouched(d), cache'[d] = cache[d]
    PROVE  Probed(d)'
  BY DEF Probed, Earned, ReadyWasProbed, FinalizerFirst, Untouched

\* All workers are threads of one process, and go down together.
OneProcess == \A c, d \in CRs : pc[c] = "down" => pc[d] = "down"

LEMMA StepOneProcess ==
    ASSUME TypeOK, OneProcess, [Next]_vars
    PROVE  OneProcess'
  <1> USE DEF TypeOK, Goto, Fail, Finish, nodeVars
  <1>1. ASSUME NEW c \in CRs, Reconcile(c)
        PROVE  OneProcess'
    <2>1. pc[c] # "down" /\ pc'[c] # "down"
      <3>1. CASE ReconcileStep(c)
        BY <3>1 DEF ReconcileStep, Begin, PublishObserved, AddFinalizer, SetPending,
           RecordSucceeded, RecordFailed, PublishCreated, PublishUpdated, Unfinalize,
           WriteStatus, LoseStatus
      <3> QED
        BY <1>1, <3>1 DEF Reconcile, ConnectFails, Observe, ObserveReturns, Create, VerifyCreated,
           VerifyExists, CreateReturns, Update, UpdateReturns, Delete, DeleteReturns
    <2>2. \A d \in CRs \ {c} : pc'[d] = pc[d]
      BY <1>1, OthersUntouched DEF Untouched
    <2> QED
      BY <2>1, <2>2 DEF OneProcess
  <1>2. CASE EnvironmentStep
    BY <1>2 DEF EnvironmentStep, CacheSync, ConnSync, RequestDelete, Crash, Start, OneProcess
  <1>3. CASE (\E n \in Nodes : EtcdStep(n)) \/ Tick \/ UNCHANGED vars
    BY <1>3 DEF EtcdStep, Tick, vars, OneProcess
  <1> QED
    BY <1>1, <1>2, <1>3 DEF Next

LEMMA EnvironmentProbed ==
    ASSUME TypeOK, OneProcess, NEW d \in CRs, Probed(d), EnvironmentStep
    PROVE  Probed(d)'
  <1>1. CASE \E c \in CRs : CacheSync(c) \/ ConnSync(c)
    <2>1. UNCHANGED <<api, pc, mem, base, obs>> /\ cache'[d] \in {cache[d], api[d]}
      BY <1>1 DEF CacheSync, ConnSync, TypeOK
    <2> QED
      BY <2>1 DEF Probed, Earned, ReadyWasProbed, FinalizerFirst
  <1>2. CASE \E c \in CRs : RequestDelete(c)
    <2>1. PICK c \in CRs : RequestDelete(c)
      BY <1>2
    <2>2. /\ UNCHANGED <<cache, pc, mem, base, obs>>
          /\ api'[d] = api[d] \/ api'[d].life # "live"
          /\ api'[d].ready = api[d].ready /\ api'[d].status = api[d].status
          /\ api'[d].succeeded = api[d].succeeded /\ api'[d].finalizer = api[d].finalizer
      <3>1. api' = [api EXCEPT ![c] = [api[c] EXCEPT !.life = IF api[c].finalizer THEN "deleting" ELSE "gone"]]
        BY <2>1 DEF RequestDelete
      <3> QED
        BY <2>1, <3>1 DEF RequestDelete, TypeOK, Object
    <2>3. Earned(api[d])'
      BY <2>2, SameEarned DEF Probed, Earned, KnownBootstrapped, HasSuccessfulExternalCreate
    <2> QED
      BY <2>2, <2>3 DEF Probed, Earned, ReadyWasProbed, FinalizerFirst
  <1>3. CASE Crash
    <2>1. /\ mem'[d] = NewObject /\ base'[d] = NewObject /\ cache'[d] = NewObject
          /\ obs'[d] = NoObs /\ pc'[d] = "down" /\ api' = api
      BY <1>3 DEF Crash
    <2> QED
      BY <2>1, NewObjectEarned DEF Probed, Earned, ReadyWasProbed
  <1>4. CASE Start
    <2>1. cache'[d] = api[d] /\ pc'[d] = "idle" /\ UNCHANGED <<api, mem, base, obs>>
      BY <1>4 DEF Start
    <2>2. obs[d] = NoObs
      BY <1>4 DEF Start, Down, OneProcess, Probed, ReadyWasProbed
    <2> QED
      BY <2>1, <2>2 DEF Probed, Earned, ReadyWasProbed
  <1> QED
    BY <1>1, <1>2, <1>3, <1>4 DEF EnvironmentStep

ReadyInvariant ==
    /\ BootstrapInvariant
    /\ OneProcess
    /\ \A c \in CRs : SecretCaughtUp(c) /\ Probed(c)

LEMMA ReadyStep ==
    ASSUME ReadyInvariant, [Next]_vars, "writeError" \notin Env, EmptyIsPublished
    PROVE  ReadyInvariant'
  <1>1. TypeOK /\ BootstrapInvariant' /\ OneProcess'
    BY RecordsStep, StepOneProcess DEF ReadyInvariant, BootstrapInvariant
  <1>3. \A d \in CRs : SecretCaughtUp(d)'
    <2>1. CASE WriteRef = {}
      BY <2>1 DEF SecretCaughtUp
    <2>2. CASE "stale" \notin Env
      BY <1>1, <2>2, SecretStep DEF ReadyInvariant
    <2> QED
      BY <2>1, <2>2 DEF EmptyIsPublished
  <1>2. ASSUME NEW d \in CRs
        PROVE  Probed(d)'
    <2>1. Probed(d)
      BY DEF ReadyInvariant
    <2>2. CASE \E c \in CRs : Reconcile(c)
      <3>1. PICK c \in CRs : Reconcile(c)
        BY <2>2
      <3>2. CASE c = d
        BY <2>1, <3>1, <3>2, ReconcileProbed DEF ReadyInvariant
      <3>3. CASE c # d
        BY <1>1, <2>1, <3>1, <3>3, OthersUntouched, ReconcileStatus, UntouchedProbed
      <3> QED
        BY <3>2, <3>3
    <2>3. CASE EnvironmentStep
      BY <1>1, <2>1, <2>3, EnvironmentProbed DEF ReadyInvariant
    <2>4. CASE (\E n \in Nodes : EtcdStep(n)) \/ Tick \/ UNCHANGED vars
      BY <2>1, <2>4, UntouchedProbed DEF EtcdStep, Tick, vars, Untouched
    <2> QED
      BY <2>2, <2>3, <2>4 DEF Next
  <1> QED
    BY <1>1, <1>2, <1>3 DEF ReadyInvariant

LEMMA ReadyInit == Init => ReadyInvariant
  <1> SUFFICES ASSUME Init, NEW c \in CRs
               PROVE  Probed(c) /\ SecretCaughtUp(c) /\ OneProcess
    BY RecordsInit DEF ReadyInvariant, OneProcess
  <1>1. /\ api[c] = NewObject /\ cache[c] = NewObject /\ mem[c] = NewObject /\ base[c] = NewObject
        /\ obs[c] = NoObs /\ \A d \in CRs : pc[d] = "idle"
    BY DEF Init, ReconcilerInit
  <1> QED
    BY <1>1, NewObjectEarned DEF Probed, Earned, ReadyWasProbed, SecretCaughtUp, OneProcess

\* An unhealthy etcd takes Ready away: Ready=True is stored only by a reconcile whose own
\* probe found etcd healthy, or that did not get to the probe; no response decoded over the
\* object in memory brings it back.  Both conditions are needed: when the finalizer update
\* ("writeError") or the publication before it fails, the first Ready is stored before the
\* finalizer, and the response to the next finalizer update may bring it back.
THEOREM ReadyIsProbed ==
    ASSUME "writeError" \notin Env, EmptyIsPublished
    PROVE  Spec => ReadyFollowsProbe
  <1>1. ReadyInvariant /\ [Next]_vars => ReadyInvariant'
    BY ReadyStep
  <1>2. ReadyInvariant /\ [Next]_vars
            => [\A c \in CRs :
                  WriteStatus(c) /\ api'[c].ready = "true" =>
                      obs[c].upToDate \/ (obs[c] = NoObs /\ api[c].ready = "true")]_vars
    <2> SUFFICES ASSUME ReadyInvariant, NEW c \in CRs, WriteStatus(c), api'[c].ready = "true"
                 PROVE  obs[c].upToDate \/ (obs[c] = NoObs /\ api[c].ready = "true")
      OBVIOUS
    <2>1. pc[c] = "status" /\ mem[c].ready = "true" /\ base[c] = api[c]
      BY DEF WriteStatus, ReadyInvariant, BootstrapInvariant, TypeOK, Object
    <2> QED
      BY <2>1 DEF ReadyInvariant, Probed, ReadyWasProbed
  <1> QED
    BY <1>1, <1>2, ReadyInit, PTL DEF Spec, ReadyFollowsProbe

----------------------------------------------------------------------------
(* The simulation *)

Log == [c \in CRs |-> api[c].latest]
Logged == {c \in CRs : api[c].succeeded}
Up == {n \in Nodes : etcd[n] \in {"healthy", "down"}}

\* Steps that leave the records, the answers and the nodes at work alone.
Hidden ==
    /\ \A c \in CRs : /\ api'[c].latest = api[c].latest
                      /\ api'[c].succeeded = api[c].succeeded
    /\ acknowledged' = acknowledged
    /\ Up' = Up

LEMMA HiddenStutters == ASSUME Hidden PROVE UNCHANGED Promise!vars
  <1>1. Log' = Log /\ Logged' = Logged
    BY DEF Hidden, Log, Logged
  <1> QED
    BY <1>1 DEF Hidden, Promise!vars, Log, Logged, Up

\* What a write of one resource's annotations is to the log.
LEMMA LogWritten ==
    ASSUME NEW c \in CRs, NEW entry, api'[c].latest = entry,
           \A d \in CRs \ {c} : /\ api'[d].latest = api[d].latest
                                /\ api'[d].succeeded = api[d].succeeded
    PROVE  /\ Log' = [Log EXCEPT ![c] = entry]
           /\ (api'[c].succeeded <=> api[c].succeeded) => Logged' = Logged
           /\ api'[c].succeeded => Logged' = Logged \cup {c}
  BY DEF Log, Logged

LEMMA ReconcileStepSimulated ==
    ASSUME BootstrapInvariant, AllGrounds, NEW c \in CRs, ReconcileStep(c), UNCHANGED nodeVars
    PROVE  [Promise!Next]_(Promise!vars)
  <1> USE DEF TypeOK, Goto, Fail, Finish
  <1>1. /\ TypeOK /\ Recorded(c) /\ Grounds(c)
        /\ mem[c] \in Object /\ base[c] \in Object /\ api[c] \in Object
    BY DEF BootstrapInvariant, AllGrounds
  <1>2. acknowledged' = acknowledged /\ Up' = Up
    BY DEF nodeVars, Up
  <1>3. CASE \/ Begin(c) \/ PublishObserved(c) \/ PublishCreated(c) \/ PublishUpdated(c)
             \/ LoseStatus(c)
    <2>1. Hidden
      BY <1>2, <1>3 DEF Hidden, Begin, PublishObserved, PublishCreated, PublishUpdated, LoseStatus
    <2> QED
      BY <2>1, HiddenStutters
  <1>4. CASE Unfinalize(c) \/ WriteStatus(c)
    <2>1. api'[c].latest = api[c].latest /\ api'[c].succeeded = api[c].succeeded
      <3>1. CASE Unfinalize(c)
        BY <1>1, <3>1 DEF Unfinalize, Object
      <3>2. CASE WriteStatus(c)
        BY <1>1, <3>2 DEF WriteStatus, Object
      <3> QED
        BY <1>4, <3>1, <3>2
    <2>2. \A d \in CRs \ {c} : api'[d] = api[d]
      BY <1>1, <1>4 DEF Unfinalize, WriteStatus
    <2>3. Hidden
      BY <1>2, <2>1, <2>2 DEF Hidden
    <2> QED
      BY <2>3, HiddenStutters
  <1>5. CASE AddFinalizer(c)
    <2> DEFINE object == [mem[c] EXCEPT !.finalizer = TRUE]
    <2>1. /\ object \in Object
          /\ object.latest = mem[c].latest /\ object.succeeded = mem[c].succeeded
      BY <1>1, FinalizerUpdate
    <2> HIDE DEF object
    <2>2. CASE UpdateObject(c, object)
      <3>1. Hidden
        BY <1>1, <1>2, <1>5, <2>1, <2>2, UpdateObjectEffect
        DEF Hidden, AddFinalizer, Recorded, AnnotationsAreBase
      <3> QED
        BY <3>1, HiddenStutters
    <2>3. CASE UNCHANGED api
      <3>1. Hidden
        BY <1>2, <2>3 DEF Hidden
      <3> QED
        BY <3>1, HiddenStutters
    <2> QED
      BY <1>5, <2>2, <2>3 DEF AddFinalizer, object
  <1>6. CASE SetPending(c)
    <2> DEFINE object == [mem[c] EXCEPT !.latest = "pending"]
    <2>1. /\ object \in Object
          /\ object.latest = "pending" /\ object.succeeded = mem[c].succeeded
      BY <1>1, LatestUpdate
    <2> HIDE DEF object
    <2>2. CASE UpdateObject(c, object)
      <3>1. /\ base[c] = api[c]
            /\ api'[c].latest = "pending" /\ api'[c].succeeded = mem[c].succeeded
            /\ \A d \in CRs \ {c} : api'[d] = api[d]
        BY <1>1, <2>1, <2>2, UpdateObjectEffect
      <3>2. api[c].latest # "pending" /\ ~api[c].succeeded /\ ~mem[c].succeeded
        BY <1>1, <1>6, <3>1 DEF SetPending, Recorded, ObservedBase, AnnotationsAreBase
      <3>3. Log' = [Log EXCEPT ![c] = "pending"] /\ Logged' = Logged
        BY <3>1, <3>2, LogWritten
      <3>4. Log[c] # "pending" /\ c \notin Logged
        BY <3>2 DEF Log, Logged
      <3>5. Promise!Intend(c)
        BY <1>2, <3>3, <3>4 DEF Promise!Intend, Promise!Write, Log, Logged, Up
      <3> QED
        BY <3>5 DEF Promise!Next
    <2>3. CASE UNCHANGED api
      <3>1. Hidden
        BY <1>2, <2>3 DEF Hidden
      <3> QED
        BY <3>1, HiddenStutters
    <2> QED
      BY <1>6, <2>2, <2>3 DEF SetPending, object
  <1>7. CASE RecordSucceeded(c)
    <2>1. CASE Annotate(c, "succeeded")
      <3>1. /\ api'[c].latest = "succeeded" /\ api'[c].succeeded
            /\ \A d \in CRs \ {c} : api'[d] = api[d]
        BY <1>1, <2>1, AnnotateEffect
      <3>2. Log' = [Log EXCEPT ![c] = "succeeded"] /\ Logged' = Logged \cup {c}
        BY <3>1, LogWritten
      <3>3. /\ Log[c] = "pending"
            /\ c \in acknowledged \/ NodeOf[c] \in Up
        BY <1>1, <1>7, BootstrapAssumption
        DEF RecordSucceeded, Recorded, CreateIsPending, Grounds, TargetUp, Log, Up
      <3>4. Promise!Succeed(c)
        BY <1>2, <3>2, <3>3 DEF Promise!Succeed, Promise!Write, Log, Logged, Up
      <3> QED
        BY <3>4 DEF Promise!Next
    <2>2. CASE UNCHANGED api
      <3>1. Hidden
        BY <1>2, <2>2 DEF Hidden
      <3> QED
        BY <3>1, HiddenStutters
    <2> QED
      BY <1>7, <2>1, <2>2 DEF RecordSucceeded
  <1>8. CASE RecordFailed(c)
    <2>1. CASE Annotate(c, "failed")
      <3>1. /\ api'[c].latest = "failed"
            /\ \A d \in CRs \ {c} : api'[d] = api[d]
        BY <1>1, <2>1, AnnotateEffect
      <3>2. api'[c].succeeded = api[c].succeeded
        <4>1. /\ Annotated(mem[c], "failed").succeeded = mem[c].succeeded
              /\ Annotated(api[c], "failed").succeeded = api[c].succeeded
          BY <1>1 DEF Annotated, Object
        <4>2. CASE UpdateObject(c, Annotated(mem[c], "failed"))
          <5>1. Annotated(mem[c], "failed") \in Object
            BY <1>1, AnnotatedType
          <5>2. base[c] = api[c] /\ api'[c].succeeded = mem[c].succeeded
            BY <1>1, <4>1, <4>2, <5>1, UpdateObjectEffect
          <5> QED
            BY <1>1, <1>8, <5>2 DEF RecordFailed, Recorded, AnnotationsAreBase
        <4>3. CASE ~UpdateObject(c, Annotated(mem[c], "failed"))
          <5>1. api' = [api EXCEPT ![c] = Annotated(api[c], "failed")]
            BY <2>1, <4>3 DEF Annotate
          <5> HIDE DEF Annotated
          <5> QED
            BY <1>1, <4>1, <5>1
        <4> QED
          BY <4>2, <4>3
      <3>3. Log' = [Log EXCEPT ![c] = "failed"] /\ Logged' = Logged
        BY <3>1, <3>2, LogWritten
      <3>4. Log[c] = "pending" /\ c \notin acknowledged
        BY <1>1, <1>8
        DEF RecordFailed, Recorded, CreateIsPending, AcknowledgedIsRecorded, Log
      <3>5. Promise!GiveUp(c)
        BY <1>2, <3>3, <3>4 DEF Promise!GiveUp, Promise!Write, Log, Logged, Up
      <3> QED
        BY <3>5 DEF Promise!Next
    <2>2. CASE UNCHANGED api
      <3>1. Hidden
        BY <1>2, <2>2 DEF Hidden
      <3> QED
        BY <3>1, HiddenStutters
    <2> QED
      BY <1>8, <2>1, <2>2 DEF RecordFailed
  <1> QED
    BY <1>3, <1>4, <1>5, <1>6, <1>7, <1>8 DEF ReconcileStep

LEMMA ReconcileSimulated ==
    ASSUME BootstrapInvariant, AllGrounds, NEW c \in CRs, Reconcile(c)
    PROVE  [Promise!Next]_(Promise!vars)
  <1>1. CASE ReconcileStep(c) /\ UNCHANGED nodeVars
    BY <1>1, ReconcileStepSimulated
  <1>2. CASE Create(c)
    <2>1. Log' = Log /\ Logged' = Logged
      BY <1>2 DEF Create, Log, Logged
    <2>2. Up' = Up
      BY <1>2 DEF Create, BootstrapInvariant, TypeOK, Up
    <2>3. CASE acknowledged' = acknowledged
      BY <2>1, <2>2, <2>3 DEF Promise!vars, Log, Logged, Up
    <2>4. CASE acknowledged' = acknowledged \cup {c}
      <3>1. Log[c] = "pending" /\ c \notin acknowledged
        BY <1>2 DEF Create, BootstrapInvariant, Recorded, CreateIsPending,
                    AcknowledgedIsRecorded, Log
      <3>2. Promise!Answer(c)
        BY <2>1, <2>2, <2>4, <3>1 DEF Promise!Answer, Log, Logged, Up
      <3> QED
        BY <3>2 DEF Promise!Next
    <2> QED
      BY <1>2, <2>3, <2>4 DEF Create
  <1>3. CASE \/ ConnectFails(c) \/ Observe(c) \/ VerifyCreated(c) \/ VerifyExists(c)
             \/ Update(c) \/ Delete(c)
    <2>1. UNCHANGED <<api, acknowledged, etcd>>
      BY <1>3 DEF ConnectFails, Observe, ObserveReturns, VerifyCreated, VerifyExists,
         CreateReturns, Update, UpdateReturns, Delete, DeleteReturns, Fail, nodeVars
    <2> QED
      BY <2>1 DEF Promise!vars
  <1> QED
    BY <1>1, <1>2, <1>3 DEF Reconcile

LEMMA EnvironmentSimulated ==
    ASSUME BootstrapInvariant, EnvironmentStep, UNCHANGED nodeVars
    PROVE  [Promise!Next]_(Promise!vars)
  <1>1. CASE UNCHANGED api
    BY <1>1 DEF Promise!vars, nodeVars
  <1>2. CASE \E c \in CRs : RequestDelete(c)
    <2>1. PICK c \in CRs : RequestDelete(c)
      BY <1>2
    <2>2. api \in [CRs -> Object]
      BY DEF BootstrapInvariant, TypeOK
    <2>3. Hidden
      BY <2>1, <2>2 DEF RequestDelete, Hidden, Object, nodeVars, Up
    <2> QED
      BY <2>3, HiddenStutters
  <1> QED
    BY <1>1, <1>2 DEF EnvironmentStep, CacheSync, ConnSync, Crash, Start

LEMMA EtcdSimulated ==
    ASSUME BootstrapInvariant, NEW n \in Nodes, EtcdStep(n)
    PROVE  [Promise!Next]_(Promise!vars)
  <1>1. etcd \in [Nodes -> Phases] /\ UNCHANGED <<api, acknowledged>>
    BY DEF EtcdStep, BootstrapInvariant, TypeOK
  <1>2. Log' = Log /\ Logged' = Logged
    BY <1>1 DEF Log, Logged
  <1>3. CASE Up' = Up
    BY <1>1, <1>2, <1>3 DEF Promise!vars, Log, Logged, Up
  <1>4. CASE n \notin Up /\ Up' = Up \cup {n}
    <2>1. Promise!ComeUp(n)
      BY <1>1, <1>2, <1>4 DEF Promise!ComeUp, Log, Logged, Up
    <2> QED
      BY <2>1 DEF Promise!Next
  <1>5. Up' = Up \/ (n \notin Up /\ Up' = Up \cup {n})
    BY <1>1 DEF EtcdStep, Up
  <1> QED
    BY <1>3, <1>4, <1>5

LEMMA InitSimulated == Init => Promise!Init
  BY DEF Init, ReconcilerInit, NewObject, Promise!Init

LEMMA StepSimulated ==
    ASSUME BootstrapInvariant, AllGrounds, [Next]_vars
    PROVE  [Promise!Next]_(Promise!vars)
  <1>1. CASE Tick \/ UNCHANGED vars
    BY <1>1 DEF Tick, vars, Promise!vars
  <1> QED
    BY <1>1, ReconcileSimulated, EnvironmentSimulated, EtcdSimulated DEF Next

\* Bootstrap implements OneShot: what the API server and the nodes hold goes from
\* intent over call to outcome as OneShot says, through every crash, stale cache,
\* failed write and lost answer.
THEOREM PromiseIsKept == Spec => KeepsThePromise
  BY InitSimulated, StepSimulated, RecordsAgree, GroundsHold, PTL
  DEF Spec, Promise!Spec, KeepsThePromise
----------------------------------------------------------------------------
(* What the promise is good for *)

Traced ==
    /\ Log \in [CRs -> Promise!Entries]
    /\ acknowledged \subseteq CRs
    /\ Promise!AnsweredIsLogged

LEMMA StepKeepsTheTrace ==
    ASSUME Traced, [Promise!Next]_(Promise!vars)
    PROVE  Traced'
  <1> USE DEF Traced, Promise!AnsweredIsLogged, Promise!Write, Promise!Entries, Log
  <1>1. ASSUME NEW c \in CRs, Promise!Intend(c) PROVE Traced'
    BY <1>1 DEF Promise!Intend
  <1>2. ASSUME NEW c \in CRs, Promise!Answer(c) PROVE Traced'
    BY <1>2 DEF Promise!Answer
  <1>3. ASSUME NEW c \in CRs, Promise!Succeed(c) PROVE Traced'
    BY <1>3 DEF Promise!Succeed
  <1>4. ASSUME NEW c \in CRs, Promise!GiveUp(c) PROVE Traced'
    BY <1>4 DEF Promise!GiveUp
  <1>5. CASE (\E t \in Nodes : Promise!ComeUp(t)) \/ UNCHANGED Promise!vars
    BY <1>5 DEF Promise!ComeUp, Promise!vars
  <1> QED
    BY <1>1, <1>2, <1>3, <1>4, <1>5 DEF Promise!Next

\* An answer is never lost: the log has the success or still the intent.
THEOREM TraceIsKept == KeepsThePromise => []Traced
  <1>1. Promise!Init => Traced
    BY DEF Promise!Init, Traced, Promise!AnsweredIsLogged, Promise!Entries, Log
  <1>2. Traced /\ [Promise!Next]_(Promise!vars) => Traced'
    BY StepKeepsTheTrace
  <1> QED
    BY <1>1, <1>2, PTL DEF KeepsThePromise, Promise!Spec

\* Whoever keeps the promise of OneShot, be it one provider or several, never means
\* to repeat a call that was answered.
THEOREM NeverRepeated == KeepsThePromise => Promise!NeverAgain
  <1>1. Traced /\ [Promise!Next]_(Promise!vars)
            => [\A c \in acknowledged : Log'[c] = "pending" => Log[c] = "pending"]_(Promise!vars)
    <2> SUFFICES ASSUME Traced, Promise!Next, NEW d \in acknowledged,
                        Log'[d] = "pending", Log[d] # "pending"
                 PROVE  FALSE
      BY DEF Promise!vars
    <2>1. d \in Logged /\ d \in CRs
      BY DEF Traced, Promise!AnsweredIsLogged, Log, Logged
    <2>2. PICK c \in CRs : Promise!Intend(c) \/ Promise!Succeed(c) \/ Promise!GiveUp(c)
      BY DEF Promise!Next, Promise!Answer, Promise!ComeUp, Log
    <2>3. c # d
      BY <2>1, <2>2
      DEF Promise!Intend, Promise!Succeed, Promise!GiveUp, Promise!Write, Traced, Log, Logged
    <2> QED
      BY <2>1, <2>2, <2>3
      DEF Promise!Intend, Promise!Succeed, Promise!GiveUp, Promise!Write, Traced, Log
  <1>2. KeepsThePromise => [][Promise!Next]_(Promise!vars)
    BY PTL DEF KeepsThePromise, Promise!Spec
  <1>3. [][\A c \in acknowledged : Log'[c] = "pending" => Log[c] = "pending"]_(Promise!vars)
            => Promise!NeverAgain
    BY DEF Promise!NeverAgain, Log
  <1> QED
    BY <1>1, <1>2, <1>3, TraceIsKept, PTL
=============================================================================
