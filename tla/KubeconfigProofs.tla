--------------------------- MODULE KubeconfigProofs ---------------------------
(***************************************************************************)
(* Theorems about Kubeconfig, for every set of resources, with and without *)
(* a connection Secret, every set of kubeconfigs a node may issue and      *)
(* every set Env of faults (KubeconfigIsKept: without "stale").            *)
(***************************************************************************)
EXTENDS Kubeconfig, TLAPS

----------------------------------------------------------------------------
(* The type invariant *)

Details == {ConnectionDetails(config) : config \in Configs \cup {NoConfig}}

Obs == [exists : BOOLEAN, upToDate : BOOLEAN, details : Details]

Steps == {"idle", "observe", "publish", "finalizer", "pending", "create", "created", "failed",
          "publishCreated", "delete", "unfinalize", "status", "creating", "down"}

\* What Observe found is up to date, whatever it holds: Update is never called.
UpToDateOnceThere(c) == pc[c] \in {"publish", "finalizer"} => (obs[c].exists <=> obs[c].upToDate)

TypeInvariant == TypeOK /\ \A c \in CRs : UpToDateOnceThere(c)

LEMMA InitialValues ==
    /\ NewObject \in Object
    /\ NoObs \in Obs /\ ~NoObs.exists /\ ~NoObs.upToDate /\ NoObs.details = NoDetails
    /\ Labels \ {"update", "publishUpdated"} = Steps
  <1>1. NewObject \in Object
    BY DEF NewObject, InitStatus, Object
  <1>2. NoObs \in Obs /\ ~NoObs.exists /\ ~NoObs.upToDate /\ NoObs.details = NoDetails
    BY DEF NoObs, NoDetails, Details, Obs
  <1>3. Labels \ {"update", "publishUpdated"} = Steps
    BY DEF Labels, Steps
  <1> QED
    BY <1>1, <1>2, <1>3

\* The details of a kubeconfig are a Secret, with that kubeconfig in it.
LEMMA DetailsAreSecret ==
    /\ Details \subseteq Secret /\ NoSecret \notin Details
    /\ \A config : ConnectionDetails(config).kubeconfig = config
    /\ NoDetails.kubeconfig = NoConfig
  BY KubeconfigAssumption DEF Details, ConnectionDetails, Secret, NoDetails

LEMMA Types ==
    ASSUME TypeOK
    PROVE  /\ api \in [CRs -> Object] /\ cache \in [CRs -> Object]
           /\ mem \in [CRs -> Object] /\ base \in [CRs -> Object]
           /\ obs \in [CRs -> Obs]
           /\ conn \in [CRs -> Secret \cup {NoSecret}]
           /\ connCache \in [CRs -> Secret \cup {NoSecret}]
           /\ pc \in [CRs -> Steps]
  BY InitialValues DEF TypeOK, Obs, Details

\* The same in the next state, to establish TypeOK from.
NextTypes ==
    /\ api' \in [CRs -> Object] /\ cache' \in [CRs -> Object]
    /\ mem' \in [CRs -> Object] /\ base' \in [CRs -> Object]
    /\ obs' \in [CRs -> Obs]
    /\ conn' \in [CRs -> Secret \cup {NoSecret}]
    /\ connCache' \in [CRs -> Secret \cup {NoSecret}]
    /\ pc' \in [CRs -> Steps]

LEMMA NextTypesSuffice == ASSUME NextTypes PROVE TypeOK'
  BY InitialValues DEF NextTypes, TypeOK, Obs, Details

LEMMA ObjectFields ==
    ASSUME NEW o \in Object
    PROVE  /\ o.life \in {"live", "deleting", "gone"}
           /\ o.ready \in {"none", "true", "false"}
           /\ o.status \in Configs \cup {NoConfig}
  BY DEF Object

\* What the actions change in an object leaves it an object.
LEMMA FieldUpdates ==
    ASSUME NEW o \in Object
    PROVE  /\ \A f \in {"live", "deleting", "gone"} : [o EXCEPT !.life = f] \in Object
           /\ \A b \in BOOLEAN : [o EXCEPT !.finalizer = b] \in Object
           /\ \A l \in {"none", "pending", "succeeded", "failed"} : [o EXCEPT !.latest = l] \in Object
           /\ \A b \in BOOLEAN : [o EXCEPT !.succeeded = b] \in Object
           /\ \A r \in {"none", "true", "false"} : [o EXCEPT !.ready = r] \in Object
           /\ \A s \in Configs \cup {NoConfig} : [o EXCEPT !.status = s] \in Object
  BY DEF Object

LEMMA StatusAndReadyUpdate ==
    ASSUME NEW o \in Object, NEW s \in Configs \cup {NoConfig}, NEW r \in {"none", "true", "false"}
    PROVE  [o EXCEPT !.status = s, !.ready = r] \in Object
  <1> DEFINE new == [o EXCEPT !.status = s]
  <1>1. new \in Object
    BY FieldUpdates
  <1>2. [o EXCEPT !.status = s, !.ready = r] = [new EXCEPT !.ready = r]
    OBVIOUS
  <1> HIDE DEF new
  <1> QED
    BY <1>1, <1>2, FieldUpdates

LEMMA AnnotatedType ==
    ASSUME NEW o \in Object, NEW outcome \in {"succeeded", "failed"}
    PROVE  Annotated(o, outcome) \in Object
  <1> DEFINE b == o.succeeded \/ outcome = "succeeded"
             recorded == [o EXCEPT !.latest = outcome]
  <1>1. b \in BOOLEAN
    OBVIOUS
  <1>2. recorded \in Object /\ recorded.succeeded = o.succeeded
    BY FieldUpdates DEF Object
  <1>3. Annotated(o, outcome) = [recorded EXCEPT !.succeeded = b]
    BY <1>2 DEF Annotated
  <1> HIDE DEF b, recorded
  <1> QED
    BY <1>1, <1>2, <1>3, FieldUpdates

\* Three variables hold objects; every step of a reconcile keeps those of the others.
ObjectsTyped ==
    api' \in [CRs -> Object] /\ base' \in [CRs -> Object] /\ mem' \in [CRs -> Object]

LEMMA UpdateObjectType ==
    ASSUME TypeOK, NEW c \in CRs, NEW object \in Object, UpdateObject(c, object)
    PROVE  ObjectsTyped
  <1>1. api[c].ready \in {"none", "true", "false"} /\ api[c].status \in Configs \cup {NoConfig}
    BY ObjectFields, Types
  <1>2. Stored(c, object) \in Object /\ [object EXCEPT !.ready = api[c].ready] \in Object
    <2> DEFINE status == api[c].status
               ready == api[c].ready
    <2>1. status \in Configs \cup {NoConfig} /\ ready \in {"none", "true", "false"}
      BY <1>1
    <2>2. Stored(c, object) = [object EXCEPT !.status = status, !.ready = ready]
      BY DEF Stored, Object
    <2>3. [object EXCEPT !.ready = api[c].ready] = [object EXCEPT !.ready = ready]
      OBVIOUS
    <2> HIDE DEF status, ready
    <2>4. [object EXCEPT !.status = status, !.ready = ready] \in Object
      BY <2>1, StatusAndReadyUpdate
    <2>5. [object EXCEPT !.ready = ready] \in Object
      BY <2>1, FieldUpdates
    <2> QED
      BY <2>2, <2>3, <2>4, <2>5
  <1>3. Decoded(c, object) \subseteq Object
    BY <1>2 DEF Decoded
  <1> QED
    BY <1>2, <1>3, Types DEF UpdateObject, ObjectsTyped

LEMMA AnnotateType ==
    ASSUME TypeOK, NEW c \in CRs, NEW outcome \in {"succeeded", "failed"}, Annotate(c, outcome)
    PROVE  ObjectsTyped
  <1>1. Annotated(mem[c], outcome) \in Object /\ Annotated(api[c], outcome) \in Object
    BY AnnotatedType, Types
  <1>2. CASE UpdateObject(c, Annotated(mem[c], outcome))
    BY <1>1, <1>2, UpdateObjectType
  <1>3. CASE ~UpdateObject(c, Annotated(mem[c], outcome))
    BY <1>1, <1>3, Types DEF Annotate, ObjectsTyped
  <1> QED
    BY <1>2, <1>3

----------------------------------------------------------------------------
(* The steps of a worker *)

\* What a step of the worker of c leaves alone.
Alone(c) ==
    /\ UNCHANGED <<cache, connCache>>
    /\ \A d \in CRs \ {c} : pc'[d] = pc[d] /\ conn'[d] = conn[d] /\ obs'[d] = obs[d]

\* The control goes on and nothing is published.
Moves(c, from, to) ==
    /\ pc[c] \in from
    /\ \E label \in to : pc' = [pc EXCEPT ![c] = label]
    /\ UNCHANGED <<cache, connCache, conn, obs>>

LEMMA MovesType ==
    ASSUME TypeOK, NEW c \in CRs, NEW from, NEW to \in SUBSET Steps, Moves(c, from, to),
           ObjectsTyped
    PROVE  NextTypes /\ Alone(c) /\ pc'[c] \in to
  <1>1. PICK label \in to : pc' = [pc EXCEPT ![c] = label]
    BY DEF Moves
  <1> QED
    BY <1>1, Types DEF Moves, ObjectsTyped, NextTypes, Alone

LEMMA BeginShape ==
    ASSUME TypeInvariant, NEW c \in CRs, Begin(c)
    PROVE  /\ NextTypes /\ Alone(c) /\ UNCHANGED <<conn, obs>>
           /\ pc[c] = "idle" /\ pc'[c] \in {"observe", "creating"}
           /\ "stale" \in Env \/ connCache[c] = conn[c]
  <1>1. TypeOK /\ ObjectsTyped
    BY Types DEF TypeInvariant, Begin, ObjectsTyped
  <1>2. Moves(c, {"idle"}, {"observe", "creating"}) /\ {"observe", "creating"} \in SUBSET Steps
    BY DEF Begin, Goto, Moves, Steps
  <1> QED
    BY <1>1, <1>2, MovesType DEF Begin

\* From Observe to Create: the finalizer, the pending annotation and the outcome.
LEMMA WriteShape ==
    ASSUME TypeInvariant, NEW c \in CRs,
           AddFinalizer(c) \/ SetPending(c) \/ RecordSucceeded(c) \/ RecordFailed(c)
    PROVE  /\ NextTypes /\ Alone(c) /\ UNCHANGED <<conn, obs>>
           /\ \/ pc[c] = "finalizer" /\ pc'[c] \in {"pending", "status"}
                     /\ (pc'[c] = "pending" => ~obs[c].exists)
              \/ pc[c] = "pending" /\ pc'[c] \in {"create", "creating"}
              \/ pc[c] = "created" /\ pc'[c] \in {"publishCreated", "creating"}
              \/ pc[c] = "failed" /\ pc'[c] = "creating"
  <1>1. TypeOK /\ mem[c] \in Object /\ UpToDateOnceThere(c)
    BY Types DEF TypeInvariant
  <1>2. CASE AddFinalizer(c)
    <2>1. ObjectsTyped
      <3>1. [mem[c] EXCEPT !.finalizer = TRUE] \in Object
        BY <1>1, FieldUpdates
      <3>2. UpdateObject(c, [mem[c] EXCEPT !.finalizer = TRUE]) \/ UNCHANGED <<api, base, mem>>
        BY <1>2 DEF AddFinalizer, Fail
      <3> QED
        BY <1>1, <3>1, <3>2, UpdateObjectType, Types DEF ObjectsTyped
    <2> DEFINE to == IF obs[c].exists THEN {"status"} ELSE {"pending", "status"}
    <2>2. Moves(c, {"finalizer"}, to)
      BY <1>1, <1>2 DEF AddFinalizer, Fail, Goto, Moves, UpToDateOnceThere
    <2>3. to \in SUBSET Steps
      BY DEF Steps
    <2>4. NextTypes /\ Alone(c) /\ pc'[c] \in to
      BY <1>1, <2>1, <2>2, <2>3, MovesType
    <2> QED
      BY <2>2, <2>4 DEF Moves
  <1>3. CASE SetPending(c)
    <2>1. ObjectsTyped
      <3>1. [mem[c] EXCEPT !.latest = "pending"] \in Object
        BY <1>1, FieldUpdates
      <3>2. UpdateObject(c, [mem[c] EXCEPT !.latest = "pending"]) \/ UNCHANGED <<api, base, mem>>
        BY <1>3 DEF SetPending, Fail
      <3> QED
        BY <1>1, <3>1, <3>2, UpdateObjectType, Types DEF ObjectsTyped
    <2>2. Moves(c, {"pending"}, {"create", "creating"}) /\ {"create", "creating"} \in SUBSET Steps
      BY <1>3 DEF SetPending, Fail, Goto, Moves, Steps
    <2> QED
      BY <1>1, <2>1, <2>2, MovesType DEF Moves
  <1>4. CASE RecordSucceeded(c)
    <2>1. ObjectsTyped
      BY <1>1, <1>4, AnnotateType, Types DEF RecordSucceeded, Fail, ObjectsTyped
    <2>2. /\ Moves(c, {"created"}, {"publishCreated", "creating"})
          /\ {"publishCreated", "creating"} \in SUBSET Steps
      BY <1>4 DEF RecordSucceeded, Fail, Goto, Moves, Steps
    <2> QED
      BY <1>1, <2>1, <2>2, MovesType DEF Moves
  <1>5. CASE RecordFailed(c)
    <2>1. ObjectsTyped
      BY <1>1, <1>5, AnnotateType, Types DEF RecordFailed, Fail, ObjectsTyped
    <2>2. Moves(c, {"failed"}, {"creating"}) /\ {"creating"} \in SUBSET Steps
      BY <1>5 DEF RecordFailed, Fail, Goto, Moves, Steps
    <2> QED
      BY <1>1, <2>1, <2>2, MovesType DEF Moves
  <1> QED
    BY <1>2, <1>3, <1>4, <1>5

\* What is published is the details, or what is there already.
LEMMA PublishShape ==
    ASSUME TypeInvariant, NEW c \in CRs, PublishObserved(c) \/ PublishCreated(c)
    PROVE  /\ NextTypes /\ Alone(c) /\ UNCHANGED obs
           /\ \/ pc[c] = "publish" /\ pc'[c] \in {"finalizer", "status"}
              \/ pc[c] = "publishCreated" /\ pc'[c] = "creating"
           /\ \/ conn'[c] = conn[c]
              \/ /\ c \in WriteRef /\ conn'[c] = obs[c].details
                 /\ conn[c] = NoSecret \/ obs[c].details # NoDetails
  <1>1. TypeOK /\ obs[c].details \in Secret
    <2>1. obs[c] \in Obs
      BY Types DEF TypeInvariant
    <2> QED
      BY <2>1, DetailsAreSecret DEF TypeInvariant, Obs
  <1>2. /\ UNCHANGED <<api, cache, connCache, mem, base, obs>>
        /\ \/ pc[c] = "publish" /\ \E l \in {"finalizer", "status"} : pc' = [pc EXCEPT ![c] = l]
           \/ pc[c] = "publishCreated" /\ pc' = [pc EXCEPT ![c] = "creating"]
        /\ Publish(c) \/ conn' = conn
    BY DEF PublishObserved, PublishCreated, Fail, Goto
  <1> DEFINE applied == SecretApplied(c, obs[c].details)
  <1>3. \/ applied = conn[c]
        \/ /\ c \in WriteRef /\ applied = obs[c].details
           /\ conn[c] = NoSecret \/ obs[c].details # NoDetails
    BY DEF SecretApplied
  <1> HIDE DEF applied
  <1>4. conn' = conn \/ conn' = [conn EXCEPT ![c] = applied]
    BY <1>2 DEF Publish, applied
  <1>5. /\ conn' \in [CRs -> Secret \cup {NoSecret}] /\ conn'[c] \in {conn[c], applied}
        /\ \A d \in CRs \ {c} : conn'[d] = conn[d]
    BY <1>1, <1>3, <1>4, Types
  <1>6. /\ pc' \in [CRs -> Steps] /\ \A d \in CRs \ {c} : pc'[d] = pc[d]
        /\ \/ pc[c] = "publish" /\ pc'[c] \in {"finalizer", "status"}
           \/ pc[c] = "publishCreated" /\ pc'[c] = "creating"
    BY <1>1, <1>2, Types DEF Steps
  <1> QED
    BY <1>1, <1>2, <1>3, <1>5, <1>6, Types DEF NextTypes, Alone

\* The ends of a reconcile.
LEMMA EndShape ==
    ASSUME TypeInvariant, NEW c \in CRs, WriteStatus(c) \/ LoseStatus(c) \/ Unfinalize(c)
    PROVE  /\ NextTypes /\ Alone(c) /\ pc'[c] \in {"idle", "status"}
           /\ \/ UNCHANGED conn
              \/ api'[c].life = "gone" /\ conn'[c] = NoSecret
  <1>1. TypeOK /\ api[c] \in Object /\ mem[c] \in Object
    BY Types DEF TypeInvariant
  <1>2. CASE WriteStatus(c) \/ LoseStatus(c)
    <2>1. api' \in [CRs -> Object]
      <3> DEFINE ready == IF pc[c] = "creating" THEN "false" ELSE mem[c].ready
                 object == [api[c] EXCEPT !.status = mem[c].status, !.ready = ready]
      <3>1. ready \in {"none", "true", "false"} /\ mem[c].status \in Configs \cup {NoConfig}
        BY <1>1, ObjectFields
      <3>2. api' = api \/ api' = [api EXCEPT ![c] = object]
        BY <1>2 DEF WriteStatus, LoseStatus
      <3> HIDE DEF ready
      <3>3. object \in Object
        BY <1>1, <3>1, StatusAndReadyUpdate
      <3> HIDE DEF object
      <3> QED
        BY <1>1, <3>2, <3>3, Types
    <2>2. Finish(c) /\ UNCHANGED <<cache, conn, connCache>>
      BY <1>2 DEF WriteStatus, LoseStatus
    <2> QED
      BY <1>1, <2>1, <2>2, Types, InitialValues DEF Finish, Goto, NextTypes, Alone, Steps
  <1>3. CASE Unfinalize(c) /\ Finish(c)
    <2> DEFINE gone == [api[c] EXCEPT !.life = "gone", !.finalizer = FALSE]
    <2>1. \/ api' = [api EXCEPT ![c] = gone] /\ conn' = [conn EXCEPT ![c] = NoSecret]
          \/ UNCHANGED <<api, conn>>
      BY <1>3 DEF Unfinalize, Fail
    <2>2. gone \in Object /\ gone.life = "gone"
      <3> DEFINE freed == [api[c] EXCEPT !.finalizer = FALSE]
      <3>1. freed \in Object
        BY <1>1, FieldUpdates
      <3>2. gone = [freed EXCEPT !.life = "gone"]
        BY DEF Object
      <3>3. gone.life = "gone"
        BY <3>1, <3>2 DEF Object
      <3> HIDE DEF freed, gone
      <3>4. [freed EXCEPT !.life = "gone"] \in Object
        BY <3>1, FieldUpdates
      <3> QED
        BY <3>2, <3>3, <3>4
    <2> HIDE DEF gone
    <2>3. UNCHANGED <<cache, connCache>>
      BY <1>3 DEF Unfinalize
    <2> QED
      BY <1>1, <1>3, <2>1, <2>2, <2>3, Types, InitialValues
      DEF Finish, Goto, NextTypes, Alone, Steps
  <1>4. CASE Unfinalize(c) /\ Fail(c, "status")
    BY <1>1, <1>4, Types DEF Unfinalize, Fail, Goto, NextTypes, Alone, Steps
  <1> QED
    BY <1>2, <1>3, <1>4 DEF Unfinalize

\* What exists is the kubeconfig of the cached Secret; nothing else does.
LEMMA ObserveShape ==
    ASSUME TypeInvariant, NEW c \in CRs, Observe(c)
    PROVE  /\ NextTypes /\ Alone(c) /\ UNCHANGED conn
           /\ pc[c] = "observe"
           /\ \/ /\ ~HasKubeconfig(c) /\ pc'[c] \in {"publish", "unfinalize"}
                 /\ obs'[c] = NoObs
              \/ /\ HasKubeconfig(c) /\ pc'[c] \in {"publish", "delete"}
                 /\ connCache[c].kubeconfig \in Configs
                 /\ obs'[c].exists /\ obs'[c].upToDate
                 /\ obs'[c].details = ConnectionDetails(connCache[c].kubeconfig)
              \/ pc'[c] = "status" /\ UNCHANGED obs
  <1>1. TypeOK /\ mem[c] \in Object
    BY Types DEF TypeInvariant
  <1>2. pc[c] = "observe"
    BY DEF Observe
  <1>3. CASE ~HasKubeconfig(c) /\ ObserveReturns(c, mem[c], NoObs)
    <2>1. ~NoObs.exists /\ NoObs \in Obs
      BY InitialValues
    <2>2. /\ mem' = [mem EXCEPT ![c] = mem[c]] /\ obs' = [obs EXCEPT ![c] = NoObs]
          /\ \E label \in {"publish", "unfinalize"} : pc' = [pc EXCEPT ![c] = label]
          /\ UNCHANGED <<api, cache, conn, connCache, base>>
      BY <1>3, <2>1 DEF ObserveReturns, Goto
    <2> QED
      BY <1>1, <1>2, <1>3, <2>1, <2>2, Types DEF NextTypes, Alone, Steps
  <1>4. ASSUME HasKubeconfig(c), NEW config \in ParseKubeconfig(connCache[c].kubeconfig),
               ObserveReturns(c, [mem[c] EXCEPT !.status = config, !.ready = "true"],
                              Observation(Derived(c)))
        PROVE  /\ NextTypes /\ Alone(c) /\ UNCHANGED conn
               /\ pc'[c] \in {"publish", "delete"}
               /\ connCache[c].kubeconfig \in Configs
               /\ obs'[c].exists /\ obs'[c].upToDate
               /\ obs'[c].details = ConnectionDetails(connCache[c].kubeconfig)
    <2>1. config = connCache[c].kubeconfig /\ config \in Configs
      BY <1>4 DEF ParseKubeconfig
    <2> DEFINE object == [mem[c] EXCEPT !.status = config, !.ready = "true"]
               observation == Observation(Derived(c))
    <2>2. object \in Object
      BY <1>1, <2>1, StatusAndReadyUpdate
    <2>3. /\ observation \in Obs /\ observation.exists /\ observation.upToDate
          /\ observation.details = ConnectionDetails(config)
      BY <2>1 DEF Observation, Derived, Obs, Details
    <2> HIDE DEF object, observation
    <2>4. /\ mem' = [mem EXCEPT ![c] = object] /\ obs' = [obs EXCEPT ![c] = observation]
          /\ \E label \in {"publish", "delete"} : pc' = [pc EXCEPT ![c] = label]
          /\ UNCHANGED <<api, cache, conn, connCache, base>>
      BY <1>4, <2>3 DEF ObserveReturns, Goto, object, observation
    <2>5. obs'[c] = observation
      BY <1>1, <2>4, Types
    <2> QED
      BY <1>1, <2>1, <2>2, <2>3, <2>4, <2>5, Types DEF NextTypes, Alone, Steps
  <1>5. CASE Fail(c, "status") /\ UNCHANGED <<cache, connCache>>
    BY <1>1, <1>2, <1>5, Types DEF Fail, Goto, NextTypes, Alone, Steps
  <1> QED
    BY <1>2, <1>3, <1>4, <1>5 DEF Observe

LEMMA CallShape ==
    ASSUME TypeInvariant, NEW c \in CRs, ConnectFails(c) \/ Create(c) \/ Delete(c)
    PROVE  /\ NextTypes /\ Alone(c) /\ UNCHANGED conn
           /\ \/ pc[c] = "create" /\ pc'[c] \in {"created", "failed"}
              \/ pc[c] = "observe" /\ pc'[c] = "status"
              \/ pc[c] = "delete" /\ pc'[c] = "creating"
  <1>1. TypeOK /\ mem[c] \in Object /\ obs[c] \in Obs
    BY Types DEF TypeInvariant
  <1>2. ASSUME NEW data, NEW config \in ParseKubeconfig(data), pc[c] = "create",
               CreateReturns(c, mem[c], ConnectionDetails(config))
        PROVE  NextTypes /\ Alone(c) /\ UNCHANGED conn /\ pc'[c] = "created"
    <2> DEFINE found == [obs[c] EXCEPT !.details = ConnectionDetails(config)]
    <2>1. found \in Obs
      <3>1. ConnectionDetails(config) \in Details
        BY DEF ParseKubeconfig, Details
      <3> QED
        BY <1>1, <3>1 DEF Obs
    <2>2. /\ mem' = [mem EXCEPT ![c] = mem[c]] /\ obs' = [obs EXCEPT ![c] = found]
          /\ pc' = [pc EXCEPT ![c] = "created"]
          /\ UNCHANGED <<api, cache, conn, connCache, base>>
      BY <1>2 DEF CreateReturns, Goto
    <2> HIDE DEF found
    <2> QED
      BY <1>1, <2>1, <2>2, Types DEF NextTypes, Alone, Steps
  <1>3. ASSUME NEW label \in {"status", "creating", "failed"}, Goto(c, label),
               UNCHANGED <<api, cache, conn, connCache, mem, base, obs>>
        PROVE  NextTypes /\ Alone(c) /\ UNCHANGED conn /\ pc'[c] = label
    BY <1>1, <1>3, Types DEF Goto, NextTypes, Alone, Steps
  <1> QED
    BY <1>2, <1>3 DEF ConnectFails, Create, Delete, DeleteReturns, Fail

\* The steps the worker of a Kubeconfig gets to: never Update.
LEMMA ReconcileSteps ==
    ASSUME TypeInvariant, NEW c \in CRs, Reconcile(c)
    PROVE  \/ Begin(c) \/ Observe(c)
           \/ PublishObserved(c) \/ PublishCreated(c)
           \/ AddFinalizer(c) \/ SetPending(c) \/ RecordSucceeded(c) \/ RecordFailed(c)
           \/ WriteStatus(c) \/ LoseStatus(c) \/ Unfinalize(c)
           \/ ConnectFails(c) \/ Create(c) \/ Delete(c)
  <1>1. pc[c] \in Steps
    BY Types DEF TypeInvariant
  <1> QED
    BY <1>1 DEF Steps, Reconcile, ReconcileStep, PublishUpdated

LEMMA ReconcileType ==
    ASSUME TypeInvariant, NEW c \in CRs, Reconcile(c)
    PROVE  TypeInvariant' /\ Alone(c)
  <1>1. NextTypes /\ Alone(c)
    BY ReconcileSteps, BeginShape, ObserveShape, PublishShape, WriteShape, EndShape, CallShape
  <1>2. UpToDateOnceThere(c)'
    <2>1. UpToDateOnceThere(c)
      BY DEF TypeInvariant
    <2>2. CASE Observe(c)
      BY <2>2, ObserveShape, InitialValues DEF UpToDateOnceThere
    <2>3. CASE PublishObserved(c) \/ PublishCreated(c)
      BY <2>1, <2>3, PublishShape DEF UpToDateOnceThere
    <2>4. CASE ~(Observe(c) \/ PublishObserved(c) \/ PublishCreated(c))
      <3>1. pc'[c] \notin {"publish", "finalizer"}
        BY <2>4, ReconcileSteps, BeginShape, WriteShape, EndShape, CallShape
      <3> QED
        BY <3>1 DEF UpToDateOnceThere
    <2> QED
      BY <2>2, <2>3, <2>4
  <1>3. \A d \in CRs \ {c} : UpToDateOnceThere(d)'
    BY <1>1 DEF Alone, TypeInvariant, UpToDateOnceThere
  <1> QED
    BY <1>1, <1>2, <1>3, NextTypesSuffice DEF TypeInvariant

----------------------------------------------------------------------------
(* The environment *)

\* Whoever edits or deletes a Secret, no working kubeconfig comes of it that was not there.
Damages(c) ==
    \/ conn'[c] = conn[c] \/ conn'[c] = NoSecret
    \/ /\ conn[c] # NoSecret
       /\ conn'[c].kubeconfig \in {conn[c].kubeconfig, Garbage, NoConfig}

LEMMA EnvironmentShape ==
    ASSUME TypeInvariant, EnvironmentStep \/ \E c \in CRs : EditSecret(c)
    PROVE  /\ NextTypes
           /\ \A d \in CRs :
                 /\ Damages(d)
                 /\ \/ pc'[d] = pc[d] /\ obs'[d] = obs[d]
                       /\ (connCache'[d] = connCache[d] \/ (connCache' [d] = conn[d] /\ conn'[d] = conn[d]))
                    \/ pc'[d] \in {"idle", "down"}
  <1>1. TypeOK
    BY DEF TypeInvariant
  <1>2. CASE \E c \in CRs : CacheSync(c) \/ ConnSync(c)
    BY <1>1, <1>2, Types DEF CacheSync, ConnSync, NextTypes, Damages
  <1>3. CASE \E c \in CRs : RequestDelete(c)
    <2>1. PICK c \in CRs : RequestDelete(c)
      BY <1>3
    <2> DEFINE life == IF api[c].finalizer THEN "deleting" ELSE "gone"
               object == [api[c] EXCEPT !.life = life]
    <2>2. object \in Object
      BY <1>1, Types, FieldUpdates
    <2>3. /\ api' = [api EXCEPT ![c] = object]
          /\ conn' = conn \/ conn' = [conn EXCEPT ![c] = NoSecret]
          /\ UNCHANGED <<cache, connCache, pc, mem, base, obs>>
      BY <2>1 DEF RequestDelete
    <2> HIDE DEF object
    <2> QED
      BY <1>1, <2>2, <2>3, Types DEF NextTypes, Damages
  <1>4. CASE Crash
    BY <1>1, <1>4, Types, InitialValues DEF Crash, NextTypes, Damages, Steps
  <1>5. CASE Start
    BY <1>1, <1>5, Types DEF Start, NextTypes, Damages, Steps
  <1>6. CASE \E c \in CRs : EditSecret(c)
    <2>1. PICK c \in CRs : EditSecret(c)
      BY <1>6
    <2>2. PICK secret \in Damaged(conn[c]) : conn' = [conn EXCEPT ![c] = secret]
      BY <2>1 DEF EditSecret
    <2>3. conn[c] # NoSecret /\ conn[c] \in Secret
      BY <1>1, <2>1, Types DEF EditSecret
    <2>4. /\ secret \in Secret \cup {NoSecret}
          /\ secret = NoSecret \/ secret.kubeconfig \in {conn[c].kubeconfig, Garbage, NoConfig}
      BY <2>2, <2>3 DEF Damaged, Secret
    <2>5. UNCHANGED <<api, cache, connCache, pc, mem, base, obs>>
      BY <2>1 DEF EditSecret
    <2> QED
      BY <1>1, <2>2, <2>3, <2>4, <2>5, Types DEF NextTypes, Damages
  <1> QED
    BY <1>2, <1>3, <1>4, <1>5, <1>6 DEF EnvironmentStep

LEMMA TypeStep ==
    ASSUME TypeInvariant, [Next]_vars
    PROVE  TypeInvariant'
  <1>1. CASE \E c \in CRs : Reconcile(c)
    BY <1>1, ReconcileType
  <1>2. CASE EnvironmentStep \/ \E c \in CRs : EditSecret(c)
    BY <1>2, EnvironmentShape, NextTypesSuffice DEF TypeInvariant, UpToDateOnceThere
  <1>3. CASE UNCHANGED vars
    BY <1>3 DEF vars, reconcilerVars, TypeInvariant, TypeOK, UpToDateOnceThere
  <1> QED
    BY <1>1, <1>2, <1>3 DEF Next

LEMMA TypeInit == Init => TypeInvariant
  <1> SUFFICES ASSUME Init PROVE TypeInvariant
    OBVIOUS
  <1>1. TypeOK
    BY InitialValues DEF Init, ReconcilerInit, TypeOK, Obs, Details, Steps
  <1> QED
    BY <1>1 DEF Init, ReconcilerInit, TypeInvariant, UpToDateOnceThere

\* Every variable keeps its type; in particular nothing that does not parse gets into the
\* status or the details, and Update, which would retrieve another kubeconfig, is never
\* called.
THEOREM TypeCorrect == Spec => []TypeOK
  <1>1. TypeInvariant => TypeOK
    BY DEF TypeInvariant
  <1> QED
    BY <1>1, TypeInit, TypeStep, PTL DEF Spec

----------------------------------------------------------------------------
(* KubeconfigKept *)

Working(secret) == secret # NoSecret /\ secret.kubeconfig \in Configs

\* Should secret take the place of a working kubeconfig of c, it has the same one.
Keeps(c, secret) ==
    Working(conn[c]) => secret # NoSecret /\ secret.kubeconfig = conn[c].kubeconfig

\* Until it publishes, what a reconcile read, and what it concluded from it, has the
\* kubeconfig that is published; when it concluded there is none, there is none.
Kept(c) ==
    /\ c \notin WriteRef => conn[c] = NoSecret
    /\ pc[c] = "observe" => Keeps(c, connCache[c])
    /\ pc[c] = "publish" /\ obs[c].exists => Keeps(c, obs[c].details)
    /\ pc[c] = "publish" /\ ~obs[c].exists => obs[c].details = NoDetails
    /\ pc[c] \in {"publish", "finalizer"} /\ ~obs[c].exists => ~Working(conn[c])
    /\ pc[c] \in {"pending", "create", "created", "failed", "publishCreated"} => ~Working(conn[c])

KeptInvariant == TypeInvariant /\ \A c \in CRs : Kept(c)

LEMMA ReconcileKeeps ==
    ASSUME TypeInvariant, NEW c \in CRs, Kept(c), Reconcile(c), "stale" \notin Env
    PROVE  /\ Kept(c)'
           /\ Working(conn[c]) => \/ api'[c].life = "gone"
                                  \/ conn'[c] # NoSecret /\ conn'[c].kubeconfig = conn[c].kubeconfig
  <1>1. connCache'[c] = connCache[c]
    BY ReconcileType DEF Alone
  <1>2. CASE Begin(c)
    BY <1>1, <1>2, BeginShape DEF Kept, Keeps, Working
  <1>3. CASE Observe(c)
    <2>1. Keeps(c, connCache[c]) /\ (c \notin WriteRef => conn[c] = NoSecret)
      BY <1>3, ObserveShape DEF Kept
    <2>2. conn' = conn
      BY <1>3, ObserveShape
    <2>3. ~HasKubeconfig(c) => ~Working(conn[c])
      BY <2>1, KubeconfigAssumption DEF HasKubeconfig, Keeps, Working
    <2>4. Keeps(c, ConnectionDetails(connCache[c].kubeconfig)) \/ connCache[c].kubeconfig \notin Configs
      <3>1. connCache[c].kubeconfig \in Configs =>
                /\ ConnectionDetails(connCache[c].kubeconfig) # NoSecret
                /\ ConnectionDetails(connCache[c].kubeconfig).kubeconfig = connCache[c].kubeconfig
        BY DetailsAreSecret DEF Details
      <3> QED
        BY <2>1, <3>1 DEF Keeps
    <2>5. Kept(c)'
      BY <1>3, <2>1, <2>2, <2>3, <2>4, ObserveShape, InitialValues DEF Kept, Keeps, Working
    <2> QED
      BY <2>2, <2>5 DEF Working
  <1>4. CASE PublishObserved(c) \/ PublishCreated(c)
    <2>1. /\ UNCHANGED obs
          /\ \/ pc[c] = "publish" /\ pc'[c] \in {"finalizer", "status"}
             \/ pc[c] = "publishCreated" /\ pc'[c] = "creating"
          /\ \/ conn'[c] = conn[c]
             \/ /\ c \in WriteRef /\ conn'[c] = obs[c].details
                /\ conn[c] = NoSecret \/ obs[c].details # NoDetails
      BY <1>4, PublishShape
    <2>2. NoDetails.kubeconfig \notin Configs
      BY DetailsAreSecret, KubeconfigAssumption
    <2> QED
      BY <2>1, <2>2 DEF Kept, Keeps, Working
  <1>5. CASE AddFinalizer(c) \/ SetPending(c) \/ RecordSucceeded(c) \/ RecordFailed(c)
    BY <1>5, WriteShape DEF Kept, Keeps, Working
  <1>6. CASE WriteStatus(c) \/ LoseStatus(c) \/ Unfinalize(c)
    BY <1>6, EndShape DEF Kept, Keeps, Working
  <1>7. CASE ConnectFails(c) \/ Create(c) \/ Delete(c)
    BY <1>7, CallShape DEF Kept, Keeps, Working
  <1> QED
    BY <1>2, <1>3, <1>4, <1>5, <1>6, <1>7, ReconcileSteps

LEMMA OthersKept ==
    ASSUME NEW d \in CRs, Kept(d),
           UNCHANGED <<pc[d], conn[d], connCache[d], obs[d]>>
    PROVE  Kept(d)'
  BY DEF Kept, Keeps, Working

LEMMA EnvironmentKeeps ==
    ASSUME TypeInvariant, NEW d \in CRs, Kept(d), EnvironmentStep \/ \E c \in CRs : EditSecret(c)
    PROVE  Kept(d)'
  <1>1. /\ Damages(d)
        /\ \/ /\ pc'[d] = pc[d] /\ obs'[d] = obs[d]
              /\ connCache'[d] = connCache[d] \/ (connCache'[d] = conn[d] /\ conn'[d] = conn[d])
           \/ pc'[d] \in {"idle", "down"}
    BY EnvironmentShape
  <1>2. d \notin WriteRef => conn'[d] = NoSecret
    BY <1>1 DEF Kept, Damages
  <1>3. Working(conn'[d]) => Working(conn[d]) /\ conn'[d].kubeconfig = conn[d].kubeconfig
    BY <1>1, KubeconfigAssumption DEF Damages, Working
  <1> QED
    BY <1>1, <1>2, <1>3 DEF Kept, Keeps, Working

LEMMA KeptStep ==
    ASSUME KeptInvariant, [Next]_vars, "stale" \notin Env
    PROVE  KeptInvariant'
  <1>1. TypeInvariant'
    BY TypeStep DEF KeptInvariant
  <1>2. ASSUME NEW d \in CRs
        PROVE  Kept(d)'
    <2>1. TypeInvariant /\ Kept(d)
      BY DEF KeptInvariant
    <2>2. CASE \E c \in CRs : Reconcile(c)
      <3>1. PICK c \in CRs : Reconcile(c)
        BY <2>2
      <3>2. CASE c = d
        BY <2>1, <3>1, <3>2, ReconcileKeeps
      <3>3. CASE c # d
        BY <2>1, <3>1, <3>3, ReconcileType, OthersKept DEF Alone
      <3> QED
        BY <3>2, <3>3
    <2>3. CASE EnvironmentStep \/ \E c \in CRs : EditSecret(c)
      BY <2>1, <2>3, EnvironmentKeeps
    <2>4. CASE UNCHANGED vars
      BY <2>1, <2>4, OthersKept DEF vars, reconcilerVars
    <2> QED
      BY <2>2, <2>3, <2>4 DEF Next
  <1> QED
    BY <1>1, <1>2 DEF KeptInvariant

LEMMA KeptInit == Init => KeptInvariant
  <1> SUFFICES ASSUME Init, NEW c \in CRs PROVE Kept(c)
    BY TypeInit DEF KeptInvariant
  <1> QED
    BY DEF Init, ReconcilerInit, Kept, Keeps, Working

\* Once a Secret has a kubeconfig that works, no reconcile puts another in its place or
\* takes it away, whatever crashes and failed writes make it repeat and whoever edits the
\* Secret in between, as long as no reconcile begins with an older copy of the Secret.
\* With "stale" Observe can find none in a copy, and Create retrieve and publish another.
THEOREM KubeconfigIsKept == ASSUME "stale" \notin Env PROVE Spec => KubeconfigKept
  <1>1. KeptInvariant /\ [Next]_vars => KeptInvariant'
    BY KeptStep
  <1>2. KeptInvariant /\ [Next]_vars
            => [\A c \in CRs :
                  conn[c] # NoSecret /\ conn[c].kubeconfig \in Configs /\ Reconcile(c)
                      => \/ api'[c].life = "gone"
                         \/ conn'[c] # NoSecret /\ conn'[c].kubeconfig = conn[c].kubeconfig]_vars
    BY ReconcileKeeps DEF KeptInvariant, Working
  <1> QED
    BY <1>1, <1>2, KeptInit, PTL DEF Spec, KubeconfigKept
===============================================================================
