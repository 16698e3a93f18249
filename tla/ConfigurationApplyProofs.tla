------------------------ MODULE ConfigurationApplyProofs ------------------------
(***************************************************************************)
(* Theorems about ConfigurationApply, for every set of resources and       *)
(* machines, every set of specs and configurations and every set Env of    *)
(* faults (AppliedIsFounded: without "reset", UnreachableIsNotReady:       *)
(* without "writeError" and failing publications), and the refinement of   *)
(* OneShot.                                                                *)
(***************************************************************************)
EXTENDS ConfigurationApply, TLAPS

----------------------------------------------------------------------------
(* The type invariant *)

\* The pieces of TypeOK the loop of ManagedReconciler can disturb.
ReconcilerTypeOK ==
    /\ api \in [CRs -> Object]
    /\ cache \in [CRs -> Object]
    /\ mem \in [CRs -> Object]
    /\ base \in [CRs -> Object]
    /\ obs \in [CRs -> Obs]
    /\ conn \in [CRs -> {NoSecret, NoDetails}]
    /\ connCache \in [CRs -> {NoSecret, NoDetails}]
    /\ pc \in [CRs -> Labels \cup {"applyCreate", "applyUpdate"}]

\* The pieces the handlers and the machines can disturb.
MachineTypeOK ==
    /\ spec \in [CRs -> Specs]
    /\ machine \in [Machines -> Machine]
    /\ source \in [CRs -> Configs \cup {NoConfig}]
    /\ acknowledged \subseteq CRs

RequestOK ==
    /\ request \in [CRs -> Request \cup {NoRequest}]
    /\ \A c \in CRs :
          IF pc[c] \in {"applyCreate", "applyUpdate"} THEN request[c] \in Request
          ELSE request[c] = NoRequest

\* The process dies as a whole: Start finds no call on its way.
AllDown == (\E c \in CRs : Down(c)) => \A c \in CRs : Down(c)

ApplyTypeOK == TypeOK /\ AllDown

LEMMA InitialValues ==
    /\ NewObject \in Object
    /\ NoObs \in Obs
  <1>1. InitStatus \in Status
    BY DEF InitStatus, Status
  <1> QED
    BY <1>1 DEF NewObject, NoObs, Object, Obs

\* What the actions change in an object leaves it an object.
LEMMA ReadyUpdate ==
    ASSUME NEW o \in Object, NEW r \in {"none", "true", "false"}
    PROVE  [o EXCEPT !.ready = r] \in Object
  BY DEF Object

LEMMA StatusUpdate ==
    ASSUME NEW o \in Object, NEW s \in Status
    PROVE  [o EXCEPT !.status = s] \in Object
  BY DEF Object

LEMMA LatestUpdate ==
    ASSUME NEW o \in Object, NEW l \in {"none", "pending", "succeeded", "failed"}
    PROVE  /\ [o EXCEPT !.latest = l] \in Object
           /\ [o EXCEPT !.latest = l].latest = l
           /\ [o EXCEPT !.latest = l].succeeded = o.succeeded
  BY DEF Object

LEMMA SucceededUpdate ==
    ASSUME NEW o \in Object, NEW b \in BOOLEAN
    PROVE  [o EXCEPT !.succeeded = b] \in Object
  BY DEF Object

LEMMA FinalizerUpdate ==
    ASSUME NEW o \in Object, NEW b \in BOOLEAN
    PROVE  /\ [o EXCEPT !.finalizer = b] \in Object
           /\ [o EXCEPT !.finalizer = b].latest = o.latest
           /\ [o EXCEPT !.finalizer = b].succeeded = o.succeeded
  BY DEF Object

LEMMA LifeUpdate ==
    ASSUME NEW o \in Object, NEW f \in {"live", "deleting", "gone"}
    PROVE  [o EXCEPT !.life = f] \in Object
  BY DEF Object

LEMMA ObjectFields ==
    ASSUME NEW o \in Object
    PROVE  /\ o.life \in {"live", "deleting", "gone"}
           /\ o.finalizer \in BOOLEAN
           /\ o.latest \in {"none", "pending", "succeeded", "failed"}
           /\ o.succeeded \in BOOLEAN
           /\ o.ready \in {"none", "true", "false"}
           /\ o.status \in Status
  BY DEF Object

\* The Secret of a resource of this kind is empty.
LEMMA EmptyPublished ==
    ASSUME TypeOK, NEW c \in CRs, Publish(c)
    PROVE  conn' \in [CRs -> {NoSecret, NoDetails}]
  BY DEF TypeOK, Obs, Publish, SecretApplied

LEMMA UpdateObjectType ==
    ASSUME TypeOK, NEW c \in CRs, NEW object \in Object, UpdateObject(c, object)
    PROVE  /\ api' \in [CRs -> Object]
           /\ base' \in [CRs -> Object]
           /\ mem' \in [CRs -> Object]
  <1>1. api[c].ready \in {"none", "true", "false"} /\ api[c].status \in Status
    BY ObjectFields DEF TypeOK
  <1>2. Stored(c, object) \in Object /\ [object EXCEPT !.ready = api[c].ready] \in Object
    BY <1>1, ReadyUpdate, StatusUpdate DEF Stored
  <1>3. Decoded(c, object) \subseteq Object
    BY <1>2 DEF Decoded
  <1> QED
    BY <1>2, <1>3 DEF UpdateObject, TypeOK

LEMMA AnnotatedType ==
    ASSUME NEW o \in Object, NEW outcome \in {"succeeded", "failed"}
    PROVE  Annotated(o, outcome) \in Object
  <1> DEFINE b == o.succeeded \/ outcome = "succeeded"
  <1>1. b \in BOOLEAN
    OBVIOUS
  <1>2. Annotated(o, outcome) = [o EXCEPT !.latest = outcome, !.succeeded = b]
    BY DEF Annotated
  <1> DEFINE recorded == [o EXCEPT !.latest = outcome]
  <1>3. recorded \in Object /\ recorded.succeeded = o.succeeded
    BY LatestUpdate DEF Object
  <1>4. Annotated(o, outcome) = [recorded EXCEPT !.succeeded = b]
    BY <1>2
  <1> HIDE DEF b, recorded
  <1> QED
    BY <1>1, <1>3, <1>4, SucceededUpdate

LEMMA AnnotateType ==
    ASSUME TypeOK, NEW c \in CRs, NEW outcome \in {"succeeded", "failed"},
           Annotate(c, outcome)
    PROVE  /\ api' \in [CRs -> Object]
           /\ base' \in [CRs -> Object]
           /\ mem' \in [CRs -> Object]
  <1>1. Annotated(mem[c], outcome) \in Object /\ Annotated(api[c], outcome) \in Object
    BY AnnotatedType DEF TypeOK
  <1>2. CASE UpdateObject(c, Annotated(mem[c], outcome))
    BY <1>1, <1>2, UpdateObjectType
  <1>3. CASE ~UpdateObject(c, Annotated(mem[c], outcome))
    BY <1>1, <1>3 DEF Annotate, TypeOK
  <1> QED
    BY <1>2, <1>3

LEMMA ReconcileStepType ==
    ASSUME TypeOK, NEW c \in CRs, ReconcileStep(c)
    PROVE  ReconcilerTypeOK'
  <1> USE DEF Labels
  <1>1. CASE Begin(c)
    BY <1>1 DEF Begin, Goto, TypeOK, ReconcilerTypeOK
  <1>2. CASE PublishObserved(c)
    BY <1>2, EmptyPublished DEF PublishObserved, Fail, Goto, TypeOK, ReconcilerTypeOK
  <1>3. CASE AddFinalizer(c)
    <2>1. [mem[c] EXCEPT !.finalizer = TRUE] \in Object
      BY FinalizerUpdate DEF TypeOK
    <2>2. /\ api' \in [CRs -> Object]
          /\ base' \in [CRs -> Object]
          /\ mem' \in [CRs -> Object]
      <3>1. CASE UpdateObject(c, [mem[c] EXCEPT !.finalizer = TRUE])
        BY <2>1, <3>1, UpdateObjectType
      <3>2. CASE UNCHANGED <<api, base, mem>>
        BY <3>2 DEF TypeOK
      <3> QED
        BY <1>3, <3>1, <3>2 DEF AddFinalizer, Fail
    <2> QED
      BY <1>3, <2>2 DEF AddFinalizer, Fail, Goto, TypeOK, ReconcilerTypeOK
  <1>4. CASE SetPending(c)
    <2>1. [mem[c] EXCEPT !.latest = "pending"] \in Object
      BY LatestUpdate DEF TypeOK
    <2>2. /\ api' \in [CRs -> Object]
          /\ base' \in [CRs -> Object]
          /\ mem' \in [CRs -> Object]
      <3>1. CASE UpdateObject(c, [mem[c] EXCEPT !.latest = "pending"])
        BY <2>1, <3>1, UpdateObjectType
      <3>2. CASE Fail(c, "creating")
        BY <3>2 DEF TypeOK, Fail
      <3> QED
        BY <1>4, <3>1, <3>2 DEF SetPending
    <2> QED
      BY <1>4, <2>2 DEF SetPending, Fail, Goto, TypeOK, ReconcilerTypeOK
  <1>5. CASE RecordSucceeded(c)
    <2>1. /\ api' \in [CRs -> Object]
          /\ base' \in [CRs -> Object]
          /\ mem' \in [CRs -> Object]
      BY <1>5, AnnotateType DEF RecordSucceeded, Fail, TypeOK
    <2> QED
      BY <1>5, <2>1 DEF RecordSucceeded, Fail, Goto, TypeOK, ReconcilerTypeOK
  <1>6. CASE RecordFailed(c)
    <2>1. /\ api' \in [CRs -> Object]
          /\ base' \in [CRs -> Object]
          /\ mem' \in [CRs -> Object]
      BY <1>6, AnnotateType DEF RecordFailed, Fail, TypeOK
    <2> QED
      BY <1>6, <2>1 DEF RecordFailed, Fail, Goto, TypeOK, ReconcilerTypeOK
  <1>7. CASE PublishCreated(c)
    BY <1>7, EmptyPublished DEF PublishCreated, Fail, Goto, TypeOK, ReconcilerTypeOK
  <1>8. CASE PublishUpdated(c)
    BY <1>8, EmptyPublished DEF PublishUpdated, Fail, Goto, TypeOK, ReconcilerTypeOK
  <1>9. CASE Unfinalize(c)
    <2>1. [api[c] EXCEPT !.life = "gone", !.finalizer = FALSE] \in Object
      BY LifeUpdate, FinalizerUpdate DEF TypeOK
    <2>2. api' = [api EXCEPT ![c] = [api[c] EXCEPT !.life = "gone", !.finalizer = FALSE]]
              \/ api' = api
      BY <1>9 DEF Unfinalize, Fail
    <2>3. api' \in [CRs -> Object]
      BY <2>1, <2>2 DEF TypeOK
    <2> QED
      BY <1>9, <2>3, InitialValues DEF Unfinalize, Finish, Fail, Goto, TypeOK, ReconcilerTypeOK
  <1>10. CASE WriteStatus(c)
    <2> DEFINE ready == IF pc[c] = "creating" THEN "false" ELSE mem[c].ready
    <2>1. ready \in {"none", "true", "false"} /\ mem[c].status \in Status
      BY ObjectFields DEF TypeOK
    <2>2. api' = [api EXCEPT ![c] = [api[c] EXCEPT !.status = mem[c].status, !.ready = ready]]
      BY <1>10 DEF WriteStatus
    <2> HIDE DEF ready
    <2>3. [api[c] EXCEPT !.status = mem[c].status, !.ready = ready] \in Object
      BY <2>1, ReadyUpdate, StatusUpdate DEF TypeOK
    <2>4. api' \in [CRs -> Object]
      BY <2>2, <2>3 DEF TypeOK
    <2> QED
      BY <1>10, <2>4, InitialValues DEF WriteStatus, Finish, Goto, TypeOK, ReconcilerTypeOK
  <1>11. CASE LoseStatus(c)
    BY <1>11, InitialValues DEF LoseStatus, Finish, Goto, TypeOK, ReconcilerTypeOK
  <1> QED
    BY <1>1, <1>2, <1>3, <1>4, <1>5, <1>6, <1>7, <1>8, <1>9, <1>10, <1>11
    DEF ReconcileStep

\* Observe and Create may hand the loop any object of the type.
LEMMA ReturnsType ==
    ASSUME TypeOK, NEW c \in CRs, NEW o \in Object, NEW b \in Obs,
           \/ ObserveReturns(c, o, b)
           \/ CreateReturns(c, o, NoDetails)
           \/ UpdateReturns(c, o, NoDetails)
    PROVE  ReconcilerTypeOK'
  <1>1. obs' \in [CRs -> Obs]
    <2>1. [obs[c] EXCEPT !.details = NoDetails] \in Obs
      BY DEF TypeOK, Obs
    <2>2. \/ obs' = [obs EXCEPT ![c] = b]
          \/ obs' = [obs EXCEPT ![c] = [obs[c] EXCEPT !.details = NoDetails]]
      BY DEF ObserveReturns, CreateReturns, UpdateReturns
    <2> QED
      BY <2>1, <2>2 DEF TypeOK
  <1> QED
    BY <1>1 DEF ObserveReturns, CreateReturns, UpdateReturns, Goto, Labels,
                TypeOK, ReconcilerTypeOK

\* Every step of a reconcile moves its own label and nobody else's.
LEMMA StepMoves ==
    ASSUME TypeOK, NEW c \in CRs, ReconcileStep(c)
    PROVE  /\ pc[c] \in Labels \ {"down"}
           /\ \E l \in Labels \ {"down"} : pc' = [pc EXCEPT ![c] = l]
  BY DEF ReconcileStep, Begin, PublishObserved, AddFinalizer, SetPending, RecordSucceeded,
     RecordFailed, PublishCreated, PublishUpdated, Unfinalize, WriteStatus, LoseStatus,
     Fail, Finish, Goto, Labels

LEMMA MovesKeepRequests ==
    ASSUME TypeOK, NEW c \in CRs, pc[c] \in Labels, NEW l \in Labels,
           pc' = [pc EXCEPT ![c] = l], request' = request
    PROVE  RequestOK'
  BY DEF TypeOK, RequestOK, Labels

LEMMA MovesKeepAllDown ==
    ASSUME TypeOK, AllDown, NEW c \in CRs, pc[c] # "down", NEW l, l # "down",
           pc' = [pc EXCEPT ![c] = l]
    PROVE  AllDown'
  BY DEF TypeOK, AllDown, Down

\* No configuration is ever nothing.
LEMMA ResolvedIsOne ==
    ASSUME TypeOK, NEW c \in CRs
    PROVE  ResolveMachineConfiguration(c) \subseteq Configs \cup Generated
  <1>1. spec[c] \in Specs /\ source[c] \in Configs \cup {NoConfig}
    BY DEF TypeOK
  <1>2. ResolveMachineConfigurationRef(c) \subseteq Configs
    BY <1>1 DEF ResolveMachineConfigurationRef
  <1>3. UNION {Inline!GenerateMachineConfigurationYAML(config) : config \in spec[c].inline}
            \subseteq Generated
    BY <1>1 DEF Generated
  <1> QED
    BY <1>2, <1>3 DEF ResolveMachineConfiguration

LEMMA TakenIsMachine ==
    ASSUME NEW m \in Machine, NEW config \in Configs \cup Generated, NEW mode
    PROVE  Taken(m, config, mode) \subseteq Machine
  BY DEF Taken, Machine, Modes

LEMMA ObservedType ==
    ASSUME NEW o \in Object, NEW state \in {"MaintenanceMode", "Configured", "Unreachable"}
    PROVE  Observed(o, state) \in Object
  <1> DEFINE s == [applied |-> ResolveAppliedStatus(o) \/ state = "Configured",
                   machineState |-> state]
             checked == [o EXCEPT !.status = s]
  <1>1. s \in Status
    BY DEF Status
  <1> HIDE DEF s
  <1>2. checked \in Object
    BY <1>1, StatusUpdate
  <1> HIDE DEF checked
  <1> QED
    BY <1>2, ReadyUpdate DEF Observed, checked, s

LEMMA CheckedStates ==
    ASSUME NEW c
    PROVE  CheckMachineState(c) \subseteq {"MaintenanceMode", "Configured", "Unreachable"}
  BY DEF CheckMachineState

LEMMA ObserveType ==
    ASSUME TypeOK, NEW c \in CRs, Observe(c)
    PROVE  TypeOK'
  <1>1. PICK state \in CheckMachineState(c) :
            ObserveReturns(c, Observed(mem[c], state),
                           ObservationState(state, ResolveAppliedStatus(mem[c]),
                                            HasValidMachineConfig(c)))
    BY DEF Observe
  <1> DEFINE object == Observed(mem[c], state)
             observation == ObservationState(state, ResolveAppliedStatus(mem[c]),
                                             HasValidMachineConfig(c))
  <1>2. object \in Object
    <2>1. mem[c] \in Object
      BY DEF TypeOK
    <2>2. state \in {"MaintenanceMode", "Configured", "Unreachable"}
      BY <1>1, CheckedStates
    <2> QED
      BY <2>1, <2>2, ObservedType
  <1>3. observation \in Obs
    <2>1. ASSUME NEW applied, NEW valid
          PROVE  ObservationState(state, applied, valid) \in Obs
      BY DEF ObservationState, Obs
    <2> QED
      BY <2>1
  <1>4. ObserveReturns(c, object, observation)
    BY <1>1
  <1> HIDE DEF object, observation
  <1>5. ReconcilerTypeOK'
    BY <1>2, <1>3, <1>4, ReturnsType
  <1>6. RequestOK'
    BY <1>4, MovesKeepRequests DEF Observe, ObserveReturns, Goto, Labels, machineVars
  <1>7. MachineTypeOK'
    BY DEF Observe, machineVars, TypeOK, MachineTypeOK
  <1> QED
    BY <1>5, <1>6, <1>7 DEF TypeOK, ReconcilerTypeOK, MachineTypeOK, RequestOK

LEMMA ApplyFailsType ==
    ASSUME TypeOK, NEW c \in CRs, ApplyFails(c)
    PROVE  ReconcilerTypeOK' /\ RequestOK'
  <1>1. ReconcilerTypeOK'
    BY DEF ApplyFails, Fail, Goto, Labels, TypeOK, ReconcilerTypeOK
  <1>2. RequestOK'
    BY DEF ApplyFails, Fail, Goto, TypeOK, RequestOK
  <1> QED
    BY <1>1, <1>2

LEMMA PrepareType ==
    ASSUME TypeOK, NEW c \in CRs, PrepareApply(c)
    PROVE  TypeOK'
  <1>1. CASE ApplyFails(c)
    <2>1. MachineTypeOK'
      BY <1>1 DEF PrepareApply, ApplyFails, TypeOK, MachineTypeOK
    <2> QED
      BY <1>1, <2>1, ApplyFailsType DEF TypeOK, ReconcilerTypeOK, MachineTypeOK, RequestOK
  <1>2. CASE ~ApplyFails(c)
    <2>1. PICK config \in ResolveMachineConfiguration(c), tls \in ApplyTLSConfig(c) \ {"error"} :
              request' = [request EXCEPT ![c] = [config |-> config, tls |-> tls]]
      BY <1>2 DEF PrepareApply
    <2>2. [config |-> config, tls |-> tls] \in Request
      <3>1. tls \in {"insecure", "creds"}
        BY DEF ApplyTLSConfig
      <3> QED
        BY <3>1, ResolvedIsOne DEF Request
    <2>3. /\ Goto(c, IF pc[c] = "create" THEN "applyCreate" ELSE "applyUpdate")
          /\ UNCHANGED <<api, cache, conn, connCache, mem, base, obs, spec, source>>
          /\ UNCHANGED <<machine, acknowledged>>
      BY <1>2 DEF PrepareApply
    <2>4. RequestOK'
      BY <2>1, <2>2, <2>3 DEF Goto, TypeOK, RequestOK
    <2>5. ReconcilerTypeOK' /\ MachineTypeOK'
      BY <2>3 DEF Goto, TypeOK, ReconcilerTypeOK, MachineTypeOK
    <2> QED
      BY <2>4, <2>5 DEF TypeOK, ReconcilerTypeOK, MachineTypeOK, RequestOK
  <1> QED
    BY <1>1, <1>2

LEMMA MachineTakesType ==
    ASSUME TypeOK, NEW c \in CRs, pc[c] \in {"applyCreate", "applyUpdate"}, MachineTakes(c)
    PROVE  machine' \in [Machines -> Machine]
  <1>1. MachineOf[c] \in Machines
    BY ConfigurationApplyAssumption
  <1>2. MachineState(c) \in Machine /\ request[c].config \in Configs \cup Generated
    BY <1>1 DEF MachineState, TypeOK, Request
  <1> DEFINE mode == GetConfigurationApplyMode(spec[c].mode)
  <1>3. PICK m \in Taken(MachineState(c), request[c].config, mode) :
            machine' = [machine EXCEPT ![MachineOf[c]] = m]
    BY DEF MachineTakes
  <1>4. m \in Machine
    BY <1>2, TakenIsMachine
  <1> QED
    BY <1>3, <1>4 DEF TypeOK

LEMMA MarkedType ==
    ASSUME NEW o \in Object
    PROVE  Marked(o) \in Object /\ [Marked(o) EXCEPT !.ready = "true"] \in Object
  <1>1. [o.status EXCEPT !.applied = TRUE] \in Status
    BY ObjectFields DEF Status
  <1>2. Marked(o) = [o EXCEPT !.status = [o.status EXCEPT !.applied = TRUE]]
    BY DEF Marked
  <1>3. Marked(o) \in Object
    BY <1>1, <1>2, StatusUpdate
  <1> QED
    BY <1>3, ReadyUpdate

LEMMA CallReturnsType ==
    ASSUME TypeOK, NEW c \in CRs, CallReturns(c)
    PROVE  ReconcilerTypeOK'
  <1>1. mem[c] \in Object /\ obs[c] \in Obs
    BY DEF TypeOK
  <1>2. Marked(mem[c]) \in Object /\ [Marked(mem[c]) EXCEPT !.ready = "true"] \in Object
    BY <1>1, MarkedType
  <1> QED
    BY <1>1, <1>2, ReturnsType DEF CallReturns

LEMMA ApplyType ==
    ASSUME TypeOK, NEW c \in CRs, ApplyConfiguration(c)
    PROVE  TypeOK'
  <1>1. pc[c] \in {"applyCreate", "applyUpdate"}
    BY DEF ApplyConfiguration
  <1>2. CASE MachineTakes(c) /\ CallReturns(c) /\ acknowledged' = acknowledged \cup {c}
             /\ request' = [request EXCEPT ![c] = NoRequest] /\ UNCHANGED <<spec, source>>
    <2>1. machine' \in [Machines -> Machine]
      BY <1>1, <1>2, MachineTakesType
    <2>2. RequestOK'
      BY <1>2 DEF CallReturns, CreateReturns, UpdateReturns, Goto, TypeOK, RequestOK
    <2>3. MachineTypeOK'
      BY <1>2, <2>1 DEF TypeOK, MachineTypeOK
    <2> QED
      BY <1>2, <2>2, <2>3, CallReturnsType
      DEF TypeOK, ReconcilerTypeOK, MachineTypeOK, RequestOK
  <1>3. CASE ApplyFails(c) /\ (MachineTakes(c) \/ UNCHANGED machine) /\ UNCHANGED acknowledged
    <2>1. machine' \in [Machines -> Machine]
      BY <1>1, <1>3, MachineTakesType DEF TypeOK
    <2>2. MachineTypeOK'
      BY <1>3, <2>1 DEF ApplyFails, TypeOK, MachineTypeOK
    <2> QED
      BY <1>3, <2>2, ApplyFailsType DEF TypeOK, ReconcilerTypeOK, MachineTypeOK, RequestOK
  <1> QED
    BY <1>2, <1>3 DEF ApplyConfiguration

LEMMA ReconcileType ==
    ASSUME TypeOK, NEW c \in CRs, Reconcile(c)
    PROVE  TypeOK'
  <1>1. CASE ReconcileStep(c) /\ UNCHANGED machineVars
    <2>1. RequestOK'
      BY <1>1, StepMoves, MovesKeepRequests DEF machineVars
    <2>2. MachineTypeOK'
      BY <1>1 DEF machineVars, TypeOK, MachineTypeOK
    <2> QED
      BY <1>1, <2>1, <2>2, ReconcileStepType
      DEF TypeOK, ReconcilerTypeOK, MachineTypeOK, RequestOK
  <1>2. CASE ConnectFails(c)
    BY <1>2 DEF ConnectFails, Fail, Goto, Labels, machineVars, TypeOK
  <1>3. CASE Delete(c)
    BY <1>3 DEF Delete, DeleteReturns, Goto, Labels, machineVars, TypeOK
  <1> QED
    BY <1>1, <1>2, <1>3, ObserveType, PrepareType, ApplyType DEF Reconcile

LEMMA ReconcileMoves ==
    ASSUME TypeOK, NEW c \in CRs, Reconcile(c)
    PROVE  pc[c] # "down" /\ \E l : l # "down" /\ pc' = [pc EXCEPT ![c] = l]
  <1>1. CASE ReconcileStep(c)
    BY <1>1, StepMoves
  <1>2. CASE ~ReconcileStep(c)
    BY <1>2 DEF Reconcile, ConnectFails, Observe, PrepareApply, ApplyConfiguration, ApplyFails,
       Delete, Fail, Goto, ObserveReturns, CallReturns, CreateReturns, UpdateReturns,
       DeleteReturns
  <1> QED
    BY <1>1, <1>2

LEMMA MachineStepType ==
    ASSUME TypeOK, NEW n \in Machines, MachineStep(n)
    PROVE  TypeOK'
  <1>1. machine[n] \in Machine
    BY DEF TypeOK
  <1>2. machine' \in [Machines -> Machine]
    <2>1. CASE Boot(n)
      <3> DEFINE next == IF machine[n].staged = NoConfig THEN machine[n].config
                         ELSE machine[n].staged
      <3>1. machine' = [machine EXCEPT ![n] = [mode |-> "running", config |-> next,
                                               staged |-> NoConfig]]
        BY <2>1 DEF Boot
      <3>2. next \in Configs \cup Generated \cup {NoConfig}
        BY <1>1 DEF Machine
      <3> HIDE DEF next
      <3>3. [mode |-> "running", config |-> next, staged |-> NoConfig] \in Machine
        BY <3>2 DEF Machine, Modes
      <3> QED
        BY <3>1, <3>3 DEF TypeOK
    <2>2. CASE Reboot(n)
      <3>1. [machine[n] EXCEPT !.mode = "rebooting"] \in Machine
        BY <1>1 DEF Machine, Modes
      <3> QED
        BY <2>2, <3>1 DEF Reboot, TypeOK
    <2>3. CASE Reset(n)
      <3>1. InMaintenance \in Machine
        BY DEF InMaintenance, Machine, Modes
      <3> QED
        BY <2>3, <3>1 DEF Reset, TypeOK
    <2> QED
      BY <2>1, <2>2, <2>3 DEF MachineStep
  <1> QED
    BY <1>2 DEF MachineStep, TypeOK

\* The cache catches up, or somebody deletes the resource.
LEMMA EnvironmentType ==
    ASSUME TypeOK, NEW c \in CRs,
           CacheSync(c) \/ ConnSync(c) \/ RequestDelete(c), UNCHANGED machineVars
    PROVE  TypeOK'
  <1>1. CASE CacheSync(c) \/ ConnSync(c)
    BY <1>1 DEF CacheSync, ConnSync, machineVars, TypeOK
  <1>2. CASE RequestDelete(c)
    <2> DEFINE life == IF api[c].finalizer THEN "deleting" ELSE "gone"
    <2>1. [api[c] EXCEPT !.life = life] \in Object
      <3>1. life \in {"live", "deleting", "gone"}
        OBVIOUS
      <3> HIDE DEF life
      <3> QED
        BY <3>1, LifeUpdate DEF TypeOK
    <2>2. api' \in [CRs -> Object]
      BY <1>2, <2>1 DEF RequestDelete, TypeOK
    <2>3. conn' \in [CRs -> {NoSecret, NoDetails}]
      BY <1>2 DEF RequestDelete, TypeOK
    <2> QED
      BY <1>2, <2>2, <2>3 DEF RequestDelete, machineVars, TypeOK
  <1> QED
    BY <1>1, <1>2

LEMMA ApplyInit == Init => ApplyTypeOK
  <1> SUFFICES ASSUME Init PROVE ApplyTypeOK
    OBVIOUS
  <1>1. machine \in [Machines -> Machine]
    <2>1. InMaintenance \in Machine
      BY DEF InMaintenance, Machine, Modes
    <2>2. [mode : {"running"}, config : Configs, staged : {NoConfig}] \subseteq Machine
      BY DEF Machine, Modes
    <2> QED
      BY <2>1, <2>2 DEF Init
  <1>2. ReconcilerTypeOK
    BY InitialValues DEF Init, ReconcilerInit, ReconcilerTypeOK, Labels
  <1>3. RequestOK
    BY DEF Init, ReconcilerInit, RequestOK
  <1>4. AllDown
    BY DEF Init, ReconcilerInit, AllDown, Down
  <1> QED
    BY <1>1, <1>2, <1>3, <1>4
    DEF Init, ApplyTypeOK, TypeOK, ReconcilerTypeOK, RequestOK

LEMMA ApplyStep == ApplyTypeOK /\ [Next]_vars => ApplyTypeOK'
  <1> SUFFICES ASSUME TypeOK, AllDown, [Next]_vars PROVE TypeOK' /\ AllDown'
    BY DEF ApplyTypeOK
  <1>1. CASE \E c \in CRs : Reconcile(c)
    BY <1>1, ReconcileType, ReconcileMoves, MovesKeepAllDown
  <1>2. CASE \E c \in CRs : SourceChanges(c)
    BY <1>2 DEF SourceChanges, TypeOK, AllDown, Down
  <1>3. CASE \E c \in CRs :
                (CacheSync(c) \/ ConnSync(c) \/ RequestDelete(c)) /\ UNCHANGED machineVars
    <2>1. pc' = pc
      BY <1>3 DEF CacheSync, ConnSync, RequestDelete
    <2> QED
      BY <1>3, <2>1, EnvironmentType DEF AllDown, Down
  <1>4. CASE CrashRequests
    <2>1. \A c \in CRs : pc'[c] = "down" /\ request'[c] = NoRequest
      BY <1>4 DEF CrashRequests, Crash
    <2>2. RequestOK'
      BY <1>4, <2>1 DEF CrashRequests, RequestOK
    <2> QED
      BY <1>4, <2>1, <2>2, InitialValues
      DEF CrashRequests, Crash, Labels, TypeOK, RequestOK, AllDown, Down
  <1>5. CASE Start /\ UNCHANGED machineVars
    <2>1. \A c \in CRs : pc[c] = "down" /\ pc'[c] = "idle"
      BY <1>5 DEF Start, AllDown, Down
    <2>2. \A c \in CRs : request'[c] = NoRequest
      BY <1>5, <2>1 DEF machineVars, TypeOK
    <2> QED
      BY <1>5, <2>1, <2>2 DEF Start, Labels, machineVars, TypeOK, AllDown, Down
  <1>6. CASE \E n \in Machines : MachineStep(n)
    <2>1. pc' = pc
      BY <1>6 DEF MachineStep
    <2> QED
      BY <1>6, <2>1, MachineStepType DEF AllDown, Down
  <1>7. CASE UNCHANGED vars
    BY <1>7 DEF vars, TypeOK, AllDown, Down
  <1> QED
    BY <1>1, <1>2, <1>3, <1>4, <1>5, <1>6, <1>7 DEF Next

\* Every variable keeps its type; in particular a call that is on its way always has
\* a configuration and a connection, and none is left over when a reconcile ends.
THEOREM TypeCorrect == Spec => []TypeOK
  <1>1. ApplyTypeOK => TypeOK
    BY DEF ApplyTypeOK
  <1> QED
    BY <1>1, ApplyInit, ApplyStep, PTL DEF Spec

----------------------------------------------------------------------------
(* AppliedOnce *)

\* A reconcile never changes in memory what it has not stored: the annotations
\* it works with are those of the version its writes are based on.
AnnotationsAreBase(c) ==
    pc[c] # "idle" => /\ mem[c].latest = base[c].latest
                      /\ mem[c].succeeded = base[c].succeeded

\* What Observe concluded still holds for the version the writes are based on.
ObservedBase(c) ==
    /\ pc[c] \in {"observe", "publish", "finalizer", "pending"}
          => base[c].latest # "pending"
    /\ pc[c] \in {"publish", "finalizer", "pending"} /\ ~obs[c].exists
          => ~base[c].succeeded
    /\ pc[c] = "pending" => ~obs[c].exists

\* While Create runs the API server holds its pending annotation.
CreateIsPending(c) ==
    pc[c] \in {"create", "applyCreate", "created", "failed"} => api[c].latest = "pending"

\* An acknowledged call leaves a trace in the API server for ever, and only then
\* can the conclusion not to call again be drawn from it.
AcknowledgedIsRecorded(c) ==
    /\ c \in acknowledged => api[c].latest = "pending" \/ api[c].succeeded
    /\ pc[c] \in {"create", "applyCreate", "failed"} => c \notin acknowledged

\* What exists is up to date, and Update is never called.
UpToDateOnceThere(c) ==
    /\ pc[c] \in {"publish", "finalizer"} => (obs[c].exists <=> obs[c].upToDate)
    /\ pc[c] \notin {"update", "applyUpdate", "publishUpdated"}

Recorded(c) ==
    /\ AnnotationsAreBase(c)
    /\ ObservedBase(c)
    /\ CreateIsPending(c)
    /\ AcknowledgedIsRecorded(c)
    /\ UpToDateOnceThere(c)

ApplyInvariant ==
    ApplyTypeOK /\ \A c \in CRs : HasValidMachineConfig(c) => Recorded(c)

\* What the parts read of a resource.
Untouched(c) ==
    /\ api'[c] = api[c]
    /\ pc'[c] = pc[c]
    /\ mem'[c] = mem[c]
    /\ base'[c] = base[c]
    /\ obs'[c] = obs[c]
    /\ c \in acknowledged' <=> c \in acknowledged

LEMMA UntouchedRecorded ==
    ASSUME NEW c \in CRs, Recorded(c), Untouched(c)
    PROVE  Recorded(c)'
  BY DEF Recorded, Untouched, AnnotationsAreBase, ObservedBase, CreateIsPending,
         AcknowledgedIsRecorded, UpToDateOnceThere

LEMMA UpdateObjectEffect ==
    ASSUME TypeOK, NEW c \in CRs, NEW object \in Object, UpdateObject(c, object)
    PROVE  /\ base[c] = api[c]
           /\ api'[c].latest = object.latest /\ api'[c].succeeded = object.succeeded
           /\ base'[c].latest = object.latest /\ base'[c].succeeded = object.succeeded
           /\ mem'[c].latest = object.latest /\ mem'[c].succeeded = object.succeeded
           /\ \A d \in CRs \ {c} : api'[d] = api[d] /\ base'[d] = base[d] /\ mem'[d] = mem[d]
  <1>1. /\ Stored(c, object).latest = object.latest
        /\ Stored(c, object).succeeded = object.succeeded
    BY DEF Stored, Object
  <1>2. \A o \in Decoded(c, object) :
            o.latest = object.latest /\ o.succeeded = object.succeeded
    BY <1>1 DEF Decoded, Object
  <1> QED
    BY <1>1, <1>2 DEF UpdateObject, TypeOK

\* Every way to write the critical annotations leaves them in all three places.
LEMMA AnnotateEffect ==
    ASSUME TypeOK, NEW c \in CRs, NEW outcome \in {"succeeded", "failed"},
           Annotate(c, outcome)
    PROVE  /\ api'[c].latest = outcome /\ base'[c].latest = outcome /\ mem'[c].latest = outcome
           /\ base'[c].succeeded = api'[c].succeeded
           /\ mem'[c].succeeded = api'[c].succeeded
           /\ outcome = "succeeded" => api'[c].succeeded
           /\ \A d \in CRs \ {c} : api'[d] = api[d] /\ base'[d] = base[d] /\ mem'[d] = mem[d]
  <1>1. mem[c] \in Object /\ api[c] \in Object
    BY DEF TypeOK
  <1>2. \A o \in Object : /\ Annotated(o, outcome).latest = outcome
                          /\ outcome = "succeeded" => Annotated(o, outcome).succeeded
    BY DEF Annotated, Object
  <1>3. CASE UpdateObject(c, Annotated(mem[c], outcome))
    <2>1. Annotated(mem[c], outcome) \in Object
      BY <1>1, AnnotatedType
    <2> QED
      BY <1>1, <1>2, <1>3, <2>1, UpdateObjectEffect
  <1>4. CASE ~UpdateObject(c, Annotated(mem[c], outcome))
    BY <1>1, <1>2, <1>4 DEF Annotate, TypeOK
  <1> QED
    BY <1>3, <1>4

\* A step of one worker leaves the others' resources alone.
LEMMA OthersUntouched ==
    ASSUME TypeOK, NEW c \in CRs, Reconcile(c), NEW d \in CRs, d # c
    PROVE  Untouched(d)
  <1> USE DEF TypeOK, Goto, Fail, Finish
  <1>1. CASE ReconcileStep(c) /\ UNCHANGED machineVars
    <2>1. acknowledged' = acknowledged
      BY <1>1 DEF machineVars
    <2>2. CASE \/ Begin(c) \/ PublishObserved(c) \/ PublishCreated(c) \/ PublishUpdated(c)
               \/ Unfinalize(c) \/ WriteStatus(c) \/ LoseStatus(c)
      BY <2>1, <2>2 DEF Begin, PublishObserved, PublishCreated, PublishUpdated,
         Unfinalize, WriteStatus, LoseStatus, Untouched
    <2>3. CASE AddFinalizer(c)
      BY <2>1, <2>3 DEF AddFinalizer, UpdateObject, Untouched
    <2>4. CASE SetPending(c)
      BY <2>1, <2>4 DEF SetPending, UpdateObject, Untouched
    <2>5. CASE RecordSucceeded(c)
      BY <2>1, <2>5, AnnotateEffect DEF RecordSucceeded, Untouched
    <2>6. CASE RecordFailed(c)
      BY <2>1, <2>6, AnnotateEffect DEF RecordFailed, Untouched
    <2> QED
      BY <1>1, <2>2, <2>3, <2>4, <2>5, <2>6 DEF ReconcileStep
  <1>2. CASE ConnectFails(c) \/ Delete(c)
    BY <1>2 DEF ConnectFails, Delete, DeleteReturns, machineVars, Untouched
  <1>3. CASE Observe(c)
    BY <1>3 DEF Observe, ObserveReturns, machineVars, Untouched
  <1>4. CASE PrepareApply(c)
    BY <1>4 DEF PrepareApply, ApplyFails, Untouched
  <1>5. CASE ApplyConfiguration(c)
    BY <1>5 DEF ApplyConfiguration, ApplyFails, CallReturns, CreateReturns, UpdateReturns,
       Untouched
  <1> QED
    BY <1>1, <1>2, <1>3, <1>4, <1>5 DEF Reconcile

LEMMA ReconcileStepRecorded ==
    ASSUME TypeOK, NEW c \in CRs, Recorded(c), ReconcileStep(c), UNCHANGED machineVars
    PROVE  Recorded(c)'
  <1> USE DEF TypeOK, Goto, Fail, Finish
  <1>1. acknowledged' = acknowledged
    BY DEF machineVars
  <1>2. mem[c] \in Object /\ base[c] \in Object /\ api[c] \in Object
    OBVIOUS
  <1>3. CASE Begin(c)
    BY <1>1, <1>3 DEF Begin, Recorded, AnnotationsAreBase, ObservedBase,
       CreateIsPending, AcknowledgedIsRecorded, UpToDateOnceThere
  <1>4. CASE PublishObserved(c) \/ PublishCreated(c) \/ PublishUpdated(c)
    BY <1>1, <1>4 DEF PublishObserved, PublishCreated, PublishUpdated, Recorded,
       AnnotationsAreBase, ObservedBase, CreateIsPending, AcknowledgedIsRecorded, UpToDateOnceThere
  <1>5. CASE AddFinalizer(c)
    <2> DEFINE object == [mem[c] EXCEPT !.finalizer = TRUE]
    <2>1. /\ object \in Object
          /\ object.latest = mem[c].latest /\ object.succeeded = mem[c].succeeded
      BY <1>2, FinalizerUpdate
    <2> HIDE DEF object
    <2>2. CASE UpdateObject(c, object)
      <3>1. /\ base[c] = api[c]
            /\ api'[c].latest = mem[c].latest /\ api'[c].succeeded = mem[c].succeeded
            /\ base'[c].latest = mem[c].latest /\ base'[c].succeeded = mem[c].succeeded
            /\ mem'[c].latest = mem[c].latest /\ mem'[c].succeeded = mem[c].succeeded
        BY <2>1, <2>2, UpdateObjectEffect
      <3> QED
        BY <1>1, <1>5, <3>1 DEF AddFinalizer, Recorded, AnnotationsAreBase,
           ObservedBase, CreateIsPending, AcknowledgedIsRecorded, UpToDateOnceThere
    <2>3. CASE UNCHANGED <<api, base, mem>>
      BY <1>1, <1>5, <2>3 DEF AddFinalizer, Recorded, AnnotationsAreBase,
         ObservedBase, CreateIsPending, AcknowledgedIsRecorded, UpToDateOnceThere
    <2> QED
      BY <1>5, <2>2, <2>3 DEF AddFinalizer, object
  <1>6. CASE SetPending(c)
    <2> DEFINE object == [mem[c] EXCEPT !.latest = "pending"]
    <2>1. /\ object \in Object
          /\ object.latest = "pending" /\ object.succeeded = mem[c].succeeded
      BY <1>2, LatestUpdate
    <2> HIDE DEF object
    <2>2. CASE UpdateObject(c, object) /\ Goto(c, "create") /\ UNCHANGED <<conn, obs>>
      <3>1. /\ base[c] = api[c]
            /\ api'[c].latest = "pending"
            /\ base'[c].latest = "pending" /\ base'[c].succeeded = mem[c].succeeded
            /\ mem'[c].latest = "pending" /\ mem'[c].succeeded = mem[c].succeeded
        BY <2>1, <2>2, UpdateObjectEffect
      <3>2. c \notin acknowledged
        BY <1>6, <3>1 DEF SetPending, Recorded, ObservedBase, AcknowledgedIsRecorded, UpToDateOnceThere
      <3> QED
        BY <1>1, <2>2, <3>1, <3>2 DEF Recorded, AnnotationsAreBase, ObservedBase,
           CreateIsPending, AcknowledgedIsRecorded, UpToDateOnceThere
    <2>3. CASE Fail(c, "creating")
      BY <1>1, <1>6, <2>3 DEF SetPending, Recorded, AnnotationsAreBase,
         ObservedBase, CreateIsPending, AcknowledgedIsRecorded, UpToDateOnceThere
    <2> QED
      BY <1>6, <2>2, <2>3 DEF SetPending, object
  <1>7. CASE RecordSucceeded(c)
    <2>1. CASE Annotate(c, "succeeded") /\ Goto(c, "publishCreated") /\ UNCHANGED <<conn, obs>>
      <3>1. /\ api'[c].succeeded
            /\ base'[c].latest = mem'[c].latest /\ base'[c].succeeded = mem'[c].succeeded
        BY <2>1, AnnotateEffect
      <3> QED
        BY <1>1, <2>1, <3>1 DEF Recorded, AnnotationsAreBase, ObservedBase,
           CreateIsPending, AcknowledgedIsRecorded, UpToDateOnceThere
    <2>2. CASE Fail(c, "creating")
      BY <1>1, <1>7, <2>2 DEF RecordSucceeded, Recorded, AnnotationsAreBase,
         ObservedBase, CreateIsPending, AcknowledgedIsRecorded, UpToDateOnceThere
    <2> QED
      BY <1>7, <2>1, <2>2 DEF RecordSucceeded
  <1>8. CASE RecordFailed(c)
    <2>1. c \notin acknowledged
      BY <1>8 DEF RecordFailed, Recorded, AcknowledgedIsRecorded, UpToDateOnceThere
    <2>2. CASE Annotate(c, "failed") /\ Goto(c, "creating") /\ UNCHANGED <<conn, obs>>
      <3>1. base'[c].latest = mem'[c].latest /\ base'[c].succeeded = mem'[c].succeeded
        BY <2>2, AnnotateEffect
      <3> QED
        BY <1>1, <2>1, <2>2, <3>1 DEF Recorded, AnnotationsAreBase, ObservedBase,
           CreateIsPending, AcknowledgedIsRecorded, UpToDateOnceThere
    <2>3. CASE Fail(c, "creating")
      BY <1>1, <1>8, <2>3 DEF RecordFailed, Recorded, AnnotationsAreBase,
         ObservedBase, CreateIsPending, AcknowledgedIsRecorded, UpToDateOnceThere
    <2> QED
      BY <1>8, <2>2, <2>3 DEF RecordFailed
  <1>9. CASE Unfinalize(c)
    <2>1. api'[c].latest = api[c].latest /\ api'[c].succeeded = api[c].succeeded
      BY <1>2, <1>9 DEF Unfinalize, Object
    <2>2. CASE Finish(c)
      BY <1>1, <2>1, <2>2 DEF Recorded, AnnotationsAreBase, ObservedBase,
         CreateIsPending, AcknowledgedIsRecorded, UpToDateOnceThere
    <2>3. CASE Fail(c, "status")
      BY <1>1, <1>9, <2>1, <2>3 DEF Unfinalize, Recorded, AnnotationsAreBase,
         ObservedBase, CreateIsPending, AcknowledgedIsRecorded, UpToDateOnceThere
    <2> QED
      BY <1>9, <2>2, <2>3 DEF Unfinalize
  <1>10. CASE WriteStatus(c)
    <2>1. api'[c].latest = api[c].latest /\ api'[c].succeeded = api[c].succeeded
      BY <1>2, <1>10 DEF WriteStatus, Object
    <2> QED
      BY <1>1, <1>10, <2>1 DEF WriteStatus, Recorded, AnnotationsAreBase,
         ObservedBase, CreateIsPending, AcknowledgedIsRecorded, UpToDateOnceThere
  <1>11. CASE LoseStatus(c)
    BY <1>1, <1>11 DEF LoseStatus, Recorded, AnnotationsAreBase, ObservedBase,
       CreateIsPending, AcknowledgedIsRecorded, UpToDateOnceThere
  <1> QED
    BY <1>3, <1>4, <1>5, <1>6, <1>7, <1>8, <1>9, <1>10, <1>11 DEF ReconcileStep

LEMMA ObservedFields ==
    ASSUME NEW o \in Object, NEW state
    PROVE  /\ Observed(o, state).latest = o.latest
           /\ Observed(o, state).succeeded = o.succeeded
  BY DEF Observed, Object

LEMMA MarkedFields ==
    ASSUME NEW o \in Object
    PROVE  /\ Marked(o).latest = o.latest /\ Marked(o).succeeded = o.succeeded
           /\ [Marked(o) EXCEPT !.ready = "true"].latest = o.latest
           /\ [Marked(o) EXCEPT !.ready = "true"].succeeded = o.succeeded
  BY DEF Marked, Object

LEMMA HandlerRecorded ==
    ASSUME TypeOK, NEW c \in CRs, HasValidMachineConfig(c), Recorded(c), Reconcile(c),
           ~(ReconcileStep(c) /\ UNCHANGED machineVars)
    PROVE  Recorded(c)'
  <1> USE DEF TypeOK, Goto, Fail, machineVars, Recorded, AnnotationsAreBase, ObservedBase,
              CreateIsPending, AcknowledgedIsRecorded, UpToDateOnceThere
  <1>1. mem[c] \in Object
    OBVIOUS
  <1>2. CASE ConnectFails(c)
    BY <1>2 DEF ConnectFails
  <1>3. CASE Observe(c)
    <2>1. PICK state \in CheckMachineState(c) :
            ObserveReturns(c, Observed(mem[c], state),
                           ObservationState(state, ResolveAppliedStatus(mem[c]),
                                            HasValidMachineConfig(c)))
      BY <1>3 DEF Observe
    <2> DEFINE object == Observed(mem[c], state)
               observation == ObservationState(state, ResolveAppliedStatus(mem[c]),
                                               HasValidMachineConfig(c))
    <2>2. object.latest = mem[c].latest /\ object.succeeded = mem[c].succeeded
      BY <1>1, ObservedFields
    <2>3. /\ ~observation.exists => ~mem[c].succeeded
          /\ observation.exists <=> observation.upToDate
      BY DEF ObservationState, ResolveAppliedStatus
    <2>4. ObserveReturns(c, object, observation)
      BY <2>1
    <2> HIDE DEF object, observation
    <2> QED
      BY <1>3, <2>2, <2>3, <2>4 DEF Observe, ObserveReturns
  <1>4. CASE PrepareApply(c)
    BY <1>4 DEF PrepareApply, ApplyFails
  <1>5. CASE ApplyConfiguration(c)
    <2>1. pc[c] = "applyCreate"
      BY <1>5 DEF ApplyConfiguration
    <2>2. CASE ApplyFails(c) /\ UNCHANGED acknowledged
      BY <2>1, <2>2 DEF ApplyFails
    <2>3. CASE CallReturns(c) /\ acknowledged' = acknowledged \cup {c}
      <3> DEFINE object == [Marked(mem[c]) EXCEPT !.ready = "true"]
      <3>1. object.latest = mem[c].latest /\ object.succeeded = mem[c].succeeded
        BY <1>1, MarkedFields
      <3>2. CreateReturns(c, object, NoDetails)
        BY <2>1, <2>3 DEF CallReturns
      <3> HIDE DEF object
      <3> QED
        BY <2>1, <2>3, <3>1, <3>2 DEF CreateReturns
    <2> QED
      BY <1>5, <2>2, <2>3 DEF ApplyConfiguration
  <1>6. CASE Delete(c)
    BY <1>6 DEF Delete, DeleteReturns
  <1> QED
    BY <1>2, <1>3, <1>4, <1>5, <1>6 DEF Reconcile

LEMMA EnvironmentRecorded ==
    ASSUME TypeOK, NEW d \in CRs, Recorded(d), NEW c \in CRs,
           CacheSync(c) \/ ConnSync(c) \/ RequestDelete(c), UNCHANGED machineVars
    PROVE  Recorded(d)'
  <1> USE DEF TypeOK, machineVars
  <1>1. CASE CacheSync(c) \/ ConnSync(c)
    <2>1. Untouched(d)
      BY <1>1 DEF CacheSync, ConnSync, Untouched
    <2> QED
      BY <2>1, UntouchedRecorded
  <1>2. CASE RequestDelete(c)
    <2>1. api'[d].latest = api[d].latest /\ api'[d].succeeded = api[d].succeeded
      BY <1>2 DEF RequestDelete, Object
    <2> QED
      BY <1>2, <2>1 DEF RequestDelete, Recorded, AnnotationsAreBase, ObservedBase,
         CreateIsPending, AcknowledgedIsRecorded, UpToDateOnceThere
  <1> QED
    BY <1>1, <1>2

LEMMA ProcessRecorded ==
    ASSUME TypeOK, NEW d \in CRs, Recorded(d),
           CrashRequests \/ (Start /\ UNCHANGED machineVars)
    PROVE  Recorded(d)'
  BY DEF CrashRequests, Crash, Start, machineVars, Recorded, AnnotationsAreBase, ObservedBase,
     CreateIsPending, AcknowledgedIsRecorded, UpToDateOnceThere

\* The spec does not change, nor does what Observe thinks of it.
LEMMA ValidIsKept ==
    ASSUME NEW c \in CRs, [Next]_vars
    PROVE  HasValidMachineConfig(c)' <=> HasValidMachineConfig(c)
  <1>1. spec' = spec
    BY DEF Next, Reconcile, ConnectFails, Observe, PrepareApply, ApplyConfiguration, ApplyFails,
       Delete, SourceChanges, CrashRequests, MachineStep, machineVars, vars
  <1> QED
    BY <1>1 DEF HasValidMachineConfig

\* What the annotations, the caches and the workers know of a call is right in every
\* state, for every resource whose configuration is complete.
THEOREM RecordsAgree == Spec => []ApplyInvariant
  <1>1. Init => ApplyInvariant
    <2> SUFFICES ASSUME Init PROVE \A c \in CRs : Recorded(c)
      BY ApplyInit DEF ApplyInvariant
    <2> QED
      BY DEF Init, ReconcilerInit, Recorded, AnnotationsAreBase, ObservedBase,
         CreateIsPending, AcknowledgedIsRecorded, UpToDateOnceThere
  <1>2. ApplyInvariant /\ [Next]_vars => ApplyInvariant'
    <2> SUFFICES ASSUME ApplyInvariant, [Next]_vars,
                        NEW d \in CRs, HasValidMachineConfig(d)'
                 PROVE  Recorded(d)'
      BY ApplyStep DEF ApplyInvariant
    <2>1. TypeOK /\ HasValidMachineConfig(d) /\ Recorded(d)
      BY ValidIsKept DEF ApplyInvariant, ApplyTypeOK
    <2>2. CASE \E c \in CRs : Reconcile(c)
      <3>1. PICK c \in CRs : Reconcile(c)
        BY <2>2
      <3>2. CASE c = d
        BY <2>1, <3>1, <3>2, ReconcileStepRecorded, HandlerRecorded
      <3>3. CASE c # d
        BY <2>1, <3>1, <3>3, OthersUntouched, UntouchedRecorded
      <3> QED
        BY <3>2, <3>3
    <2>3. CASE \E c \in CRs :
                  (CacheSync(c) \/ ConnSync(c) \/ RequestDelete(c)) /\ UNCHANGED machineVars
      BY <2>1, <2>3, EnvironmentRecorded
    <2>4. CASE CrashRequests \/ (Start /\ UNCHANGED machineVars)
      BY <2>1, <2>4, ProcessRecorded
    <2>5. CASE \/ \E c \in CRs : SourceChanges(c)
               \/ \E n \in Machines : MachineStep(n)
               \/ UNCHANGED vars
      <3>1. Untouched(d)
        BY <2>5 DEF SourceChanges, MachineStep, vars, Untouched
      <3> QED
        BY <2>1, <3>1, UntouchedRecorded
    <2> QED
      BY <2>2, <2>3, <2>4, <2>5 DEF Next
  <1> QED
    BY <1>1, <1>2, PTL DEF Spec

\* A complete configuration is never sent again after a call that returned without
\* error: AppliedOnce of the runs, for any number of resources and machines, two
\* resources for one machine included, and every set of faults.
THEOREM NeverAppliedAgain == Spec => []AppliedOnce
  <1>1. ApplyInvariant => AppliedOnce
    BY DEF ApplyInvariant, Recorded, AcknowledgedIsRecorded, UpToDateOnceThere, AppliedOnce
  <1> QED
    BY <1>1, RecordsAgree, PTL

----------------------------------------------------------------------------
(* The simulation *)

Log == [c \in CRs |-> IF c \in Complete THEN api[c].latest ELSE "none"]
Logged == {c \in Complete : api[c].succeeded}
Answered == acknowledged \cap Complete

\* Only a call that was answered is about to be recorded as a success.
CreatedWasAnswered == \A c \in CRs : pc[c] = "created" => c \in acknowledged

PromiseInvariant == ApplyInvariant /\ CreatedWasAnswered

\* The records of c, and whether its call was answered, stay as they are.
SameRecords(c) ==
    /\ api'[c].latest = api[c].latest /\ api'[c].succeeded = api[c].succeeded
    /\ c \in acknowledged' <=> c \in acknowledged

LEMMA SameRecordsStutter ==
    ASSUME Complete' = Complete, \A c \in Complete : SameRecords(c)
    PROVE  UNCHANGED Promise!vars
  <1>1. Log' = Log /\ Logged' = Logged
    BY DEF SameRecords, Log, Logged, Complete
  <1>2. Answered' = Answered
    BY DEF SameRecords, Answered
  <1> QED
    BY <1>1, <1>2 DEF Promise!vars, Log, Logged, Answered

\* What a write of one resource's annotations is to the log.
LEMMA LogWritten ==
    ASSUME Complete' = Complete, NEW c \in Complete, NEW entry, api'[c].latest = entry,
           \A d \in Complete \ {c} : SameRecords(d)
    PROVE  /\ Log' = [Log EXCEPT ![c] = entry]
           /\ (api'[c].succeeded <=> api[c].succeeded) => Logged' = Logged
           /\ api'[c].succeeded => Logged' = Logged \cup {c}
           /\ c \in acknowledged' <=> c \in acknowledged => Answered' = Answered
  BY DEF Log, Logged, Answered, SameRecords, Complete

\* What the loop does to the records of a resource: its annotations stay, or the
\* intent, a success or a failure is added to them.
Intends(c) ==
    /\ api[c].latest # "pending" /\ ~api[c].succeeded
    /\ api'[c].latest = "pending" /\ ~api'[c].succeeded

Succeeds(c) ==
    /\ pc[c] = "created" /\ api[c].latest = "pending"
    /\ api'[c].latest = "succeeded" /\ api'[c].succeeded

Fails(c) ==
    /\ api[c].latest = "pending" /\ c \notin acknowledged
    /\ api'[c].latest = "failed" /\ api'[c].succeeded = api[c].succeeded

LEMMA RecordsWritten ==
    ASSUME TypeOK, NEW c \in CRs, Recorded(c), ReconcileStep(c)
    PROVE  \/ api'[c].latest = api[c].latest /\ api'[c].succeeded = api[c].succeeded
           \/ Intends(c) \/ Succeeds(c) \/ Fails(c)
  <1> USE DEF TypeOK, Goto, Fail, Finish
  <1>1. mem[c] \in Object /\ base[c] \in Object /\ api[c] \in Object
    OBVIOUS
  <1>2. CASE \/ Begin(c) \/ PublishObserved(c) \/ PublishCreated(c) \/ PublishUpdated(c)
             \/ LoseStatus(c)
    BY <1>2 DEF Begin, PublishObserved, PublishCreated, PublishUpdated, LoseStatus
  <1>3. CASE Unfinalize(c)
    BY <1>1, <1>3 DEF Unfinalize, Object
  <1>4. CASE WriteStatus(c)
    BY <1>1, <1>4 DEF WriteStatus, Object
  <1>5. CASE AddFinalizer(c)
    <2> DEFINE object == [mem[c] EXCEPT !.finalizer = TRUE]
    <2>1. /\ object \in Object
          /\ object.latest = mem[c].latest /\ object.succeeded = mem[c].succeeded
      BY <1>1, FinalizerUpdate
    <2> HIDE DEF object
    <2>2. CASE UpdateObject(c, object)
      BY <1>1, <1>5, <2>1, <2>2, UpdateObjectEffect DEF AddFinalizer, Recorded, AnnotationsAreBase
    <2> QED
      BY <1>5, <2>2 DEF AddFinalizer, object
  <1>6. CASE SetPending(c)
    <2> DEFINE object == [mem[c] EXCEPT !.latest = "pending"]
    <2>1. /\ object \in Object
          /\ object.latest = "pending" /\ object.succeeded = mem[c].succeeded
      BY <1>1, LatestUpdate
    <2> HIDE DEF object
    <2>2. CASE UpdateObject(c, object)
      <3>1. /\ base[c] = api[c]
            /\ api'[c].latest = "pending" /\ api'[c].succeeded = mem[c].succeeded
        BY <2>1, <2>2, UpdateObjectEffect
      <3> QED
        BY <1>6, <3>1 DEF SetPending, Recorded, ObservedBase, AnnotationsAreBase, Intends
    <2> QED
      BY <1>6, <2>2 DEF SetPending, object
  <1>7. CASE RecordSucceeded(c)
    <2>1. pc[c] = "created" /\ api[c].latest = "pending"
      BY <1>7 DEF RecordSucceeded, Recorded, CreateIsPending
    <2>2. CASE Annotate(c, "succeeded")
      BY <2>1, <2>2, AnnotateEffect DEF Succeeds
    <2> QED
      BY <1>7, <2>2 DEF RecordSucceeded
  <1>8. CASE RecordFailed(c)
    <2>1. pc[c] = "failed" /\ api[c].latest = "pending" /\ c \notin acknowledged
      BY <1>8 DEF RecordFailed, Recorded, CreateIsPending, AcknowledgedIsRecorded
    <2>2. CASE Annotate(c, "failed")
      <3>1. /\ Annotated(mem[c], "failed").succeeded = mem[c].succeeded
            /\ Annotated(api[c], "failed").succeeded = api[c].succeeded
        BY <1>1 DEF Annotated, Object
      <3>2. CASE UpdateObject(c, Annotated(mem[c], "failed"))
        <4>1. Annotated(mem[c], "failed") \in Object
          BY <1>1, AnnotatedType
        <4>2. base[c] = api[c] /\ api'[c].succeeded = mem[c].succeeded
          BY <1>1, <3>1, <3>2, <4>1, UpdateObjectEffect
        <4>3. api'[c].succeeded = api[c].succeeded
          BY <2>1, <4>2 DEF Recorded, AnnotationsAreBase
        <4> QED
          BY <2>1, <2>2, <4>3, AnnotateEffect DEF Fails
      <3>3. CASE ~UpdateObject(c, Annotated(mem[c], "failed"))
        <4>1. api' = [api EXCEPT ![c] = Annotated(api[c], "failed")]
          BY <2>2, <3>3 DEF Annotate
        <4>2. api'[c].succeeded = api[c].succeeded
          <5> HIDE DEF Annotated
          <5> QED
            BY <1>1, <3>1, <4>1
        <4> QED
          BY <2>1, <2>2, <4>2, AnnotateEffect DEF Fails
      <3> QED
        BY <3>2, <3>3
    <2> QED
      BY <1>8, <2>2 DEF RecordFailed
  <1> QED
    BY <1>2, <1>3, <1>4, <1>5, <1>6, <1>7, <1>8 DEF ReconcileStep

\* The answer to the call, and nothing else of a handler, shows in the promise.
LEMMA HandlerRecords ==
    ASSUME NEW c \in CRs, Reconcile(c), ~(ReconcileStep(c) /\ UNCHANGED machineVars)
    PROVE  /\ api' = api
           /\ \/ acknowledged' = acknowledged
              \/ pc[c] \in {"applyCreate", "applyUpdate"} /\ acknowledged' = acknowledged \cup {c}
  BY DEF Reconcile, ConnectFails, Observe, ObserveReturns, PrepareApply, ApplyConfiguration,
     ApplyFails, CallReturns, CreateReturns, UpdateReturns, Delete, DeleteReturns, Fail, machineVars

LEMMA ReconcileSimulated ==
    ASSUME PromiseInvariant, NEW c \in CRs, Reconcile(c), Complete' = Complete
    PROVE  [Promise!Next]_(Promise!vars)
  <1>1. TypeOK /\ \A d \in Complete : d \in CRs /\ Recorded(d)
    BY DEF PromiseInvariant, ApplyInvariant, ApplyTypeOK, Complete
  <1>2. \A d \in Complete \ {c} : SameRecords(d)
    BY <1>1, OthersUntouched DEF Untouched, SameRecords
  <1>3. CASE c \notin Complete \/ SameRecords(c)
    BY <1>2, <1>3, SameRecordsStutter
  <1>4. CASE c \in Complete /\ ReconcileStep(c) /\ UNCHANGED machineVars
    <2>1. acknowledged' = acknowledged /\ Answered' = Answered
      BY <1>4 DEF machineVars, Answered
    <2>2. CASE Intends(c)
      <3>1. Log' = [Log EXCEPT ![c] = "pending"] /\ Logged' = Logged
        BY <1>2, <1>4, <2>2, LogWritten DEF Intends
      <3>2. Log[c] # "pending" /\ c \notin Logged
        BY <1>4, <2>2 DEF Intends, Log, Logged
      <3>3. Promise!Intend(c)
        BY <2>1, <3>1, <3>2 DEF Promise!Intend, Promise!Write, Log, Logged, Answered
      <3> QED
        BY <3>3 DEF Promise!Next
    <2>3. CASE Succeeds(c)
      <3>1. Log' = [Log EXCEPT ![c] = "succeeded"] /\ Logged' = Logged \cup {c}
        BY <1>2, <1>4, <2>3, LogWritten DEF Succeeds
      <3>2. Log[c] = "pending" /\ c \in Answered
        BY <1>4, <2>3 DEF Succeeds, PromiseInvariant, CreatedWasAnswered, Log, Answered
      <3>3. Promise!Succeed(c)
        BY <2>1, <3>1, <3>2 DEF Promise!Succeed, Promise!Write, Log, Logged, Answered
      <3> QED
        BY <3>3 DEF Promise!Next
    <2>4. CASE Fails(c)
      <3>1. Log' = [Log EXCEPT ![c] = "failed"] /\ Logged' = Logged
        BY <1>2, <1>4, <2>4, LogWritten DEF Fails
      <3>2. Log[c] = "pending" /\ c \notin Answered
        BY <1>4, <2>4 DEF Fails, Log, Answered
      <3>3. Promise!GiveUp(c)
        BY <2>1, <3>1, <3>2 DEF Promise!GiveUp, Promise!Write, Log, Logged, Answered
      <3> QED
        BY <3>3 DEF Promise!Next
    <2> QED
      BY <1>1, <1>3, <1>4, <2>1, <2>2, <2>3, <2>4, RecordsWritten DEF SameRecords
  <1>5. CASE c \in Complete /\ ~(ReconcileStep(c) /\ UNCHANGED machineVars) /\ ~SameRecords(c)
    <2>1. /\ api' = api /\ acknowledged' = acknowledged \cup {c} /\ c \notin acknowledged
          /\ pc[c] \in {"applyCreate", "applyUpdate"}
      BY <1>5, HandlerRecords DEF SameRecords
    <2>2. Log' = Log /\ Logged' = Logged /\ Answered' = Answered \cup {c}
      BY <1>5, <2>1 DEF Log, Logged, Answered
    <2>3. Log[c] = "pending" /\ c \notin Answered
      BY <1>1, <1>5, <2>1 DEF Recorded, UpToDateOnceThere, CreateIsPending, Log, Answered
    <2>4. Promise!Answer(c)
      BY <2>2, <2>3 DEF Promise!Answer, Log, Logged, Answered
    <2> QED
      BY <2>4 DEF Promise!Next
  <1> QED
    BY <1>3, <1>4, <1>5

LEMMA StepSimulated ==
    ASSUME PromiseInvariant, [Next]_vars
    PROVE  [Promise!Next]_(Promise!vars)
  <1>1. Complete' = Complete
    BY ValidIsKept DEF Complete
  <1>2. CASE \E c \in CRs : Reconcile(c)
    BY <1>1, <1>2, ReconcileSimulated
  <1>3. CASE ~\E c \in CRs : Reconcile(c)
    <2>1. acknowledged' = acknowledged
      BY <1>3 DEF Next, SourceChanges, CrashRequests, MachineStep, machineVars, vars
    <2>2. CASE api' = api
      BY <1>1, <2>1, <2>2, SameRecordsStutter DEF SameRecords
    <2>3. CASE \E c \in CRs : RequestDelete(c)
      <3>1. api \in [CRs -> Object] /\ Complete \subseteq CRs
        BY DEF PromiseInvariant, ApplyInvariant, ApplyTypeOK, TypeOK, Complete
      <3>2. \A d \in Complete : SameRecords(d)
        BY <2>1, <2>3, <3>1 DEF RequestDelete, SameRecords, Object
      <3> QED
        BY <1>1, <3>2, SameRecordsStutter
    <2> QED
      BY <1>3, <2>2, <2>3 DEF Next, CacheSync, ConnSync, SourceChanges, CrashRequests, Crash,
         Start, MachineStep, vars
  <1> QED
    BY <1>2, <1>3

LEMMA AnsweredStep ==
    ASSUME ApplyInvariant, CreatedWasAnswered, [Next]_vars
    PROVE  CreatedWasAnswered'
  <1> USE DEF Goto, Fail, Finish
  <1>1. TypeOK
    BY DEF ApplyInvariant, ApplyTypeOK
  <1>2. ASSUME NEW c \in CRs, Reconcile(c)
        PROVE  CreatedWasAnswered'
    <2>1. pc'[c] = "created" => c \in acknowledged'
      <3>1. CASE ReconcileStep(c)
        BY <1>1, <3>1 DEF TypeOK, ReconcileStep, Begin, PublishObserved, AddFinalizer, SetPending,
           RecordSucceeded, RecordFailed, PublishCreated, PublishUpdated, Unfinalize,
           WriteStatus, LoseStatus
      <3>2. CASE ApplyConfiguration(c)
        BY <1>1, <3>2 DEF TypeOK, ApplyConfiguration, ApplyFails, CallReturns, CreateReturns,
           UpdateReturns
      <3>3. CASE ConnectFails(c) \/ Observe(c) \/ PrepareApply(c) \/ Delete(c)
        BY <1>1, <3>3 DEF TypeOK, ConnectFails, Observe, ObserveReturns, PrepareApply, ApplyFails,
           Delete, DeleteReturns
      <3> QED
        BY <1>2, <3>1, <3>2, <3>3 DEF Reconcile
    <2>2. \A d \in CRs \ {c} : pc'[d] = pc[d] /\ (d \in acknowledged' <=> d \in acknowledged)
      BY <1>1, <1>2, OthersUntouched DEF Untouched
    <2> QED
      BY <2>1, <2>2 DEF CreatedWasAnswered
  <1>3. CASE ~\E c \in CRs : Reconcile(c)
    <2>1. acknowledged' = acknowledged
      BY <1>3 DEF Next, SourceChanges, CrashRequests, MachineStep, machineVars, vars
    <2>2. \A d \in CRs : pc'[d] = pc[d] \/ pc'[d] \in {"down", "idle"}
      BY <1>3 DEF Next, CacheSync, ConnSync, RequestDelete, SourceChanges, CrashRequests, Crash,
         Start, MachineStep, vars
    <2> QED
      BY <2>1, <2>2 DEF CreatedWasAnswered
  <1> QED
    BY <1>2, <1>3

\* ConfigurationApply implements OneShot, too: for a complete configuration what the
\* API server holds goes from intent over call to outcome as OneShot says, through every
\* crash, stale cache, failed write, lost answer, reboot and reset of the machine, and
\* for any number of resources that share one.
THEOREM PromiseIsKept == Spec => KeepsThePromise
  <1>1. Init => CreatedWasAnswered
    BY DEF Init, ReconcilerInit, CreatedWasAnswered
  <1>2. Init => Promise!Init
    <2> SUFFICES ASSUME Init PROVE Promise!Init
      OBVIOUS
    <2>1. Log = [c \in CRs |-> "none"] /\ Logged = {} /\ Answered = {}
      BY DEF Init, ReconcilerInit, NewObject, Complete, Log, Logged, Answered
    <2> QED
      BY <2>1 DEF Promise!Init, Log, Logged, Answered
  <1>3. Spec => []CreatedWasAnswered
    BY <1>1, AnsweredStep, RecordsAgree, PTL DEF Spec
  <1> QED
    BY <1>2, <1>3, StepSimulated, RecordsAgree, PTL
    DEF Spec, PromiseInvariant, Promise!Spec, KeepsThePromise

----------------------------------------------------------------------------
(* AppliedMeansConfigured *)

HasConfig(m) == m.config # NoConfig \/ m.staged # NoConfig

Claims(object) == object.status.applied \/ object.succeeded

\* Whoever says that the configuration was applied, wherever he says it, is right.
Founded(c) ==
    \/ HasConfig(MachineState(c))
    \/ /\ ~Claims(api[c]) /\ ~Claims(cache[c]) /\ ~Claims(base[c]) /\ ~Claims(mem[c])
       /\ pc[c] # "created"

\* A machine that left maintenance mode has a configuration.
MachineHasConfig(n) == machine[n].mode # "maintenance" => HasConfig(machine[n])

FoundedInvariant ==
    /\ ApplyTypeOK
    /\ \A n \in Machines : MachineHasConfig(n)
    /\ \A c \in CRs : Founded(c)

\* Without a reset a machine never loses its configuration.
LEMMA ConfigIsKept ==
    ASSUME TypeOK, "reset" \notin Env, [Next]_vars, NEW n \in Machines, MachineHasConfig(n)
    PROVE  /\ HasConfig(machine[n]) => HasConfig(machine'[n])
           /\ MachineHasConfig(n)'
  <1>1. CASE machine'[n] = machine[n]
    BY <1>1 DEF MachineHasConfig, HasConfig
  <1>2. CASE \E c \in CRs : ApplyConfiguration(c) /\ MachineTakes(c)
    <2>1. PICK c \in CRs : ApplyConfiguration(c) /\ MachineTakes(c)
      BY <1>2
    <2>2. request[c].config # NoConfig /\ MachineOf[c] \in Machines
      <3>1. request[c] \in Request
        BY <2>1 DEF ApplyConfiguration, TypeOK
      <3> QED
        BY <3>1, ConfigurationApplyAssumption DEF Request
    <2> DEFINE mode == GetConfigurationApplyMode(spec[c].mode)
    <2>3. PICK m \in Taken(MachineState(c), request[c].config, mode) :
              machine' = [machine EXCEPT ![MachineOf[c]] = m]
      BY <2>1 DEF MachineTakes
    <2>4. MachineState(c) \in Machine
      BY <2>2 DEF MachineState, TypeOK
    <2> HIDE DEF mode
    <2>5. HasConfig(m)
      BY <2>2, <2>3, <2>4 DEF Taken, HasConfig, Machine
    <2> QED
      BY <2>2, <2>3, <2>5 DEF HasConfig, MachineHasConfig, TypeOK
  <1>3. CASE MachineStep(n)
    <2>1. machine[n] \in Machine
      BY DEF TypeOK
    <2>2. CASE Boot(n)
      <3>1. HasConfig(machine[n])
        BY <2>2 DEF Boot, MachineHasConfig
      <3>2. machine'[n].config # NoConfig
        <4> DEFINE next == IF machine[n].staged = NoConfig THEN machine[n].config
                           ELSE machine[n].staged
        <4>1. machine' = [machine EXCEPT ![n] = [mode |-> "running", config |-> next,
                                                 staged |-> NoConfig]]
          BY <2>2 DEF Boot
        <4>2. next # NoConfig
          BY <3>1 DEF HasConfig
        <4> HIDE DEF next
        <4> QED
          BY <4>1, <4>2 DEF TypeOK
      <3> QED
        BY <3>2 DEF HasConfig, MachineHasConfig
    <2>3. CASE Reboot(n)
      <3>1. machine'[n] = [machine[n] EXCEPT !.mode = "rebooting"] /\ HasConfig(machine[n])
        BY <2>3 DEF Reboot, MachineHasConfig, TypeOK
      <3> QED
        BY <2>1, <3>1 DEF HasConfig, MachineHasConfig, Machine
    <2>4. ~Reset(n)
      BY DEF Reset
    <2> QED
      BY <1>3, <2>2, <2>3, <2>4 DEF MachineStep
  <1>4. CASE \E k \in Machines : MachineStep(k)
    <2>1. PICK k \in Machines : MachineStep(k)
      BY <1>4
    <2>2. k # n => machine'[n] = machine[n]
      BY <2>1 DEF MachineStep, Boot, Reboot, Reset, TypeOK
    <2> QED
      BY <1>1, <1>3, <2>1, <2>2
  <1>5. CASE ~(\E k \in Machines : MachineStep(k)) /\ ~(\E c \in CRs : ApplyConfiguration(c))
    BY <1>1, <1>5 DEF Next, Reconcile, ConnectFails, Observe, PrepareApply, Delete, SourceChanges,
       CrashRequests, machineVars, vars
  <1>6. CASE \E c \in CRs : ApplyConfiguration(c) /\ ~MachineTakes(c)
    BY <1>1, <1>6 DEF ApplyConfiguration
  <1> QED
    BY <1>1, <1>2, <1>4, <1>5, <1>6

\* Nobody says so.
Unclaimed(c) ==
    /\ ~Claims(api[c]) /\ ~Claims(cache[c]) /\ ~Claims(base[c]) /\ ~Claims(mem[c])
    /\ pc[c] # "created"

LEMMA UpdateObjectUnclaimed ==
    ASSUME TypeOK, NEW c \in CRs, NEW object \in Object, UpdateObject(c, object),
           ~Claims(object), ~Claims(api[c])
    PROVE  ~Claims(api'[c]) /\ ~Claims(base'[c]) /\ ~Claims(mem'[c])
  <1>1. ~Claims(Stored(c, object)) /\ ~Claims([object EXCEPT !.ready = api[c].ready])
    BY DEF Stored, Claims, Object
  <1>2. \A o \in Decoded(c, object) : ~Claims(o)
    BY <1>1 DEF Decoded
  <1> QED
    BY <1>1, <1>2 DEF UpdateObject, TypeOK

LEMMA ReconcileStepUnclaimed ==
    ASSUME TypeOK, NEW c \in CRs, Unclaimed(c), ReconcileStep(c)
    PROVE  Unclaimed(c)'
  <1> USE DEF TypeOK, Goto, Fail, Finish, Unclaimed
  <1>1. mem[c] \in Object /\ api[c] \in Object /\ ~Claims(NewObject)
    BY DEF Claims, NewObject, InitStatus
  <1>2. CASE Begin(c)
    BY <1>2 DEF Begin, Claims
  <1>3. CASE PublishObserved(c) \/ PublishCreated(c) \/ PublishUpdated(c)
    BY <1>3 DEF PublishObserved, PublishCreated, PublishUpdated, Claims
  <1>4. CASE AddFinalizer(c)
    <2> DEFINE object == [mem[c] EXCEPT !.finalizer = TRUE]
    <2>1. object \in Object /\ ~Claims(object)
      BY <1>1, FinalizerUpdate DEF Claims, Object
    <2> HIDE DEF object
    <2>2. CASE UpdateObject(c, object)
      <3>1. ~Claims(api'[c]) /\ ~Claims(base'[c]) /\ ~Claims(mem'[c])
        BY <2>1, <2>2, UpdateObjectUnclaimed
      <3> QED
        BY <1>4, <3>1 DEF AddFinalizer, Claims
    <2>3. CASE UNCHANGED <<api, base, mem>>
      BY <1>4, <2>3 DEF AddFinalizer, Claims
    <2> QED
      BY <1>4, <2>2, <2>3 DEF AddFinalizer, object
  <1>5. CASE SetPending(c)
    <2> DEFINE object == [mem[c] EXCEPT !.latest = "pending"]
    <2>1. object \in Object /\ ~Claims(object)
      BY <1>1, LatestUpdate DEF Claims, Object
    <2> HIDE DEF object
    <2>2. CASE UpdateObject(c, object) /\ Goto(c, "create")
      <3>1. ~Claims(api'[c]) /\ ~Claims(base'[c]) /\ ~Claims(mem'[c])
        BY <2>1, <2>2, UpdateObjectUnclaimed
      <3> QED
        BY <1>5, <2>2, <3>1 DEF SetPending, Claims
    <2>3. CASE Fail(c, "creating")
      BY <1>5, <2>3 DEF SetPending, Claims
    <2> QED
      BY <1>5, <2>2, <2>3 DEF SetPending, object
  <1>6. CASE RecordSucceeded(c)
    BY <1>6 DEF RecordSucceeded
  <1>7. CASE RecordFailed(c)
    <2>1. CASE Annotate(c, "failed") /\ Goto(c, "creating")
      <3>1. ASSUME NEW o \in Object, ~Claims(o)
            PROVE  Annotated(o, "failed") \in Object /\ ~Claims(Annotated(o, "failed"))
        <4> DEFINE b == o.succeeded \/ "failed" = "succeeded"
        <4>1. Annotated(o, "failed") = [o EXCEPT !.latest = "failed", !.succeeded = b]
          BY DEF Annotated
        <4>2. ~b
          BY <3>1 DEF Claims
        <4> HIDE DEF b
        <4>3. Annotated(o, "failed").succeeded = b /\ Annotated(o, "failed").status = o.status
          BY <4>1 DEF Object
        <4> QED
          BY <3>1, <4>2, <4>3, AnnotatedType DEF Claims
      <3>2. ~Claims(api'[c]) /\ ~Claims(base'[c]) /\ ~Claims(mem'[c])
        <4>1. CASE UpdateObject(c, Annotated(mem[c], "failed"))
          BY <1>1, <3>1, <4>1, UpdateObjectUnclaimed
        <4>2. CASE ~UpdateObject(c, Annotated(mem[c], "failed"))
          <5> DEFINE object == Annotated(api[c], "failed")
          <5>1. ~Claims(object)
            BY <1>1, <3>1
          <5>2. /\ api' = [api EXCEPT ![c] = object]
                /\ base' = [base EXCEPT ![c] = object]
                /\ mem' = [mem EXCEPT ![c] = object]
            BY <2>1, <4>2 DEF Annotate
          <5> HIDE DEF object
          <5> QED
            BY <5>1, <5>2
        <4> QED
          BY <4>1, <4>2
      <3> QED
        BY <1>7, <2>1, <3>2 DEF RecordFailed, Claims
    <2>2. CASE Fail(c, "creating")
      BY <1>7, <2>2 DEF RecordFailed, Claims
    <2> QED
      BY <1>7, <2>1, <2>2 DEF RecordFailed
  <1>8. CASE Unfinalize(c)
    <2>1. ~Claims(api'[c])
      <3>1. \/ api'[c] = api[c]
            \/ api'[c] = [api[c] EXCEPT !.life = "gone", !.finalizer = FALSE]
        BY <1>8 DEF Unfinalize
      <3>2. api'[c].status = api[c].status /\ api'[c].succeeded = api[c].succeeded
        BY <1>1, <3>1 DEF Object
      <3> QED
        BY <3>2 DEF Claims
    <2>2. CASE Finish(c)
      BY <1>1, <1>8, <2>1, <2>2 DEF Unfinalize
    <2>3. CASE Fail(c, "status")
      BY <1>8, <2>1, <2>3 DEF Unfinalize, Claims
    <2> QED
      BY <1>8, <2>2, <2>3 DEF Unfinalize
  <1>9. CASE WriteStatus(c)
    <2>1. api'[c].status = mem[c].status /\ api'[c].succeeded = api[c].succeeded
      BY <1>1, <1>9 DEF WriteStatus, Object
    <2>2. ~Claims(api'[c])
      BY <2>1 DEF Claims
    <2> QED
      BY <1>1, <1>9, <2>2 DEF WriteStatus
  <1>10. CASE LoseStatus(c)
    BY <1>1, <1>10 DEF LoseStatus
  <1> QED
    BY <1>2, <1>3, <1>4, <1>5, <1>6, <1>7, <1>8, <1>9, <1>10 DEF ReconcileStep

\* The resource's own worker finds nothing to claim in a machine without a configuration.
LEMMA HandlerUnclaimed ==
    ASSUME TypeOK, NEW c \in CRs, Unclaimed(c), MachineHasConfig(MachineOf[c]),
           ~HasConfig(MachineState(c)), Reconcile(c), ~ReconcileStep(c)
    PROVE  Unclaimed(c)' \/ HasConfig(MachineState(c))'
  <1> USE DEF TypeOK, Goto, Fail, machineVars, Unclaimed
  <1>1. mem[c] \in Object
    OBVIOUS
  <1>2. CASE ConnectFails(c) \/ Delete(c)
    BY <1>2 DEF ConnectFails, Delete, DeleteReturns, Claims
  <1>3. CASE Observe(c)
    <2>1. PICK state \in CheckMachineState(c) :
            ObserveReturns(c, Observed(mem[c], state),
                           ObservationState(state, ResolveAppliedStatus(mem[c]),
                                            HasValidMachineConfig(c)))
      BY <1>3 DEF Observe
    <2>2. state # "Configured"
      <3>1. MachineState(c).mode # "running"
        BY DEF MachineHasConfig, MachineState
      <3>2. CanConnectWithCreds(c) = {FALSE}
        BY <3>1 DEF CanConnectWithCreds
      <3> QED
        BY <2>1, <3>2 DEF CheckMachineState
    <2> DEFINE object == Observed(mem[c], state)
               observation == ObservationState(state, ResolveAppliedStatus(mem[c]),
                                               HasValidMachineConfig(c))
    <2>3. ~Claims(object)
      BY <1>1, <2>2 DEF Claims, Observed, ResolveAppliedStatus, Object
    <2>4. ObserveReturns(c, object, observation)
      BY <2>1
    <2> HIDE DEF object, observation
    <2> QED
      BY <2>3, <2>4 DEF ObserveReturns, Claims
  <1>4. CASE PrepareApply(c)
    BY <1>4 DEF PrepareApply, ApplyFails, Claims
  <1>5. CASE ApplyConfiguration(c) /\ MachineTakes(c)
    <2>1. request[c].config # NoConfig /\ MachineOf[c] \in Machines
      BY <1>5, ConfigurationApplyAssumption DEF ApplyConfiguration, Request
    <2> DEFINE mode == GetConfigurationApplyMode(spec[c].mode)
    <2>2. PICK m \in Taken(MachineState(c), request[c].config, mode) :
              machine' = [machine EXCEPT ![MachineOf[c]] = m]
      BY <1>5 DEF MachineTakes
    <2>3. MachineState(c) \in Machine
      BY <2>1 DEF MachineState
    <2> HIDE DEF mode
    <2>4. HasConfig(m)
      BY <2>1, <2>2, <2>3 DEF Taken, HasConfig, Machine
    <2> QED
      BY <2>1, <2>2, <2>4 DEF HasConfig, MachineState
  <1>6. CASE ApplyConfiguration(c) /\ ~MachineTakes(c)
    BY <1>6 DEF ApplyConfiguration, ApplyFails, Claims
  <1> QED
    BY <1>2, <1>3, <1>4, <1>5, <1>6 DEF Reconcile

LEMMA EnvironmentUnclaimed ==
    ASSUME TypeOK, NEW d \in CRs, Unclaimed(d), [Next]_vars, ~\E c \in CRs : Reconcile(c)
    PROVE  Unclaimed(d)'
  <1> USE DEF TypeOK, Unclaimed
  <1>1. CASE \E c \in CRs : CacheSync(c) \/ ConnSync(c)
    BY <1>1 DEF CacheSync, ConnSync, Claims
  <1>2. CASE \E c \in CRs : RequestDelete(c)
    <2>1. PICK c \in CRs : RequestDelete(c)
      BY <1>2
    <2>2. api'[d].status = api[d].status /\ api'[d].succeeded = api[d].succeeded
      BY <2>1 DEF RequestDelete, Object
    <2> QED
      BY <2>1, <2>2 DEF RequestDelete, Claims
  <1>3. CASE CrashRequests
    BY <1>3 DEF CrashRequests, Crash, Claims, NewObject, InitStatus
  <1>4. CASE Start
    BY <1>4 DEF Start, Claims
  <1>5. CASE \/ \E c \in CRs : SourceChanges(c)
             \/ \E n \in Machines : MachineStep(n)
             \/ UNCHANGED vars
    BY <1>5 DEF SourceChanges, MachineStep, vars, Claims
  <1> QED
    BY <1>1, <1>2, <1>3, <1>4, <1>5 DEF Next

\* A resource that says Applied has a machine that holds some configuration:
\* AppliedMeansConfigured of the runs, for every instance in which nobody resets a
\* machine and every other fault, failed writes and stale caches included.
THEOREM AppliedIsFounded ==
    ASSUME "reset" \notin Env
    PROVE  Spec => []AppliedMeansConfigured
  <1>1. Init => FoundedInvariant
    <2> SUFFICES ASSUME Init
                 PROVE  (\A n \in Machines : MachineHasConfig(n)) /\ \A c \in CRs : Founded(c)
      BY ApplyInit DEF FoundedInvariant
    <2>1. ASSUME NEW n \in Machines
          PROVE  MachineHasConfig(n)
      BY ConfigurationApplyAssumption DEF Init, InMaintenance, MachineHasConfig, HasConfig
    <2>2. ASSUME NEW c \in CRs
          PROVE  Founded(c)
      BY DEF Init, ReconcilerInit, Founded, Claims, NewObject, InitStatus
    <2> QED
      BY <2>1, <2>2
  <1>2. FoundedInvariant /\ [Next]_vars => FoundedInvariant'
    <2> SUFFICES ASSUME FoundedInvariant, [Next]_vars
                 PROVE  FoundedInvariant'
      OBVIOUS
    <2>1. TypeOK /\ ApplyTypeOK
      BY DEF FoundedInvariant, ApplyTypeOK
    <2>2. ASSUME NEW n \in Machines
          PROVE  /\ HasConfig(machine[n]) => HasConfig(machine'[n])
                 /\ MachineHasConfig(n)'
      BY <2>1, ConfigIsKept DEF FoundedInvariant
    <2>3. ASSUME NEW d \in CRs
          PROVE  Founded(d)'
      <3>1. MachineOf[d] \in Machines
        BY ConfigurationApplyAssumption
      <3>2. CASE HasConfig(MachineState(d))
        BY <2>2, <3>1, <3>2 DEF Founded, MachineState
      <3>3. CASE ~HasConfig(MachineState(d))
        <4>1. Unclaimed(d) /\ MachineHasConfig(MachineOf[d])
          BY <3>1, <3>3 DEF FoundedInvariant, Founded, Unclaimed
        <4>2. CASE ~\E c \in CRs : Reconcile(c)
          <5>1. Unclaimed(d)'
            BY <2>1, <4>1, <4>2, EnvironmentUnclaimed
          <5> QED
            BY <5>1 DEF Unclaimed, Founded
        <4>3. CASE Reconcile(d)
          <5>1. Unclaimed(d)' \/ HasConfig(MachineState(d))'
            BY <2>1, <3>3, <4>1, <4>3, ReconcileStepUnclaimed, HandlerUnclaimed
          <5> QED
            BY <5>1 DEF Unclaimed, Founded
        <4>4. ASSUME NEW c \in CRs, Reconcile(c), c # d
              PROVE  Founded(d)'
          <5>1. Untouched(d)
            BY <2>1, <4>4, OthersUntouched
          <5>2. cache' = cache
            BY <4>4 DEF Reconcile, ReconcileStep, Begin, PublishObserved, AddFinalizer, SetPending,
               RecordSucceeded, RecordFailed, PublishCreated, PublishUpdated, Unfinalize,
               WriteStatus, LoseStatus, ConnectFails, Observe, ObserveReturns, PrepareApply,
               ApplyConfiguration, ApplyFails, CallReturns, CreateReturns, UpdateReturns,
               Delete, DeleteReturns
          <5> QED
            BY <4>1, <5>1, <5>2 DEF Untouched, Unclaimed, Founded, Claims
        <4> QED
          BY <4>2, <4>3, <4>4
      <3> QED
        BY <3>2, <3>3
    <2> QED
      BY <2>1, <2>2, <2>3, ApplyStep DEF FoundedInvariant
  <1>3. FoundedInvariant => AppliedMeansConfigured
    BY DEF FoundedInvariant, Founded, Claims, HasConfig, AppliedMeansConfigured
  <1> QED
    BY <1>1, <1>2, <1>3, PTL DEF Spec

----------------------------------------------------------------------------
(* UnreachableNotReady *)

\* A Ready that was stored, or is read from a copy, was earned: its resource is known
\* to be applied and has its finalizer, which is stored before the first Ready.
Earned(object) == object.ready = "true" => ResolveAppliedStatus(object) /\ object.finalizer

\* The condition of an object agrees with the state in its status.
Agrees(object) == object.status.machineState = "Unreachable" => object.ready # "true"

\* A reconcile works on the version its writes are based on.
SameVersion(c) ==
    /\ mem[c].life = base[c].life
    /\ mem[c].finalizer = base[c].finalizer
    /\ mem[c].succeeded = base[c].succeeded

\* A Ready in memory is stored after the finalizer, or not at all.
FinalizerFirst(c) == base[c].finalizer \/ (base[c] # api[c] /\ base[c].life = "live")

\* Of what Observe found, until the reconcile ends or turns to Create, whose end never
\* stores a Ready.
FoundAgrees(c) ==
    /\ pc[c] = "observe" => mem[c] = base[c]
    /\ pc[c] \in {"publish", "finalizer", "update", "applyUpdate", "publishUpdated",
                  "unfinalize", "status"} =>
          Agrees(mem[c]) /\ (mem[c].ready = "true" => ResolveAppliedStatus(mem[c]))
    /\ pc[c] \in {"publish", "finalizer"} => base[c].life = "live"
    /\ pc[c] \in {"update", "applyUpdate", "publishUpdated"} => base[c].finalizer
    /\ pc[c] = "unfinalize" => mem[c].ready # "true" /\ base[c].ready # "true"
    /\ pc[c] = "status" /\ mem[c].ready = "true" => FinalizerFirst(c)

Coherent(c) ==
    /\ \A object \in {api[c], cache[c], base[c]} : Earned(object) /\ Agrees(object)
    /\ SameVersion(c)
    /\ FoundAgrees(c)

\* On the way to the end of Create nothing but the stored object counts.
OnCreatePath(c) == pc[c] \in {"pending", "create", "applyCreate", "created", "failed",
                              "publishCreated", "delete", "creating", "idle", "down"}

LEMMA CreatePathCoherent ==
    ASSUME NEW c \in CRs, OnCreatePath(c)', SameVersion(c)',
           \A object \in {api'[c], cache'[c], base'[c]} : Earned(object) /\ Agrees(object)
    PROVE  Coherent(c)'
  BY DEF OnCreatePath, Coherent, FoundAgrees, Earned, Agrees

\* Both read a few parts of an object.
LEMMA SameEarned ==
    ASSUME NEW o, NEW p, Earned(o), Agrees(o), p.ready = o.ready, p.status = o.status,
           o.succeeded => p.succeeded, o.finalizer => p.finalizer
    PROVE  Earned(p) /\ Agrees(p)
  BY DEF Earned, Agrees, ResolveAppliedStatus

LEMMA NewObjectEarned == Earned(NewObject) /\ Agrees(NewObject)
  BY DEF Earned, Agrees, NewObject

\* What an update stores, and what its response leaves in memory.
LEMMA UpdateObjectReady ==
    ASSUME TypeOK, NEW c \in CRs, NEW object \in Object, UpdateObject(c, object), Coherent(c),
           api[c].succeeded => object.succeeded, api[c].finalizer => object.finalizer
    PROVE  /\ base[c] = api[c] /\ SameVersion(c)'
           /\ api'[c] = base'[c] /\ Earned(api'[c]) /\ Agrees(api'[c])
           /\ base'[c].finalizer = object.finalizer
           /\ mem'[c].succeeded = object.succeeded
           /\ \/ mem'[c].ready = api[c].ready
              \/ mem'[c].ready = object.ready /\ mem'[c].status = object.status
  <1>1. api[c].ready \in {"none", "true", "false"} /\ api[c].status \in Status
    BY ObjectFields DEF TypeOK
  <1> DEFINE stored == Stored(c, object)
             answered == [object EXCEPT !.ready = api[c].ready]
  <1>2. /\ stored.ready = api[c].ready /\ stored.status = api[c].status
        /\ stored.life = object.life /\ stored.finalizer = object.finalizer
        /\ stored.succeeded = object.succeeded
    BY <1>1 DEF Stored, Object
  <1>3. /\ answered.ready = api[c].ready /\ answered.succeeded = object.succeeded
        /\ answered.life = object.life /\ answered.finalizer = object.finalizer
    BY <1>1 DEF Object
  <1>4. Decoded(c, object) \subseteq {object, answered, stored}
    BY DEF Decoded
  <1>5. /\ base[c] = api[c]
        /\ api' = [api EXCEPT ![c] = stored] /\ base' = [base EXCEPT ![c] = stored]
        /\ \E o \in {object, answered, stored} : mem' = [mem EXCEPT ![c] = o]
    BY <1>4 DEF UpdateObject
  <1>6. Earned(stored) /\ Agrees(stored)
    BY <1>2, SameEarned DEF Coherent
  <1> HIDE DEF stored, answered
  <1>7. PICK o \in {object, answered, stored} : mem' = [mem EXCEPT ![c] = o]
    BY <1>5
  <1>8. api'[c] = stored /\ base'[c] = stored /\ mem'[c] = o
    BY <1>5, <1>7 DEF TypeOK
  <1>9. SameVersion(c)'
    BY <1>2, <1>3, <1>8 DEF SameVersion
  <1> QED
    BY <1>2, <1>3, <1>5, <1>6, <1>8, <1>9

LEMMA AnnotateReady ==
    ASSUME TypeOK, NEW c \in CRs, NEW outcome \in {"succeeded", "failed"}, Annotate(c, outcome),
           Coherent(c)
    PROVE  api'[c] = base'[c] /\ SameVersion(c)' /\ Earned(api'[c]) /\ Agrees(api'[c])
  <1>1. mem[c] \in Object /\ api[c] \in Object /\ base[c] \in Object
    BY DEF TypeOK
  <1>2. ASSUME NEW o \in Object
        PROVE  /\ Annotated(o, outcome).ready = o.ready /\ Annotated(o, outcome).status = o.status
               /\ Annotated(o, outcome).finalizer = o.finalizer
               /\ o.succeeded => Annotated(o, outcome).succeeded
    BY DEF Annotated, Object
  <1>3. CASE UpdateObject(c, Annotated(mem[c], outcome))
    <2>1. mem[c].succeeded = api[c].succeeded /\ mem[c].finalizer = api[c].finalizer
      BY <1>3 DEF Coherent, SameVersion, UpdateObject
    <2>2. /\ Annotated(mem[c], outcome) \in Object
          /\ api[c].succeeded => Annotated(mem[c], outcome).succeeded
          /\ api[c].finalizer => Annotated(mem[c], outcome).finalizer
      BY <1>1, <1>2, <2>1, AnnotatedType
    <2> QED
      BY <1>3, <2>2, UpdateObjectReady
  <1>4. CASE ~UpdateObject(c, Annotated(mem[c], outcome))
    <2> DEFINE object == Annotated(api[c], outcome)
    <2>1. /\ api' = [api EXCEPT ![c] = object] /\ base' = [base EXCEPT ![c] = object]
          /\ mem' = [mem EXCEPT ![c] = object]
      BY <1>4 DEF Annotate
    <2>2. Earned(object) /\ Agrees(object)
      BY <1>1, <1>2, SameEarned DEF Coherent
    <2> HIDE DEF object
    <2> QED
      BY <2>1, <2>2 DEF TypeOK, SameVersion
  <1> QED
    BY <1>3, <1>4

LEMMA FinalizerCoherent ==
    ASSUME TypeOK, NEW c \in CRs, Coherent(c), AddFinalizer(c), "writeError" \notin Env
    PROVE  Coherent(c)'
  <1> DEFINE object == [mem[c] EXCEPT !.finalizer = TRUE]
  <1>1. mem[c] \in Object
    BY DEF TypeOK
  <1>2. /\ object \in Object /\ object.finalizer /\ object.ready = mem[c].ready
        /\ object.status = mem[c].status /\ object.succeeded = mem[c].succeeded
    BY <1>1, FinalizerUpdate DEF Object
  <1> HIDE DEF object
  <1>3. /\ pc[c] = "finalizer" /\ cache' = cache /\ base[c].life = "live"
        /\ Agrees(mem[c]) /\ (mem[c].ready = "true" => ResolveAppliedStatus(mem[c]))
    BY DEF AddFinalizer, Fail, Coherent, FoundAgrees
  <1>4. CASE mem[c].finalizer
    <2>1. UNCHANGED <<api, base, mem>> /\ pc'[c] \in {"pending", "status", "update"}
      BY <1>3, <1>4 DEF AddFinalizer, Fail, Goto, TypeOK
    <2> QED
      BY <1>3, <1>4, <2>1 DEF Coherent, SameVersion, FoundAgrees, FinalizerFirst
  <1>5. CASE ~mem[c].finalizer /\ UpdateObject(c, object)
    <2>1. /\ base[c] = api[c] /\ ~api[c].finalizer /\ api[c].ready # "true"
          /\ api[c].succeeded = object.succeeded
      BY <1>2, <1>5 DEF UpdateObject, Coherent, SameVersion, Earned
    <2>2. /\ SameVersion(c)' /\ api'[c] = base'[c] /\ Earned(api'[c]) /\ Agrees(api'[c])
          /\ base'[c].finalizer /\ mem'[c].succeeded = object.succeeded
          /\ \/ mem'[c].ready = api[c].ready
             \/ mem'[c].ready = object.ready /\ mem'[c].status = object.status
      BY <1>2, <1>5, <2>1, UpdateObjectReady
    <2>3. Agrees(mem'[c]) /\ (mem'[c].ready = "true" => ResolveAppliedStatus(mem'[c]))
      BY <1>2, <1>3, <2>1, <2>2 DEF Agrees, ResolveAppliedStatus
    <2>4. pc'[c] \in {"pending", "status", "update"}
      BY <1>3 DEF AddFinalizer, Fail, Goto, TypeOK
    <2>5. Earned(cache'[c]) /\ Agrees(cache'[c])
      BY <1>3 DEF Coherent
    <2> QED
      BY <2>2, <2>3, <2>4, <2>5
      DEF Coherent, FoundAgrees, FinalizerFirst, Earned, Agrees, ResolveAppliedStatus
  <1>6. CASE WriteCanFail(c) /\ Fail(c, "status")
    <2>1. UNCHANGED <<api, base, mem>> /\ pc'[c] = "status" /\ base[c] # api[c]
      BY <1>6 DEF WriteCanFail, Fail, Goto, TypeOK
    <2> QED
      BY <1>3, <2>1 DEF Coherent, SameVersion, FoundAgrees, FinalizerFirst
  <1> QED
    BY <1>4, <1>5, <1>6 DEF AddFinalizer, object

LEMMA SetPendingCoherent ==
    ASSUME TypeOK, NEW c \in CRs, Coherent(c), SetPending(c)
    PROVE  Coherent(c)'
  <1> DEFINE object == [mem[c] EXCEPT !.latest = "pending"]
  <1>1. mem[c] \in Object
    BY DEF TypeOK
  <1>2. /\ object \in Object
        /\ object.succeeded = mem[c].succeeded /\ object.finalizer = mem[c].finalizer
    BY <1>1, LatestUpdate DEF Object
  <1> HIDE DEF object
  <1>3. cache' = cache /\ OnCreatePath(c)'
    BY DEF SetPending, Fail, Goto, TypeOK, OnCreatePath
  <1>4. CASE UpdateObject(c, object)
    <2>1. object.succeeded = api[c].succeeded /\ object.finalizer = api[c].finalizer
      BY <1>2, <1>4 DEF UpdateObject, Coherent, SameVersion
    <2>2. SameVersion(c)' /\ api'[c] = base'[c] /\ Earned(api'[c]) /\ Agrees(api'[c])
      BY <1>2, <1>4, <2>1, UpdateObjectReady
    <2> QED
      BY <1>3, <2>2, CreatePathCoherent DEF Coherent
  <1>5. CASE Fail(c, "creating")
    BY <1>3, <1>5, CreatePathCoherent DEF Fail, Coherent, SameVersion
  <1> QED
    BY <1>4, <1>5 DEF SetPending, object

LEMMA RecordCoherent ==
    ASSUME TypeOK, NEW c \in CRs, Coherent(c), RecordSucceeded(c) \/ RecordFailed(c)
    PROVE  Coherent(c)'
  <1>1. cache' = cache /\ OnCreatePath(c)'
    BY DEF RecordSucceeded, RecordFailed, Fail, Goto, TypeOK, OnCreatePath
  <1>2. CASE Annotate(c, "succeeded") \/ Annotate(c, "failed")
    <2>1. api'[c] = base'[c] /\ SameVersion(c)' /\ Earned(api'[c]) /\ Agrees(api'[c])
      BY <1>2, AnnotateReady
    <2> QED
      BY <1>1, <2>1, CreatePathCoherent DEF Coherent
  <1>3. CASE Fail(c, "creating")
    BY <1>1, <1>3, CreatePathCoherent DEF Fail, Coherent, SameVersion
  <1> QED
    BY <1>2, <1>3 DEF RecordSucceeded, RecordFailed

\* Without old caches, the cached copy of the Secret that a reconcile looks at before it
\* publishes is the Secret, unless that was deleted with its resource.
SecretCaughtUp(c) ==
    c \in WriteRef /\ pc[c] \in {"observe", "publish"}
        => connCache[c] = NoDetails \/ conn[c] = NoSecret

LEMMA SecretStep ==
    ASSUME TypeOK, "stale" \notin Env, NEW d \in CRs, SecretCaughtUp(d), [Next]_vars
    PROVE  SecretCaughtUp(d)'
  <1> USE DEF TypeOK, Goto, Fail, Finish
  <1>1. ASSUME NEW c \in CRs, Reconcile(c)
        PROVE  SecretCaughtUp(d)'
    <2>1. connCache' = connCache
      BY <1>1 DEF Reconcile, ReconcileStep, Begin, PublishObserved, AddFinalizer, SetPending,
         RecordSucceeded, RecordFailed, PublishCreated, PublishUpdated, Unfinalize, WriteStatus,
         LoseStatus, ConnectFails, Observe, ObserveReturns, PrepareApply, ApplyConfiguration,
         ApplyFails, CallReturns, CreateReturns, UpdateReturns, Delete, DeleteReturns
    <2>2. CASE c = d
      <3>1. \/ connCache[d] = conn[d] /\ conn' = conn
            \/ pc[d] = "observe" /\ conn' = conn
            \/ pc'[d] \notin {"observe", "publish"}
        BY <1>1, <2>2 DEF Reconcile, ReconcileStep, Begin, PublishObserved, AddFinalizer, SetPending,
           RecordSucceeded, RecordFailed, PublishCreated, PublishUpdated, Unfinalize, WriteStatus,
           LoseStatus, ConnectFails, Observe, ObserveReturns, PrepareApply, ApplyConfiguration,
           ApplyFails, CallReturns, CreateReturns, UpdateReturns, Delete, DeleteReturns
      <3> QED
        BY <2>1, <3>1 DEF SecretCaughtUp
    <2>3. CASE c # d
      <3>1. conn'[d] = conn[d]
        BY <1>1, <2>3 DEF Reconcile, ReconcileStep, Begin, PublishObserved, AddFinalizer, SetPending,
           RecordSucceeded, RecordFailed, PublishCreated, PublishUpdated, Publish, Unfinalize,
           WriteStatus, LoseStatus, ConnectFails, Observe, ObserveReturns, PrepareApply,
           ApplyConfiguration, ApplyFails, CallReturns, CreateReturns, UpdateReturns, Delete,
           DeleteReturns
      <3>2. pc'[d] = pc[d]
        BY <1>1, <2>3, OthersUntouched DEF Untouched
      <3> QED
        BY <2>1, <3>1, <3>2 DEF SecretCaughtUp
    <2> QED
      BY <2>2, <2>3
  <1>2. CASE \/ \E c \in CRs : CacheSync(c) \/ ConnSync(c) \/ RequestDelete(c)
             \/ Crash \/ Start
    <2>1. \/ pc'[d] \in {"idle", "down"}
          \/ /\ pc' = pc
             /\ \/ connCache'[d] = connCache[d] /\ conn'[d] \in {conn[d], NoSecret}
                \/ connCache'[d] = conn[d] /\ conn' = conn
      BY <1>2 DEF CacheSync, ConnSync, RequestDelete, Crash, Start
    <2> QED
      BY <2>1 DEF SecretCaughtUp
  <1>3. CASE (\E c \in CRs : SourceChanges(c)) \/ (\E n \in Machines : MachineStep(n))
                \/ UNCHANGED vars
    BY <1>3 DEF SourceChanges, MachineStep, vars, SecretCaughtUp
  <1> QED
    BY <1>1, <1>2, <1>3 DEF Next, CrashRequests

\* What Observe returned is published: the condition of UnreachableIsNotReady.
LEMMA ObservedIsPublished ==
    ASSUME TypeOK, NEW c \in CRs, PublishObserved(c), EmptyIsPublished, SecretCaughtUp(c)
    PROVE  pc'[c] = "finalizer"
  <1>1. obs[c].details = NoDetails
    BY DEF TypeOK, Obs
  <1>2. ~PublishCanFail(c)
    BY <1>1 DEF PublishCanFail, SecretApplies, PublishObserved, EmptyIsPublished,
       SecretCaughtUp, TypeOK
  <1> QED
    BY <1>2 DEF PublishObserved, Goto, TypeOK

LEMMA PublishCoherent ==
    ASSUME TypeOK, NEW c \in CRs, Coherent(c), EmptyIsPublished, SecretCaughtUp(c),
           PublishObserved(c) \/ PublishCreated(c) \/ PublishUpdated(c)
    PROVE  Coherent(c)'
  <1>1. PublishObserved(c) => pc'[c] = "finalizer"
    BY ObservedIsPublished
  <1>2. /\ UNCHANGED <<api, cache, mem, base>>
        /\ \/ pc[c] = "publish" /\ pc'[c] = "finalizer"
           \/ pc[c] = "publishCreated" /\ pc'[c] = "creating"
           \/ pc[c] = "publishUpdated" /\ pc'[c] = "status"
    BY <1>1 DEF PublishObserved, PublishCreated, PublishUpdated, Fail, Goto, TypeOK
  <1> QED
    BY <1>2 DEF Coherent, SameVersion, FoundAgrees, FinalizerFirst

\* The ends of a reconcile: the status is stored or lost, or the finalizer removed.
LEMMA FinishCoherent ==
    ASSUME TypeOK, NEW c \in CRs, Finish(c), Earned(api'[c]), Agrees(api'[c]),
           cache' = cache, Coherent(c)
    PROVE  Coherent(c)'
  <1>1. mem'[c] = NewObject /\ base'[c] = NewObject /\ pc'[c] = "idle"
    BY DEF Finish, Goto, TypeOK
  <1>2. OnCreatePath(c)' /\ SameVersion(c)'
    BY <1>1 DEF OnCreatePath, SameVersion
  <1> QED
    BY <1>1, <1>2, NewObjectEarned, CreatePathCoherent DEF Coherent

LEMMA StatusCoherent ==
    ASSUME TypeOK, NEW c \in CRs, Coherent(c), WriteStatus(c) \/ LoseStatus(c)
    PROVE  Coherent(c)'
  <1>1. Finish(c) /\ cache' = cache
    BY DEF WriteStatus, LoseStatus
  <1>2. CASE WriteStatus(c)
    <2>1. /\ api'[c].status = mem[c].status
          /\ api'[c].ready = "true" => pc[c] = "status" /\ mem[c].ready = "true"
          /\ api'[c].finalizer = api[c].finalizer /\ api'[c].succeeded = api[c].succeeded
          /\ base[c] = api[c]
      BY <1>2 DEF WriteStatus, TypeOK, Object
    <2>2. ASSUME api'[c].ready = "true"
          PROVE  /\ ResolveAppliedStatus(api'[c]) /\ api'[c].finalizer
                 /\ api'[c].status.machineState # "Unreachable"
      BY <2>1, <2>2
      DEF Coherent, SameVersion, FoundAgrees, FinalizerFirst, Agrees, ResolveAppliedStatus
    <2>3. Earned(api'[c]) /\ Agrees(api'[c])
      BY <2>2 DEF Earned, Agrees
    <2> QED
      BY <1>1, <2>3, FinishCoherent
  <1>3. CASE LoseStatus(c)
    BY <1>1, <1>3, FinishCoherent DEF LoseStatus, Coherent
  <1> QED
    BY <1>2, <1>3

LEMMA UnfinalizeCoherent ==
    ASSUME TypeOK, NEW c \in CRs, Coherent(c), Unfinalize(c)
    PROVE  Coherent(c)'
  <1>1. CASE base[c] = api[c] /\ Finish(c)
                /\ api' = [api EXCEPT ![c].life = "gone", ![c].finalizer = FALSE]
    <2>1. api'[c].ready = api[c].ready /\ api[c].ready # "true" /\ cache' = cache
      BY <1>1 DEF Unfinalize, TypeOK, Object, Coherent, FoundAgrees
    <2> QED
      BY <1>1, <2>1, FinishCoherent DEF Earned, Agrees
  <1>2. CASE Fail(c, "status")
    <2>1. UNCHANGED <<api, cache, mem, base>> /\ pc'[c] = "status" /\ pc[c] = "unfinalize"
      BY <1>2 DEF Unfinalize, Fail, Goto, TypeOK
    <2> QED
      BY <2>1 DEF Coherent, SameVersion, FoundAgrees
  <1> QED
    BY <1>1, <1>2 DEF Unfinalize

LEMMA ObserveCoherent ==
    ASSUME TypeOK, NEW c \in CRs, Coherent(c), Observe(c)
    PROVE  Coherent(c)'
  <1> DEFINE applied == ResolveAppliedStatus(mem[c])
  <1>1. PICK state \in CheckMachineState(c) :
            ObserveReturns(c, Observed(mem[c], state),
                           ObservationState(state, applied, HasValidMachineConfig(c)))
    BY DEF Observe
  <1> DEFINE object == Observed(mem[c], state)
  <1>2. mem[c] \in Object /\ state \in {"MaintenanceMode", "Configured", "Unreachable"}
    BY CheckedStates DEF TypeOK
  <1>3. /\ object.life = mem[c].life /\ object.finalizer = mem[c].finalizer
        /\ object.succeeded = mem[c].succeeded /\ object.status.machineState = state
        /\ object.status.applied <=> applied \/ state = "Configured"
        /\ object.ready = IF state = "Configured" \/ (state = "MaintenanceMode" /\ applied) THEN "true"
                          ELSE IF applied THEN "false" ELSE mem[c].ready
    BY <1>2 DEF Observed, Object, ResolveAppliedStatus
  <1>4. pc[c] = "observe" /\ mem[c] = base[c] /\ (~applied => mem[c].ready # "true")
    BY DEF Observe, Coherent, FoundAgrees, Earned
  <1>5. /\ mem'[c] = object /\ UNCHANGED <<api, cache, base>>
        /\ \/ pc'[c] = "publish" /\ base[c].life = "live"
           \/ pc'[c] = "delete"
           \/ pc'[c] = "unfinalize" /\ ~applied /\ state # "Configured"
    BY <1>1, <1>3, <1>4 DEF ObserveReturns, ObservationState, Goto, TypeOK
  <1> HIDE DEF object, applied
  <1>6. Agrees(object) /\ (object.ready = "true" => ResolveAppliedStatus(object))
    BY <1>2, <1>3, <1>4 DEF Agrees, ResolveAppliedStatus
  <1>7. SameVersion(c)'
    BY <1>3, <1>4, <1>5 DEF SameVersion
  <1>8. FoundAgrees(c)'
    BY <1>3, <1>4, <1>5, <1>6 DEF FoundAgrees, Agrees, ResolveAppliedStatus
  <1> QED
    BY <1>5, <1>7, <1>8 DEF Coherent

LEMMA MarkedReady ==
    ASSUME NEW o \in Object, NEW p \in {Marked(o), [Marked(o) EXCEPT !.ready = "true"]}
    PROVE  /\ p.life = o.life /\ p.finalizer = o.finalizer /\ p.succeeded = o.succeeded
           /\ p.status.applied /\ p.status.machineState = o.status.machineState
           /\ p = Marked(o) => p.ready = o.ready
  <1> DEFINE s == [o.status EXCEPT !.applied = TRUE]
  <1>1. s.applied /\ s.machineState = o.status.machineState
    BY ObjectFields DEF Status
  <1>2. Marked(o) = [o EXCEPT !.status = s]
    BY DEF Marked
  <1> HIDE DEF s
  <1>3. /\ Marked(o).life = o.life /\ Marked(o).finalizer = o.finalizer
        /\ Marked(o).succeeded = o.succeeded /\ Marked(o).status = s /\ Marked(o).ready = o.ready
    BY <1>2 DEF Object
  <1>4. Marked(o) \in Object
    BY MarkedType
  <1> HIDE DEF Marked
  <1> QED
    BY <1>1, <1>3, <1>4 DEF Object

LEMMA CallCoherent ==
    ASSUME TypeOK, NEW c \in CRs, Coherent(c),
           ConnectFails(c) \/ PrepareApply(c) \/ ApplyConfiguration(c) \/ Delete(c)
    PROVE  Coherent(c)'
  <1>1. CASE ConnectFails(c)
    <2>1. UNCHANGED <<api, cache, mem, base>> /\ pc[c] = "observe" /\ pc'[c] = "status"
      BY <1>1 DEF ConnectFails, Fail, Goto, TypeOK
    <2> QED
      BY <2>1 DEF Coherent, SameVersion, FoundAgrees, FinalizerFirst, Earned
  <1>2. CASE \/ ApplyFails(c) /\ pc[c] \in {"create", "update", "applyCreate", "applyUpdate"}
             \/ PrepareApply(c) \/ Delete(c)
    <2>1. /\ UNCHANGED <<api, cache, mem, base>>
          /\ \/ OnCreatePath(c)'
             \/ pc[c] \in {"update", "applyUpdate"} /\ pc'[c] \in {"applyUpdate", "status"}
      BY <1>2 DEF ApplyFails, PrepareApply, Delete, DeleteReturns, Fail, Goto, TypeOK, OnCreatePath
    <2> QED
      BY <2>1, CreatePathCoherent DEF Coherent, SameVersion, FoundAgrees, FinalizerFirst
  <1>3. CASE pc[c] \in {"applyCreate", "applyUpdate"} /\ CallReturns(c)
    <2>1. /\ UNCHANGED <<api, cache, base>> /\ mem[c] \in Object
          /\ \/ OnCreatePath(c)' /\ mem'[c] = [Marked(mem[c]) EXCEPT !.ready = "true"]
             \/ pc[c] = "applyUpdate" /\ pc'[c] = "publishUpdated" /\ mem'[c] = Marked(mem[c])
      BY <1>3 DEF CallReturns, CreateReturns, UpdateReturns, Goto, TypeOK, OnCreatePath
    <2>2. /\ mem'[c].life = mem[c].life /\ mem'[c].finalizer = mem[c].finalizer
          /\ mem'[c].succeeded = mem[c].succeeded /\ mem'[c].status.applied
          /\ mem'[c].status.machineState = mem[c].status.machineState
          /\ mem'[c] = Marked(mem[c]) => mem'[c].ready = mem[c].ready
      BY <2>1, MarkedReady
    <2>3. SameVersion(c)'
      BY <2>1, <2>2 DEF Coherent, SameVersion
    <2> QED
      BY <2>1, <2>2, <2>3, CreatePathCoherent
      DEF Coherent, FoundAgrees, Agrees, ResolveAppliedStatus
  <1> QED
    BY <1>1, <1>2, <1>3 DEF ApplyConfiguration

LEMMA ReconcileCoherent ==
    ASSUME TypeOK, NEW c \in CRs, Coherent(c), SecretCaughtUp(c), Reconcile(c),
           "writeError" \notin Env, EmptyIsPublished
    PROVE  Coherent(c)'
  <1>1. CASE Begin(c)
    <2>1. /\ mem'[c] = cache[c] /\ base'[c] = cache[c] /\ pc'[c] \in {"observe", "creating"}
          /\ UNCHANGED <<api, cache>>
      BY <1>1 DEF Begin, Goto, TypeOK
    <2> QED
      BY <2>1 DEF Coherent, SameVersion, FoundAgrees
  <1> QED
    BY <1>1, FinalizerCoherent, SetPendingCoherent, RecordCoherent, PublishCoherent,
       StatusCoherent, UnfinalizeCoherent, ObserveCoherent, CallCoherent
    DEF Reconcile, ReconcileStep

\* A step that leaves the object of d, its copies and its worker alone.
LEMMA UntouchedCoherent ==
    ASSUME NEW d \in CRs, Coherent(d), UNCHANGED <<api[d], pc[d], mem[d], base[d], cache[d]>>
    PROVE  Coherent(d)'
  BY DEF Coherent, SameVersion, FoundAgrees, FinalizerFirst

LEMMA EnvironmentCoherent ==
    ASSUME TypeOK, NEW d \in CRs, Coherent(d),
           \/ \E c \in CRs : CacheSync(c) \/ ConnSync(c) \/ RequestDelete(c)
           \/ Crash \/ Start
    PROVE  Coherent(d)'
  <1>1. CASE \E c \in CRs : CacheSync(c) \/ ConnSync(c)
    <2>1. UNCHANGED <<api, pc, mem, base>> /\ cache'[d] \in {cache[d], api[d]}
      BY <1>1 DEF CacheSync, ConnSync, TypeOK
    <2> QED
      BY <2>1 DEF Coherent, SameVersion, FoundAgrees, FinalizerFirst
  <1>2. CASE \E c \in CRs : RequestDelete(c)
    <2>1. PICK c \in CRs : RequestDelete(c)
      BY <1>2
    <2>2. /\ UNCHANGED <<cache, pc, mem, base>>
          /\ api'[d] = api[d] \/ api'[d].life # "live"
          /\ api'[d].ready = api[d].ready /\ api'[d].status = api[d].status
          /\ api'[d].succeeded = api[d].succeeded /\ api'[d].finalizer = api[d].finalizer
      <3>1. api' = [api EXCEPT ![c] = [api[c] EXCEPT !.life =
                                          IF api[c].finalizer THEN "deleting" ELSE "gone"]]
        BY <2>1 DEF RequestDelete
      <3> QED
        BY <2>1, <3>1 DEF RequestDelete, TypeOK, Object
    <2>3. Earned(api'[d]) /\ Agrees(api'[d])
      BY <2>2, SameEarned DEF Coherent
    <2> QED
      BY <2>2, <2>3 DEF Coherent, SameVersion, FoundAgrees, FinalizerFirst
  <1>3. CASE Crash
    <2>1. /\ mem'[d] = NewObject /\ base'[d] = NewObject /\ cache'[d] = NewObject
          /\ pc'[d] = "down" /\ api' = api
      BY <1>3 DEF Crash
    <2> QED
      BY <2>1, NewObjectEarned DEF Coherent, SameVersion, FoundAgrees
  <1>4. CASE Start
    BY <1>4 DEF Start, Coherent, SameVersion, FoundAgrees
  <1> QED
    BY <1>1, <1>2, <1>3, <1>4

ReadyInvariant == \A c \in CRs : Coherent(c) /\ SecretCaughtUp(c)

\* A resource whose status calls its machine unreachable is not Ready.  Both conditions are
\* needed: when the update that adds the finalizer ("writeError") or the publication before
\* it fails and the status write after it succeeds, the response to the next such update
\* may decode a Ready that was stored before over the one the probe has just taken away.
THEOREM UnreachableIsNotReady ==
    ASSUME "writeError" \notin Env, EmptyIsPublished
    PROVE  Spec => []UnreachableNotReady
  <1>1. Init => ReadyInvariant
    <2> SUFFICES ASSUME Init, NEW c \in CRs PROVE Coherent(c) /\ SecretCaughtUp(c)
      BY DEF ReadyInvariant
    <2>1. /\ api[c] = NewObject /\ cache[c] = NewObject /\ mem[c] = NewObject
          /\ base[c] = NewObject /\ pc[c] = "idle"
      BY DEF Init, ReconcilerInit
    <2> QED
      BY <2>1, NewObjectEarned DEF Coherent, SameVersion, FoundAgrees, SecretCaughtUp
  <1>2. TypeOK /\ ReadyInvariant /\ [Next]_vars => ReadyInvariant'
    <2> SUFFICES ASSUME TypeOK, ReadyInvariant, [Next]_vars
                 PROVE  ReadyInvariant'
      OBVIOUS
    <2>0. \A d \in CRs : SecretCaughtUp(d)'
      <3>1. CASE WriteRef = {}
        BY <3>1 DEF SecretCaughtUp
      <3>2. CASE "stale" \notin Env
        BY <3>2, SecretStep DEF ReadyInvariant
      <3> QED
        BY <3>1, <3>2 DEF EmptyIsPublished
    <2> SUFFICES ASSUME NEW d \in CRs
                 PROVE  Coherent(d)'
      BY <2>0 DEF ReadyInvariant
    <2>1. CASE \E c \in CRs : Reconcile(c)
      <3>1. PICK c \in CRs : Reconcile(c)
        BY <2>1
      <3>2. CASE c = d
        BY <3>1, <3>2, ReconcileCoherent DEF ReadyInvariant
      <3>3. CASE c # d
        <4>1. cache' = cache
          BY <3>1 DEF Reconcile, ReconcileStep, Begin, PublishObserved, AddFinalizer, SetPending,
             RecordSucceeded, RecordFailed, PublishCreated, PublishUpdated, Unfinalize,
             WriteStatus, LoseStatus, ConnectFails, Observe, ObserveReturns, PrepareApply,
             ApplyConfiguration, ApplyFails, CallReturns, CreateReturns, UpdateReturns,
             Delete, DeleteReturns
        <4> QED
          BY <3>1, <3>3, <4>1, OthersUntouched, UntouchedCoherent DEF Untouched, ReadyInvariant
      <3> QED
        BY <3>2, <3>3
    <2>2. CASE \/ \E c \in CRs : CacheSync(c) \/ ConnSync(c) \/ RequestDelete(c)
               \/ Crash \/ Start
      BY <2>2, EnvironmentCoherent DEF ReadyInvariant
    <2>3. CASE (\E c \in CRs : SourceChanges(c)) \/ (\E n \in Machines : MachineStep(n))
                  \/ UNCHANGED vars
      BY <2>3, UntouchedCoherent DEF SourceChanges, MachineStep, vars, ReadyInvariant
    <2> QED
      BY <2>1, <2>2, <2>3 DEF Next, CrashRequests
  <1>3. ReadyInvariant => UnreachableNotReady
    BY DEF ReadyInvariant, Coherent, Agrees, UnreachableNotReady
  <1> QED
    BY <1>1, <1>2, <1>3, TypeCorrect, PTL DEF Spec
=================================================================================
