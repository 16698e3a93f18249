----------------------- MODULE BootstrapReplicasProofs -----------------------
(***************************************************************************)
(* Theorems about two replicas of the provider, for every set of resources *)
(* and nodes, every set Env of faults and every bound on the clock.  What  *)
(* BootstrapProofs shows of one process holds of each of the two in its    *)
(* own steps; the rest is what a step of the other may do to it.           *)
(***************************************************************************)
EXTENDS BootstrapReplicas, TLAPS

AP == INSTANCE BootstrapProofs WITH
        cache <- cacheA, connCache <- connCacheA, pc <- pcA,
        mem <- memA, base <- baseA, obs <- obsA

BP == INSTANCE BootstrapProofs WITH
        cache <- cacheB, connCache <- connCacheB, pc <- pcB,
        mem <- memB, base <- baseB, obs <- obsB

LEMMA Assumptions == AP!BootstrapAssumption /\ BP!BootstrapAssumption
  BY ReplicasAssumption DEF AP!BootstrapAssumption, BP!BootstrapAssumption

----------------------------------------------------------------------------
(* A and AP, and B and BP, are the same definitions twice *)

LEMMA SameInitA == A!Init <=> AP!Init
  BY Zenon
  DEF A!Init, AP!Init, A!ReconcilerInit, AP!ReconcilerInit, A!NewObject, AP!NewObject,
      A!NoObs, AP!NoObs, A!InitStatus, AP!InitStatus

LEMMA SameNextA == A!Next <=> AP!Next
  BY Zenon
  DEF A!Next, AP!Next, A!Reconcile, AP!Reconcile, A!ReconcileStep, AP!ReconcileStep,
      A!EnvironmentStep, AP!EnvironmentStep, A!EtcdStep, AP!EtcdStep, A!Tick, AP!Tick,
      A!ConnectFails, AP!ConnectFails, A!Observe, AP!Observe, A!Create, AP!Create,
      A!VerifyCreated, AP!VerifyCreated, A!VerifyExists, AP!VerifyExists, A!Update,
      AP!Update, A!Delete, AP!Delete, A!Begin, AP!Begin, A!PublishObserved,
      AP!PublishObserved, A!AddFinalizer, AP!AddFinalizer, A!SetPending, AP!SetPending,
      A!RecordSucceeded, AP!RecordSucceeded, A!RecordFailed, AP!RecordFailed,
      A!PublishCreated, AP!PublishCreated, A!PublishUpdated, AP!PublishUpdated,
      A!Unfinalize, AP!Unfinalize, A!WriteStatus, AP!WriteStatus, A!LoseStatus,
      AP!LoseStatus, A!CacheSync, AP!CacheSync, A!ConnSync, AP!ConnSync, A!RequestDelete,
      AP!RequestDelete, A!Crash, AP!Crash, A!Start, AP!Start, A!Goto, AP!Goto, A!Finish,
      AP!Finish, A!Fail, AP!Fail, A!Stored, AP!Stored, A!Decoded, AP!Decoded,
      A!UpdateObject, AP!UpdateObject, A!WriteCanFail, AP!WriteCanFail, A!SecretApplied,
      AP!SecretApplied, A!SecretApplies, AP!SecretApplies, A!Publish, AP!Publish,
      A!PublishCanFail, AP!PublishCanFail, A!ObserveReturns, AP!ObserveReturns,
      A!CreateReturns, AP!CreateReturns, A!UpdateReturns, AP!UpdateReturns, A!DeleteReturns,
      AP!DeleteReturns, A!Annotated, AP!Annotated, A!Annotate, AP!Annotate, A!Down, AP!Down,
      A!nodeVars, AP!nodeVars, A!NewObject, AP!NewObject, A!NoObs, AP!NoObs, A!InitStatus,
      AP!InitStatus, A!Reports, AP!Reports, A!Report, AP!Report,
      A!ServiceInfo, AP!ServiceInfo, A!IsHealthyEtcdService, AP!IsHealthyEtcdService,
      A!IsBootstrappedHealthy, AP!IsBootstrappedHealthy, A!Probe, AP!Probe,
      A!HasSuccessfulExternalCreate, AP!HasSuccessfulExternalCreate, A!MarkBootstrapped,
      AP!MarkBootstrapped, A!KnownBootstrapped, AP!KnownBootstrapped, A!Observed,
      AP!Observed, A!Observation, AP!Observation, A!Answers, AP!Answers,
      A!IsBootstrapAlreadyExists, AP!IsBootstrapAlreadyExists

LEMMA SameTypesA == A!TypeOK <=> AP!TypeOK
  BY Zenon
  DEF A!TypeOK, AP!TypeOK, A!Object, AP!Object, A!Obs, AP!Obs, A!Status, AP!Status,
      A!Labels, AP!Labels, A!Phases, AP!Phases

LEMMA SameInitB == B!Init <=> BP!Init
  BY Zenon
  DEF B!Init, BP!Init, B!ReconcilerInit, BP!ReconcilerInit, B!NewObject, BP!NewObject,
      B!NoObs, BP!NoObs, B!InitStatus, BP!InitStatus

LEMMA SameNextB == B!Next <=> BP!Next
  BY Zenon
  DEF B!Next, BP!Next, B!Reconcile, BP!Reconcile, B!ReconcileStep, BP!ReconcileStep,
      B!EnvironmentStep, BP!EnvironmentStep, B!EtcdStep, BP!EtcdStep, B!Tick, BP!Tick,
      B!ConnectFails, BP!ConnectFails, B!Observe, BP!Observe, B!Create, BP!Create,
      B!VerifyCreated, BP!VerifyCreated, B!VerifyExists, BP!VerifyExists, B!Update,
      BP!Update, B!Delete, BP!Delete, B!Begin, BP!Begin, B!PublishObserved,
      BP!PublishObserved, B!AddFinalizer, BP!AddFinalizer, B!SetPending, BP!SetPending,
      B!RecordSucceeded, BP!RecordSucceeded, B!RecordFailed, BP!RecordFailed,
      B!PublishCreated, BP!PublishCreated, B!PublishUpdated, BP!PublishUpdated,
      B!Unfinalize, BP!Unfinalize, B!WriteStatus, BP!WriteStatus, B!LoseStatus,
      BP!LoseStatus, B!CacheSync, BP!CacheSync, B!ConnSync, BP!ConnSync, B!RequestDelete,
      BP!RequestDelete, B!Crash, BP!Crash, B!Start, BP!Start, B!Goto, BP!Goto, B!Finish,
      BP!Finish, B!Fail, BP!Fail, B!Stored, BP!Stored, B!Decoded, BP!Decoded,
      B!UpdateObject, BP!UpdateObject, B!WriteCanFail, BP!WriteCanFail, B!SecretApplied,
      BP!SecretApplied, B!SecretApplies, BP!SecretApplies, B!Publish, BP!Publish,
      B!PublishCanFail, BP!PublishCanFail, B!ObserveReturns, BP!ObserveReturns,
      B!CreateReturns, BP!CreateReturns, B!UpdateReturns, BP!UpdateReturns, B!DeleteReturns,
      BP!DeleteReturns, B!Annotated, BP!Annotated, B!Annotate, BP!Annotate, B!Down, BP!Down,
      B!nodeVars, BP!nodeVars, B!NewObject, BP!NewObject, B!NoObs, BP!NoObs, B!InitStatus,
      BP!InitStatus, B!Reports, BP!Reports, B!Report, BP!Report,
      B!ServiceInfo, BP!ServiceInfo, B!IsHealthyEtcdService, BP!IsHealthyEtcdService,
      B!IsBootstrappedHealthy, BP!IsBootstrappedHealthy, B!Probe, BP!Probe,
      B!HasSuccessfulExternalCreate, BP!HasSuccessfulExternalCreate, B!MarkBootstrapped,
      BP!MarkBootstrapped, B!KnownBootstrapped, BP!KnownBootstrapped, B!Observed,
      BP!Observed, B!Observation, BP!Observation, B!Answers, BP!Answers,
      B!IsBootstrapAlreadyExists, BP!IsBootstrapAlreadyExists

LEMMA SameTypesB == B!TypeOK <=> BP!TypeOK
  BY Zenon
  DEF B!TypeOK, BP!TypeOK, B!Object, BP!Object, B!Obs, BP!Obs, B!Status, BP!Status,
      B!Labels, BP!Labels, B!Phases, BP!Phases

\* The constant sets the two typings speak of are the same.
LEMMA SameSets ==
    /\ AP!Object = BP!Object /\ AP!Phases = BP!Phases
    /\ AP!Obs = BP!Obs /\ AP!Labels = BP!Labels
  BY
  DEF AP!Object, BP!Object, AP!Obs, BP!Obs, AP!Status, BP!Status, AP!Labels, BP!Labels,
      AP!Phases, BP!Phases

\* The promise of either is the same, its variables are those the two share.
LEMMA SamePromise ==
    /\ A!Promise!Init <=> AP!Promise!Init
    /\ [AP!Promise!Next]_(AP!Promise!vars) => [A!Promise!Next]_(A!Promise!vars)
    /\ [BP!Promise!Next]_(BP!Promise!vars) => [A!Promise!Next]_(A!Promise!vars)
  BY
  DEF A!Promise!Init, AP!Promise!Init, BP!Promise!Init, A!Promise!Next, AP!Promise!Next,
      BP!Promise!Next, A!Promise!vars, AP!Promise!vars, BP!Promise!vars, A!Promise!Intend,
      AP!Promise!Intend, BP!Promise!Intend, A!Promise!Answer, AP!Promise!Answer,
      BP!Promise!Answer, A!Promise!Succeed, AP!Promise!Succeed, BP!Promise!Succeed,
      A!Promise!GiveUp, AP!Promise!GiveUp, BP!Promise!GiveUp, A!Promise!ComeUp,
      AP!Promise!ComeUp, BP!Promise!ComeUp, A!Promise!Write, AP!Promise!Write,
      BP!Promise!Write

----------------------------------------------------------------------------
(* Neither process disturbs the other *)

ReplicasInvariant ==
    /\ AP!BootstrapInvariant /\ AP!AllGrounds
    /\ BP!BootstrapInvariant /\ BP!AllGrounds
    /\ \A c \in CRs : ~(AP!Calling(c) /\ BP!Calling(c))

\* A step of the first replica: the second at the call finds its records as they were,
\* since the first is not at the call and cannot get there over a pending annotation.
LEMMA StepOfA ==
    ASSUME ReplicasInvariant, [AP!Next]_(AP!vars), UNCHANGED varsB
    PROVE  ReplicasInvariant'
  <1>1. AP!BootstrapInvariant' /\ AP!AllGrounds'
    BY Assumptions, AP!RecordsStep, AP!StepKeepsGrounds
    DEF ReplicasInvariant, AP!BootstrapInvariant
  <1>2. ASSUME NEW d \in CRs
        PROVE  /\ BP!Recorded(d)'
               /\ ~(AP!Calling(d) /\ BP!Calling(d))'
    <2>1. BP!Recorded(d) /\ ~(AP!Calling(d) /\ BP!Calling(d))
      BY DEF ReplicasInvariant, BP!BootstrapInvariant
    <2>2. UNCHANGED <<pcB, memB, baseB, obsB>>
      BY DEF varsB
    <2>3. d \in acknowledged' => api'[d].latest = "pending" \/ api'[d].succeeded
      BY <1>1 DEF AP!BootstrapInvariant, AP!Recorded, AP!AcknowledgedIsRecorded
    <2>4. CASE BP!Calling(d)
      <3>1. api[d].latest = "pending" /\ ~AP!Calling(d)
        BY <2>1, <2>4 DEF BP!Calling, BP!Recorded, BP!CreateIsPending
      <3>2. /\ d \in acknowledged' <=> d \in acknowledged
            /\ api'[d].latest = api[d].latest /\ ~AP!Calling(d)'
        BY <3>1, Assumptions, AP!OnlyTheCallerWrites DEF ReplicasInvariant, AP!Quiet
      <3> QED
        BY <2>1, <2>2, <2>3, <3>1, <3>2
        DEF BP!Calling, BP!Recorded, BP!AnnotationsAreBase, BP!ObservedBase,
            BP!CreateIsPending, BP!AcknowledgedIsRecorded
    <2>5. CASE ~BP!Calling(d)
      BY <2>1, <2>2, <2>3, <2>5
      DEF BP!Calling, BP!Recorded, BP!AnnotationsAreBase, BP!ObservedBase,
          BP!CreateIsPending, BP!AcknowledgedIsRecorded
    <2> QED
      BY <2>4, <2>5
  <1>3. BP!TypeOK'
    BY <1>1, SameSets
    DEF ReplicasInvariant, AP!BootstrapInvariant, BP!BootstrapInvariant, AP!TypeOK, BP!TypeOK,
        varsB
  <1>4. BP!AllGrounds'
    <2>1. /\ \A c \in CRs : AP!TargetUp(c) => AP!TargetUp(c)'
          /\ acknowledged \subseteq acknowledged'
      BY Assumptions, AP!NothingIsUndone DEF ReplicasInvariant, AP!BootstrapInvariant
    <2>2. pcB' = pcB
      BY DEF varsB
    <2> QED
      BY <2>1, <2>2 DEF ReplicasInvariant, BP!AllGrounds, BP!Grounds, AP!TargetUp, BP!TargetUp
  <1> QED
    BY <1>1, <1>2, <1>3, <1>4 DEF ReplicasInvariant, BP!BootstrapInvariant

\* And the other way round.
LEMMA StepOfB ==
    ASSUME ReplicasInvariant, [BP!Next]_(BP!vars), UNCHANGED varsA
    PROVE  ReplicasInvariant'
  <1>1. BP!BootstrapInvariant' /\ BP!AllGrounds'
    BY Assumptions, BP!RecordsStep, BP!StepKeepsGrounds
    DEF ReplicasInvariant, BP!BootstrapInvariant
  <1>2. ASSUME NEW d \in CRs
        PROVE  /\ AP!Recorded(d)'
               /\ ~(BP!Calling(d) /\ AP!Calling(d))'
    <2>1. AP!Recorded(d) /\ ~(BP!Calling(d) /\ AP!Calling(d))
      BY DEF ReplicasInvariant, AP!BootstrapInvariant
    <2>2. UNCHANGED <<pcA, memA, baseA, obsA>>
      BY DEF varsA
    <2>3. d \in acknowledged' => api'[d].latest = "pending" \/ api'[d].succeeded
      BY <1>1 DEF BP!BootstrapInvariant, BP!Recorded, BP!AcknowledgedIsRecorded
    <2>4. CASE AP!Calling(d)
      <3>1. api[d].latest = "pending" /\ ~BP!Calling(d)
        BY <2>1, <2>4 DEF AP!Calling, AP!Recorded, AP!CreateIsPending
      <3>2. /\ d \in acknowledged' <=> d \in acknowledged
            /\ api'[d].latest = api[d].latest /\ ~BP!Calling(d)'
        BY <3>1, Assumptions, BP!OnlyTheCallerWrites DEF ReplicasInvariant, BP!Quiet
      <3> QED
        BY <2>1, <2>2, <2>3, <3>1, <3>2
        DEF AP!Calling, AP!Recorded, AP!AnnotationsAreBase, AP!ObservedBase,
            AP!CreateIsPending, AP!AcknowledgedIsRecorded
    <2>5. CASE ~AP!Calling(d)
      BY <2>1, <2>2, <2>3, <2>5
      DEF AP!Calling, AP!Recorded, AP!AnnotationsAreBase, AP!ObservedBase,
          AP!CreateIsPending, AP!AcknowledgedIsRecorded
    <2> QED
      BY <2>4, <2>5
  <1>3. AP!TypeOK'
    BY <1>1, SameSets
    DEF ReplicasInvariant, BP!BootstrapInvariant, AP!BootstrapInvariant, BP!TypeOK, AP!TypeOK,
        varsA
  <1>4. AP!AllGrounds'
    <2>1. /\ \A c \in CRs : BP!TargetUp(c) => BP!TargetUp(c)'
          /\ acknowledged \subseteq acknowledged'
      BY Assumptions, BP!NothingIsUndone DEF ReplicasInvariant, BP!BootstrapInvariant
    <2>2. pcA' = pcA
      BY DEF varsA
    <2> QED
      BY <2>1, <2>2 DEF ReplicasInvariant, AP!AllGrounds, AP!Grounds, BP!TargetUp, AP!TargetUp
  <1> QED
    BY <1>1, <1>2, <1>3, <1>4 DEF ReplicasInvariant, AP!BootstrapInvariant

LEMMA Steps ==
    ASSUME [Next]_vars
    PROVE  \/ [AP!Next]_(AP!vars) /\ UNCHANGED varsB
           \/ [BP!Next]_(BP!vars) /\ UNCHANGED varsA
  BY SameNextA, SameNextB DEF Next, vars, varsA, varsB, AP!vars, BP!vars

LEMMA StartsRight == Init => ReplicasInvariant
  <1> SUFFICES ASSUME Init PROVE ReplicasInvariant
    OBVIOUS
  <1>1. AP!Init /\ BP!Init
    BY SameInitA, SameInitB DEF Init
  <1>2. /\ AP!BootstrapInvariant /\ AP!AllGrounds
        /\ BP!BootstrapInvariant /\ BP!AllGrounds
    BY <1>1, Assumptions, AP!RecordsInit, AP!GroundsInit, BP!RecordsInit, BP!GroundsInit
  <1>3. \A c \in CRs : ~AP!Calling(c)
    BY <1>1 DEF AP!Init, AP!ReconcilerInit, AP!Calling
  <1> QED
    BY <1>2, <1>3 DEF ReplicasInvariant

LEMMA InvariantHolds == Spec => []ReplicasInvariant
  <1>1. ReplicasInvariant /\ [Next]_vars => ReplicasInvariant'
    BY Steps, StepOfA, StepOfB
  <1> QED
    BY <1>1, StartsRight, PTL DEF Spec

----------------------------------------------------------------------------
(* The theorems *)

\* Every variable of both keeps its type.
THEOREM TypeCorrect == Spec => []TypeOK
  <1>1. ReplicasInvariant => TypeOK
    BY SameTypesA, SameTypesB
    DEF ReplicasInvariant, AP!BootstrapInvariant, BP!BootstrapInvariant, TypeOK
  <1> QED
    BY <1>1, InvariantHolds, PTL

\* The version check on the pending annotation is enough to keep two processes without
\* leader election from being in Create for one resource at once, whatever each of
\* them has in its caches.
THEOREM OnlyOneCalls == Spec => []OneCaller
  <1>1. ReplicasInvariant => OneCaller
    BY DEF ReplicasInvariant, OneCaller, InCreate, AP!Calling, BP!Calling
  <1> QED
    BY <1>1, InvariantHolds, PTL

\* Neither replica makes the call again once it was answered to either.
THEOREM NeverASecondBootstrap == Spec => []NoSecondBootstrap
  <1>1. ReplicasInvariant => NoSecondBootstrap
    BY DEF ReplicasInvariant, AP!BootstrapInvariant, BP!BootstrapInvariant, AP!Recorded,
       BP!Recorded, AP!AcknowledgedIsRecorded, BP!AcknowledgedIsRecorded,
       NoSecondBootstrap, A!NoSecondBootstrap, B!NoSecondBootstrap
  <1> QED
    BY <1>1, InvariantHolds, PTL

\* Two replicas together implement OneShot: every step of either is a step of the
\* promise or a stutter.
THEOREM PromiseIsKept == Spec => KeepsThePromise
  <1>1. Init => A!Promise!Init
    BY SameInitA, SamePromise, AP!InitSimulated, Assumptions DEF Init
  <1>2. ReplicasInvariant /\ [Next]_vars => [A!Promise!Next]_(A!Promise!vars)
    <2> SUFFICES ASSUME ReplicasInvariant, [Next]_vars
                 PROVE  [A!Promise!Next]_(A!Promise!vars)
      OBVIOUS
    <2>1. CASE [AP!Next]_(AP!vars)
      BY <2>1, SamePromise, AP!StepSimulated, Assumptions DEF ReplicasInvariant
    <2>2. CASE [BP!Next]_(BP!vars)
      BY <2>2, SamePromise, BP!StepSimulated, Assumptions DEF ReplicasInvariant
    <2> QED
      BY <2>1, <2>2, Steps
  <1> QED
    BY <1>1, <1>2, InvariantHolds, PTL
    DEF Spec, KeepsThePromise, A!KeepsThePromise, A!Promise!Spec
==============================================================================
