-------------------------- MODULE ConfigurationProofs --------------------------
(***************************************************************************)
(* Theorems about Configuration, for every set of resources, with and      *)
(* without a connection Secret, valid or not, and every bound on the       *)
(* bundles.                                                                *)
(***************************************************************************)
EXTENDS Configuration, TLAPS

----------------------------------------------------------------------------
(* The type invariant *)

Obs == [exists : BOOLEAN, upToDate : BOOLEAN, details : Configs]

Steps == {"idle", "observe", "publish", "finalizer", "delete", "unfinalize", "status",
          "creating", "down"}

\* What Observe returned exists, is up to date and carries what it rendered.
Returned(c) ==
    /\ pc[c] \in {"publish", "finalizer"} => obs[c].exists /\ obs[c].upToDate
    /\ pc[c] = "publish" => obs[c].details \in Bundles /\ mem[c].status = obs[c].details
    /\ pc[c] # "unfinalize"

\* A key that holds a bundle holds one.
Sound(secret) ==
    \A key \in {secret.json, secret.structured} : key.state = "bundle" => key.bundle \in Bundles

TypeInvariant ==
    /\ TypeOK
    /\ Sound(source) /\ Sound(sourceCache)
    /\ \A c \in CRs : Returned(c)

LEMMA InitialValues ==
    /\ NewObject \in Object
    /\ NoObs \in Obs
    /\ 0 \in Configs
    /\ Bundles \subseteq Nat
    /\ Labels \ {"pending", "create", "created", "failed", "publishCreated", "update",
                 "publishUpdated"} = Steps
  <1>1. 0 \in Configs /\ Bundles \subseteq Nat
    BY ConfigurationAssumption DEF Configs, Bundles, NoConfig
  <1>2. NewObject \in Object /\ NoObs \in Obs
    BY <1>1 DEF NewObject, NoObs, InitStatus, NoDetails, NoConfig, Object, Obs
  <1>3. Labels \ {"pending", "create", "created", "failed", "publishCreated", "update",
                  "publishUpdated"} = Steps
    BY DEF Labels, Steps
  <1> QED
    BY <1>1, <1>2, <1>3

\* What the actions change in an object leaves it an object.
LEMMA StatusUpdate ==
    ASSUME NEW o \in Object, NEW s \in Configs
    PROVE  /\ [o EXCEPT !.status = s] \in Object
           /\ [o EXCEPT !.status = s].status = s
           /\ [o EXCEPT !.status = s].life = o.life
  BY DEF Object

LEMMA ReadyUpdate ==
    ASSUME NEW o \in Object, NEW r \in {"none", "true", "false"}
    PROVE  /\ [o EXCEPT !.ready = r] \in Object
           /\ [o EXCEPT !.ready = r].status = o.status
           /\ [o EXCEPT !.ready = r].life = o.life
  BY DEF Object

LEMMA StatusAndReadyUpdate ==
    ASSUME NEW o \in Object, NEW s \in Configs, NEW r \in {"none", "true", "false"}
    PROVE  /\ [o EXCEPT !.status = s, !.ready = r] \in Object
           /\ [o EXCEPT !.status = s, !.ready = r].status = s
           /\ [o EXCEPT !.status = s, !.ready = r].life = o.life
  <1> DEFINE new == [o EXCEPT !.status = s]
  <1>1. new \in Object /\ new.status = s /\ new.life = o.life
    BY StatusUpdate
  <1>2. [o EXCEPT !.status = s, !.ready = r] = [new EXCEPT !.ready = r]
    OBVIOUS
  <1> HIDE DEF new
  <1>3. /\ [new EXCEPT !.ready = r] \in Object
        /\ [new EXCEPT !.ready = r].status = s
        /\ [new EXCEPT !.ready = r].life = o.life
    BY <1>1, ReadyUpdate
  <1> QED
    BY <1>2, <1>3

LEMMA FinalizerUpdate ==
    ASSUME NEW o \in Object
    PROVE  /\ [o EXCEPT !.finalizer = TRUE] \in Object
           /\ [o EXCEPT !.finalizer = TRUE].status = o.status
           /\ [o EXCEPT !.finalizer = TRUE].life = o.life
  BY DEF Object

LEMMA LifeUpdate ==
    ASSUME NEW o \in Object, NEW f \in {"live", "deleting", "gone"}
    PROVE  /\ [o EXCEPT !.life = f] \in Object
           /\ [o EXCEPT !.life = f].status = o.status
           /\ [o EXCEPT !.life = f].life = f
  BY DEF Object

LEMMA ObjectFields ==
    ASSUME NEW o \in Object
    PROVE  /\ o.life \in {"live", "deleting", "gone"}
           /\ o.ready \in {"none", "true", "false"}
           /\ o.status \in Configs
  BY DEF Object

\* What an update of an object that differs from the stored one at most in what Observe
\* and AddFinalizer set leaves in memory and in the API server.
LEMMA UpdateObjectType ==
    ASSUME TypeOK, NEW c \in CRs, NEW object \in Object, UpdateObject(c, object)
    PROVE  /\ api' \in [CRs -> Object] /\ base' \in [CRs -> Object] /\ mem' \in [CRs -> Object]
           /\ base[c] = api[c]
           /\ api'[c] = base'[c]
           /\ api'[c].status = api[c].status /\ api'[c].life = object.life
           /\ mem'[c].status \in {object.status, api[c].status} /\ mem'[c].life = object.life
           /\ \A d \in CRs \ {c} : api'[d] = api[d] /\ base'[d] = base[d] /\ mem'[d] = mem[d]
  <1>1. api[c].ready \in {"none", "true", "false"} /\ api[c].status \in Configs
    BY ObjectFields DEF TypeOK
  <1>2. /\ Stored(c, object) \in Object /\ [object EXCEPT !.ready = api[c].ready] \in Object
        /\ Stored(c, object).status = api[c].status
        /\ Stored(c, object).life = object.life
        /\ [object EXCEPT !.ready = api[c].ready].status = object.status
        /\ [object EXCEPT !.ready = api[c].ready].life = object.life
    BY <1>1 DEF Stored, Object
  <1>3. \A o \in Decoded(c, object) :
            /\ o \in Object /\ o.life = object.life
            /\ o.status \in {object.status, api[c].status}
    BY <1>2 DEF Decoded
  <1>4. /\ base[c] = api[c]
        /\ api' = [api EXCEPT ![c] = Stored(c, object)]
        /\ base' = [base EXCEPT ![c] = Stored(c, object)]
        /\ \E o \in Decoded(c, object) : mem' = [mem EXCEPT ![c] = o]
    BY DEF UpdateObject
  <1> QED
    BY <1>2, <1>3, <1>4 DEF TypeOK

\* The steps of the loop a Configuration never gets to.
LEMMA NoSuchSteps ==
    ASSUME TypeInvariant, NEW c \in CRs
    PROVE  /\ ~SetPending(c) /\ ~RecordSucceeded(c) /\ ~RecordFailed(c)
           /\ ~PublishCreated(c) /\ ~PublishUpdated(c) /\ ~Unfinalize(c)
  <1>1. pc[c] \in Steps /\ pc[c] # "unfinalize"
    BY InitialValues DEF TypeInvariant, TypeOK, Returned
  <1> QED
    BY <1>1 DEF Steps, SetPending, RecordSucceeded, RecordFailed, PublishCreated,
                PublishUpdated, Unfinalize

\* A step that leaves what belongs to c alone.
Untouched(c) ==
    /\ api'[c] = api[c] /\ cache'[c] = cache[c] /\ conn'[c] = conn[c]
    /\ connCache'[c] = connCache[c] /\ pc'[c] = pc[c] /\ mem'[c] = mem[c]
    /\ base'[c] = base[c] /\ obs'[c] = obs[c]

\* Every step of a worker leaves the other resources alone, and the Secret it renders from.
Alone(c) == UNCHANGED sourceVars /\ \A d \in CRs \ {c} : Untouched(d)

\* The types of what a step of a worker or of the environment changes.
StepType ==
    /\ api' \in [CRs -> Object] /\ mem' \in [CRs -> Object] /\ base' \in [CRs -> Object]
    /\ cache' \in [CRs -> Object]
    /\ conn' \in [CRs -> Bundles \cup {NoSecret}]
    /\ connCache' \in [CRs -> Bundles \cup {NoSecret}]
    /\ obs' \in [CRs -> Obs]
    /\ pc' \in [CRs -> Steps]

LEMMA StepTypeInvariant ==
    ASSUME TypeInvariant, NEW c \in CRs, StepType, Alone(c), Returned(c)'
    PROVE  TypeInvariant'
  <1>1. TypeOK'
    BY InitialValues DEF StepType, Alone, TypeInvariant, TypeOK, Obs, sourceVars
  <1>2. \A d \in CRs \ {c} : Returned(d)'
    BY DEF Alone, Untouched, TypeInvariant, Returned
  <1>3. Sound(source)' /\ Sound(sourceCache)'
    BY DEF Alone, sourceVars, TypeInvariant, Sound
  <1> QED
    BY <1>1, <1>2, <1>3 DEF TypeInvariant

LEMMA BeginShape ==
    ASSUME TypeInvariant, NEW c \in CRs, Begin(c), UNCHANGED sourceVars
    PROVE  /\ StepType /\ Alone(c) /\ Returned(c)'
           /\ mem'[c] = cache[c] /\ base'[c] = cache[c]
           /\ pc'[c] \in {"observe", "creating"}
           /\ UNCHANGED <<api, cache, conn, connCache, obs>>
  <1>1. /\ mem' = [mem EXCEPT ![c] = cache[c]]
        /\ base' = [base EXCEPT ![c] = cache[c]]
        /\ UNCHANGED <<api, cache, conn, connCache, obs>>
        /\ \E label \in {"observe", "creating"} : pc' = [pc EXCEPT ![c] = label]
    BY DEF Begin, Goto
  <1> QED
    BY <1>1, InitialValues DEF TypeInvariant, TypeOK, Obs, Steps, StepType, Alone, Untouched, Returned

\* A failed call, and a Delete, only move the control.
LEMMA FailShape ==
    ASSUME TypeInvariant, NEW c \in CRs, NEW label \in {"status", "creating"}, Goto(c, label),
           UNCHANGED <<api, cache, conn, connCache, mem, base, obs, sourceVars>>
    PROVE  /\ StepType /\ Alone(c) /\ Returned(c)'
           /\ pc'[c] = label
  BY InitialValues DEF Goto, TypeInvariant, TypeOK, Obs, Steps, StepType, Alone, Untouched, Returned

\* Observe renders from the cached Secret, or fails.
LEMMA ObserveShape ==
    ASSUME TypeInvariant, NEW c \in CRs, Observe(c)
    PROVE  /\ StepType /\ Alone(c) /\ Returned(c)'
           /\ pc[c] = "observe"
           /\ UNCHANGED <<api, cache, conn, connCache, base>>
           /\ \/ /\ mem'[c].status \in GetMachineSecretsBundle(sourceCache)
                 /\ obs'[c].details = mem'[c].status /\ mem'[c].life = mem[c].life
                 /\ pc'[c] = IF mem[c].life = "live" THEN "publish" ELSE "delete"
              \/ pc'[c] = "status" /\ UNCHANGED <<mem, obs>>
  <1>1. pc[c] = "observe" /\ UNCHANGED <<api, cache, conn, connCache, base, sourceVars>>
    BY DEF Observe, ObserveReturns, Fail
  <1>2. ASSUME NEW config \in GenerateMachineConfiguration(c),
               ObserveReturns(c, Available(mem[c], config), Observation(config))
        PROVE  /\ StepType /\ Alone(c) /\ Returned(c)'
               /\ mem'[c].status \in GetMachineSecretsBundle(sourceCache)
               /\ obs'[c].details = mem'[c].status /\ mem'[c].life = mem[c].life
               /\ pc'[c] = IF mem[c].life = "live" THEN "publish" ELSE "delete"
    <2>1. config \in GetMachineSecretsBundle(sourceCache)
      BY <1>2 DEF GenerateMachineConfiguration
    <2>2. config \in Bundles /\ config \in Configs
      BY <2>1 DEF GetMachineSecretsBundle, TypeInvariant, Sound, Configs
    <2>3. /\ Available(mem[c], config) \in Object
          /\ Available(mem[c], config).status = config
          /\ Available(mem[c], config).life = mem[c].life
      <3>1. mem[c] \in Object
        BY DEF TypeInvariant, TypeOK
      <3>2. "true" \in {"none", "true", "false"}
        OBVIOUS
      <3> QED
        BY <2>2, <3>1, <3>2, StatusAndReadyUpdate, Zenon DEF Available
    <2>4. /\ Observation(config) \in Obs
          /\ Observation(config).exists /\ Observation(config).upToDate
          /\ Observation(config).details = config
      BY <2>2 DEF Observation, Obs
    <2>5. /\ mem' = [mem EXCEPT ![c] = Available(mem[c], config)]
          /\ obs' = [obs EXCEPT ![c] = Observation(config)]
          /\ pc' = [pc EXCEPT ![c] = IF mem[c].life = "live" THEN "publish" ELSE "delete"]
      BY <1>2, <2>3, <2>4 DEF ObserveReturns, Goto
    <2>6. StepType /\ Alone(c)
      BY <1>1, <2>3, <2>4, <2>5, InitialValues
      DEF TypeInvariant, TypeOK, Obs, Steps, StepType, Alone, Untouched
    <2>7. /\ mem'[c].status = config /\ obs'[c] = Observation(config)
          /\ mem'[c].life = mem[c].life
          /\ pc'[c] = IF mem[c].life = "live" THEN "publish" ELSE "delete"
      BY <2>3, <2>5 DEF TypeInvariant, TypeOK
    <2> QED
      BY <2>1, <2>2, <2>4, <2>6, <2>7 DEF Returned
  <1>3. CASE Fail(c, "status") /\ UNCHANGED <<cache, connCache>>
    BY <1>1, <1>3, FailShape DEF Fail, Goto, TypeInvariant, TypeOK
  <1> QED
    BY <1>1, <1>2, <1>3 DEF Observe

LEMMA PublishShape ==
    ASSUME TypeInvariant, NEW c \in CRs, PublishObserved(c), UNCHANGED sourceVars
    PROVE  /\ StepType /\ Alone(c) /\ Returned(c)'
           /\ pc[c] = "publish"
           /\ UNCHANGED <<api, cache, connCache, mem, base, obs>>
           /\ \/ /\ pc'[c] = "finalizer" /\ c \in WriteRef
                 /\ \/ conn'[c] = obs[c].details
                    \/ conn'[c] = conn[c] /\ connCache[c] = obs[c].details
              \/ pc'[c] = "finalizer" /\ c \notin WriteRef /\ conn'[c] = conn[c]
              \/ /\ pc'[c] = "status" /\ PublishCanFail(c) /\ UNCHANGED conn
  <1>1. /\ pc[c] = "publish" /\ obs[c].details \in Bundles
        /\ UNCHANGED <<api, cache, connCache, mem, base, obs>>
    BY DEF PublishObserved, Fail, TypeInvariant, Returned
  <1>2. CASE Publish(c) /\ Goto(c, "finalizer")
    <2>1. obs[c].details # NoDetails
      BY <1>1 DEF Bundles, NoDetails, NoConfig
    <2>2. \/ c \in WriteRef /\ SecretApplied(c, obs[c].details) = obs[c].details
          \/ /\ c \in WriteRef /\ SecretApplied(c, obs[c].details) = conn[c]
             /\ connCache[c] = obs[c].details
          \/ c \notin WriteRef /\ SecretApplied(c, obs[c].details) = conn[c]
      BY <2>1 DEF SecretApplied
    <2>3. /\ conn' = [conn EXCEPT ![c] = SecretApplied(c, obs[c].details)]
          /\ pc' = [pc EXCEPT ![c] = "finalizer"]
      BY <1>2 DEF Publish, Goto
    <2>4. /\ conn' \in [CRs -> Bundles \cup {NoSecret}]
          /\ conn'[c] = SecretApplied(c, obs[c].details)
          /\ \A d \in CRs \ {c} : conn'[d] = conn[d]
      BY <1>1, <2>2, <2>3 DEF TypeInvariant, TypeOK
    <2>5. /\ StepType /\ Alone(c) /\ Returned(c)' /\ pc'[c] = "finalizer"
      BY <1>1, <2>3, <2>4, InitialValues
      DEF TypeInvariant, TypeOK, Obs, Steps, StepType, Alone, Untouched, Returned
    <2> QED
      BY <1>1, <2>2, <2>4, <2>5
  <1>3. CASE PublishCanFail(c) /\ Fail(c, "status")
    BY <1>1, <1>3, FailShape DEF Fail
  <1> QED
    BY <1>2, <1>3 DEF PublishObserved

LEMMA FinalizerShape ==
    ASSUME TypeInvariant, NEW c \in CRs, AddFinalizer(c), UNCHANGED sourceVars
    PROVE  /\ StepType /\ Alone(c) /\ Returned(c)'
           /\ pc[c] = "finalizer" /\ pc'[c] = "status"
           /\ UNCHANGED <<cache, conn, connCache, obs>>
           /\ \/ UNCHANGED <<api, base, mem>>
              \/ /\ base[c] = api[c] /\ api'[c] = base'[c]
                 /\ api'[c].status = api[c].status /\ api'[c].life = mem[c].life
                 /\ mem'[c].status \in {mem[c].status, api[c].status}
                 /\ mem'[c].life = mem[c].life
  <1>1. /\ pc[c] = "finalizer" /\ pc' = [pc EXCEPT ![c] = "status"]
        /\ UNCHANGED <<cache, conn, connCache, obs>>
    BY DEF AddFinalizer, Fail, Goto, TypeInvariant, Returned
  <1>2. pc' \in [CRs -> Steps] /\ pc'[c] = "status" /\ Returned(c)'
    BY <1>1, InitialValues DEF TypeInvariant, TypeOK, Steps, Returned
  <1> DEFINE object == [mem[c] EXCEPT !.finalizer = TRUE]
  <1>3. object \in Object /\ object.status = mem[c].status /\ object.life = mem[c].life
    BY FinalizerUpdate DEF TypeInvariant, TypeOK
  <1>4. CASE UpdateObject(c, object)
    <2> HIDE DEF object
    <2>1. /\ api' \in [CRs -> Object] /\ base' \in [CRs -> Object] /\ mem' \in [CRs -> Object]
          /\ base[c] = api[c]
          /\ api'[c] = base'[c]
          /\ api'[c].status = api[c].status /\ api'[c].life = object.life
          /\ mem'[c].status \in {object.status, api[c].status} /\ mem'[c].life = object.life
          /\ \A d \in CRs \ {c} : api'[d] = api[d] /\ base'[d] = base[d] /\ mem'[d] = mem[d]
      BY <1>3, <1>4, UpdateObjectType DEF TypeInvariant
    <2>2. StepType /\ Alone(c)
      BY <1>1, <1>2, <2>1 DEF TypeInvariant, TypeOK, Obs, StepType, Alone, Untouched
    <2> QED
      BY <1>1, <1>2, <1>3, <2>1, <2>2
  <1>5. CASE UNCHANGED <<api, base, mem>>
    <2>1. StepType /\ Alone(c)
      BY <1>1, <1>2, <1>5 DEF TypeInvariant, TypeOK, Obs, StepType, Alone, Untouched
    <2> QED
      BY <1>1, <1>2, <1>5, <2>1
  <1> QED
    BY <1>4, <1>5 DEF AddFinalizer, Fail

LEMMA StatusShape ==
    ASSUME TypeInvariant, NEW c \in CRs, WriteStatus(c) \/ LoseStatus(c), UNCHANGED sourceVars
    PROVE  /\ StepType /\ Alone(c) /\ Returned(c)'
           /\ pc[c] \in {"status", "creating"} /\ pc'[c] = "idle"
           /\ mem'[c] = NewObject /\ base'[c] = NewObject /\ obs'[c] = NoObs
           /\ UNCHANGED <<cache, conn, connCache>>
           /\ \/ UNCHANGED api
              \/ /\ base[c] = api[c]
                 /\ api'[c].status = mem[c].status /\ api'[c].life = api[c].life
  <1>1. /\ pc[c] \in {"status", "creating"} /\ Finish(c) /\ UNCHANGED <<cache, conn, connCache>>
    BY DEF WriteStatus, LoseStatus
  <1>2. /\ api' \in [CRs -> Object] /\ \A d \in CRs \ {c} : api'[d] = api[d]
        /\ \/ UNCHANGED api
           \/ /\ base[c] = api[c]
              /\ api'[c].status = mem[c].status /\ api'[c].life = api[c].life
    <2>1. CASE WriteStatus(c)
      <3> DEFINE ready == IF pc[c] = "creating" THEN "false" ELSE mem[c].ready
                 object == [api[c] EXCEPT !.status = mem[c].status, !.ready = ready]
      <3>1. ready \in {"none", "true", "false"} /\ mem[c].status \in Configs
        BY ObjectFields DEF TypeInvariant, TypeOK
      <3>2. base[c] = api[c] /\ api' = [api EXCEPT ![c] = object]
        BY <2>1 DEF WriteStatus
      <3> HIDE DEF ready
      <3>3. object \in Object /\ object.status = mem[c].status /\ object.life = api[c].life
        <4>1. api[c] \in Object
          BY DEF TypeInvariant, TypeOK
        <4> QED
          BY <3>1, <4>1, StatusAndReadyUpdate, ZenonT(30)
      <3> HIDE DEF object
      <3> QED
        BY <3>2, <3>3 DEF TypeInvariant, TypeOK
    <2>2. CASE LoseStatus(c)
      BY <2>2 DEF LoseStatus, TypeInvariant, TypeOK
    <2> QED
      BY <2>1, <2>2
  <1>3. /\ mem' = [mem EXCEPT ![c] = NewObject]
        /\ base' = [base EXCEPT ![c] = NewObject]
        /\ obs' = [obs EXCEPT ![c] = NoObs]
        /\ pc' = [pc EXCEPT ![c] = "idle"]
    BY <1>1 DEF Finish, Goto
  <1>4. StepType /\ Alone(c) /\ Returned(c)'
    BY <1>1, <1>2, <1>3, InitialValues
    DEF TypeInvariant, TypeOK, Obs, Steps, StepType, Alone, Untouched, Returned
  <1> QED
    BY <1>1, <1>2, <1>3, <1>4 DEF TypeInvariant, TypeOK

LEMMA CallShape ==
    ASSUME TypeInvariant, NEW c \in CRs, ConnectFails(c) \/ Delete(c)
    PROVE  /\ StepType /\ Alone(c) /\ Returned(c)'
           /\ UNCHANGED <<api, cache, conn, connCache, mem, base, obs>>
           /\ \/ pc[c] = "observe" /\ pc'[c] = "status"
              \/ pc[c] = "delete" /\ pc'[c] = "creating"
  <1>1. /\ UNCHANGED <<api, cache, conn, connCache, mem, base, obs, sourceVars>>
        /\ \/ pc[c] = "observe" /\ Goto(c, "status")
           \/ pc[c] = "delete" /\ Goto(c, "creating")
    BY DEF ConnectFails, Delete, DeleteReturns, Fail
  <1> QED
    BY <1>1, FailShape

LEMMA ReconcileSteps ==
    ASSUME TypeInvariant, NEW c \in CRs, Reconcile(c)
    PROVE  \/ /\ UNCHANGED sourceVars
              /\ \/ Begin(c) \/ PublishObserved(c) \/ AddFinalizer(c)
                 \/ WriteStatus(c) \/ LoseStatus(c)
           \/ Observe(c)
           \/ ConnectFails(c) \/ Delete(c)
  BY NoSuchSteps DEF Reconcile, ReconcileStep

LEMMA ReconcileType ==
    ASSUME TypeInvariant, NEW c \in CRs, Reconcile(c)
    PROVE  TypeInvariant' /\ Alone(c)
  <1>1. StepType /\ Alone(c) /\ Returned(c)'
    BY ReconcileSteps, BeginShape, PublishShape, FinalizerShape, StatusShape, ObserveShape,
       CallShape
  <1> QED
    BY <1>1, StepTypeInvariant

----------------------------------------------------------------------------
(* The steps of the environment *)

\* What a step of the environment does to c: the informers copy, the process loses what
\* it had in memory, a user deletes.
LEMMA EnvironmentShape ==
    ASSUME TypeInvariant, EnvironmentStep, NEW c \in CRs
    PROVE  /\ StepType
           /\ Returned(c)'
           /\ UNCHANGED api \/ UNCHANGED <<cache, pc, mem, base, obs>>
           /\ api'[c].status = api[c].status
           /\ api'[c].life = "live" => api'[c] = api[c]
           /\ conn'[c] \in {conn[c], NoSecret}
           /\ \/ pc'[c] = pc[c] /\ mem'[c] = mem[c] /\ base'[c] = base[c] /\ obs'[c] = obs[c]
              \/ pc'[c] = "down" /\ mem'[c] = NewObject /\ base'[c] = NewObject /\ obs'[c] = NoObs
              \/ pc'[c] = "idle" /\ mem'[c] = mem[c] /\ base'[c] = base[c] /\ obs'[c] = obs[c]
           /\ cache'[c] \in {cache[c], api[c], NewObject}
           /\ connCache'[c] = connCache[c] \/ connCache'[c] = conn[c] \/ pc'[c] = "down"
  <1>1. ASSUME NEW d \in CRs, CacheSync(d) \/ ConnSync(d)
        PROVE  /\ StepType
               /\ UNCHANGED <<api, conn, pc, mem, base, obs>>
               /\ cache'[c] \in {cache[c], api[c]} /\ connCache'[c] \in {connCache[c], conn[c]}
    BY <1>1, InitialValues DEF CacheSync, ConnSync, TypeInvariant, TypeOK, Obs, StepType
  <1>2. ASSUME NEW d \in CRs, RequestDelete(d)
        PROVE  /\ StepType
               /\ UNCHANGED <<cache, connCache, pc, mem, base, obs>>
               /\ api'[c].status = api[c].status
               /\ api'[c].life = "live" => api'[c] = api[c]
               /\ conn'[c] \in {conn[c], NoSecret}
    <2> DEFINE life == IF api[d].finalizer THEN "deleting" ELSE "gone"
               object == [api[d] EXCEPT !.life = life]
    <2>1. life \in {"live", "deleting", "gone"} /\ life # "live"
      OBVIOUS
    <2>2. api' = [api EXCEPT ![d] = object]
      BY <1>2 DEF RequestDelete
    <2>3. api[d] \in Object
      BY DEF TypeInvariant, TypeOK
    <2> HIDE DEF life
    <2>4. object \in Object /\ object.status = api[d].status /\ object.life = life
      BY <2>1, <2>3, LifeUpdate
    <2> HIDE DEF object
    <2>5. /\ api' \in [CRs -> Object] /\ api'[c].status = api[c].status
          /\ api'[c].life = "live" => api'[c] = api[c]
      BY <2>1, <2>2, <2>4 DEF TypeInvariant, TypeOK
    <2>6. /\ conn' \in [CRs -> Bundles \cup {NoSecret}]
          /\ conn'[c] \in {conn[c], NoSecret}
      BY <1>2 DEF RequestDelete, TypeInvariant, TypeOK
    <2>7. UNCHANGED <<cache, connCache, pc, mem, base, obs>>
      BY <1>2 DEF RequestDelete
    <2> QED
      BY <2>5, <2>6, <2>7, InitialValues DEF TypeInvariant, TypeOK, Obs, StepType
  <1>3. ASSUME Crash
        PROVE  /\ StepType /\ UNCHANGED <<api, conn>>
               /\ pc'[c] = "down" /\ mem'[c] = NewObject /\ base'[c] = NewObject
               /\ obs'[c] = NoObs /\ cache'[c] = NewObject
    BY <1>3, InitialValues DEF Crash, Steps, TypeInvariant, TypeOK, StepType
  <1>4. ASSUME Start
        PROVE  /\ StepType /\ UNCHANGED <<api, conn, mem, base, obs>>
               /\ pc'[c] = "idle" /\ cache'[c] = api[c] /\ connCache'[c] = conn[c]
    BY <1>4, InitialValues DEF Start, Steps, TypeInvariant, TypeOK, Obs, StepType
  <1>5. Returned(c)
    BY DEF TypeInvariant
  <1>6. CASE \E d \in CRs : CacheSync(d) \/ ConnSync(d)
    BY <1>1, <1>5, <1>6 DEF Returned
  <1>7. CASE \E d \in CRs : RequestDelete(d)
    BY <1>2, <1>5, <1>7 DEF Returned
  <1>8. CASE Crash
    BY <1>3, <1>8 DEF Returned
  <1>9. CASE Start
    BY <1>4, <1>9 DEF Returned
  <1> QED
    BY <1>6, <1>7, <1>8, <1>9 DEF EnvironmentStep

\* What the Secret that c renders from does, and its loss, touches nothing else of c.
LEMMA OtherShape ==
    ASSUME TypeInvariant, NEW c \in CRs,
           \/ \E d \in CRs : LoseSecret(d)
           \/ SourcePublished \/ SourceDamaged \/ SourceSync
    PROVE  /\ StepType /\ Returned(c)'
           /\ UNCHANGED <<api, cache, connCache, pc, mem, base, obs>>
           /\ conn'[c] \in {conn[c], NoSecret}
  <1>1. /\ UNCHANGED <<api, cache, connCache, pc, mem, base, obs>>
        /\ conn' = conn \/ \E d \in CRs : conn' = [conn EXCEPT ![d] = NoSecret]
    BY DEF LoseSecret, SourcePublished, SourceDamaged, SourceSync
  <1> QED
    BY <1>1, InitialValues DEF TypeInvariant, TypeOK, Obs, StepType, Returned

LEMMA SourceType ==
    ASSUME TypeInvariant, [Next]_vars
    PROVE  /\ source' \in [json : Key, structured : Key]
           /\ sourceCache' \in [json : Key, structured : Key]
           /\ newest' \in Configs
           /\ Sound(source)' /\ Sound(sourceCache)'
  <1> USE DEF TypeInvariant, TypeOK
  <1>1. Absent \in Key /\ Garbage \in Key /\ \A b \in Bundles : Holding(b) \in Key
    BY DEF Absent, Garbage, Holding, Key
  <1>2. CASE UNCHANGED sourceVars
    BY <1>2 DEF sourceVars, Sound
  <1>3. CASE SourcePublished
    BY <1>1, <1>3 DEF SourcePublished, SourceSecret, Holding, Sound, Configs
  <1>4. CASE SourceDamaged
    BY <1>1, <1>4 DEF SourceDamaged, SourceSecret, Absent, Garbage, Sound
  <1>5. CASE SourceSync \/ StartSynced
    BY <1>5 DEF SourceSync, StartSynced, Sound
  <1> QED
    BY <1>2, <1>3, <1>4, <1>5, ReconcileType DEF Next, Alone, vars, sourceVars, LoseSecret

LEMMA InitType == Init => TypeInvariant
  <1> SUFFICES ASSUME Init PROVE TypeInvariant
    OBVIOUS
  <1>1. NoSource \in [json : Key, structured : Key] /\ Sound(NoSource)
    BY DEF NoSource, SourceSecret, Absent, Key, Sound
  <1>2. TypeOK
    BY <1>1, InitialValues DEF Init, ReconcilerInit, Steps, TypeOK, Obs
  <1> QED
    BY <1>1, <1>2 DEF Init, ReconcilerInit, TypeInvariant, Returned

LEMMA TypeStep ==
    ASSUME TypeInvariant, [Next]_vars
    PROVE  TypeInvariant'
  <1>1. ASSUME StepType, \A d \in CRs : Returned(d)'
        PROVE  TypeInvariant'
    BY <1>1, SourceType, InitialValues DEF StepType, TypeInvariant, TypeOK, Obs
  <1>2. ASSUME NEW c \in CRs, Reconcile(c)
        PROVE  TypeInvariant'
    BY <1>2, ReconcileType
  <1>3. CASE \/ EnvironmentStep
             \/ \E d \in CRs : LoseSecret(d)
             \/ SourcePublished \/ SourceDamaged \/ SourceSync
    <2>1. \A c \in CRs : StepType /\ Returned(c)'
      BY <1>3, EnvironmentShape, OtherShape
    <2>2. CASE CRs = {}
      <3>1. UNCHANGED <<api, cache, conn, connCache, pc, mem, base, obs>>
        BY <1>3, <2>2 DEF EnvironmentStep, Crash, Start, SourcePublished, SourceDamaged, SourceSync
      <3> QED
        BY <2>2, <3>1, SourceType DEF TypeInvariant, TypeOK
    <2>3. CASE CRs # {}
      BY <2>1, <2>3, <1>1
    <2> QED
      BY <2>2, <2>3
  <1>4. CASE UNCHANGED vars
    BY <1>4 DEF vars, TypeInvariant, TypeOK, Sound, Returned
  <1> QED
    BY <1>2, <1>3, <1>4 DEF Next, StartSynced, EnvironmentStep

LEMMA TypeInvariantHolds == Spec => []TypeInvariant
  BY InitType, TypeStep, PTL DEF Spec

\* Every variable has its type, and the loop calls neither Create nor Update.
THEOREM TypeCorrect == Spec => []TypeOK
  <1>1. TypeInvariant => TypeOK
    BY DEF TypeInvariant
  <1> QED
    BY <1>1, TypeInvariantHolds, PTL

----------------------------------------------------------------------------
(* No way back to an older bundle *)

\* The configurations that c has anywhere.
Known(c) ==
    {api[c].status, cache[c].status, mem[c].status, obs[c].details}
        \cup (IF conn[c] = NoSecret THEN {} ELSE {conn[c]})

NotNewer(c, b) == \A v \in Known(c) : v <= b

Keys(secret) == {key \in {secret.json, secret.structured} : key.state = "bundle"}

\* The Secret of the Secrets holds its newest bundle, and the copy of the Secret one
\* bundle that is as new as anything rendered from it, or none: a damaged copy may
\* have forgotten, but it never remembers anything older.
SourceOrder ==
    /\ \A key \in Keys(source) : key.bundle = newest
    /\ \A key \in Keys(sourceCache) : key.bundle <= newest
    /\ \A key, other \in Keys(sourceCache) : key.bundle = other.bundle

Ordered(c) ==
    /\ NotNewer(c, newest)
    /\ \A key \in Keys(sourceCache) : NotNewer(c, key.bundle)
    /\ pc[c] = "publish" =>
          /\ api[c].status <= obs[c].details
          /\ conn[c] # NoSecret => conn[c] <= obs[c].details

OrderInvariant == TypeInvariant /\ SourceOrder /\ \A c \in CRs : Ordered(c)

LEMMA KnownType ==
    ASSUME TypeInvariant, NEW c \in CRs
    PROVE  Known(c) \subseteq Configs
  BY DEF TypeInvariant, TypeOK, Known, Configs, Object

LEMMA NewValues == NewObject.status = 0 /\ NoObs.details = 0
  BY DEF NewObject, NoObs, InitStatus, NoDetails, NoConfig

LEMMA Comparable ==
    /\ Configs \subseteq Nat /\ 0 \in Configs
    /\ \A key \in Key : key.bundle \in Configs
  BY InitialValues DEF Configs, NoConfig, Key

\* What a worker knows comes from what it knew, or from the copy of the Secret.
LEMMA KnownStep ==
    ASSUME TypeInvariant, [Next]_vars, NEW c \in CRs
    PROVE  \/ Known(c)' \subseteq Known(c) \cup {0}
           \/ /\ Observe(c) /\ UNCHANGED <<api, conn>> /\ UNCHANGED sourceVars
              /\ \E key \in Keys(sourceCache) :
                    /\ Known(c)' \subseteq Known(c) \cup {key.bundle}
                    /\ obs'[c].details = key.bundle
  <1>1. ASSUME NEW d \in CRs \ {c}, Reconcile(d)
        PROVE  Known(c)' = Known(c)
    BY <1>1, ReconcileType DEF Alone, Untouched, Known
  <1>2. CASE Reconcile(c)
    <2>1. CASE Begin(c) /\ UNCHANGED sourceVars
      BY <2>1, BeginShape DEF Known
    <2>2. CASE PublishObserved(c) /\ UNCHANGED sourceVars
      BY <2>2, PublishShape DEF Known
    <2>3. CASE AddFinalizer(c) /\ UNCHANGED sourceVars
      BY <2>3, FinalizerShape DEF Known
    <2>4. CASE (WriteStatus(c) \/ LoseStatus(c)) /\ UNCHANGED sourceVars
      BY <2>4, StatusShape, NewValues DEF Known
    <2>5. CASE Observe(c)
      <3>1. UNCHANGED <<api, cache, conn>> /\ UNCHANGED sourceVars
        BY <2>5, ObserveShape DEF Alone
      <3>2. CASE UNCHANGED <<mem, obs>>
        BY <3>1, <3>2 DEF Known
      <3>3. CASE /\ mem'[c].status \in GetMachineSecretsBundle(sourceCache)
                 /\ obs'[c].details = mem'[c].status
        <4>1. PICK key \in Keys(sourceCache) : mem'[c].status = key.bundle
          BY <3>3 DEF GetMachineSecretsBundle, Keys
        <4>2. Known(c)' \subseteq Known(c) \cup {key.bundle}
          BY <3>1, <3>3, <4>1 DEF Known
        <4> QED
          BY <2>5, <3>1, <3>3, <4>1, <4>2
      <3> QED
        BY <2>5, <3>2, <3>3, ObserveShape
    <2>6. CASE ConnectFails(c) \/ Delete(c)
      BY <2>6, CallShape DEF Known
    <2> QED
      BY <1>2, <2>1, <2>2, <2>3, <2>4, <2>5, <2>6, ReconcileSteps
  <1>3. CASE EnvironmentStep
    <2>1. /\ api'[c].status = api[c].status /\ conn'[c] \in {conn[c], NoSecret}
          /\ mem'[c] \in {mem[c], NewObject} /\ obs'[c] \in {obs[c], NoObs}
          /\ cache'[c] \in {cache[c], api[c], NewObject}
      BY <1>3, EnvironmentShape
    <2> QED
      BY <2>1, NewValues DEF Known
  <1>4. CASE (\E d \in CRs : LoseSecret(d)) \/ SourcePublished \/ SourceDamaged \/ SourceSync
    BY <1>4, OtherShape DEF Known
  <1>5. CASE UNCHANGED vars
    BY <1>5 DEF vars, Known
  <1> QED
    BY <1>1, <1>2, <1>3, <1>4, <1>5 DEF Next, StartSynced, EnvironmentStep

LEMMA SourceSteps ==
    ASSUME TypeInvariant, [Next]_vars
    PROVE  \/ UNCHANGED sourceVars
           \/ SourcePublished \/ SourceDamaged
           \/ sourceCache' = source /\ UNCHANGED <<source, newest>>
  BY ReconcileType DEF Next, Alone, LoseSecret, SourceSync, StartSynced, vars, sourceVars

LEMMA SourceOrderStep ==
    ASSUME TypeInvariant, SourceOrder, [Next]_vars
    PROVE  SourceOrder' /\ newest <= newest'
  <1>1. newest \in Nat /\ newest <= newest
    BY Comparable DEF TypeInvariant, TypeOK
  <1>2. CASE UNCHANGED sourceVars
    BY <1>1, <1>2 DEF sourceVars, SourceOrder, Keys
  <1>3. CASE SourcePublished
    <2>1. PICK b \in {newest, newest + 1} \cap Bundles :
              /\ source' = SourceSecret(Holding(b), Holding(b))
              /\ newest' = b
      BY <1>3 DEF SourcePublished
    <2>2. sourceCache' = sourceCache
      BY <1>3 DEF SourcePublished
    <2>3. newest <= newest'
      BY <1>1, <2>1
    <2>4. \A key \in Keys(source)' : key.bundle = newest'
      BY <2>1 DEF SourceSecret, Holding, Keys
    <2>5. \A key \in Keys(sourceCache)' : key.bundle <= newest'
      <3>1. Keys(sourceCache)' = Keys(sourceCache)
        BY <2>2 DEF Keys
      <3>2. \A key \in Keys(sourceCache) : key.bundle \in Nat
        BY Comparable DEF TypeInvariant, TypeOK, Keys
      <3>3. newest' \in Nat
        BY <1>1, <2>1
      <3> QED
        BY <1>1, <2>3, <3>1, <3>2, <3>3 DEF SourceOrder
    <2> QED
      BY <2>2, <2>3, <2>4, <2>5 DEF SourceOrder, Keys
  <1>4. CASE SourceDamaged
    <2>1. Keys(source)' \subseteq Keys(source) /\ UNCHANGED <<sourceCache, newest>>
      BY <1>4 DEF SourceDamaged, SourceSecret, Absent, Garbage, Keys
    <2> QED
      BY <1>1, <2>1 DEF SourceOrder, Keys
  <1>5. CASE sourceCache' = source /\ UNCHANGED <<source, newest>>
    <2>1. Keys(source)' = Keys(source) /\ Keys(sourceCache)' = Keys(source)
      BY <1>5 DEF Keys
    <2> QED
      BY <1>1, <1>5, <2>1 DEF SourceOrder
  <1> QED
    BY <1>2, <1>3, <1>4, <1>5, SourceSteps

LEMMA OrderedStep ==
    ASSUME OrderInvariant, [Next]_vars, NEW c \in CRs
    PROVE  Ordered(c)'
  <1>1. /\ TypeInvariant /\ TypeInvariant' /\ SourceOrder /\ SourceOrder' /\ newest <= newest'
        /\ Ordered(c)
    BY TypeStep, SourceOrderStep DEF OrderInvariant
  <1>2. /\ newest \in Nat /\ newest' \in Nat
        /\ Known(c) \subseteq Nat /\ Known(c)' \subseteq Nat
        /\ \A key \in Keys(sourceCache) \cup Keys(sourceCache)' : key.bundle \in Nat
    <2>1. newest \in Configs /\ newest' \in Configs
      BY <1>1 DEF TypeInvariant, TypeOK
    <2>2. Known(c)' \subseteq Configs
      BY <1>1 DEF TypeInvariant, TypeOK, Known, Configs, Object
    <2>3. Keys(sourceCache) \subseteq Key /\ Keys(sourceCache)' \subseteq Key
      BY <1>1 DEF TypeInvariant, TypeOK, Keys
    <2> QED
      BY <1>1, <2>1, <2>2, <2>3, KnownType, Comparable
  <1>3. \A key \in Keys(sourceCache)' : key \in Keys(sourceCache) \/ key.bundle = newest
    <2>1. CASE UNCHANGED sourceVars \/ SourcePublished \/ SourceDamaged
      BY <2>1 DEF sourceVars, SourcePublished, SourceDamaged, Keys
    <2>2. CASE sourceCache' = source /\ UNCHANGED <<source, newest>>
      BY <1>1, <2>2 DEF SourceOrder, Keys
    <2> QED
      BY <1>1, <2>1, <2>2, SourceSteps
  <1>4. CASE Known(c)' \subseteq Known(c) \cup {0}
    <2>1. \A v \in Known(c)' : v <= newest
      BY <1>1, <1>2, <1>4 DEF Ordered, NotNewer
    <2>2. \A v \in Known(c)' : v <= newest'
      BY <1>1, <1>2, <2>1
    <2>3. \A key \in Keys(sourceCache)' : \A v \in Known(c)' : v <= key.bundle
      BY <1>1, <1>2, <1>3, <1>4, <2>1 DEF Ordered, NotNewer
    <2>4. CASE Observe(c) \/ pc'[c] # "publish"
      <3>1. pc'[c] = "publish" =>
                /\ Observe(c) /\ UNCHANGED <<api, conn>>
                /\ \E key \in Keys(sourceCache) : obs'[c].details = key.bundle
        <4>1. CASE Observe(c)
          <5>1. UNCHANGED <<api, conn>>
            BY <1>1, <4>1, ObserveShape
          <5>2. pc'[c] = "publish" => \E key \in Keys(sourceCache) : obs'[c].details = key.bundle
            BY <1>1, <4>1, ObserveShape DEF GetMachineSecretsBundle, Keys
          <5> QED
            BY <4>1, <5>1, <5>2
        <4> QED
          BY <2>4, <4>1
      <3>2. pc'[c] = "publish" =>
                /\ api'[c].status <= obs'[c].details
                /\ conn'[c] # NoSecret => conn'[c] <= obs'[c].details
        BY <1>1, <3>1 DEF Ordered, NotNewer, Known
      <3> QED
        BY <2>2, <2>3, <3>2 DEF Ordered, NotNewer
    <2>5. CASE ~Observe(c) /\ pc'[c] = "publish"
      <3>1. /\ pc[c] = "publish" /\ api'[c].status = api[c].status /\ obs'[c] = obs[c]
            /\ conn'[c] \in {conn[c], NoSecret}
        <4>1. ASSUME NEW d \in CRs \ {c}, Reconcile(d)
              PROVE  Untouched(c)
          BY <1>1, <4>1, ReconcileType DEF Alone
        <4>2. ~Reconcile(c)
          BY <1>1, <2>5, ReconcileSteps, BeginShape, PublishShape, FinalizerShape, StatusShape,
             CallShape
        <4>3. CASE EnvironmentStep
          BY <1>1, <2>5, <4>3, EnvironmentShape
        <4>4. CASE (\E d \in CRs : LoseSecret(d)) \/ SourcePublished \/ SourceDamaged \/ SourceSync
          BY <1>1, <2>5, <4>4, OtherShape
        <4>5. CASE UNCHANGED vars
          BY <2>5, <4>5 DEF vars
        <4> QED
          BY <2>5, <4>1, <4>2, <4>3, <4>4, <4>5
          DEF Next, StartSynced, EnvironmentStep, Untouched
      <3>2. /\ api'[c].status <= obs'[c].details
            /\ conn'[c] # NoSecret => conn'[c] <= obs'[c].details
        BY <1>1, <3>1 DEF Ordered
      <3> QED
        BY <2>2, <2>3, <3>2 DEF Ordered, NotNewer
    <2> QED
      BY <2>4, <2>5
  <1>5. CASE /\ Observe(c) /\ UNCHANGED <<api, conn>> /\ UNCHANGED sourceVars
             /\ \E key \in Keys(sourceCache) :
                   /\ Known(c)' \subseteq Known(c) \cup {key.bundle}
                   /\ obs'[c].details = key.bundle
    <2>1. PICK key \in Keys(sourceCache) :
              /\ Known(c)' \subseteq Known(c) \cup {key.bundle}
              /\ obs'[c].details = key.bundle
      BY <1>5
    <2>2. /\ newest' = newest /\ Keys(sourceCache)' = Keys(sourceCache)
      BY <1>5 DEF sourceVars, Keys
    <2>3. \A v \in Known(c)' : v <= newest'
      BY <1>1, <2>1, <2>2 DEF Ordered, NotNewer, SourceOrder
    <2>4. \A other \in Keys(sourceCache)' : \A v \in Known(c)' : v <= other.bundle
      <3>1. \A other \in Keys(sourceCache) : other.bundle = key.bundle
        BY <1>1, <2>1 DEF SourceOrder
      <3>2. \A v \in Known(c)' : v <= key.bundle
        BY <1>1, <1>2, <2>1 DEF Ordered, NotNewer
      <3> QED
        BY <2>2, <3>1, <3>2
    <2>5. /\ api'[c].status <= obs'[c].details
          /\ conn'[c] # NoSecret => conn'[c] <= obs'[c].details
      <3>1. api[c].status \in Known(c) /\ (conn[c] # NoSecret => conn[c] \in Known(c))
        BY DEF Known
      <3> QED
        BY <1>1, <1>5, <2>1, <3>1 DEF Ordered, NotNewer
    <2> QED
      BY <2>3, <2>4, <2>5 DEF Ordered, NotNewer
  <1> QED
    BY <1>1, <1>4, <1>5, KnownStep

LEMMA OrderStep ==
    ASSUME OrderInvariant, [Next]_vars
    PROVE  OrderInvariant'
  BY TypeStep, SourceOrderStep, OrderedStep DEF OrderInvariant

LEMMA OrderInit == Init => OrderInvariant
  <1> SUFFICES ASSUME Init PROVE OrderInvariant
    OBVIOUS
  <1>1. TypeInvariant
    BY InitType
  <1>2. Keys(source) = {} /\ Keys(sourceCache) = {} /\ newest = 0
    BY DEF Init, NoSource, SourceSecret, Absent, Keys
  <1>3. ASSUME NEW c \in CRs
        PROVE  Ordered(c)
    <2>1. Known(c) = {0} /\ pc[c] = "idle"
      BY NewValues DEF Init, ReconcilerInit, Known
    <2> QED
      BY <1>2, <2>1 DEF Ordered, NotNewer
  <1> QED
    BY <1>1, <1>2, <1>3 DEF OrderInvariant, SourceOrder

LEMMA OrderInvariantHolds == Spec => []OrderInvariant
  BY OrderInit, OrderStep, PTL DEF Spec

\* A configuration in a Secret gives way to none from an older bundle, whatever faults.
THEOREM NeverGoesBack == Spec => NeverBackwards
  <1> DEFINE Forward(c) == conn[c] # NoSecret /\ conn'[c] # NoSecret => conn'[c] >= conn[c]
  <1>1. ASSUME OrderInvariant, [Next]_vars, NEW c \in CRs
        PROVE  Forward(c)
    <2>1. /\ TypeInvariant /\ Ordered(c)
          /\ conn[c] # NoSecret => conn[c] \in Nat
      BY <1>1, InitialValues DEF OrderInvariant, TypeInvariant, TypeOK
    <2>2. CASE conn'[c] \in {conn[c], NoSecret}
      BY <2>1, <2>2
    <2>3. CASE PublishObserved(c) /\ UNCHANGED sourceVars
      <3>1. conn'[c] \in {conn[c], obs[c].details} /\ pc[c] = "publish" /\ obs[c].details \in Nat
        BY <2>1, <2>3, PublishShape, InitialValues DEF TypeInvariant, Returned
      <3> QED
        BY <2>1, <3>1 DEF Ordered
    <2>4. CASE Reconcile(c)
      BY <2>1, <2>2, <2>3, <2>4, ReconcileSteps, BeginShape, FinalizerShape, StatusShape,
         ObserveShape, CallShape
    <2>5. CASE \E d \in CRs \ {c} : Reconcile(d)
      BY <2>1, <2>2, <2>5, ReconcileType DEF Alone, Untouched
    <2>6. CASE EnvironmentStep
      BY <2>1, <2>2, <2>6, EnvironmentShape
    <2>7. CASE (\E d \in CRs : LoseSecret(d)) \/ SourcePublished \/ SourceDamaged \/ SourceSync
      BY <2>1, <2>2, <2>7, OtherShape
    <2>8. CASE UNCHANGED vars
      BY <2>2, <2>8 DEF vars
    <2> HIDE DEF Forward
    <2> QED
      BY <1>1, <2>4, <2>5, <2>6, <2>7, <2>8 DEF Next, StartSynced, EnvironmentStep
  <1>2. OrderInvariant /\ [Next]_vars => [\A c \in CRs : Forward(c)]_vars
    BY <1>1
  <1> QED
    BY <1>2, OrderInvariantHolds, PTL DEF Spec, NeverBackwards

----------------------------------------------------------------------------
(* The status does not run ahead of the Secret *)

Published(c, config) == conn[c] # NoSecret => config <= conn[c]

\* From the copies a reconcile starts with to its status write: with caches that are
\* fresh when it starts, the Secret is what its cached copy shows, or was deleted.
\* What Observe rendered gets into the status only after it was published, except
\* that of a resource that is being deleted.
Behind(c) ==
    /\ mem[c].life = base[c].life
    /\ api[c].life = "live" => Published(c, api[c].status)
    /\ pc[c] \in {"observe", "publish"} => conn[c] \in {connCache[c], NoSecret}
    /\ pc[c] = "observe" => mem[c].status = base[c].status
    /\ pc[c] = "finalizer" => Published(c, mem[c].status)
    /\ pc[c] = "delete" => mem[c].life # "live"
    /\ pc[c] \in {"status", "creating"} /\ mem[c].life = "live" =>
          mem[c].status = base[c].status \/ Published(c, mem[c].status)

BehindInvariant == OrderInvariant /\ \A c \in WriteRef : Behind(c)

LEMMA BeginBehind ==
    ASSUME BehindInvariant, NEW c \in WriteRef, "stale" \notin Env,
           Begin(c), UNCHANGED sourceVars
    PROVE  Behind(c)'
  <1>1. c \in CRs /\ TypeInvariant /\ Behind(c)
    BY ConfigurationAssumption DEF BehindInvariant, OrderInvariant
  <1>2. connCache[c] = conn[c]
    BY DEF Begin
  <1>3. /\ mem'[c] = cache[c] /\ base'[c] = cache[c]
        /\ pc'[c] \in {"observe", "creating"}
        /\ UNCHANGED <<api, cache, conn, connCache, obs>>
    BY <1>1, BeginShape
  <1> QED
    BY <1>1, <1>2, <1>3 DEF Behind, Published

LEMMA ObserveBehind ==
    ASSUME BehindInvariant, NEW c \in WriteRef, Observe(c)
    PROVE  Behind(c)'
  <1>1. c \in CRs /\ TypeInvariant /\ Behind(c)
    BY ConfigurationAssumption DEF BehindInvariant, OrderInvariant
  <1> QED
    BY <1>1, ObserveShape DEF Behind, Published

LEMMA PublishBehind ==
    ASSUME BehindInvariant, NEW c \in WriteRef, "publishError" \notin Env,
           PublishObserved(c), UNCHANGED sourceVars
    PROVE  Behind(c)'
  <1>1. c \in CRs /\ TypeInvariant /\ Behind(c) /\ Ordered(c)
    BY ConfigurationAssumption DEF BehindInvariant, OrderInvariant
  <1>2. /\ pc[c] = "publish" /\ mem[c].status = obs[c].details /\ obs[c].details \in Nat
        /\ UNCHANGED <<api, cache, connCache, mem, base, obs>>
    BY <1>1, PublishShape, InitialValues DEF TypeInvariant, Returned
  <1>3. CASE pc'[c] = "finalizer" /\ conn'[c] = obs[c].details
    <2>1. Published(c, mem[c].status)' /\ (api[c].life = "live" => Published(c, api[c].status)')
      <3>1. api[c].status <= obs[c].details
        BY <1>1, <1>2 DEF Ordered
      <3> QED
        BY <1>2, <1>3, <3>1 DEF Published
    <2> QED
      BY <1>1, <1>2, <1>3, <2>1 DEF Behind
  <1>4. CASE pc'[c] = "finalizer" /\ conn'[c] = conn[c] /\ connCache[c] = obs[c].details
    BY <1>1, <1>2, <1>4 DEF Behind, Published
  <1>5. CASE pc'[c] = "status" /\ PublishCanFail(c) /\ UNCHANGED conn
    <2>1. ~((connCache[c] = NoSecret) <=> (conn[c] = NoSecret))
      BY <1>5 DEF PublishCanFail, SecretApplies
    <2>2. conn[c] = NoSecret
      BY <1>1, <1>2, <2>1 DEF Behind
    <2> QED
      BY <1>1, <1>2, <1>5, <2>2 DEF Behind, Published
  <1> QED
    BY <1>1, <1>3, <1>4, <1>5, PublishShape

LEMMA FinalizerBehind ==
    ASSUME BehindInvariant, NEW c \in WriteRef, AddFinalizer(c), UNCHANGED sourceVars
    PROVE  Behind(c)'
  <1>1. c \in CRs /\ TypeInvariant /\ Behind(c)
    BY ConfigurationAssumption DEF BehindInvariant, OrderInvariant
  <1> QED
    BY <1>1, FinalizerShape DEF Behind, Published

LEMMA StatusBehind ==
    ASSUME BehindInvariant, NEW c \in WriteRef, WriteStatus(c) \/ LoseStatus(c), UNCHANGED sourceVars
    PROVE  Behind(c)'
  <1>1. c \in CRs /\ TypeInvariant /\ Behind(c)
    BY ConfigurationAssumption DEF BehindInvariant, OrderInvariant
  <1> QED
    BY <1>1, StatusShape DEF Behind, Published

LEMMA CallBehind ==
    ASSUME BehindInvariant, NEW c \in WriteRef, ConnectFails(c) \/ Delete(c)
    PROVE  Behind(c)'
  <1>1. c \in CRs /\ TypeInvariant /\ Behind(c)
    BY ConfigurationAssumption DEF BehindInvariant, OrderInvariant
  <1> QED
    BY <1>1, CallShape DEF Behind, Published

LEMMA EnvironmentBehind ==
    ASSUME BehindInvariant, NEW c \in WriteRef, EnvironmentStep
    PROVE  Behind(c)'
  <1>1. c \in CRs /\ TypeInvariant /\ Behind(c)
    BY ConfigurationAssumption DEF BehindInvariant, OrderInvariant
  <1>2. /\ api'[c].life = "live" => api'[c] = api[c]
        /\ conn'[c] \in {conn[c], NoSecret}
        /\ \/ pc'[c] = pc[c] /\ mem'[c] = mem[c] /\ base'[c] = base[c]
           \/ pc'[c] = "down" /\ mem'[c] = NewObject /\ base'[c] = NewObject
           \/ pc'[c] = "idle" /\ mem'[c] = mem[c] /\ base'[c] = base[c]
        /\ connCache'[c] = connCache[c] \/ connCache'[c] = conn[c] \/ pc'[c] = "down"
    BY <1>1, EnvironmentShape
  <1> QED
    BY <1>1, <1>2 DEF Behind, Published

LEMMA BehindStep ==
    ASSUME "stale" \notin Env, "publishError" \notin Env, BehindInvariant, [Next]_vars
    PROVE  BehindInvariant'
  <1>1. OrderInvariant /\ TypeInvariant /\ OrderInvariant'
    BY OrderStep DEF BehindInvariant, OrderInvariant
  <1>2. ASSUME NEW c \in WriteRef
        PROVE  Behind(c)'
    <2>1. c \in CRs /\ Behind(c)
      BY ConfigurationAssumption DEF BehindInvariant
    <2>2. CASE Reconcile(c)
      BY <1>1, <2>1, <2>2, ReconcileSteps, BeginBehind, ObserveBehind, PublishBehind,
         FinalizerBehind, StatusBehind, CallBehind
    <2>3. CASE \E d \in CRs \ {c} : Reconcile(d)
      <3>1. Untouched(c)
        BY <1>1, <2>1, <2>3, ReconcileType DEF Alone
      <3> QED
        BY <2>1, <3>1 DEF Untouched, Behind, Published
    <2>4. CASE EnvironmentStep
      BY <2>4, EnvironmentBehind
    <2>5. CASE (\E d \in CRs : LoseSecret(d)) \/ SourcePublished \/ SourceDamaged \/ SourceSync
      <3>1. /\ UNCHANGED <<api, cache, connCache, pc, mem, base, obs>>
            /\ conn'[c] \in {conn[c], NoSecret}
        BY <1>1, <2>1, <2>5, OtherShape
      <3> QED
        BY <2>1, <3>1 DEF Behind, Published
    <2>6. CASE UNCHANGED vars
      BY <2>1, <2>6 DEF vars, Behind, Published
    <2> QED
      BY <2>2, <2>3, <2>4, <2>5, <2>6 DEF Next, StartSynced, EnvironmentStep
  <1> QED
    BY <1>1, <1>2 DEF BehindInvariant

\* With fresh caches and publications that do not fail, who waits for a status finds its
\* configuration in the Secret, or a newer one, whatever crashes and lost writes.
THEOREM SecretFirst ==
    ASSUME "stale" \notin Env, "publishError" \notin Env
    PROVE  Spec => []StatusNotAhead
  <1>1. Init => BehindInvariant
    <2> SUFFICES ASSUME Init PROVE \A c \in WriteRef : Behind(c)
      BY OrderInit DEF BehindInvariant
    <2> QED
      BY ConfigurationAssumption DEF Init, ReconcilerInit, Behind, Published
  <1>2. BehindInvariant => StatusNotAhead
    BY DEF BehindInvariant, Behind, Published, StatusNotAhead
  <1> QED
    BY <1>1, <1>2, BehindStep, PTL DEF Spec
================================================================================
