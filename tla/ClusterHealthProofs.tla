-------------------------- MODULE ClusterHealthProofs --------------------------
(***************************************************************************)
(* Theorems about ClusterHealth, for every set of resources and of nodes,  *)
(* whatever the nodes each resource names, in whatever order and how often.*)
(***************************************************************************)
EXTENDS ClusterHealth, TLAPS

----------------------------------------------------------------------------
(* The type invariant *)

Obs == [exists : BOOLEAN, upToDate : BOOLEAN, details : {NoDetails}]

Steps == {"idle", "observe", "checkNodes", "stream", "publish", "finalizer", "update",
          "publishUpdated", "delete", "unfinalize", "status", "creating", "down"}

\* What Observe returned always exists.
Returned(c) ==
    /\ pc[c] \in {"publish", "finalizer"} => obs[c].exists
    /\ pc[c] # "unfinalize"

TypeInvariant == TypeOK /\ \A c \in CRs : Returned(c)

LEMMA InitialValues ==
    /\ NewObject \in Object /\ NewObject.ready = "none"
    /\ NoObs \in Obs
    /\ (Labels \ {"pending", "create", "created", "failed", "publishCreated"})
            \cup {"checkNodes", "stream"} = Steps
  <1>1. NewObject \in Object /\ NewObject.ready = "none" /\ NoObs \in Obs
    BY DEF NewObject, NoObs, InitStatus, Status, Object, Obs
  <1>2. (Labels \ {"pending", "create", "created", "failed", "publishCreated"})
            \cup {"checkNodes", "stream"} = Steps
    BY DEF Labels, Steps
  <1> QED
    BY <1>1, <1>2

LEMMA ObjectFields ==
    ASSUME NEW o \in Object
    PROVE  /\ o.life \in {"live", "deleting", "gone"}
           /\ o.finalizer \in BOOLEAN
           /\ o.ready \in {"none", "true", "false"}
           /\ o.status \in Status
  BY DEF Object

\* What the actions change in an object leaves it an object.
LEMMA StatusUpdate ==
    ASSUME NEW o \in Object, NEW s \in Status
    PROVE  /\ [o EXCEPT !.status = s] \in Object
           /\ [o EXCEPT !.status = s].status = s
           /\ [o EXCEPT !.status = s].ready = o.ready
           /\ [o EXCEPT !.status = s].life = o.life
           /\ [o EXCEPT !.status = s].finalizer = o.finalizer
  BY DEF Object

LEMMA ReadyUpdate ==
    ASSUME NEW o \in Object, NEW r \in {"none", "true", "false"}
    PROVE  /\ [o EXCEPT !.ready = r] \in Object
           /\ [o EXCEPT !.ready = r].ready = r
           /\ [o EXCEPT !.ready = r].status = o.status
           /\ [o EXCEPT !.ready = r].life = o.life
           /\ [o EXCEPT !.ready = r].finalizer = o.finalizer
  BY DEF Object

LEMMA FinalizerUpdate ==
    ASSUME NEW o \in Object
    PROVE  /\ [o EXCEPT !.finalizer = TRUE] \in Object
           /\ [o EXCEPT !.finalizer = TRUE].finalizer
           /\ [o EXCEPT !.finalizer = TRUE].ready = o.ready
           /\ [o EXCEPT !.finalizer = TRUE].status = o.status
           /\ [o EXCEPT !.finalizer = TRUE].life = o.life
  BY DEF Object

LEMMA LifeUpdate ==
    ASSUME NEW o \in Object, NEW f \in {"live", "deleting", "gone"}
    PROVE  /\ [o EXCEPT !.life = f] \in Object
           /\ [o EXCEPT !.life = f].life = f
           /\ [o EXCEPT !.life = f].ready = o.ready
           /\ [o EXCEPT !.life = f].status = o.status
           /\ [o EXCEPT !.life = f].finalizer = o.finalizer
  BY DEF Object

\* What a status write makes of the stored object.
WithStatus(o, s, r) == [o EXCEPT !.status = s, !.ready = r]

LEMMA StatusAndReadyUpdate ==
    ASSUME NEW o \in Object, NEW s \in Status, NEW r \in {"none", "true", "false"}
    PROVE  /\ WithStatus(o, s, r) \in Object
           /\ WithStatus(o, s, r).status = s
           /\ WithStatus(o, s, r).ready = r
           /\ WithStatus(o, s, r).life = o.life
           /\ WithStatus(o, s, r).finalizer = o.finalizer
  BY DEF WithStatus, Object

LEMMA ObservedObject ==
    ASSUME NEW o \in Object, NEW healthy \in BOOLEAN
    PROVE  /\ Observed(o, healthy) \in Object
           /\ Observed(o, healthy).status.healthy = healthy
           /\ Observed(o, healthy).ready = IF healthy THEN "true" ELSE "false"
           /\ Observed(o, healthy).life = o.life
           /\ Observed(o, healthy).finalizer = o.finalizer
  BY DEF Observed, Object, Status

\* What an update that adds the finalizer stores, and leaves in memory.
LEMMA UpdateObjectType ==
    ASSUME TypeOK, NEW c \in CRs, NEW object \in Object, UpdateObject(c, object), object.finalizer
    PROVE  /\ api' \in [CRs -> Object] /\ base' \in [CRs -> Object] /\ mem' \in [CRs -> Object]
           /\ base[c] = api[c] /\ api'[c] = base'[c]
           /\ api'[c].ready = api[c].ready /\ api'[c].status = api[c].status
           /\ api'[c].life = object.life /\ api'[c].finalizer
           /\ \/ mem'[c].ready = api[c].ready
              \/ mem'[c].ready = object.ready /\ mem'[c].status = object.status
           /\ mem'[c].life = object.life
           /\ \A d \in CRs \ {c} : api'[d] = api[d] /\ base'[d] = base[d] /\ mem'[d] = mem[d]
  <1>1. api[c].ready \in {"none", "true", "false"} /\ api[c].status \in Status
    BY ObjectFields DEF TypeOK
  <1> DEFINE stored == Stored(c, object)
             answered == [object EXCEPT !.ready = api[c].ready]
  <1>2. /\ stored \in Object /\ stored.ready = api[c].ready /\ stored.status = api[c].status
        /\ stored.life = object.life /\ stored.finalizer
    BY <1>1 DEF Stored, Object
  <1>3. /\ answered \in Object /\ answered.ready = api[c].ready /\ answered.status = object.status
        /\ answered.life = object.life
    BY <1>1, ReadyUpdate
  <1>4. Decoded(c, object) \subseteq {object, answered, stored}
    BY DEF Decoded
  <1>5. /\ base[c] = api[c]
        /\ api' = [api EXCEPT ![c] = stored]
        /\ base' = [base EXCEPT ![c] = stored]
        /\ \E o \in {object, answered, stored} : mem' = [mem EXCEPT ![c] = o]
    BY <1>4 DEF UpdateObject
  <1> HIDE DEF stored, answered
  <1>6. PICK o \in {object, answered, stored} : mem' = [mem EXCEPT ![c] = o]
    BY <1>5
  <1>7. /\ api'[c] = stored /\ base'[c] = stored /\ mem'[c] = o
        /\ \A d \in CRs \ {c} : api'[d] = api[d] /\ base'[d] = base[d] /\ mem'[d] = mem[d]
        /\ api' \in [CRs -> Object] /\ base' \in [CRs -> Object] /\ mem' \in [CRs -> Object]
    BY <1>2, <1>3, <1>5, <1>6 DEF TypeOK
  <1> QED
    BY <1>2, <1>3, <1>5, <1>6, <1>7

\* The steps of the loop a ClusterHealth never gets to.
LEMMA NoSuchSteps ==
    ASSUME TypeInvariant, NEW c \in CRs
    PROVE  /\ ~SetPending(c) /\ ~RecordSucceeded(c) /\ ~RecordFailed(c)
           /\ ~PublishCreated(c) /\ ~Unfinalize(c)
  <1>1. pc[c] \in Steps /\ pc[c] # "unfinalize"
    BY InitialValues DEF TypeInvariant, TypeOK, Returned
  <1> QED
    BY <1>1 DEF Steps, SetPending, RecordSucceeded, RecordFailed, PublishCreated, Unfinalize

\* A step that leaves what belongs to c alone.
Untouched(c) ==
    /\ api'[c] = api[c] /\ cache'[c] = cache[c] /\ pc'[c] = pc[c] /\ mem'[c] = mem[c]
    /\ base'[c] = base[c] /\ obs'[c] = obs[c] /\ left'[c] = left[c] /\ seen'[c] = seen[c]
    /\ conn'[c] = conn[c]

\* A step of the worker of c leaves the other resources and the cluster alone.
Alone(c) ==
    /\ UNCHANGED <<connCache, spec, serving>>
    /\ \A d \in CRs \ {c} : Untouched(d)

StepType ==
    /\ api' \in [CRs -> Object] /\ mem' \in [CRs -> Object] /\ base' \in [CRs -> Object]
    /\ cache' \in [CRs -> Object]
    /\ conn' \in [CRs -> {NoSecret, NoDetails}]
    /\ obs' \in [CRs -> Obs]
    /\ pc' \in [CRs -> Steps]
    /\ left' \in [CRs -> Seq(Nodes)]
    /\ seen' \in [CRs -> SUBSET Parts]

\* The types of what a step leaves unchanged.
LEMMA Types ==
    ASSUME TypeInvariant
    PROVE  /\ api \in [CRs -> Object] /\ mem \in [CRs -> Object] /\ base \in [CRs -> Object]
           /\ cache \in [CRs -> Object]
           /\ obs \in [CRs -> Obs]
           /\ pc \in [CRs -> Steps]
           /\ left \in [CRs -> Seq(Nodes)]
           /\ seen \in [CRs -> SUBSET Parts]
           /\ serving \subseteq Parts
           /\ conn \in [CRs -> {NoSecret, NoDetails}]
           /\ connCache \in [CRs -> {NoSecret, NoDetails}]
           /\ \A c \in CRs : Returned(c)
  BY InitialValues DEF TypeInvariant, TypeOK, Obs

LEMMA StepTypeInvariant ==
    ASSUME TypeInvariant, NEW c \in CRs, StepType, Alone(c), Returned(c)'
    PROVE  TypeInvariant'
  <1>1. TypeOK'
    BY InitialValues DEF StepType, Alone, TypeInvariant, TypeOK, Obs
  <1>2. \A d \in CRs \ {c} : Returned(d)'
    BY DEF Alone, Untouched, TypeInvariant, Returned
  <1> QED
    BY <1>1, <1>2 DEF TypeInvariant

LEMMA BeginShape ==
    ASSUME TypeInvariant, NEW c \in CRs, Begin(c), UNCHANGED clusterVars
    PROVE  /\ StepType /\ Alone(c) /\ Returned(c)'
           /\ mem'[c] = cache[c] /\ base'[c] = cache[c]
           /\ pc'[c] \in {"observe", "creating"}
           /\ UNCHANGED <<api, cache, obs, left, seen>>
  <1>1. /\ mem' = [mem EXCEPT ![c] = cache[c]]
        /\ base' = [base EXCEPT ![c] = cache[c]]
        /\ UNCHANGED <<api, cache, conn, connCache, obs, spec, serving, left, seen>>
        /\ \E label \in {"observe", "creating"} : pc' = [pc EXCEPT ![c] = label]
    BY DEF Begin, Goto, clusterVars
  <1> QED
    BY <1>1, Types DEF Steps, StepType, Alone, Untouched, Returned

\* A failed call and a Delete only move the control.
LEMMA MoveShape ==
    ASSUME TypeInvariant, NEW c \in CRs,
           NEW label \in {"status", "creating"}, Goto(c, label),
           UNCHANGED <<api, cache, conn, connCache, mem, base, obs, clusterVars>>
    PROVE  /\ StepType /\ Alone(c) /\ Returned(c)'
           /\ pc'[c] = label
           /\ UNCHANGED <<api, cache, mem, base, obs, left, seen>>
  BY Types DEF Goto, clusterVars, Steps, StepType, Alone, Untouched, Returned

\* The Secret is empty; its publication may fail.
LEMMA PublishShape ==
    ASSUME TypeInvariant, NEW c \in CRs, PublishObserved(c) \/ PublishUpdated(c),
           UNCHANGED clusterVars
    PROVE  /\ StepType /\ Alone(c) /\ Returned(c)'
           /\ \/ pc[c] = "publish" /\ pc'[c] = "finalizer"
              \/ pc[c] = "publish" /\ pc'[c] = "status" /\ PublishCanFail(c)
              \/ pc[c] = "publishUpdated" /\ pc'[c] = "status"
           /\ UNCHANGED <<api, cache, mem, base, obs, left, seen>>
  <1>1. /\ UNCHANGED <<api, cache, connCache, mem, base, obs>>
        /\ Publish(c) \/ conn' = conn
    BY DEF PublishObserved, PublishUpdated, Fail
  <1>2. \/ pc[c] = "publish" /\ pc' = [pc EXCEPT ![c] = "finalizer"]
        \/ pc[c] = "publish" /\ pc' = [pc EXCEPT ![c] = "status"] /\ PublishCanFail(c)
        \/ pc[c] = "publishUpdated" /\ pc' = [pc EXCEPT ![c] = "status"]
    BY DEF PublishObserved, PublishUpdated, Goto, Fail
  <1>3. /\ conn' \in [CRs -> {NoSecret, NoDetails}]
        /\ \A d \in CRs \ {c} : conn'[d] = conn[d]
    BY <1>1, Types DEF Obs, Publish, SecretApplied
  <1>4. pc' \in [CRs -> Steps] /\ \A d \in CRs \ {c} : pc'[d] = pc[d]
    BY <1>2, Types DEF Steps
  <1>5. StepType /\ Alone(c)
    BY <1>1, <1>3, <1>4, Types DEF clusterVars, StepType, Alone, Untouched
  <1>6. Returned(c)'
    BY <1>1, <1>2, Types DEF Returned
  <1> QED
    BY <1>1, <1>2, <1>5, <1>6, Types DEF clusterVars

LEMMA FinalizerShape ==
    ASSUME TypeInvariant, NEW c \in CRs, AddFinalizer(c), UNCHANGED clusterVars
    PROVE  /\ StepType /\ Alone(c) /\ Returned(c)'
           /\ pc[c] = "finalizer" /\ pc'[c] \in {"status", "update"}
           /\ UNCHANGED <<cache, obs, left, seen>>
           /\ \/ mem[c].finalizer /\ UNCHANGED <<api, base, mem>>
              \/ /\ ~mem[c].finalizer /\ WriteCanFail(c) /\ pc'[c] = "status"
                 /\ UNCHANGED <<api, base, mem>>
              \/ /\ ~mem[c].finalizer
                 /\ base[c] = api[c] /\ api'[c] = base'[c]
                 /\ api'[c].ready = api[c].ready /\ api'[c].status = api[c].status
                 /\ api'[c].life = mem[c].life /\ api'[c].finalizer
                 /\ \/ mem'[c].ready = api[c].ready
                    \/ mem'[c].ready = mem[c].ready /\ mem'[c].status = mem[c].status
                 /\ mem'[c].life = mem[c].life
  <1>1. /\ pc[c] = "finalizer" /\ obs[c].exists
        /\ UNCHANGED <<cache, conn, connCache, obs, spec, serving, left, seen>>
    BY DEF AddFinalizer, Fail, clusterVars, TypeInvariant, Returned
  <1>2. \E label \in {"status", "update"} : pc' = [pc EXCEPT ![c] = label]
    BY <1>1 DEF AddFinalizer, Fail, Goto
  <1>3. /\ pc' \in [CRs -> Steps] /\ pc'[c] \in {"status", "update"} /\ Returned(c)'
        /\ \A d \in CRs \ {c} : pc'[d] = pc[d]
    BY <1>2, Types DEF Steps, Returned
  <1> DEFINE object == [mem[c] EXCEPT !.finalizer = TRUE]
  <1>4. /\ object \in Object /\ object.finalizer /\ object.ready = mem[c].ready
        /\ object.status = mem[c].status /\ object.life = mem[c].life
    BY FinalizerUpdate, Types
  <1>5. CASE ~mem[c].finalizer /\ UpdateObject(c, object)
    <2> HIDE DEF object
    <2>1. /\ api' \in [CRs -> Object] /\ base' \in [CRs -> Object] /\ mem' \in [CRs -> Object]
          /\ base[c] = api[c] /\ api'[c] = base'[c]
          /\ api'[c].ready = api[c].ready /\ api'[c].status = api[c].status
          /\ api'[c].life = object.life /\ api'[c].finalizer
          /\ \/ mem'[c].ready = api[c].ready
             \/ mem'[c].ready = object.ready /\ mem'[c].status = object.status
          /\ mem'[c].life = object.life
          /\ \A d \in CRs \ {c} : api'[d] = api[d] /\ base'[d] = base[d] /\ mem'[d] = mem[d]
      BY <1>4, <1>5, UpdateObjectType DEF TypeInvariant
    <2>2. StepType /\ Alone(c)
      BY <1>1, <1>3, <2>1, Types DEF StepType, Alone, Untouched
    <2> QED
      BY <1>1, <1>3, <1>4, <1>5, <2>1, <2>2
  <1>6. CASE UNCHANGED <<api, base, mem>>
    <2>1. StepType /\ Alone(c)
      BY <1>1, <1>3, <1>6, Types DEF StepType, Alone, Untouched
    <2>2. \/ mem[c].finalizer
          \/ ~mem[c].finalizer /\ UpdateObject(c, object)
          \/ ~mem[c].finalizer /\ WriteCanFail(c) /\ pc' = [pc EXCEPT ![c] = "status"]
      BY DEF AddFinalizer, Fail, Goto
    <2> QED
      BY <1>1, <1>3, <1>5, <1>6, <2>1, <2>2, Types
  <1> QED
    BY <1>5, <1>6 DEF AddFinalizer, Fail

LEMMA StatusShape ==
    ASSUME TypeInvariant, NEW c \in CRs, WriteStatus(c) \/ LoseStatus(c), UNCHANGED clusterVars
    PROVE  /\ StepType /\ Alone(c) /\ Returned(c)'
           /\ pc[c] \in {"status", "creating"} /\ pc'[c] = "idle"
           /\ mem'[c] = NewObject /\ base'[c] = NewObject
           /\ UNCHANGED <<cache, left, seen>>
           /\ \/ UNCHANGED api
              \/ /\ base[c] = api[c] /\ api'[c].status = mem[c].status
                 /\ api'[c].ready = IF pc[c] = "creating" THEN "false" ELSE mem[c].ready
                 /\ api'[c].finalizer = api[c].finalizer /\ api'[c].life = api[c].life
  <1>1. /\ pc[c] \in {"status", "creating"} /\ Finish(c)
        /\ UNCHANGED <<cache, conn, connCache, spec, serving, left, seen>>
    BY DEF WriteStatus, LoseStatus, clusterVars
  <1>2. /\ api' \in [CRs -> Object] /\ \A d \in CRs \ {c} : api'[d] = api[d]
        /\ \/ UNCHANGED api
           \/ /\ base[c] = api[c] /\ api'[c].status = mem[c].status
              /\ api'[c].ready = IF pc[c] = "creating" THEN "false" ELSE mem[c].ready
              /\ api'[c].finalizer = api[c].finalizer /\ api'[c].life = api[c].life
    <2>1. CASE WriteStatus(c)
      <3> DEFINE ready == IF pc[c] = "creating" THEN "false" ELSE mem[c].ready
                 object == WithStatus(api[c], mem[c].status, ready)
      <3>1. ready \in {"none", "true", "false"} /\ mem[c].status \in Status /\ api[c] \in Object
        BY ObjectFields, Types
      <3>2. base[c] = api[c] /\ api' = [api EXCEPT ![c] = object]
        BY <2>1 DEF WriteStatus, WithStatus
      <3>3. ready = IF pc[c] = "creating" THEN "false" ELSE mem[c].ready
        OBVIOUS
      <3> HIDE DEF ready
      <3>4. /\ object \in Object /\ object.status = mem[c].status /\ object.ready = ready
            /\ object.life = api[c].life /\ object.finalizer = api[c].finalizer
        BY <3>1, StatusAndReadyUpdate
      <3> HIDE DEF object
      <3> QED
        BY <3>2, <3>3, <3>4, Types
    <2>2. CASE LoseStatus(c)
      BY <2>2, Types DEF LoseStatus
    <2> QED
      BY <2>1, <2>2
  <1>3. /\ mem' = [mem EXCEPT ![c] = NewObject]
        /\ base' = [base EXCEPT ![c] = NewObject]
        /\ obs' = [obs EXCEPT ![c] = NoObs]
        /\ pc' = [pc EXCEPT ![c] = "idle"]
    BY <1>1 DEF Finish, Goto
  <1>4. StepType /\ Alone(c) /\ Returned(c)'
    BY <1>1, <1>2, <1>3, Types, InitialValues DEF Steps, StepType, Alone, Untouched, Returned
  <1> QED
    BY <1>1, <1>2, <1>3, <1>4, Types

\* Any verdict ends the check and hands its result to the loop.
LEMMA VerdictShape ==
    ASSUME TypeInvariant, NEW c \in CRs, NEW healthy \in BOOLEAN, Verdict(c, healthy)
    PROVE  /\ StepType /\ Alone(c) /\ Returned(c)'
           /\ mem'[c] = Observed(mem[c], healthy)
           /\ pc'[c] = IF mem[c].life = "live" THEN "publish" ELSE "delete"
           /\ UNCHANGED <<api, cache, base, seen>>
  <1>1. /\ Observed(mem[c], healthy) \in Object
        /\ Observed(mem[c], healthy).life = mem[c].life
    BY ObservedObject, Types
  <1>2. Observation(healthy) \in Obs /\ Observation(healthy).exists
    BY DEF Observation, Obs
  <1> DEFINE label == IF mem[c].life = "live" THEN "publish" ELSE "delete"
  <1>3. /\ mem' = [mem EXCEPT ![c] = Observed(mem[c], healthy)]
        /\ obs' = [obs EXCEPT ![c] = Observation(healthy)]
        /\ pc' = [pc EXCEPT ![c] = label]
        /\ left' = [left EXCEPT ![c] = <<>>]
        /\ UNCHANGED <<api, cache, conn, connCache, base, spec, serving, seen>>
    BY <1>1, <1>2 DEF Verdict, ObserveReturns, Goto
  <1>4. label \in Steps /\ label # "unfinalize"
    BY DEF Steps
  <1>5. left' \in [CRs -> Seq(Nodes)]
    BY <1>3, Types
  <1>6. StepType
    BY <1>1, <1>2, <1>3, <1>4, <1>5, Types DEF StepType
  <1>7. Alone(c)
    BY <1>3, Types DEF Alone, Untouched
  <1>8. pc'[c] = label /\ obs'[c] = Observation(healthy) /\ mem'[c] = Observed(mem[c], healthy)
    BY <1>3, Types
  <1>9. Returned(c)'
    BY <1>2, <1>4, <1>8 DEF Returned
  <1> HIDE DEF label
  <1> QED
    BY <1>3, <1>6, <1>7, <1>8, <1>9 DEF label

\* A spec that is not valid, a verdict without a check, or the start of one.
LEMMA ObserveShape ==
    ASSUME TypeInvariant, NEW c \in CRs, Observe(c)
    PROVE  /\ pc[c] = "observe"
           /\ \/ /\ StepType /\ Alone(c) /\ Returned(c)'
                 /\ mem'[c] = Observed(mem[c], FALSE) /\ pc'[c] = "status"
                 /\ UNCHANGED <<api, cache, base, seen>>
              \/ Verdict(c, FALSE)
              \/ /\ StepType /\ Alone(c) /\ Returned(c)'
                 /\ pc'[c] = IF spec[c].skip THEN "checkNodes" ELSE "stream"
                 /\ left'[c] = IF spec[c].skip THEN AllNodes(c) ELSE <<>>
                 /\ seen'[c] = serving \cap Checked(c)
                 /\ UNCHANGED <<api, cache, mem, base>>
  <1>1. CASE /\ mem' = [mem EXCEPT ![c] = Observed(@, FALSE)]
             /\ Goto(c, "status")
             /\ UNCHANGED <<api, cache, conn, connCache, base, obs, clusterVars>>
    <2>1. Observed(mem[c], FALSE) \in Object
      BY ObservedObject, Types
    <2>2. /\ mem' = [mem EXCEPT ![c] = Observed(mem[c], FALSE)]
          /\ pc' = [pc EXCEPT ![c] = "status"]
          /\ UNCHANGED <<api, cache, conn, connCache, base, obs, spec, serving, left, seen>>
      BY <1>1 DEF Goto, clusterVars
    <2> QED
      BY <2>1, <2>2, Types DEF Observe, Steps, StepType, Alone, Untouched, Returned
  <1>2. CASE /\ Goto(c, IF spec[c].skip THEN "checkNodes" ELSE "stream")
             /\ left' = [left EXCEPT ![c] = IF spec[c].skip THEN AskedNodes(c) ELSE <<>>]
             /\ seen' = [seen EXCEPT ![c] = serving \cap Checked(c)]
             /\ UNCHANGED <<api, cache, conn, connCache, mem, base, obs, spec, serving>>
    <2>1. AllNodes(c) \in Seq(Nodes) /\ AskedNodes(c) = AllNodes(c)
      BY ClusterHealthAssumption DEF AllNodes, AskedNodes
    <2> DEFINE label == IF spec[c].skip THEN "checkNodes" ELSE "stream"
               asked == IF spec[c].skip THEN AllNodes(c) ELSE <<>>
    <2>2. /\ pc' = [pc EXCEPT ![c] = label]
          /\ left' = [left EXCEPT ![c] = asked]
          /\ seen' = [seen EXCEPT ![c] = serving \cap Checked(c)]
      BY <1>2, <2>1 DEF Goto
    <2>3. /\ asked \in Seq(Nodes) /\ serving \cap Checked(c) \in SUBSET Parts
          /\ label \in {"checkNodes", "stream"}
      BY <2>1, Types
    <2>4. /\ asked = IF spec[c].skip THEN AllNodes(c) ELSE <<>>
          /\ label = IF spec[c].skip THEN "checkNodes" ELSE "stream"
      OBVIOUS
    <2> HIDE DEF label, asked
    <2>5. StepType /\ Alone(c)
      BY <1>2, <2>2, <2>3, Types DEF Steps, StepType, Alone, Untouched
    <2>6. /\ pc'[c] = label /\ left'[c] = asked /\ seen'[c] = serving \cap Checked(c)
          /\ Returned(c)'
      BY <2>2, <2>3, Types DEF Returned
    <2>7. pc[c] = "observe"
      BY DEF Observe
    <2> QED
      BY <1>2, <2>4, <2>5, <2>6, <2>7
  <1> QED
    BY <1>1, <1>2 DEF Observe

\* Only a kubelet that serves answers that it is running and healthy.
LEMMA ServingReply ==
    ASSUME NEW n, NEW infos \in Replies(n), KubeletServes(infos)
    PROVE  n \in serving
  <1> DEFINE Bad(info) == ~(info.state = "Running" /\ info.health = "healthy")
  <1>1. \A info : <<info>> # <<>> /\ info \in ToSet(<<info>>)
    BY DEF ToSet
  <1>2. /\ Bad(Info("Running", "none")) /\ Bad(Info("Running", "unhealthy"))
        /\ Bad(Info("Finished", "healthy"))
    BY DEF Info
  <1>3. /\ ~KubeletServes(<<Info("Running", "none")>>)
        /\ ~KubeletServes(<<Info("Running", "unhealthy")>>)
        /\ ~KubeletServes(<<Info("Finished", "healthy")>>)
        /\ ~KubeletServes(<<>>)
    BY <1>1, <1>2 DEF KubeletServes
  <1> QED
    BY <1>3 DEF Replies

\* Every call asks the next node; the last one that answers well makes the verdict.
LEMMA AskShape ==
    ASSUME TypeInvariant, NEW c \in CRs, CheckNodeServices(c)
    PROVE  /\ pc[c] = "checkNodes"
           /\ \/ left[c] = <<>> /\ Verdict(c, TRUE)
              \/ Verdict(c, FALSE)
              \/ /\ left[c] # <<>> /\ Head(left[c]) \in serving
                 /\ StepType /\ Alone(c) /\ Returned(c)'
                 /\ left'[c] = Tail(left[c])
                 /\ UNCHANGED <<api, cache, pc, mem, base, seen>>
  <1>1. CASE left[c] # <<>> /\ \E infos \in Replies(Head(left[c])) :
                /\ KubeletServes(infos)
                /\ left' = [left EXCEPT ![c] = Tail(@)]
                /\ UNCHANGED <<api, cache, conn, connCache, pc, mem, base, obs, spec, serving, seen>>
    <2>1. Head(left[c]) \in serving
      BY <1>1, ServingReply
    <2>2. Tail(left[c]) \in Seq(Nodes)
      BY <1>1, Types
    <2>3. /\ left' = [left EXCEPT ![c] = Tail(left[c])]
          /\ UNCHANGED <<api, cache, conn, connCache, pc, mem, base, obs, spec, serving, seen>>
      BY <1>1
    <2>4. StepType /\ Alone(c) /\ Returned(c)' /\ left'[c] = Tail(left[c])
      BY <2>2, <2>3, Types DEF StepType, Alone, Untouched, Returned
    <2> QED
      BY <1>1, <2>1, <2>3, <2>4 DEF CheckNodeServices
  <1> QED
    BY <1>1 DEF CheckNodeServices

LEMMA StreamShape ==
    ASSUME NEW c \in CRs, CheckFullClusterHealth(c)
    PROVE  /\ pc[c] = "stream"
           /\ \/ Checked(c) \subseteq seen[c] /\ Verdict(c, TRUE)
              \/ Verdict(c, FALSE)
  <1>1. PICK end \in StreamEnds(c) : pc[c] = "stream" /\ Verdict(c, EOFIsHealthy(end))
    BY DEF CheckFullClusterHealth
  <1>2. (end = "EOF" /\ Checked(c) \subseteq seen[c]) \/ end = "error"
    BY DEF StreamEnds
  <1>3. CASE end = "EOF" /\ Checked(c) \subseteq seen[c]
    <2>1. EOFIsHealthy(end) = TRUE
      BY <1>3 DEF EOFIsHealthy
    <2> QED
      BY <1>1, <1>3, <2>1
  <1>4. CASE end = "error"
    <2>1. EOFIsHealthy(end) = FALSE
      BY <1>4 DEF EOFIsHealthy
    <2> QED
      BY <1>1, <2>1
  <1> QED
    BY <1>2, <1>3, <1>4

LEMMA CallShape ==
    ASSUME TypeInvariant, NEW c \in CRs, ConnectFails(c) \/ Delete(c) \/ Update(c)
    PROVE  /\ StepType /\ Alone(c) /\ Returned(c)'
           /\ \/ pc[c] = "observe" /\ pc'[c] = "status"
              \/ pc[c] = "delete" /\ pc'[c] = "creating"
              \/ pc[c] = "update" /\ pc'[c] = "publishUpdated"
           /\ UNCHANGED <<api, cache, mem, base, left, seen>>
  <1>1. CASE ConnectFails(c) \/ Delete(c)
    <2>1. /\ UNCHANGED <<api, cache, conn, connCache, mem, base, obs, clusterVars>>
          /\ \/ pc[c] = "observe" /\ Goto(c, "status")
             \/ pc[c] = "delete" /\ Goto(c, "creating")
      BY <1>1 DEF ConnectFails, Delete, DeleteReturns, Fail
    <2> QED
      BY <2>1, MoveShape
  <1>2. CASE Update(c)
    <2>1. /\ pc[c] = "update" /\ pc' = [pc EXCEPT ![c] = "publishUpdated"]
          /\ mem' = [mem EXCEPT ![c] = mem[c]]
          /\ obs' = [obs EXCEPT ![c] = [obs[c] EXCEPT !.details = NoDetails]]
          /\ UNCHANGED <<api, cache, conn, connCache, base, spec, serving, left, seen>>
      BY <1>2 DEF Update, UpdateReturns, Goto, clusterVars
    <2>2. [obs[c] EXCEPT !.details = NoDetails] \in Obs /\ mem' = mem
      BY <2>1, Types DEF Obs
    <2> QED
      BY <2>1, <2>2, Types DEF Steps, StepType, Alone, Untouched, Returned
  <1> QED
    BY <1>1, <1>2

LEMMA ReconcileSteps ==
    ASSUME TypeInvariant, NEW c \in CRs, Reconcile(c)
    PROVE  \/ /\ UNCHANGED clusterVars
              /\ \/ Begin(c) \/ PublishObserved(c) \/ PublishUpdated(c) \/ AddFinalizer(c)
                 \/ WriteStatus(c) \/ LoseStatus(c)
           \/ Observe(c) \/ CheckNodeServices(c) \/ CheckFullClusterHealth(c)
           \/ ConnectFails(c) \/ Delete(c) \/ Update(c)
  BY NoSuchSteps DEF Reconcile, ReconcileStep

LEMMA ReconcileType ==
    ASSUME TypeInvariant, NEW c \in CRs, Reconcile(c)
    PROVE  TypeInvariant' /\ Alone(c)
  <1>1. ASSUME Verdict(c, TRUE) \/ Verdict(c, FALSE)
        PROVE  StepType /\ Alone(c) /\ Returned(c)'
    BY <1>1, VerdictShape
  <1>2. StepType /\ Alone(c) /\ Returned(c)'
    BY <1>1, ReconcileSteps, BeginShape, PublishShape, FinalizerShape, StatusShape, ObserveShape,
       AskShape, StreamShape, CallShape
  <1> QED
    BY <1>2, StepTypeInvariant

----------------------------------------------------------------------------
(* The environment *)

Surroundings ==
    \/ \E c \in CRs : (CacheSync(c) \/ ConnSync(c) \/ RequestDelete(c)) /\ UNCHANGED clusterVars
    \/ CrashChecks
    \/ Start /\ UNCHANGED clusterVars
    \/ \E part \in Parts : Toggle(part)

\* The types of what steps of the workers leave alone.
OtherTypes ==
    /\ connCache' \in [CRs -> {NoSecret, NoDetails}]
    /\ spec' = spec /\ serving' \subseteq Parts

\* What a step of the environment does to c: the informer copies, the process loses what
\* it had in memory, a user deletes, a kubelet stops, or starts and is seen.
EnvironmentShape(c) ==
    /\ Returned(c)'
    /\ api'[c].ready = api[c].ready /\ api'[c].status = api[c].status
    /\ api'[c].finalizer = api[c].finalizer
    /\ api'[c] = api[c] \/ api'[c].life # "live"
    /\ cache'[c] \in {cache[c], api[c], NewObject}
    /\ \/ pc'[c] \in {pc[c], "idle"} /\ mem'[c] = mem[c] /\ base'[c] = base[c]
       \/ pc'[c] = "down" /\ mem'[c] = NewObject /\ base'[c] = NewObject
    /\ seen[c] \subseteq seen'[c]
    /\ Checking(c)' =>
          /\ left'[c] = left[c]
          /\ (serving' = serving /\ seen'[c] = seen[c]) \/ serving' \cap Checked(c) \subseteq seen'[c]

LEMMA SyncShape ==
    ASSUME TypeInvariant, NEW d \in CRs, CacheSync(d) \/ ConnSync(d), UNCHANGED clusterVars
    PROVE  StepType /\ OtherTypes /\ \A c \in CRs : EnvironmentShape(c)
  <1>1. /\ UNCHANGED <<api, conn, pc, mem, base, obs, spec, serving, left, seen>>
        /\ cache' \in [CRs -> Object] /\ connCache' \in [CRs -> {NoSecret, NoDetails}]
        /\ \A c \in CRs : cache'[c] \in {cache[c], api[c]}
    BY DEF CacheSync, ConnSync, clusterVars, TypeInvariant, TypeOK
  <1>2. StepType /\ OtherTypes
    BY <1>1, Types DEF StepType, OtherTypes
  <1>3. ASSUME NEW c \in CRs PROVE EnvironmentShape(c)
    BY <1>1, Types DEF EnvironmentShape, Returned, Checking
  <1> QED
    BY <1>2, <1>3

LEMMA DeleteShape ==
    ASSUME TypeInvariant, NEW d \in CRs, RequestDelete(d), UNCHANGED clusterVars
    PROVE  StepType /\ OtherTypes /\ \A c \in CRs : EnvironmentShape(c)
  <1> DEFINE life == IF api[d].finalizer THEN "deleting" ELSE "gone"
             object == [api[d] EXCEPT !.life = life]
  <1>1. life \in {"live", "deleting", "gone"} /\ life # "live"
    OBVIOUS
  <1>2. /\ api' = [api EXCEPT ![d] = object]
        /\ UNCHANGED <<cache, connCache, pc, mem, base, obs, spec, serving, left, seen>>
    BY DEF RequestDelete, clusterVars
  <1>3. /\ conn' \in [CRs -> {NoSecret, NoDetails}]
        /\ connCache' \in [CRs -> {NoSecret, NoDetails}]
    BY DEF RequestDelete, TypeInvariant, TypeOK
  <1>4. api[d] \in Object
    BY Types
  <1> HIDE DEF life
  <1>5. /\ object \in Object /\ object.life # "live" /\ object.ready = api[d].ready
        /\ object.status = api[d].status /\ object.finalizer = api[d].finalizer
    BY <1>1, <1>4, LifeUpdate
  <1> HIDE DEF object
  <1>6. StepType /\ OtherTypes
    BY <1>2, <1>3, <1>5, Types DEF StepType, OtherTypes
  <1>7. ASSUME NEW c \in CRs PROVE EnvironmentShape(c)
    <2>1. \/ api'[c] = api[c]
          \/ /\ api'[c].life # "live" /\ api'[c].ready = api[c].ready
             /\ api'[c].status = api[c].status /\ api'[c].finalizer = api[c].finalizer
      BY <1>2, <1>5, Types
    <2> QED
      BY <1>2, <2>1, Types DEF EnvironmentShape, Returned, Checking
  <1> QED
    BY <1>6, <1>7

LEMMA RestartShape ==
    ASSUME TypeInvariant, CrashChecks \/ (Start /\ UNCHANGED clusterVars)
    PROVE  StepType /\ OtherTypes /\ \A c \in CRs : EnvironmentShape(c)
  <1>1. connCache' \in [CRs -> {NoSecret, NoDetails}]
    BY DEF CrashChecks, Crash, Start, TypeInvariant, TypeOK
  <1>2. CASE CrashChecks
    <2>1. /\ pc' = [c \in CRs |-> "down"]
          /\ mem' = [c \in CRs |-> NewObject] /\ base' = [c \in CRs |-> NewObject]
          /\ obs' = [c \in CRs |-> NoObs] /\ cache' = [c \in CRs |-> NewObject]
          /\ left' = [c \in CRs |-> <<>>]
          /\ UNCHANGED <<api, conn, spec, serving, seen>>
      BY <1>2 DEF CrashChecks, Crash
    <2>2. StepType /\ OtherTypes
      BY <1>1, <2>1, Types, InitialValues DEF StepType, OtherTypes, Steps
    <2>3. ASSUME NEW c \in CRs PROVE EnvironmentShape(c)
      BY <2>1 DEF EnvironmentShape, Returned, Checking
    <2> QED
      BY <2>2, <2>3
  <1>3. CASE Start /\ UNCHANGED clusterVars
    <2>1. /\ pc' = [c \in CRs |-> "idle"] /\ cache' = api
          /\ UNCHANGED <<api, conn, mem, base, obs, spec, serving, left, seen>>
      BY <1>3 DEF Start, clusterVars
    <2>2. StepType /\ OtherTypes
      BY <1>1, <2>1, Types DEF StepType, OtherTypes, Steps
    <2>3. ASSUME NEW c \in CRs PROVE EnvironmentShape(c)
      BY <2>1 DEF EnvironmentShape, Returned, Checking
    <2> QED
      BY <2>2, <2>3
  <1> QED
    BY <1>2, <1>3

LEMMA ToggleShape ==
    ASSUME TypeInvariant, NEW part \in Parts, Toggle(part)
    PROVE  StepType /\ OtherTypes /\ \A c \in CRs : EnvironmentShape(c)
  <1>1. /\ UNCHANGED <<api, cache, conn, connCache, pc, mem, base, obs, spec, left>>
        /\ serving' \subseteq Parts
    BY Types DEF Toggle
  <1>2. seen' = [c \in CRs |->
            IF Checking(c) THEN seen[c] \cup (serving' \cap Checked(c)) ELSE seen[c]]
    BY DEF Toggle
  <1>3. ASSUME NEW c \in CRs
        PROVE  /\ seen'[c] \subseteq Parts /\ seen[c] \subseteq seen'[c]
               /\ Checking(c) => serving' \cap Checked(c) \subseteq seen'[c]
    BY <1>1, <1>2, Types
  <1>4. seen' \in [CRs -> SUBSET Parts]
    BY <1>2, <1>3
  <1>5. StepType /\ OtherTypes
    BY <1>1, <1>4, Types DEF StepType, OtherTypes, TypeInvariant, TypeOK
  <1>6. ASSUME NEW c \in CRs PROVE EnvironmentShape(c)
    BY <1>1, <1>3, Types DEF EnvironmentShape, Returned, Checking
  <1> QED
    BY <1>5, <1>6

LEMMA EnvironmentSteps ==
    ASSUME TypeInvariant, Surroundings
    PROVE  TypeInvariant' /\ spec' = spec /\ \A c \in CRs : EnvironmentShape(c)
  <1>1. StepType /\ OtherTypes /\ \A c \in CRs : EnvironmentShape(c)
    BY SyncShape, DeleteShape, RestartShape, ToggleShape DEF Surroundings
  <1>2. TypeOK'
    BY <1>1, InitialValues DEF StepType, OtherTypes, TypeInvariant, TypeOK, Obs
  <1> QED
    BY <1>1, <1>2 DEF OtherTypes, EnvironmentShape, TypeInvariant

LEMMA NextSteps ==
    ASSUME [Next]_vars
    PROVE  (\E c \in CRs : Reconcile(c)) \/ Surroundings \/ UNCHANGED vars
  BY DEF Next, Surroundings

LEMMA TypeStep ==
    ASSUME TypeInvariant, [Next]_vars
    PROVE  TypeInvariant' /\ spec' = spec
  <1>1. ASSUME NEW c \in CRs, Reconcile(c)
        PROVE  TypeInvariant' /\ spec' = spec
    BY <1>1, ReconcileType DEF Alone
  <1>2. CASE UNCHANGED vars
    BY <1>2 DEF vars, TypeInvariant, TypeOK, Returned
  <1> QED
    BY <1>1, <1>2, EnvironmentSteps, NextSteps

LEMMA InitType == Init => TypeInvariant
  <1> SUFFICES ASSUME Init PROVE TypeInvariant
    OBVIOUS
  <1>1. <<>> \in Seq(Nodes) /\ "idle" \in Steps
    BY DEF Steps
  <1>2. TypeOK
    BY <1>1, InitialValues DEF Init, ReconcilerInit, TypeOK, Obs
  <1> QED
    BY <1>2 DEF Init, ReconcilerInit, TypeInvariant, Returned

LEMMA TypeInvariantHolds == Spec => []TypeInvariant
  BY InitType, TypeStep, PTL DEF Spec

\* Every variable has its type, and the loop never creates anything.
THEOREM TypeCorrect == Spec => []TypeOK
  <1>1. TypeInvariant => TypeOK
    BY DEF TypeInvariant
  <1> QED
    BY <1>1, TypeInvariantHolds, PTL

----------------------------------------------------------------------------
(* The gate opens only after a check *)

\* While nodes are asked, those that were asked, and everything that serves now, have
\* been seen to serve; who is still to be asked is in left.  Ready is set in memory
\* after that, until the reconcile ends it is not forgotten what it rests on.
Gate(c) ==
    /\ pc[c] = "observe" \/ Checking(c) => mem[c] = base[c]
    /\ Checking(c) => serving \cap Checked(c) \subseteq seen[c]
    /\ pc[c] = "checkNodes" =>
          /\ spec[c].skip
          /\ ToSet(left[c]) \subseteq ToSet(AllNodes(c))
          /\ ToSet(AllNodes(c)) \subseteq seen[c] \cup ToSet(left[c])
    /\ pc[c] \in {"publish", "finalizer", "update", "publishUpdated", "status"}
            /\ mem[c].ready = "true"
        => base[c].ready = "true" \/ Checked(c) \subseteq seen[c]

GateInvariant == TypeInvariant /\ \A c \in CRs : Gate(c)

\* Who is asked next is out of left then.
LEMMA NodeAsked ==
    ASSUME NEW s \in Seq(Nodes), s # <<>>
    PROVE  /\ ToSet(s) \subseteq {Head(s)} \cup ToSet(Tail(s))
           /\ ToSet(Tail(s)) \subseteq ToSet(s) /\ Head(s) \in ToSet(s)
  <1>1. /\ Len(s) \in Nat \ {0} /\ DOMAIN s = 1..Len(s) /\ DOMAIN Tail(s) = 1..(Len(s) - 1)
        /\ \A i \in 1..(Len(s) - 1) : Tail(s)[i] = s[i + 1]
    OBVIOUS
  <1>2. Head(s) = s[1]
    OBVIOUS
  <1>3. ASSUME NEW i \in DOMAIN s, i # 1
        PROVE  s[i] \in ToSet(Tail(s))
    <2>1. i - 1 \in DOMAIN Tail(s) /\ Tail(s)[i - 1] = s[i]
      BY <1>1, <1>3
    <2> QED
      BY <2>1 DEF ToSet
  <1>4. \A i \in DOMAIN Tail(s) : i + 1 \in DOMAIN s
    BY <1>1
  <1> QED
    BY <1>1, <1>2, <1>3, <1>4 DEF ToSet

LEMMA VerdictGate ==
    ASSUME TypeInvariant, NEW c \in CRs, NEW healthy \in BOOLEAN, Verdict(c, healthy),
           healthy => Checked(c) \subseteq seen[c]
    PROVE  Gate(c)'
  <1>1. /\ mem'[c].ready = IF healthy THEN "true" ELSE "false"
        /\ pc'[c] \in {"publish", "delete"}
        /\ UNCHANGED <<base, seen, spec>>
    BY VerdictShape, ObservedObject, Types DEF Alone
  <1>2. Checked(c)' = Checked(c)
    BY <1>1 DEF Checked
  <1> QED
    BY <1>1, <1>2 DEF Gate, Checking

LEMMA LoopGate ==
    ASSUME TypeInvariant, NEW c \in CRs, Gate(c),
           \/ PublishObserved(c) \/ PublishUpdated(c) \/ AddFinalizer(c)
           \/ WriteStatus(c) \/ LoseStatus(c) \/ Begin(c),
           UNCHANGED clusterVars
    PROVE  Gate(c)'
  <1>1. Checked(c)' = Checked(c) /\ UNCHANGED <<seen, spec>>
    BY DEF clusterVars, Checked
  <1>2. CASE Begin(c)
    BY <1>2, BeginShape DEF Gate, Checking
  <1>3. CASE PublishObserved(c) \/ PublishUpdated(c)
    <2>1. /\ pc[c] \in {"publish", "publishUpdated"} /\ pc'[c] \in {"finalizer", "status"}
          /\ UNCHANGED <<mem, base>>
      BY <1>3, PublishShape
    <2> QED
      BY <1>1, <2>1 DEF Gate, Checking
  <1>4. CASE AddFinalizer(c)
    <2>1. /\ pc[c] = "finalizer" /\ pc'[c] \in {"status", "update"}
          /\ \/ UNCHANGED <<base, mem>>
             \/ /\ base'[c].ready = base[c].ready
                /\ mem'[c].ready \in {mem[c].ready, base[c].ready}
      BY <1>4, FinalizerShape
    <2> QED
      BY <1>1, <2>1 DEF Gate, Checking
  <1>5. CASE WriteStatus(c) \/ LoseStatus(c)
    BY <1>5, StatusShape DEF Gate, Checking
  <1> QED
    BY <1>2, <1>3, <1>4, <1>5

LEMMA ObserveGate ==
    ASSUME TypeInvariant, NEW c \in CRs, Gate(c), Observe(c)
    PROVE  Gate(c)'
  <1>1. CASE Verdict(c, FALSE)
    BY <1>1, VerdictGate
  <1>2. CASE /\ mem'[c] = Observed(mem[c], FALSE) /\ pc'[c] = "status"
    <2>1. mem'[c].ready = "false"
      <3>1. mem[c] \in Object
        BY Types
      <3>2. Observed(mem[c], FALSE).ready = IF FALSE THEN "true" ELSE "false"
        BY <3>1, ObservedObject, Zenon
      <3> QED
        BY <1>2, <3>2
    <2> QED
      BY <1>2, <2>1 DEF Gate, Checking
  <1>3. CASE /\ Alone(c)
             /\ pc'[c] = IF spec[c].skip THEN "checkNodes" ELSE "stream"
             /\ left'[c] = IF spec[c].skip THEN AllNodes(c) ELSE <<>>
             /\ seen'[c] = serving \cap Checked(c)
             /\ UNCHANGED <<api, cache, mem, base>>
    <2>1. Checked(c)' = Checked(c) /\ AllNodes(c)' = AllNodes(c) /\ UNCHANGED <<spec, serving>>
      BY <1>3 DEF Alone, Checked, AllNodes
    <2>2. mem'[c] = base'[c]
      BY <1>3, ObserveShape DEF Gate
    <2>3. serving' \cap Checked(c)' \subseteq seen'[c]
      BY <1>3, <2>1
    <2> QED
      BY <1>3, <2>1, <2>2, <2>3 DEF Gate
  <1> QED
    BY <1>1, <1>2, <1>3, ObserveShape

LEMMA AskGate ==
    ASSUME TypeInvariant, NEW c \in CRs, Gate(c), CheckNodeServices(c)
    PROVE  Gate(c)'
  <1>1. pc[c] = "checkNodes" /\ left[c] \in Seq(Nodes)
    BY AskShape, Types
  <1>2. CASE left[c] = <<>> /\ Verdict(c, TRUE)
    <2>1. ToSet(left[c]) = {}
      BY <1>2 DEF ToSet
    <2>2. Checked(c) \subseteq seen[c]
      BY <1>1, <2>1 DEF Gate, Checked
    <2> QED
      BY <1>2, <2>2, VerdictGate
  <1>3. CASE Verdict(c, FALSE)
    BY <1>3, VerdictGate
  <1>4. CASE /\ left[c] # <<>> /\ Head(left[c]) \in serving /\ Alone(c)
             /\ left'[c] = Tail(left[c]) /\ UNCHANGED <<api, cache, pc, mem, base, seen>>
    <2>1. Checked(c)' = Checked(c) /\ AllNodes(c)' = AllNodes(c) /\ UNCHANGED <<spec, serving>>
      BY <1>4 DEF Alone, Checked, AllNodes
    <2>2. /\ ToSet(left[c]) \subseteq {Head(left[c])} \cup ToSet(left'[c])
          /\ ToSet(left'[c]) \subseteq ToSet(left[c]) /\ Head(left[c]) \in ToSet(left[c])
      BY <1>1, <1>4, NodeAsked
    <2>3. /\ spec[c].skip /\ mem[c] = base[c]
          /\ ToSet(left[c]) \subseteq ToSet(AllNodes(c))
          /\ ToSet(AllNodes(c)) \subseteq seen[c] \cup ToSet(left[c])
          /\ serving \cap Checked(c) \subseteq seen[c]
      BY <1>1 DEF Gate, Checking
    <2>4. Head(left[c]) \in seen[c]
      BY <1>4, <2>2, <2>3 DEF Checked
    <2>5. /\ ToSet(left'[c]) \subseteq ToSet(AllNodes(c))
          /\ ToSet(AllNodes(c)) \subseteq seen[c] \cup ToSet(left'[c])
      BY <2>2, <2>3, <2>4
    <2>6. ToSet(left[c])' = ToSet(left'[c]) /\ ToSet(AllNodes(c))' = ToSet(AllNodes(c))
      BY <2>1
    <2> QED
      BY <1>1, <1>4, <2>1, <2>3, <2>5, <2>6 DEF Gate, Checking
  <1> QED
    BY <1>2, <1>3, <1>4, AskShape

LEMMA ReconcileGate ==
    ASSUME GateInvariant, NEW c \in CRs, Reconcile(c)
    PROVE  Gate(c)'
  <1>1. TypeInvariant /\ Gate(c)
    BY DEF GateInvariant
  <1>2. CASE CheckFullClusterHealth(c)
    BY <1>1, <1>2, StreamShape, VerdictGate
  <1>3. CASE ConnectFails(c) \/ Delete(c) \/ Update(c)
    <2>1. /\ \/ pc[c] = "observe" /\ pc'[c] = "status"
             \/ pc'[c] = "creating"
             \/ pc[c] = "update" /\ pc'[c] = "publishUpdated"
          /\ UNCHANGED <<mem, base, seen, spec>>
      BY <1>1, <1>3, CallShape DEF Alone
    <2>2. Checked(c)' = Checked(c)
      BY <2>1 DEF Checked
    <2> QED
      BY <1>1, <2>1, <2>2 DEF Gate, Checking
  <1> QED
    BY <1>1, <1>2, <1>3, ReconcileSteps, LoopGate, ObserveGate, AskGate

LEMMA GateStep ==
    ASSUME GateInvariant, [Next]_vars
    PROVE  GateInvariant'
  <1>1. TypeInvariant /\ TypeInvariant' /\ spec' = spec
    BY TypeStep DEF GateInvariant
  <1>2. ASSUME NEW c \in CRs
        PROVE  Gate(c)'
    <2>1. Gate(c) /\ Checked(c)' = Checked(c) /\ AllNodes(c)' = AllNodes(c)
      BY <1>1 DEF GateInvariant, Checked, AllNodes
    <2>2. CASE Reconcile(c)
      BY <2>2, ReconcileGate
    <2>3. CASE \E d \in CRs \ {c} : Reconcile(d)
      <3>1. Untouched(c) /\ UNCHANGED <<spec, serving>>
        BY <1>1, <2>3, ReconcileType DEF Alone
      <3> QED
        BY <2>1, <3>1 DEF Untouched, Gate, Checking
    <2>4. CASE Surroundings
      <3>1. EnvironmentShape(c)
        BY <1>1, <2>4, EnvironmentSteps
      <3>2. CASE pc'[c] # pc[c]
        BY <3>1, <3>2 DEF EnvironmentShape, Gate, Checking
      <3>3. CASE pc'[c] = pc[c] /\ pc[c] # "down"
        <4>1. /\ mem'[c] = mem[c] /\ base'[c] = base[c] /\ seen[c] \subseteq seen'[c]
          BY <3>1, <3>3 DEF EnvironmentShape
        <4>2. Checking(c) => left'[c] = left[c] /\ serving' \cap Checked(c) \subseteq seen'[c]
          BY <2>1, <3>1, <3>3 DEF EnvironmentShape, Gate, Checking
        <4> QED
          BY <1>1, <2>1, <3>3, <4>1, <4>2 DEF Gate, Checking
      <3>4. CASE pc'[c] = "down"
        BY <3>4 DEF Gate, Checking
      <3> QED
        BY <3>2, <3>3, <3>4
    <2>5. CASE UNCHANGED vars
      BY <2>1, <2>5 DEF vars, Gate, Checking
    <2> QED
      BY <2>2, <2>3, <2>4, <2>5, NextSteps
  <1> QED
    BY <1>1, <1>2 DEF GateInvariant

LEMMA GateInvariantHolds == Spec => []GateInvariant
  <1>1. Init => GateInvariant
    <2> SUFFICES ASSUME Init PROVE \A c \in CRs : Gate(c)
      BY InitType DEF GateInvariant
    <2> QED
      BY DEF Init, ReconcilerInit, Gate, Checking
  <1> QED
    BY <1>1, GateStep, PTL DEF Spec

\* Ready turns true only after a check that found everything it has to check serving,
\* however many nodes there are and whatever faults occur.
THEOREM GateIsChecked == Spec => OpensOnlyAfterCheck
  <1> DEFINE Founded(c) ==
          api[c].ready # "true" /\ api'[c].ready = "true" => Checked(c) \subseteq seen[c]
  <1>1. ASSUME GateInvariant, [Next]_vars, NEW c \in CRs
        PROVE  Founded(c)
    <2>1. TypeInvariant /\ Gate(c)
      BY <1>1 DEF GateInvariant
    <2>2. CASE api'[c].ready = api[c].ready
      BY <2>2
    <2>3. CASE (WriteStatus(c) \/ LoseStatus(c)) /\ UNCHANGED clusterVars
      <3>1. \/ api'[c].ready = api[c].ready \/ api'[c].ready = "false"
            \/ pc[c] = "status" /\ base[c] = api[c] /\ api'[c].ready = mem[c].ready
        BY <2>1, <2>3, StatusShape
      <3> QED
        BY <2>1, <3>1 DEF Gate
    <2>4. ASSUME Verdict(c, TRUE) \/ Verdict(c, FALSE)
          PROVE  api'[c].ready = api[c].ready
      BY <2>1, <2>4, VerdictShape
    <2> HIDE DEF Founded
    <2>5. CASE Reconcile(c)
      BY <2>1, <2>2, <2>3, <2>4, <2>5, ReconcileSteps, BeginShape, PublishShape, FinalizerShape,
         ObserveShape, AskShape, StreamShape, CallShape
    <2>6. CASE \E d \in CRs \ {c} : Reconcile(d)
      BY <2>1, <2>2, <2>6, ReconcileType DEF Alone, Untouched
    <2>7. CASE Surroundings
      BY <2>1, <2>2, <2>7, EnvironmentSteps DEF EnvironmentShape
    <2>8. CASE UNCHANGED vars
      BY <2>2, <2>8 DEF vars
    <2> QED
      BY <1>1, <2>5, <2>6, <2>7, <2>8, NextSteps
  <1>2. GateInvariant /\ [Next]_vars => [\A c \in CRs : Founded(c)]_vars
    BY <1>1
  <1> QED
    BY <1>2, GateInvariantHolds, PTL DEF Spec, OpensOnlyAfterCheck

----------------------------------------------------------------------------
(* Ready means healthy *)

Honest(o) == o.ready = "true" => o.status.healthy /\ o.finalizer

\* The two fields are written together, but the response to the update that adds the
\* finalizer can replace one of them in memory.  That update is the first write of a
\* resource and precedes its first Ready: what it can bring back is not Ready yet.
Truthful(c) ==
    /\ Honest(api[c]) /\ Honest(cache[c]) /\ Honest(base[c])
    /\ mem[c].ready = "true" => mem[c].status.healthy
    /\ mem[c].life = base[c].life
    /\ pc[c] = "observe" \/ Checking(c) => mem[c] = base[c]
    /\ pc[c] \in {"publish", "finalizer"} =>
          mem[c].life = "live" /\ mem[c].finalizer = base[c].finalizer
    /\ pc[c] \in {"update", "publishUpdated"} => base[c].finalizer
    /\ pc[c] = "status" /\ mem[c].ready = "true" =>
          base[c].finalizer \/ (base[c] # api[c] /\ base[c].life = "live")

\* Without old caches, the cached copy of the Secret that a reconcile looks at before it
\* publishes is the Secret, unless that was deleted with its resource.
SecretCaughtUp(c) ==
    c \in WriteRef /\ (pc[c] \in {"observe", "publish"} \/ Checking(c))
        => connCache[c] = NoDetails \/ conn[c] = NoSecret

TruthInvariant == TypeInvariant /\ \A c \in CRs : Truthful(c) /\ SecretCaughtUp(c)

LEMMA SecretStep ==
    ASSUME TypeInvariant, "stale" \notin Env, NEW d \in CRs, SecretCaughtUp(d), [Next]_vars
    PROVE  SecretCaughtUp(d)'
  <1>1. ASSUME NEW c \in CRs, Reconcile(c)
        PROVE  SecretCaughtUp(d)'
    <2>1. connCache' = connCache
      BY <1>1, ReconcileType DEF Alone
    <2>2. CASE c = d
      <3> USE DEF Goto, Fail, Finish, Checking
      <3>1. \/ connCache[d] = conn[d] /\ conn' = conn
            \/ (pc[d] = "observe" \/ Checking(d)) /\ conn' = conn
            \/ ~(pc'[d] \in {"observe", "publish"} \/ Checking(d)')
        BY <1>1, <2>2, NoSuchSteps
        DEF Reconcile, ReconcileStep, Begin, PublishObserved, AddFinalizer, PublishUpdated,
            WriteStatus, LoseStatus, ConnectFails, Observe, ObserveReturns, Verdict,
            CheckNodeServices, CheckFullClusterHealth, Update, UpdateReturns, Delete,
            DeleteReturns, TypeInvariant, TypeOK
      <3> QED
        BY <2>1, <3>1, Types DEF SecretCaughtUp
    <2>3. CASE c # d
      <3>1. Untouched(d)
        BY <1>1, <2>3, ReconcileType DEF Alone
      <3> QED
        BY <2>1, <3>1 DEF Untouched, SecretCaughtUp, Checking
    <2> QED
      BY <2>2, <2>3
  <1>2. CASE Surroundings
    <2>1. \/ pc'[d] \in {"idle", "down"}
          \/ /\ pc' = pc
             /\ \/ connCache'[d] = connCache[d] /\ conn'[d] \in {conn[d], NoSecret}
                \/ connCache'[d] = conn[d] /\ conn' = conn
      BY <1>2 DEF Surroundings, CacheSync, ConnSync, RequestDelete, CrashChecks, Crash, Start,
         Toggle, TypeInvariant, TypeOK
    <2> QED
      BY <2>1, Types DEF SecretCaughtUp, Checking
  <1>3. CASE UNCHANGED vars
    BY <1>3 DEF vars, SecretCaughtUp, Checking
  <1> QED
    BY <1>1, <1>2, <1>3, NextSteps

\* What Observe returned is published: the condition of GateTellsTheTruth.
LEMMA ObservedIsPublished ==
    ASSUME TypeInvariant, NEW c \in CRs, pc[c] = "publish", EmptyIsPublished, SecretCaughtUp(c)
    PROVE  ~PublishCanFail(c)
  <1>1. obs[c].details = NoDetails
    BY Types DEF Obs
  <1> QED
    BY <1>1, Types DEF PublishCanFail, SecretApplies, EmptyIsPublished, SecretCaughtUp

LEMMA NewIsHonest == Honest(NewObject) /\ NewObject.ready # "true"
  BY InitialValues DEF Honest

LEMMA VerdictTruthful ==
    ASSUME TypeInvariant, NEW c \in CRs, Truthful(c), pc[c] = "observe" \/ Checking(c),
           NEW healthy \in BOOLEAN, Verdict(c, healthy)
    PROVE  Truthful(c)'
  <1>1. mem[c] \in Object /\ mem[c] = base[c]
    BY Types DEF Truthful
  <1>2. /\ Observed(mem[c], healthy).status.healthy = healthy
        /\ Observed(mem[c], healthy).ready = IF healthy THEN "true" ELSE "false"
        /\ Observed(mem[c], healthy).life = mem[c].life
        /\ Observed(mem[c], healthy).finalizer = mem[c].finalizer
    BY <1>1, ObservedObject
  <1>3. /\ mem'[c] = Observed(mem[c], healthy)
        /\ pc'[c] = IF mem[c].life = "live" THEN "publish" ELSE "delete"
        /\ UNCHANGED <<api, cache, base>>
    BY VerdictShape
  <1>4. mem'[c].ready = "true" => mem'[c].status.healthy
    BY <1>2, <1>3
  <1> QED
    BY <1>1, <1>2, <1>3, <1>4 DEF Truthful, Honest, Checking

LEMMA FinalizerTruthful ==
    ASSUME TypeInvariant, NEW c \in CRs, Truthful(c), "writeError" \notin Env,
           AddFinalizer(c), UNCHANGED clusterVars
    PROVE  Truthful(c)'
  <1>1. /\ pc[c] = "finalizer" /\ pc'[c] \in {"status", "update"} /\ cache' = cache
        /\ mem[c].life = "live" /\ mem[c].finalizer = base[c].finalizer /\ mem[c].life = base[c].life
    BY FinalizerShape DEF Truthful
  <1>2. CASE mem[c].finalizer /\ UNCHANGED <<api, base, mem>>
    BY <1>1, <1>2 DEF Truthful, Honest, Checking
  <1>3. CASE /\ ~mem[c].finalizer /\ WriteCanFail(c) /\ pc'[c] = "status"
             /\ UNCHANGED <<api, base, mem>>
    <2>1. base[c] # api[c]
      BY <1>3 DEF WriteCanFail
    <2> QED
      BY <1>1, <1>3, <2>1 DEF Truthful, Honest, Checking
  <1>4. CASE /\ ~mem[c].finalizer
             /\ base[c] = api[c] /\ api'[c] = base'[c]
             /\ api'[c].ready = api[c].ready /\ api'[c].status = api[c].status
             /\ api'[c].life = mem[c].life /\ api'[c].finalizer
             /\ \/ mem'[c].ready = api[c].ready
                \/ mem'[c].ready = mem[c].ready /\ mem'[c].status = mem[c].status
             /\ mem'[c].life = mem[c].life
    <2>1. api[c].ready # "true"
      BY <1>1, <1>4 DEF Truthful, Honest
    <2> QED
      BY <1>1, <1>4, <2>1 DEF Truthful, Honest, Checking
  <1> QED
    BY <1>2, <1>3, <1>4, FinalizerShape

LEMMA StatusTruthful ==
    ASSUME TypeInvariant, NEW c \in CRs, Truthful(c),
           WriteStatus(c) \/ LoseStatus(c), UNCHANGED clusterVars
    PROVE  Truthful(c)'
  <1>1. /\ pc[c] \in {"status", "creating"} /\ pc'[c] = "idle" /\ cache' = cache
        /\ mem'[c] = NewObject /\ base'[c] = NewObject
    BY StatusShape
  <1>2. Honest(api[c])'
    <2>1. CASE UNCHANGED api
      BY <2>1 DEF Truthful, Honest
    <2>2. CASE /\ base[c] = api[c] /\ api'[c].status = mem[c].status
               /\ api'[c].ready = IF pc[c] = "creating" THEN "false" ELSE mem[c].ready
               /\ api'[c].finalizer = api[c].finalizer
      BY <1>1, <2>2 DEF Truthful, Honest
    <2> QED
      BY <2>1, <2>2, StatusShape
  <1> QED
    BY <1>1, <1>2, NewIsHonest DEF Truthful, Honest, Checking

LEMMA ReconcileTruthful ==
    ASSUME TruthInvariant, NEW c \in CRs, Reconcile(c), "writeError" \notin Env,
           EmptyIsPublished
    PROVE  Truthful(c)'
  <1>1. TypeInvariant /\ Truthful(c) /\ SecretCaughtUp(c)
    BY DEF TruthInvariant
  <1>2. CASE Begin(c) /\ UNCHANGED clusterVars
    BY <1>1, <1>2, BeginShape DEF Truthful, Honest, Checking
  <1>3. CASE (PublishObserved(c) \/ PublishUpdated(c)) /\ UNCHANGED clusterVars
    <2>1. /\ \/ pc[c] = "publish" /\ pc'[c] = "finalizer"
             \/ pc[c] = "publishUpdated" /\ pc'[c] = "status"
          /\ UNCHANGED <<api, cache, mem, base>>
      BY <1>1, <1>3, PublishShape, ObservedIsPublished
    <2> QED
      BY <1>1, <2>1 DEF Truthful, Honest, Checking
  <1>4. CASE Observe(c)
    <2>1. CASE mem'[c] = Observed(mem[c], FALSE) /\ pc'[c] = "status"
               /\ UNCHANGED <<api, cache, base>>
      <3>1. mem[c] \in Object
        BY <1>1, Types
      <3>2. /\ Observed(mem[c], FALSE).ready = IF FALSE THEN "true" ELSE "false"
            /\ Observed(mem[c], FALSE).life = mem[c].life
        BY <3>1, ObservedObject, Zenon
      <3> QED
        BY <1>1, <2>1, <3>2 DEF Truthful, Honest, Checking
    <2>2. CASE Verdict(c, FALSE)
      BY <1>1, <1>4, <2>2, ObserveShape, VerdictTruthful
    <2>3. CASE /\ pc'[c] = IF spec[c].skip THEN "checkNodes" ELSE "stream"
               /\ UNCHANGED <<api, cache, mem, base>>
      <3>1. pc[c] = "observe"
        BY <1>1, <1>4, ObserveShape
      <3> QED
        BY <1>1, <2>3, <3>1 DEF Truthful, Honest
    <2> QED
      BY <1>1, <1>4, <2>1, <2>2, <2>3, ObserveShape
  <1>5. CASE CheckNodeServices(c)
    <2>1. CASE Verdict(c, TRUE) \/ Verdict(c, FALSE)
      BY <1>1, <1>5, <2>1, AskShape, VerdictTruthful DEF Checking
    <2>2. CASE UNCHANGED <<api, cache, pc, mem, base>>
      BY <1>1, <2>2 DEF Truthful, Honest, Checking
    <2> QED
      BY <1>1, <1>5, <2>1, <2>2, AskShape
  <1>6. CASE CheckFullClusterHealth(c)
    BY <1>1, <1>6, StreamShape, VerdictTruthful DEF Checking
  <1>7. CASE ConnectFails(c) \/ Delete(c) \/ Update(c)
    <2>1. /\ \/ pc[c] = "observe" /\ pc'[c] = "status"
             \/ pc'[c] = "creating"
             \/ pc[c] = "update" /\ pc'[c] = "publishUpdated"
          /\ UNCHANGED <<api, cache, mem, base>>
      BY <1>1, <1>7, CallShape
    <2> QED
      BY <1>1, <2>1 DEF Truthful, Honest, Checking
  <1> QED
    BY <1>1, <1>2, <1>3, <1>4, <1>5, <1>6, <1>7, ReconcileSteps, FinalizerTruthful, StatusTruthful

LEMMA TruthStep ==
    ASSUME TruthInvariant, [Next]_vars, "writeError" \notin Env, EmptyIsPublished
    PROVE  TruthInvariant'
  <1>1. TypeInvariant /\ TypeInvariant'
    BY TypeStep DEF TruthInvariant
  <1>2. ASSUME NEW c \in CRs
        PROVE  Truthful(c)'
    <2>1. Truthful(c)
      BY DEF TruthInvariant
    <2>2. CASE Reconcile(c)
      BY <2>2, ReconcileTruthful
    <2>3. CASE \E d \in CRs \ {c} : Reconcile(d)
      <3>1. Untouched(c)
        BY <1>1, <2>3, ReconcileType DEF Alone
      <3> QED
        BY <2>1, <3>1 DEF Untouched, Truthful, Honest, Checking
    <2>4. CASE Surroundings
      <3>1. EnvironmentShape(c)
        BY <1>1, <2>4, EnvironmentSteps
      <3>2. Honest(api[c])' /\ Honest(cache[c])'
        BY <2>1, <3>1, NewIsHonest DEF EnvironmentShape, Truthful, Honest
      <3>3. CASE pc'[c] \in {pc[c], "idle"} /\ mem'[c] = mem[c] /\ base'[c] = base[c]
        <4>1. base[c] # api[c] /\ base[c].life = "live" => base[c] # api'[c]
          BY <3>1 DEF EnvironmentShape
        <4> QED
          BY <2>1, <3>2, <3>3, <4>1 DEF Truthful, Honest, Checking
      <3>4. CASE pc'[c] = "down" /\ mem'[c] = NewObject /\ base'[c] = NewObject
        BY <3>2, <3>4, NewIsHonest DEF Truthful, Honest, Checking
      <3> QED
        BY <3>1, <3>3, <3>4 DEF EnvironmentShape
    <2>5. CASE UNCHANGED vars
      BY <2>1, <2>5 DEF vars, Truthful, Honest, Checking
    <2> QED
      BY <2>2, <2>3, <2>4, <2>5, NextSteps
  <1>3. \A c \in CRs : SecretCaughtUp(c)'
    <2>1. CASE WriteRef = {}
      BY <2>1 DEF SecretCaughtUp
    <2>2. CASE "stale" \notin Env
      BY <1>1, <2>2, SecretStep DEF TruthInvariant
    <2> QED
      BY <2>1, <2>2 DEF EmptyIsPublished
  <1> QED
    BY <1>1, <1>2, <1>3 DEF TruthInvariant

\* If the writes fail only when the object has changed, and what Observe returns is
\* published, a Ready resource is one whose status calls the cluster healthy, with crashes
\* and failing calls.  Both conditions are needed, as for UnreachableIsNotReady.
THEOREM GateTellsTheTruth ==
    ASSUME "writeError" \notin Env, EmptyIsPublished
    PROVE  Spec => []ReadyMeansHealthy
  <1>1. Init => TruthInvariant
    <2> SUFFICES ASSUME Init PROVE \A c \in CRs : Truthful(c) /\ SecretCaughtUp(c)
      BY InitType DEF TruthInvariant
    <2> QED
      BY NewIsHonest DEF Init, ReconcilerInit, Truthful, SecretCaughtUp, Honest, Checking
  <1>2. TruthInvariant => ReadyMeansHealthy
    BY DEF TruthInvariant, Truthful, Honest, ReadyMeansHealthy
  <1> QED
    BY <1>1, <1>2, TruthStep, PTL DEF Spec
==============================================================================
