-------------------------- MODULE ConfigurationApply --------------------------
(***************************************************************************)
(* The ConfigurationApply kind:                                            *)
(* src/internal/controller/configurationapply/configurationapply.go.       *)
(*                                                                         *)
(* A ConfigurationApply sends a machine configuration to a Talos machine.  *)
(* It tells from the kind of connection the machine accepts whether it is  *)
(* in maintenance mode, configured or unreachable, and concludes from that *)
(* and from its own records whether the configuration was applied.         *)
(***************************************************************************)
EXTENDS Naturals

CONSTANTS
    CRs,          \* ConfigurationApply resources
    Machines,
    MachineOf,    \* spec.forProvider.node of each resource
    Specs,        \* the specs a resource may have, a subset of SpecType
    Configs,      \* machine configurations in Secrets
    NoConfig,
    WriteRef,     \* resources with a spec.writeConnectionSecretToRef: an empty Secret
    NoSecret,
    NoDetails,
    Env           \* faults allowed: ManagedReconciler's and MachineHazards

Inline == INSTANCE MachineConfiguration

MachineHazards == {"rpcError", "lostReply", "reboot", "reset", "sourceChanges"}

\* Those the CRD admits (configurationapply_types.go:38), "" when it is unset.
ApplyModes == {"", "reboot", "auto", "no_reboot", "staged"}

\* The client configuration, the apply mode, the reference to a Secret (does it have a
\* name, a namespace and a key?) and the inline configuration, one of which is there.
SpecType ==
    {s \in [credentials : {"insecure", "good", "broken"}, mode : ApplyModes,
            ref : {"none", "complete", "incomplete"},
            inline : Inline!Optional(Inline!MachineConfigurationSpec)] :
        s.ref # "none" \/ s.inline # {}}

\* The documents made of the inline configurations.
Generated == UNION {Inline!GenerateMachineConfigurationYAML(config) :
                        config \in UNION {s.inline : s \in Specs}}

ASSUME ConfigurationApplyAssumption ==
    /\ MachineOf \in [CRs -> Machines]
    /\ Specs \subseteq SpecType
    /\ NoConfig \notin Configs \cup Generated
    /\ WriteRef \subseteq CRs
    /\ NoDetails # NoSecret

VARIABLES api, cache, conn, connCache, pc, mem, base, obs,
    spec,          \* spec.forProvider of each resource, which does not change
    machine,       \* each machine: its mode, its configuration and a staged one
    source,        \* the configuration in the Secret each resource refers to
    request,       \* the ApplyConfiguration call a worker has prepared
    acknowledged   \* history: resources whose call returned without error

InitStatus == [applied |-> FALSE, machineState |-> ""]

INSTANCE ManagedReconciler

vars == <<api, cache, conn, connCache, pc, mem, base, obs,
          spec, machine, source, request, acknowledged>>

machineVars == <<spec, machine, source, request, acknowledged>>

NoRequest == [config |-> NoConfig, tls |-> "none"]

----------------------------------------------------------------------------
(* The machine *)

Modes == {"maintenance", "rebooting", "running"}

InMaintenance == [mode |-> "maintenance", config |-> NoConfig, staged |-> NoConfig]

MachineState(c) == machine[MachineOf[c]]

\* It boots with the configuration it has, the staged one if there is any.
Boot(n) ==
    /\ machine[n].mode = "rebooting"
    /\ machine' = [machine EXCEPT ![n] =
          LET next == IF @.staged = NoConfig THEN @.config ELSE @.staged
          IN  [mode |-> "running", config |-> next, staged |-> NoConfig]]

Reboot(n) ==
    /\ "reboot" \in Env
    /\ machine[n].mode = "running"
    /\ machine' = [machine EXCEPT ![n].mode = "rebooting"]

\* talosctl reset: the machine forgets everything.
Reset(n) ==
    /\ "reset" \in Env
    /\ machine[n] # InMaintenance
    /\ machine' = [machine EXCEPT ![n] = InMaintenance]

MachineStep(n) ==
    /\ Boot(n) \/ Reboot(n) \/ Reset(n)
    /\ UNCHANGED <<api, cache, conn, connCache, pc, mem, base, obs, spec, source, request, acknowledged>>

\* A new configuration, or none, is put where the resource looks for it.
SourceChanges(c) ==
    /\ "sourceChanges" \in Env
    /\ spec[c].ref # "none"
    /\ \E config \in (Configs \cup {NoConfig}) \ {source[c]} :
          source' = [source EXCEPT ![c] = config]
    /\ UNCHANGED <<api, cache, conn, connCache, pc, mem, base, obs, spec, machine, request, acknowledged>>

\* The states a machine can be in after it took config with a request mode.
Taken(m, config, mode) ==
    CASE mode = "staged" /\ m.mode = "running" -> {[m EXCEPT !.staged = config]}
      [] mode = "no_reboot" /\ m.mode = "running" -> {[m EXCEPT !.config = config]}
      [] mode = "auto" /\ m.mode = "running" ->
            {[m EXCEPT !.config = config], [m EXCEPT !.config = config, !.mode = "rebooting"]}
      [] OTHER -> {[m EXCEPT !.config = config, !.mode = "rebooting"]}

----------------------------------------------------------------------------
(* The handlers *)

\* Connect: tracking the usage, the ProviderConfig or its credentials fail.
ConnectFails(c) ==
    /\ "connectError" \in Env
    /\ pc[c] = "observe"
    /\ Fail(c, "status")
    /\ UNCHANGED <<cache, connCache, machineVars>>

\* The answers the probes can give: any of them may time out.
CanConnectInsecure(c) == {FALSE, MachineState(c).mode = "maintenance"}
CanConnectWithCreds(c) == {FALSE, MachineState(c).mode = "running" /\ spec[c].credentials = "good"}

CheckInsecureOnly(c) ==
    {IF insecure THEN "MaintenanceMode" ELSE "Unreachable" : insecure \in CanConnectInsecure(c)}

CheckMachineState(c) ==
    LET state(insecure, creds) ==
            IF insecure THEN "MaintenanceMode"
            ELSE IF spec[c].credentials # "insecure" /\ creds THEN "Configured" ELSE "Unreachable"
    IN  {state(insecure, creds) :
            insecure \in CanConnectInsecure(c), creds \in CanConnectWithCreds(c)}

IgnoringAnnotation(object) == object.status.applied

ResolveAppliedStatus(object) == object.status.applied \/ object.succeeded

ObservedReachingMeansApplied(object, state) ==
    [object EXCEPT !.status = [applied |-> ResolveAppliedStatus(object) \/ state # "MaintenanceMode",
                               machineState |-> state],
                   !.ready = IF state = "Configured" THEN "true" ELSE "false"]

ObservedWithoutUnavailable(object, state) ==
    LET applied == ResolveAppliedStatus(object) \/ state = "Configured"
        checked == [object EXCEPT !.status = [applied |-> applied, machineState |-> state]]
    IN  IF state # "Unreachable" /\ applied THEN [checked EXCEPT !.ready = "true"] ELSE checked

\* The status of the observed object, and its Ready condition.
Observed(object, state) ==
    LET applied == ResolveAppliedStatus(object)
        checked == [object EXCEPT !.status =
                       [applied |-> applied \/ state = "Configured", machineState |-> state]]
    IN  IF state = "Configured" \/ (state = "MaintenanceMode" /\ applied)
        THEN [checked EXCEPT !.ready = "true"]
        ELSE IF state = "Unreachable" /\ applied
        THEN [checked EXCEPT !.ready = "false"]
        ELSE checked

ObservationState(state, applied, hasValidConfig) ==
    LET exists == applied \/ state = "Configured"
    IN  [exists |-> exists, upToDate |-> exists /\ hasValidConfig, details |-> NoDetails]

HasValidMachineConfig(c) ==
    IF spec[c].ref # "none" THEN spec[c].ref = "complete"
    ELSE \A config \in spec[c].inline : Inline!HasRequiredFields(config)

Observe(c) ==
    /\ pc[c] = "observe"
    /\ \E state \in CheckMachineState(c) :
          ObserveReturns(c, Observed(mem[c], state),
                         ObservationState(state, ResolveAppliedStatus(mem[c]),
                                          HasValidMachineConfig(c)))
    /\ UNCHANGED machineVars

\* An error that Create and Update keep to themselves.
ApplyFailsQuietly(c) ==
    /\ Fail(c, IF pc[c] \in {"create", "applyCreate"} THEN "created" ELSE "publishUpdated")
    /\ request' = [request EXCEPT ![c] = NoRequest]
    /\ UNCHANGED <<cache, connCache, spec, source>>

\* Create and Update end alike when applyConfigurationToNode returns an error.
ApplyFails(c) ==
    /\ Fail(c, IF pc[c] \in {"create", "applyCreate"} THEN "failed" ELSE "status")
    /\ request' = [request EXCEPT ![c] = NoRequest]
    /\ UNCHANGED <<cache, connCache, spec, source>>

CredentialsOnly(c) ==
    {IF spec[c].credentials = "insecure" THEN "insecure"
     ELSE IF spec[c].credentials = "good" THEN "creds" ELSE "error"}

\* The connection a fresh probe suggests: insecure in maintenance mode, otherwise
\* what the client configuration says; a broken certificate is an error.
ApplyTLSConfig(c) ==
    {IF insecure \/ spec[c].credentials = "insecure" THEN "insecure"
     ELSE IF spec[c].credentials = "good" THEN "creds" ELSE "error" :
        insecure \in CanConnectInsecure(c)}

ResolveUnchecked(c) == {source[c]}

\* The Secret's configuration; no Secret, no key or an empty value is an error.
ResolveMachineConfigurationRef(c) ==
    IF spec[c].ref = "complete" THEN {source[c]} \ {NoConfig} ELSE {}

\* An error, or the configuration of c.
ResolveMachineConfiguration(c) ==
    IF spec[c].ref # "none" THEN ResolveMachineConfigurationRef(c)
    ELSE UNION {Inline!GenerateMachineConfigurationYAML(config) : config \in spec[c].inline}

\* applyConfigurationToNode up to the call: resolve the configuration, choose the
\* connection.
PrepareApply(c) ==
    /\ pc[c] \in {"create", "update"}
    /\ \/ /\ \E config \in ResolveMachineConfiguration(c), tls \in ApplyTLSConfig(c) \ {"error"} :
                request' = [request EXCEPT ![c] = [config |-> config, tls |-> tls]]
          /\ Goto(c, IF pc[c] = "create" THEN "applyCreate" ELSE "applyUpdate")
          /\ UNCHANGED <<api, cache, conn, connCache, mem, base, obs, spec, source>>
       \/ /\ ResolveMachineConfiguration(c) = {} \/ "error" \in ApplyTLSConfig(c)
          /\ ApplyFails(c)
    /\ UNCHANGED <<machine, acknowledged>>

GetConfigurationApplyMode(mode) == IF mode = "" THEN "reboot" ELSE mode

\* The machine takes a call over the connection its present mode accepts.
Accepts(m, tls) ==
    \/ m.mode = "maintenance" /\ tls = "insecure"
    \/ m.mode = "running" /\ tls = "creds"

MachineTakes(c) ==
    /\ Accepts(MachineState(c), request[c].tls)
    /\ \E m \in Taken(MachineState(c), request[c].config,
                      GetConfigurationApplyMode(spec[c].mode)) :
          machine' = [machine EXCEPT ![MachineOf[c]] = m]

Marked(object) == [object EXCEPT !.status.applied = TRUE]

CallReturns(c) ==
    IF pc[c] = "applyCreate"
    THEN CreateReturns(c, [Marked(mem[c]) EXCEPT !.ready = "true"], NoDetails)
    ELSE UpdateReturns(c, Marked(mem[c]), NoDetails)

\* The ApplyConfiguration call, the rest of Create and of Update.
ApplyConfiguration(c) ==
    /\ pc[c] \in {"applyCreate", "applyUpdate"}
    /\ \/ /\ MachineTakes(c)
          /\ CallReturns(c)
          /\ acknowledged' = acknowledged \cup {c}
          /\ request' = [request EXCEPT ![c] = NoRequest]
          /\ UNCHANGED <<spec, source>>
       \/ "lostReply" \in Env /\ MachineTakes(c) /\ ApplyFails(c) /\ UNCHANGED acknowledged
       \/ /\ "rpcError" \in Env \/ ~Accepts(MachineState(c), request[c].tls)
          /\ ApplyFails(c)
          /\ UNCHANGED <<machine, acknowledged>>

\* Delete changes nothing on the machine.
Delete(c) == pc[c] = "delete" /\ DeleteReturns(c) /\ UNCHANGED machineVars

----------------------------------------------------------------------------
(* The specification *)

Init ==
    /\ ReconcilerInit
    /\ spec \in [CRs -> Specs]
    /\ machine \in [Machines -> {InMaintenance}
                      \cup [mode : {"running"}, config : Configs, staged : {NoConfig}]]
    /\ source \in [CRs -> Configs]
    /\ request = [c \in CRs |-> NoRequest]
    /\ acknowledged = {}

\* One step of the worker that reconciles c, as Setup assembles it.
Reconcile(c) ==
    \/ ReconcileStep(c) /\ UNCHANGED machineVars
    \/ ConnectFails(c)
    \/ Observe(c)
    \/ PrepareApply(c)
    \/ ApplyConfiguration(c)
    \/ Delete(c)

CrashRequests ==
    /\ Crash
    /\ request' = [c \in CRs |-> NoRequest]
    /\ UNCHANGED <<spec, machine, source, acknowledged>>

Next ==
    \/ \E c \in CRs : Reconcile(c) \/ SourceChanges(c)
    \/ \E c \in CRs :
          (CacheSync(c) \/ ConnSync(c) \/ RequestDelete(c)) /\ UNCHANGED machineVars
    \/ CrashRequests
    \/ Start /\ UNCHANGED machineVars
    \/ \E n \in Machines : MachineStep(n)

Spec == Init /\ [][Next]_vars

\* The queue keeps handing the resource to a worker, the informers catch up, a
\* machine that reboots comes back, and neither Connect nor the probes nor the
\* call fail every time the machine could answer.
Fairness ==
    /\ \A n \in Machines : WF_vars(Boot(n) /\ MachineStep(n))
    /\ \A c \in CRs :
        /\ WF_vars(Reconcile(c))
        /\ WF_vars(CacheSync(c) /\ UNCHANGED machineVars)
        /\ WF_vars(ConnSync(c) /\ UNCHANGED machineVars)
        /\ SF_vars(Observe(c) /\ mem'[c].status.machineState = "Configured")
        /\ SF_vars(Observe(c) /\ mem'[c].status.machineState = "MaintenanceMode")
        /\ SF_vars(PrepareApply(c) /\ request'[c].tls = "insecure")
        /\ SF_vars(ApplyConfiguration(c) /\ machine' # machine)

FairSpec == Spec /\ Fairness

----------------------------------------------------------------------------
(* Properties *)

Status == [applied : BOOLEAN,
           machineState : {"", "MaintenanceMode", "Configured", "Unreachable"}]

Object == [life : {"live", "deleting", "gone"}, finalizer : BOOLEAN,
           latest : {"none", "pending", "succeeded", "failed"},
           succeeded : BOOLEAN, ready : {"none", "true", "false"}, status : Status]

Obs == [exists : BOOLEAN, upToDate : BOOLEAN, details : {NoDetails}]

Machine == [mode : Modes, config : Configs \cup Generated \cup {NoConfig},
            staged : Configs \cup Generated \cup {NoConfig}]

Request == [config : Configs \cup Generated, tls : {"insecure", "creds"}]

\* Every variable has its type; in particular no call is prepared without a
\* configuration, and none is left over when a reconcile ends.
TypeOK ==
    /\ api \in [CRs -> Object]
    /\ cache \in [CRs -> Object]
    /\ mem \in [CRs -> Object]
    /\ base \in [CRs -> Object]
    /\ obs \in [CRs -> Obs]
    /\ conn \in [CRs -> {NoSecret, NoDetails}]
    /\ connCache \in [CRs -> {NoSecret, NoDetails}]
    /\ pc \in [CRs -> Labels \cup {"applyCreate", "applyUpdate"}]
    /\ spec \in [CRs -> Specs]
    /\ machine \in [Machines -> Machine]
    /\ source \in [CRs -> Configs \cup {NoConfig}]
    /\ acknowledged \subseteq CRs
    /\ request \in [CRs -> Request \cup {NoRequest}]
    /\ \A c \in CRs :
          IF pc[c] \in {"applyCreate", "applyUpdate"} THEN request[c] \in Request
          ELSE request[c] = NoRequest

\* Applying a configuration reboots the machine by default.  A resource whose
\* machine configuration is complete never sends it again after a call that
\* returned without error, whatever the caches, crashes and lost writes.
AppliedOnce ==
    \A c \in CRs :
        HasValidMachineConfig(c) /\ pc[c] \in {"create", "applyCreate", "update", "applyUpdate"}
            => c \notin acknowledged

\* As long as nobody resets the machine, a resource that says Applied has a
\* machine that holds some configuration.
AppliedMeansConfigured ==
    \A c \in CRs : api[c].status.applied =>
        \/ MachineState(c).config # NoConfig
        \/ MachineState(c).staged # NoConfig

\* A resource is not Ready while its own status calls the machine unreachable, as long
\* as object writes fail only for conflicts and what Observe returns is published
\* (EmptyIsPublished).  A Ready that was stored before the finalizer can be decoded
\* over what a later probe found, and the status not with it.
UnreachableNotReady ==
    \A c \in CRs : api[c].status.machineState = "Unreachable" => api[c].ready # "true"

\* While the provider stays up and a configuration stays available, a machine that
\* waits in maintenance mode does not wait for ever, unless a create whose outcome
\* was never recorded blocks the resource.
EventuallyApplied ==
    \A c \in CRs :
        ~<>[](/\ MachineState(c).mode = "maintenance"
              /\ ResolveMachineConfiguration(c) # {}
              /\ ~Blocked(c)
              /\ ~Down(c))

\* MachineState "indicates the current state of the machine (MaintenanceMode,
\* Configured, Unreachable)" (configurationapply_types.go:72): a machine that
\* runs its configuration for good is reported as Configured again and again, as
\* long as the provider stays up.
Reported(c) ==
    <>[](MachineState(c).mode = "running" /\ ~Down(c))
        => []<>(api[c].status.machineState = "Configured" \/ Blocked(c))

\* This for every resource.
RunningIsReported == \A c \in CRs : Reported(c)

\* And for those whose client configuration the machine accepts.
RunningIsReportedWithCredentials ==
    \A c \in CRs : spec[c].credentials = "good" => Reported(c)

----------------------------------------------------------------------------
(* The abstract specification *)

\* The resources whose machine configuration is complete.  Observe never finds the
\* others up to date, and what can be sent of theirs is sent at every reconcile.
Complete == {c \in CRs : HasValidMachineConfig(c)}

\* Their external-create annotations are the log of OneShot.  No machine is taken
\* to have its configuration for another reason than an answer.
Promise == INSTANCE OneShot WITH
    Calls <- CRs, Targets <- Machines, TargetOf <- MachineOf,
    log <- [c \in CRs |-> IF c \in Complete THEN api[c].latest ELSE "none"],
    logged <- {c \in Complete : api[c].succeeded},
    answered <- acknowledged \cap Complete,
    up <- {}

\* The configuration of such a resource is recorded as applied only after a call for
\* it was answered without error, whatever the machine's reboots cut off, as failed
\* only when none was, and an answered one is never meant to be sent again.
KeepsThePromise == Promise!Spec
===============================================================================
