------------------------- MODULE MachineConfiguration -------------------------
(***************************************************************************)
(* The machine configuration a ConfigurationApply has in its own spec, and *)
(* the document the provider makes of it:                                  *)
(* src/apis/machine/v1alpha1/configurationapply_types.go:124-251 and       *)
(* src/internal/controller/configurationapply/configurationapply.go:625.   *)
(*                                                                         *)
(* An optional field is a set of at most one value.  The document is what  *)
(* a YAML parser reads of it: a section that is left out is an empty set,  *)
(* and the lines that are the same in every document have no field.        *)
(***************************************************************************)
EXTENDS Sequences

Optional(S) == {o \in SUBSET S : \A x, y \in o : x = y}

GivenOr(default, optional) == IF optional = {} THEN default ELSE CHOOSE x \in optional : TRUE

----------------------------------------------------------------------------
(* The spec *)

CASpec == [crt : STRING, key : STRING]

MachineSpec == [type : STRING, token : STRING,
                install : [disk : STRING, image : STRING, wipe : Optional(BOOLEAN)],
                kubeletImage : Optional(STRING), rbac : Optional(BOOLEAN), ca : Optional(CASpec)]

ClusterSpec == [id : STRING, secret : STRING, clusterName : STRING, endpoint : STRING,
                dnsDomain : Optional(STRING), podSubnets : Seq(STRING),
                serviceSubnets : Seq(STRING), token : STRING, ca : Optional(CASpec)]

MachineConfigurationSpec == [version : STRING, machine : MachineSpec, cluster : ClusterSpec]

\* What hasValidMachineConfig asks of an inline configuration.
HasRequiredFields(config) ==
    "" \notin {config.version, config.machine.type, config.machine.token, config.cluster.id}

----------------------------------------------------------------------------
(* The document *)

\* The base64 of a PEM block, whose surrounding white space the code drops first.
Encoded(text) == [base64 |-> text]

Certified(ca) == {a \in ca : a.crt # ""}

\* A control plane issues certificates: it gets the machine CA with its private key.
IssuingCA(machine) ==
    {a \in Certified(machine.ca) : machine.type = "controlplane" /\ a.key # ""}

\* Every other machine only learns which CA to accept.
AcceptedCA(machine) == Certified(machine.ca) \ IssuingCA(machine)

MachineSection(machine) ==
    [type |-> machine.type,
     token |-> machine.token,
     install |-> [machine.install EXCEPT !.wipe = TRUE \in @],
     kubeletImage |-> machine.kubeletImage,
     rbac |-> TRUE \in machine.rbac,
     ca |-> {[crt |-> Encoded(a.crt), key |-> Encoded(a.key)] : a \in IssuingCA(machine)},
     acceptedCAs |-> {Encoded(a.crt) : a \in AcceptedCA(machine)}]

FirstOr(default, subnets) == IF subnets = <<>> THEN default ELSE subnets[1]

\* The Kubernetes CA goes to every type of machine, with its key if the spec has it.
ClusterSection(cluster) ==
    [cluster EXCEPT !.dnsDomain = GivenOr("cluster.local", @),
                    !.podSubnets = FirstOr("10.244.0.0/16", @),
                    !.serviceSubnets = FirstOr("10.96.0.0/12", @),
                    !.ca = {[crt |-> Encoded(a.crt),
                             key |-> {Encoded(k) : k \in {a.key} \ {""}}] : a \in Certified(@)}]

\* An error, or one document.
GenerateMachineConfigurationYAML(config) ==
    IF config.machine.type \in {"controlplane", "worker"}
    THEN {[version |-> IF config.version = "" THEN "v1alpha1" ELSE config.version,
           machine |-> MachineSection(config.machine),
           cluster |-> ClusterSection(config.cluster)]}
    ELSE {}
===============================================================================
