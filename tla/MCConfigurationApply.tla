------------------------ MODULE MCConfigurationApply ------------------------
(* Instances of ConfigurationApply for TLC: one resource for one machine, with *)
(* any of a few specs.                                                         *)
EXTENDS ConfigurationApply

CONSTANTS c1, n1, k1

OneMachine == {n1}
OneMachineOf == [c \in CRs |-> n1]

\* An inline configuration with a machine CA and its key, the version left out or not.
Inlined(type, version) ==
    [version |-> version,
     machine |-> [type |-> type, token |-> "t",
                  install |-> [disk |-> "d", image |-> "i", wipe |-> {}],
                  kubeletImage |-> {"k"}, rbac |-> {FALSE}, ca |-> {[crt |-> "c", key |-> "p"]}],
     cluster |-> [id |-> "id", secret |-> "s", clusterName |-> "n", endpoint |-> "e",
                  dnsDomain |-> {}, podSubnets |-> <<>>, serviceSubnets |-> <<"a", "b">>,
                  token |-> "t", ca |-> {[crt |-> "c", key |-> ""]}]]

WithInline(credentials, mode, config) ==
    [credentials |-> credentials, mode |-> mode, ref |-> "none", inline |-> {config}]
WithRef(credentials, mode, ref) ==
    [credentials |-> credentials, mode |-> mode, ref |-> ref, inline |-> {}]

FaultySpecs == {WithInline("good", "", Inlined("worker", "v1alpha1")),
                WithRef("insecure", "no_reboot", "complete"),
                WithRef("broken", "auto", "complete"),
                WithRef("good", "reboot", "incomplete"),
                WithInline("good", "staged", Inlined("controlplane", ""))}
LiveSpecs == {WithRef("good", "", "complete"),
              WithInline("good", "auto", Inlined("worker", "")),
              WithInline("good", "staged", Inlined("controlplane", "")),
              WithInline("insecure", "reboot", Inlined("controlplane", "v1alpha1")),
              WithInline("good", "no_reboot", Inlined("worker", ""))}
InsecureSpecs == {WithInline("insecure", "", Inlined("controlplane", "v1alpha1"))}

FaultyEnv == {"crash", "stale", "writeError", "publishError", "connectError", "delete",
              "rpcError", "lostReply", "reboot", "reset", "sourceChanges"}
FairEnv == {"crash", "stale", "connectError", "rpcError", "lostReply", "reboot",
            "sourceChanges"}
QuietEnv == {}
=============================================================================
