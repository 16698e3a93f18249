------------------------ MODULE MCBootstrapReplicas ------------------------
(* Instances of BootstrapReplicas for TLC: one resource, two replicas. *)
EXTENDS BootstrapReplicas

CONSTANTS c1, n1

OneNode == {n1}
OneNodeOf == [c \in CRs |-> n1]

\* What breaks bookkeeping, and somebody else who bootstraps the node: by hand or
\* through another Bootstrap that names it.
FaultyEnv == {"crash", "stale", "writeError", "lostReply", "outside"}
============================================================================
