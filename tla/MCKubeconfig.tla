---------------------------- MODULE MCKubeconfig ----------------------------
(* Instances of Kubeconfig for TLC: one resource with a connection Secret. *)
EXTENDS Kubeconfig

CONSTANTS c1, k1, k2

FaultyEnv == {"crash", "writeError", "connectError", "delete", "rpcError", "secretEdited"}
=============================================================================
