---------------------------- MODULE MCBootstrap -----------------------------
(* Instances of Bootstrap for TLC: one resource on one node. *)
EXTENDS Bootstrap

CONSTANTS c1, n1

OneNode == {n1}
OneNodeOf == [c \in CRs |-> n1]

\* Every fault: any connection, call, publication and write may fail, etcd goes down
\* for a while, and somebody else bootstraps the node, by hand or through another
\* Bootstrap that names it.
EveryEnv == {"crash", "stale", "writeError", "publishError", "connectError", "delete",
             "rpcError", "lostReply", "etcdDown", "outside"}
=============================================================================
