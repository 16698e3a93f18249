--------------------------- MODULE MCClusterHealth ---------------------------
(* Instances of ClusterHealth for TLC: one control-plane node and one worker.  *)
EXTENDS ClusterHealth

CONSTANTS c1, n1, n2

ControlPlane == [c \in CRs |-> <<n1>>]
Workers == [c \in CRs |-> <<n2>>]

AllSpecs == {[skip |-> TRUE, valid |-> TRUE], [skip |-> FALSE, valid |-> TRUE],
             [skip |-> TRUE, valid |-> FALSE]}

FaultyEnv == {"crash", "stale", "connectError", "delete", "rpcError", "outage"}
=============================================================================
