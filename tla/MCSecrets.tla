----------------------------- MODULE MCSecrets ------------------------------
(* Instances of Secrets for TLC: c1 has a connection Secret, c2 has none, the *)
(* Talos version of c3 does not parse.                                        *)
EXTENDS Secrets

CONSTANTS c1, c2, c3

FaultyEnv == {"crash", "writeError", "connectError", "delete", "secretLost"}
CrashEnv == {"crash"}
PublishEnv == {"publishError"}
DeleteEnv == {"delete"}
=============================================================================
