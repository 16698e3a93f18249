--------------------------- MODULE MCConfiguration ---------------------------
(* Instances of Configuration for TLC: one resource with a connection Secret. *)
EXTENDS Configuration

CONSTANT c1

FaultyEnv == {"crash", "writeError", "connectError", "delete", "replaced",
              "sourceDamaged", "secretLost"}
==============================================================================
