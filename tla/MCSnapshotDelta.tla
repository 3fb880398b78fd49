--------------------------- MODULE MCSnapshotDelta ---------------------------
(* Instances of SnapshotDelta for TLC: two keys of one project, one key of  *)
(* another.                                                                 *)
EXTENDS SnapshotDelta, TLC

CONSTANTS here, there, a, b, z

MCProjectOf == [k \in Keys |-> IF k = z THEN there ELSE here]

Windows == Permutations(Clients)
=============================================================================
