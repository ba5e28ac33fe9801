----------------------------- MODULE MCTopology -----------------------------
(* Five ids, users and nodes; a slot is asked for, or the lowest free one. *)
EXTENDS Topology, TLC
CONSTANTS r, n1, n2, n3, n4
Perms == Permutations({n1, n2, n3, n4})
=============================================================================
