-------------------------- MODULE MCNodeLifecycle --------------------------
(* NodeLifecycle with one configured relay and one found in the DHT. *)
EXTENDS NodeLifecycle, TLC

CONSTANTS r1, r2, l1, l2, k1, d1, d2

Symmetry == Permutations({l1, l2}) \cup Permutations({d1, d2})
=============================================================================
