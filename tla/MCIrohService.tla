--------------------------- MODULE MCIrohService ---------------------------
(* IrohService with two goroutines that may restart the same process. *)
EXTENDS IrohService, TLC

CONSTANTS b1, b2, p1, p2, p3, o1, o2

Symmetry == Permutations({b1, b2}) \cup Permutations({p1, p2, p3}) \cup Permutations({o1, o2})
=============================================================================
