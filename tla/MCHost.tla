------------------------------- MODULE MCHost -------------------------------
(* Model-checking instance of Host: two machines, two pairing handlers and *)
(* a tunnel stream.                                                       *)
EXTENDS Host, MCPairing

HostSymmetry == Symmetry \cup Permutations(Stream)
=============================================================================
