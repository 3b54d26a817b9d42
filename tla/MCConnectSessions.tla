------------------------- MODULE MCConnectSessions -------------------------
(* Model-checking instance of ConnectSessions: a node key, under which an   *)
(* invite or a node id connects, and the service key of the paired remote,  *)
(* which is the alias of both.                                              *)
EXTENDS ConnectSessions, TLC

MCKey == {"node", "service"}
MCService == [k \in MCKey |-> {"service"}]
Symmetry == Permutations(Request)
=============================================================================
