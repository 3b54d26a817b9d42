------------------------------ MODULE MCPairing ------------------------------
(* Model-checking instances of Pairing.  Streams, links and tokens are      *)
(* interchangeable; identities and backends are not.                        *)
EXTENDS Pairing, TLC

Symmetry == Permutations(Token) \cup Permutations(InviteID) \cup Permutations(Conn)

(* 65536 is a port that uint16 turns into 0. *)
MCPort == 1..65536
OneRemote == <<"a", "a">>

Id(n, m, r) == [NodeID |-> n, MachineID |-> m, TPMRootThumbprint |-> r]
OneMachine == {Id("a", "ma", NoID)}
TwoMachines == {Id("a", "ma", NoID), Id("b", "mb", NoID)}
(* b is the machine of a after a new node key was made, or a machine of its *)
(* own: the two ways a second node can meet the entry of the first.         *)
TwoNodes == {Id("a", "ma", NoID), Id("b", "ma", NoID), Id("b", "mb", "root")}
=============================================================================
