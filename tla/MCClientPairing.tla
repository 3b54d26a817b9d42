-------------------------- MODULE MCClientPairing --------------------------
(* Instance of ClientPairing for TLC. *)
EXTENDS ClientPairing

TwoAttempts == 1..2
Racers == {<<1, 1>>, <<1, 2>>, <<2, 1>>}
Identities == {[key |-> "own", machine |-> "m1"], [key |-> None, machine |-> "m2"]}
Lists == {<<"d1", "d1">>, <<"d2", "d1">>}
\* Saved when PublicKey was the node key.
Left == {[key |-> "node", machine |-> "m1", addrs |-> <<"d1">>]}
=============================================================================
