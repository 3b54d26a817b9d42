--------------------------- MODULE SessionLedger ---------------------------
(***************************************************************************)
(* What a session token promises, with no table, no deletion and no sweep: *)
(* a token is issued once, to one peer and one port, and until its time to *)
(* live has passed it can be spent at most MaxUses times.  The token table *)
(* of internal/protocol (SessionStore) implements this specification.      *)
(***************************************************************************)
EXTENDS Naturals

CONSTANTS Token, Peer, Port, TTL, MaxUses

VARIABLES ledger,   \* what is known of each token issued so far
          clock

vars == <<ledger, clock>>

Init == ledger = [t \in {} |-> {}] /\ clock = 0

Valid(t) == /\ t \in DOMAIN ledger
            /\ clock <= ledger[t].at + TTL
            /\ ledger[t].uses < MaxUses

Grant(t, p, q) ==
    /\ t \notin DOMAIN ledger
    /\ ledger' = [u \in DOMAIN ledger \cup {t} |->
                    IF u = t
                    THEN [grant |-> [PeerID |-> p, TargetPort |-> q],
                          at |-> clock, uses |-> 0]
                    ELSE ledger[u]]
    /\ UNCHANGED clock

Spend(t) ==
    /\ Valid(t)
    /\ ledger' = [ledger EXCEPT ![t].uses = @ + 1]
    /\ UNCHANGED clock

Pass == clock' = clock + 1 /\ UNCHANGED ledger

Next == \/ \E t \in Token, p \in Peer, q \in Port : Grant(t, p, q)
        \/ \E t \in Token : Spend(t)
        \/ Pass

Spec == Init /\ [][Next]_vars
=============================================================================
