---------------------------- MODULE SessionStore ----------------------------
(***************************************************************************)
(* The host's table of session tokens (internal/protocol, SessionStore).   *)
(* A token is issued at the end of a pairing handshake and spent by the    *)
(* tunnel handshakes that follow it.  Issue and VerifyGrant hold the       *)
(* store's mutex from their first table access to their last, so each is   *)
(* one action.  Time is a counter of ticks that only Tick advances.        *)
(***************************************************************************)
EXTENDS Naturals

CONSTANTS Token,                \* the values 16 random bytes can take
          Peer, Port,
          SessionTokenTTL,      \* in ticks
          SessionTokenMaxUses,
          MaxTime               \* the bound on the clock

ASSUME SessionStoreAssumption ==
    /\ SessionTokenTTL \in Nat
    /\ SessionTokenMaxUses \in Nat \ {0}
    /\ MaxTime \in Nat

VARIABLES tokens,   \* SessionStore.tokens: token -> sessionEntry
          now,      \* time.Now()
          issued    \* history: what each token was issued for, when, and how
                    \* many VerifyGrant calls it has satisfied

storeVars == <<tokens, now, issued>>

MaxPort == 65535     \* the largest port of TCP, what a uint16 can hold

Grants == [PeerID : Peer, TargetPort : Port]
Entries == [expiresAt : Nat, grant : Grants, usesLeft : Nat]
Receipts == [grant : Grants, at : Nat, uses : Nat]

(* The table with one entry set, or with one entry deleted. *)
Put(f, k, v) == [x \in DOMAIN f \cup {k} |-> IF x = k THEN v ELSE f[x]]
Drop(f, k) == [x \in DOMAIN f \ {k} |-> f[x]]

StoreInit == /\ tokens = [t \in {} |-> {}]
             /\ issued = [t \in {} |-> {}]
             /\ now = 0

(* sweep, on the table the caller is about to install. *)
Swept_Never(s) == s
Swept(s) == [t \in {u \in DOMAIN s : now <= s[u].expiresAt} |-> s[t]]

(* Issue: 16 random bytes never repeat a token, a live one or a dead one.  *)
NewEntry(p, q) ==
    [expiresAt |-> now + SessionTokenTTL,
     grant     |-> [PeerID |-> p, TargetPort |-> q],
     usesLeft  |-> SessionTokenMaxUses]

Issue(t, p, q) ==
    /\ t \notin DOMAIN issued
    /\ tokens' = Swept(Put(tokens, t, NewEntry(p, q)))
    /\ issued' = Put(issued, t, [grant |-> [PeerID |-> p, TargetPort |-> q],
                                 at |-> now, uses |-> 0])
    /\ UNCHANGED now

(* The two conditions under which VerifyGrant turns a present token down.  *)
Refused_LateByOne(e) == now > e.expiresAt + 1 \/ e.usesLeft <= 0
Refused_AtDeadline(e) == now >= e.expiresAt \/ e.usesLeft <= 0
Refused(e) == now > e.expiresAt \/ e.usesLeft <= 0

(* A table after one use of t: the entry goes with its last use. *)
Spent_Keep(t) == [tokens EXCEPT ![t].usesLeft = @]
Spent(t) == IF tokens[t].usesLeft - 1 <= 0
            THEN Drop(tokens, t)
            ELSE [tokens EXCEPT ![t].usesLeft = @ - 1]

VerifyGrantOK(t) ==
    /\ t \in DOMAIN tokens
    /\ ~Refused(tokens[t])
    /\ tokens' = Spent(t)
    /\ issued' = [issued EXCEPT ![t].uses = @ + 1]
    /\ UNCHANGED now

VerifyGrantRefused(t) ==
    /\ t \in DOMAIN tokens
    /\ Refused(tokens[t])
    /\ tokens' = Drop(tokens, t)
    /\ UNCHANGED <<now, issued>>

Tick == /\ now < MaxTime
        /\ now' = now + 1
        /\ UNCHANGED <<tokens, issued>>

StoreNext == \/ \E t \in Token, p \in Peer, q \in Port : Issue(t, p, q)
             \/ \E t \in Token : VerifyGrantOK(t)
             \/ \E t \in Token : VerifyGrantRefused(t)
             \/ Tick

StoreSpec == StoreInit /\ [][StoreNext]_storeVars

-----------------------------------------------------------------------------

(* The table maps tokens that were issued to entries of the right shape.   *)
StoreTypeOK ==
    /\ DOMAIN tokens \subseteq DOMAIN issued
    /\ DOMAIN issued \subseteq Token
    /\ \A t \in DOMAIN tokens : tokens[t] \in Entries
    /\ \A t \in DOMAIN issued : issued[t] \in Receipts
    /\ tokens = [t \in DOMAIN tokens |-> tokens[t]]
    /\ issued = [t \in DOMAIN issued |-> issued[t]]
    /\ now \in 0..MaxTime

(* The entry of a live token still says whom and what it was issued for,   *)
(* and its remaining uses are the ones VerifyGrant has not handed out.     *)
EntriesAccountForUses ==
    \A t \in DOMAIN tokens :
        /\ tokens[t].grant = issued[t].grant
        /\ tokens[t].expiresAt = issued[t].at + SessionTokenTTL
        /\ tokens[t].usesLeft >= 1
        /\ tokens[t].usesLeft + issued[t].uses = SessionTokenMaxUses

(* "bounds how many app TCP streams one authenticated pairing/reauth       *)
(* response can open": no token satisfies more than SessionTokenMaxUses    *)
(* VerifyGrant calls over its whole life, deletions and re-issues included.*)
UseBound == \A t \in DOMAIN issued : issued[t].uses <= SessionTokenMaxUses

(* The converse: neither sweep nor the deletion branches of VerifyGrant    *)
(* take a token away while it is within its TTL and has uses left.         *)
NoEarlyLoss ==
    \A t \in DOMAIN issued :
        (/\ issued[t].uses < SessionTokenMaxUses
         /\ now <= issued[t].at + SessionTokenTTL) => t \in DOMAIN tokens

(* "sweep removes stale entries to keep the map bounded": the table never  *)
(* keeps a token across an Issue that came after the token's deadline, so  *)
(* it holds at most the tokens of one TTL before the latest Issue.         *)
TableIsBounded ==
    \A t \in DOMAIN tokens, u \in DOMAIN issued :
        issued[u].at <= issued[t].at + SessionTokenTTL

(* The table is what the ledger leaves of the tokens: it loses none early  *)
(* and keeps none too long.                                                *)
TableIsExact == NoEarlyLoss /\ TableIsBounded

(* A token that left the table (spent, expired or swept) never works       *)
(* again, and what it was issued for never changes.                        *)
NoRevival ==
    [][\A t \in DOMAIN issued :
         /\ t \in DOMAIN issued' /\ issued'[t].grant = issued[t].grant
         /\ t \notin DOMAIN tokens =>
              t \notin DOMAIN tokens' /\ issued'[t] = issued[t]]_storeVars

(* The table implements the ledger: VerifyGrant succeeds only where the    *)
(* ledger has an unspent, unexpired token, and no other call spends one.   *)
Ledger == INSTANCE SessionLedger
            WITH TTL <- SessionTokenTTL, MaxUses <- SessionTokenMaxUses,
                 ledger <- issued, clock <- now
ImplementsLedger == Ledger!Spec
=============================================================================
