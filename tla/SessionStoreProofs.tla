------------------------- MODULE SessionStoreProofs -------------------------
(***************************************************************************)
(* Proofs about the session-token table for every number of tokens, peers  *)
(* and ports and every time to live and use limit.                         *)
(***************************************************************************)
EXTENDS SessionStore, TLAPS

(* No token was issued in the future. *)
IssuedInThePast == \A t \in DOMAIN issued : issued[t].at <= now

(* The inductive invariant: the five invariants TLC checks.  Counting      *)
(* the uses of a token bounds them only together with the entry that still *)
(* holds the rest, hence EntriesAccountForUses; and a token is never lost  *)
(* early because its deadline in the table is the one it was issued with.  *)
StoreInv == /\ StoreTypeOK
            /\ EntriesAccountForUses
            /\ UseBound
            /\ NoEarlyLoss
            /\ TableIsBounded
            /\ IssuedInThePast

(* Ports are numbers. *)
LEMMA MaxPortIsNat == MaxPort \in Nat
BY SMT DEF MaxPort

(* NewSessionStore starts with an empty table. *)
LEMMA StoreInvInit == StoreInit => StoreInv
BY SessionStoreAssumption
   DEF StoreInit, StoreInv, StoreTypeOK, EntriesAccountForUses, UseBound, NoEarlyLoss,
       TableIsBounded, IssuedInThePast

(* Issue adds a full entry, and its sweep drops only expired ones. *)
LEMMA IssueKeepsInv ==
    ASSUME StoreInv, NEW t \in Token, NEW p \in Peer, NEW q \in Port, Issue(t, p, q)
    PROVE  StoreInv'
<1> DEFINE put == Put(tokens, t, NewEntry(p, q))
<1> DEFINE receipt == [grant |-> [PeerID |-> p, TargetPort |-> q], at |-> now, uses |-> 0]
<1>1. /\ now \in Nat /\ SessionTokenTTL \in Nat
      /\ SessionTokenMaxUses \in Nat /\ SessionTokenMaxUses >= 1
  BY SessionStoreAssumption DEF StoreInv, StoreTypeOK
<1>2. t \notin DOMAIN tokens /\ t \notin DOMAIN issued
  BY DEF Issue, StoreInv, StoreTypeOK
<1>3. /\ DOMAIN issued' = DOMAIN issued \cup {t}
      /\ issued'[t] = receipt
      /\ \A x \in DOMAIN issued : issued'[x] = issued[x]
      /\ issued' = [x \in DOMAIN issued' |-> issued'[x]]
  <2>1. issued' = Put(issued, t, receipt)
    BY DEF Issue
  <2>2. QED
    BY <1>2, <2>1 DEF Put
<1>4. /\ DOMAIN put = DOMAIN tokens \cup {t}
      /\ put[t] = NewEntry(p, q)
      /\ \A x \in DOMAIN tokens : put[x] = tokens[x]
  BY <1>2 DEF Put
<1>5. /\ DOMAIN tokens' = {u \in DOMAIN put : now <= put[u].expiresAt}
      /\ \A x \in DOMAIN tokens' : tokens'[x] = put[x]
      /\ tokens' = [x \in DOMAIN tokens' |-> tokens'[x]]
  <2>1. tokens' = Swept(put)
    BY DEF Issue
  <2>2. QED
    BY <2>1 DEF Swept
<1>6. now' = now
  BY DEF Issue
<1> HIDE DEF put
<1>7. NewEntry(p, q) \in Entries /\ receipt \in Receipts
  BY <1>1 DEF NewEntry, Entries, Receipts, Grants
<1>8. StoreTypeOK'
  BY <1>3, <1>4, <1>5, <1>6, <1>7 DEF StoreInv, StoreTypeOK
<1>9. EntriesAccountForUses'
  <2> SUFFICES ASSUME NEW x \in DOMAIN tokens'
               PROVE  /\ tokens'[x].grant = issued'[x].grant
                      /\ tokens'[x].expiresAt = issued'[x].at + SessionTokenTTL
                      /\ tokens'[x].usesLeft >= 1
                      /\ tokens'[x].usesLeft + issued'[x].uses = SessionTokenMaxUses
    BY DEF EntriesAccountForUses
  <2>1. CASE x = t
    BY <1>1, <1>3, <1>4, <1>5, <2>1 DEF NewEntry
  <2>2. CASE x # t
    BY <1>3, <1>4, <1>5, <2>2 DEF StoreInv, StoreTypeOK, EntriesAccountForUses
  <2>3. QED
    BY <2>1, <2>2
<1>10. UseBound'
  BY <1>1, <1>3 DEF StoreInv, UseBound
<1>11. NoEarlyLoss'
  <2> SUFFICES ASSUME NEW x \in DOMAIN issued',
                      issued'[x].uses < SessionTokenMaxUses,
                      now <= issued'[x].at + SessionTokenTTL
               PROVE  x \in DOMAIN tokens'
    BY <1>6 DEF NoEarlyLoss
  <2>1. CASE x = t
    BY <1>1, <1>4, <1>5, <2>1 DEF NewEntry
  <2>2. CASE x # t
    <3>1. x \in DOMAIN tokens
      BY <1>3, <2>2 DEF StoreInv, NoEarlyLoss
    <3>2. put[x].expiresAt = issued[x].at + SessionTokenTTL
      BY <1>4, <3>1 DEF StoreInv, EntriesAccountForUses
    <3>3. QED
      BY <1>3, <1>4, <1>5, <2>2, <3>1, <3>2
  <2>3. QED
    BY <2>1, <2>2
<1>12. TableIsBounded'
  <2> SUFFICES ASSUME NEW x \in DOMAIN tokens', NEW u \in DOMAIN issued'
               PROVE  issued'[u].at <= issued'[x].at + SessionTokenTTL
    BY DEF TableIsBounded
  <2>1. issued'[x].at \in Nat
    BY <1>8 DEF StoreTypeOK, Receipts
  <2>2. now <= issued'[x].at + SessionTokenTTL
    BY <1>5, <1>9 DEF EntriesAccountForUses
  <2>3. CASE u = t
    BY <1>3, <2>2, <2>3
  <2>4. CASE u # t /\ x = t
    BY <1>1, <1>3, <2>4 DEF StoreInv, StoreTypeOK, Receipts, IssuedInThePast
  <2>5. CASE u # t /\ x # t
    BY <1>3, <1>4, <1>5, <2>5 DEF StoreInv, StoreTypeOK, TableIsBounded
  <2>6. QED
    BY <2>3, <2>4, <2>5
<1>13. IssuedInThePast'
  BY <1>1, <1>3, <1>6 DEF StoreInv, IssuedInThePast
<1>14. QED
  BY <1>8, <1>9, <1>10, <1>11, <1>12, <1>13 DEF StoreInv

(* A successful VerifyGrant spends one use, and deletes the entry with the *)
(* last one.                                                               *)
LEMMA VerifyGrantOKKeepsInv ==
    ASSUME StoreInv, NEW t \in Token, VerifyGrantOK(t)
    PROVE  StoreInv'
<1>1. /\ now' = now /\ now \in Nat /\ SessionTokenTTL \in Nat
      /\ SessionTokenMaxUses \in Nat /\ SessionTokenMaxUses >= 1
  BY SessionStoreAssumption DEF VerifyGrantOK, StoreInv, StoreTypeOK
<1>2. /\ t \in DOMAIN tokens /\ t \in DOMAIN issued
      /\ tokens[t] \in Entries /\ issued[t] \in Receipts
  BY DEF VerifyGrantOK, StoreInv, StoreTypeOK
<1>3. /\ DOMAIN issued' = DOMAIN issued
      /\ issued'[t] = [issued[t] EXCEPT !.uses = @ + 1]
      /\ \A x \in DOMAIN issued : x # t => issued'[x] = issued[x]
      /\ issued' = [x \in DOMAIN issued' |-> issued'[x]]
  BY <1>2 DEF VerifyGrantOK, StoreInv, StoreTypeOK
<1>4. /\ issued'[t].uses = issued[t].uses + 1
      /\ issued'[t].at = issued[t].at
      /\ issued'[t].grant = issued[t].grant
      /\ issued'[t] \in Receipts
  BY <1>2, <1>3 DEF Receipts
<1>5. /\ tokens[t].usesLeft \in Nat /\ tokens[t].usesLeft >= 1
      /\ issued[t].uses \in Nat
      /\ tokens[t].usesLeft + issued[t].uses = SessionTokenMaxUses
  BY <1>2 DEF StoreInv, EntriesAccountForUses, Entries, Receipts
<1>6. /\ DOMAIN tokens' = IF tokens[t].usesLeft = 1 THEN DOMAIN tokens \ {t}
                          ELSE DOMAIN tokens
      /\ \A x \in DOMAIN tokens' : x # t => tokens'[x] = tokens[x]
      /\ t \in DOMAIN tokens' => tokens'[t] = [tokens[t] EXCEPT !.usesLeft = @ - 1]
      /\ tokens' = [x \in DOMAIN tokens' |-> tokens'[x]]
  <2>1. CASE tokens[t].usesLeft = 1
    <3>1. tokens' = [x \in DOMAIN tokens \ {t} |-> tokens[x]]
      BY <1>5, <2>1 DEF VerifyGrantOK, Spent, Drop
    <3>2. QED
      BY <2>1, <3>1
  <2>2. CASE tokens[t].usesLeft # 1
    <3>1. tokens' = [tokens EXCEPT ![t].usesLeft = @ - 1]
      BY <1>5, <2>2 DEF VerifyGrantOK, Spent
    <3>2. QED
      BY <1>2, <2>2, <3>1 DEF StoreInv, StoreTypeOK
  <2>3. QED
    BY <2>1, <2>2
<1>7. t \in DOMAIN tokens' => /\ tokens[t].usesLeft >= 2
                             /\ tokens'[t].usesLeft = tokens[t].usesLeft - 1
                             /\ tokens'[t].grant = tokens[t].grant
                             /\ tokens'[t].expiresAt = tokens[t].expiresAt
                             /\ tokens'[t] \in Entries
  BY <1>2, <1>5, <1>6 DEF Entries
<1>8. StoreTypeOK'
  BY <1>1, <1>3, <1>4, <1>6, <1>7 DEF StoreInv, StoreTypeOK
<1>9. EntriesAccountForUses'
  <2> SUFFICES ASSUME NEW x \in DOMAIN tokens'
               PROVE  /\ tokens'[x].grant = issued'[x].grant
                      /\ tokens'[x].expiresAt = issued'[x].at + SessionTokenTTL
                      /\ tokens'[x].usesLeft >= 1
                      /\ tokens'[x].usesLeft + issued'[x].uses = SessionTokenMaxUses
    BY DEF EntriesAccountForUses
  <2>1. CASE x = t
    BY <1>1, <1>2, <1>4, <1>5, <1>7, <2>1 DEF StoreInv, EntriesAccountForUses
  <2>2. CASE x # t
    BY <1>3, <1>6, <2>2 DEF StoreInv, StoreTypeOK, EntriesAccountForUses
  <2>3. QED
    BY <2>1, <2>2
<1>10. UseBound'
  <2> SUFFICES ASSUME NEW x \in DOMAIN issued'
               PROVE  issued'[x].uses <= SessionTokenMaxUses
    BY DEF UseBound
  <2>1. CASE x = t
    BY <1>1, <1>4, <1>5, <2>1
  <2>2. CASE x # t
    BY <1>3, <2>2 DEF StoreInv, UseBound
  <2>3. QED
    BY <2>1, <2>2
<1>11. NoEarlyLoss'
  <2> SUFFICES ASSUME NEW x \in DOMAIN issued',
                      issued'[x].uses < SessionTokenMaxUses,
                      now <= issued'[x].at + SessionTokenTTL
               PROVE  x \in DOMAIN tokens'
    BY <1>1 DEF NoEarlyLoss
  <2>1. CASE x = t
    BY <1>1, <1>2, <1>4, <1>5, <1>6, <2>1
  <2>2. CASE x # t
    BY <1>3, <1>6, <2>2 DEF StoreInv, NoEarlyLoss
  <2>3. QED
    BY <2>1, <2>2
<1>12. TableIsBounded' /\ IssuedInThePast'
  <2>1. /\ \A x \in DOMAIN issued : issued'[x].at = issued[x].at
        /\ DOMAIN tokens' \subseteq DOMAIN tokens
        /\ DOMAIN tokens \subseteq DOMAIN issued
    BY <1>3, <1>4, <1>6 DEF StoreInv, StoreTypeOK
  <2>2. QED
    BY <1>1, <1>3, <2>1 DEF StoreInv, TableIsBounded, IssuedInThePast
<1>13. QED
  BY <1>8, <1>9, <1>10, <1>11, <1>12 DEF StoreInv

(* A refused VerifyGrant deletes at most an entry past its limits. *)
LEMMA VerifyGrantRefusedKeepsInv ==
    ASSUME StoreInv, NEW t \in Token, VerifyGrantRefused(t)
    PROVE  StoreInv'
<1>1. /\ now' = now /\ now \in Nat
      /\ SessionTokenTTL \in Nat /\ SessionTokenMaxUses \in Nat
  BY SessionStoreAssumption DEF VerifyGrantRefused, StoreInv, StoreTypeOK
<1>2. /\ issued' = issued
      /\ DOMAIN tokens' = DOMAIN tokens \ {t}
      /\ \A x \in DOMAIN tokens' : tokens'[x] = tokens[x]
      /\ tokens' = [x \in DOMAIN tokens' |-> tokens'[x]]
  BY DEF VerifyGrantRefused, Drop
<1>3. t \in DOMAIN tokens /\ now > issued[t].at + SessionTokenTTL
  <2>1. /\ tokens[t].usesLeft \in Nat /\ tokens[t].usesLeft >= 1
        /\ tokens[t].expiresAt = issued[t].at + SessionTokenTTL
    BY DEF VerifyGrantRefused, StoreInv, StoreTypeOK, EntriesAccountForUses, Entries
  <2>2. QED
    BY <2>1 DEF VerifyGrantRefused, Refused
<1>4. StoreTypeOK' /\ EntriesAccountForUses' /\ UseBound'
  BY <1>1, <1>2 DEF StoreInv, StoreTypeOK, EntriesAccountForUses, UseBound
<1>5. NoEarlyLoss'
  <2>1. issued[t].at \in Nat
    BY <1>3 DEF StoreInv, StoreTypeOK, Receipts
  <2>2. QED
    BY <1>1, <1>2, <1>3, <2>1 DEF StoreInv, NoEarlyLoss
<1>6. TableIsBounded' /\ IssuedInThePast'
  BY <1>1, <1>2 DEF StoreInv, TableIsBounded, IssuedInThePast
<1>7. QED
  BY <1>4, <1>5, <1>6 DEF StoreInv

(* Time can only bring a token past its deadline. *)
LEMMA TickKeepsInv == StoreInv /\ Tick => StoreInv'
<1> SUFFICES ASSUME StoreInv, Tick PROVE StoreInv'
  OBVIOUS
<1>1. /\ tokens' = tokens /\ issued' = issued /\ now' = now + 1
      /\ now \in Nat /\ now' \in 0..MaxTime /\ SessionTokenTTL \in Nat
  BY SessionStoreAssumption DEF Tick, StoreInv, StoreTypeOK
<1>2. \A x \in DOMAIN issued : issued[x].at \in Nat
  BY DEF StoreInv, StoreTypeOK, Receipts
<1>3. StoreTypeOK' /\ EntriesAccountForUses' /\ UseBound' /\ TableIsBounded'
  BY <1>1 DEF StoreInv, StoreTypeOK, EntriesAccountForUses, UseBound, TableIsBounded
<1>4. NoEarlyLoss' /\ IssuedInThePast'
  BY <1>1, <1>2 DEF StoreInv, NoEarlyLoss, IssuedInThePast
<1>5. QED
  BY <1>3, <1>4 DEF StoreInv

(* Every operation on the table keeps StoreInv. *)
LEMMA StoreInvInductive == StoreInv /\ [StoreNext]_storeVars => StoreInv'
<1> SUFFICES ASSUME StoreInv, [StoreNext]_storeVars PROVE StoreInv'
  OBVIOUS
<1>1. CASE \E t \in Token, p \in Peer, q \in Port : Issue(t, p, q)
  BY <1>1, IssueKeepsInv
<1>2. CASE \E t \in Token : VerifyGrantOK(t)
  BY <1>2, VerifyGrantOKKeepsInv
<1>3. CASE \E t \in Token : VerifyGrantRefused(t)
  BY <1>3, VerifyGrantRefusedKeepsInv
<1>4. CASE Tick
  BY <1>4, TickKeepsInv
<1>5. CASE UNCHANGED storeVars
  BY <1>5 DEF storeVars, StoreInv, StoreTypeOK, EntriesAccountForUses, UseBound,
              NoEarlyLoss, TableIsBounded, IssuedInThePast
<1>6. QED
  BY <1>1, <1>2, <1>3, <1>4, <1>5 DEF StoreNext

(* The table is well formed and its entries account for every use. *)
THEOREM StoreInvariant == StoreSpec => []StoreInv
<1>1. QED
  BY StoreInvInit, StoreInvInductive, PTL DEF StoreSpec

(* A token issued by Issue satisfies at most SessionTokenMaxUses calls of  *)
(* VerifyGrant, whatever the interleaving of issues, uses and expiries.    *)
THEOREM UseBoundHolds == StoreSpec => []UseBound
<1>1. StoreInv => UseBound
  BY DEF StoreInv
<1>2. QED
  BY <1>1, StoreInvariant, PTL

(* sweep and VerifyGrant never delete a token before its time, and sweep   *)
(* keeps the table within the tokens of one time to live.                  *)
THEOREM TableIsExactHolds == StoreSpec => []TableIsExact
<1>1. StoreInv => TableIsExact
  BY DEF StoreInv, TableIsExact
<1>2. QED
  BY <1>1, StoreInvariant, PTL

(* One step never gives life or another grant to a token of the past. *)
LEMMA StepRevivesNothing ==
    ASSUME StoreInv, [StoreNext]_storeVars, NEW t \in DOMAIN issued
    PROVE  /\ t \in DOMAIN issued' /\ issued'[t].grant = issued[t].grant
           /\ t \notin DOMAIN tokens =>
                t \notin DOMAIN tokens' /\ issued'[t] = issued[t]
<1>1. CASE \E u \in Token, p \in Peer, q \in Port : Issue(u, p, q)
  BY <1>1 DEF Issue, Put, Swept
<1>2. ASSUME NEW u \in Token, VerifyGrantOK(u)
      PROVE  /\ t \in DOMAIN issued' /\ issued'[t].grant = issued[t].grant
             /\ t \notin DOMAIN tokens =>
                  t \notin DOMAIN tokens' /\ issued'[t] = issued[t]
  <2>1. /\ u \in DOMAIN tokens /\ u \in DOMAIN issued
        /\ issued[u] \in Receipts
        /\ issued' = [issued EXCEPT ![u].uses = @ + 1]
    BY <1>2 DEF VerifyGrantOK, StoreInv, StoreTypeOK
  <2>2. DOMAIN tokens' \subseteq DOMAIN tokens
    BY <1>2 DEF VerifyGrantOK, Spent, Drop
  <2>3. t \in DOMAIN issued' /\ issued'[t].grant = issued[t].grant
    BY <2>1 DEF StoreInv, StoreTypeOK, Receipts
  <2>4. t # u => issued'[t] = issued[t]
    BY <2>1
  <2>5. QED
    BY <2>1, <2>2, <2>3, <2>4
<1>3. CASE \E u \in Token : VerifyGrantRefused(u)
  BY <1>3 DEF VerifyGrantRefused, Drop
<1>4. CASE Tick
  BY <1>4 DEF Tick
<1>5. CASE UNCHANGED storeVars
  BY <1>5 DEF storeVars
<1>6. QED
  BY <1>1, <1>2, <1>3, <1>4, <1>5 DEF StoreNext

(* A token that was spent, has expired or was swept stays dead, and no     *)
(* call of Issue or VerifyGrant rebinds a token to another peer or port.   *)
THEOREM NoRevivalHolds == StoreSpec => NoRevival
<1> DEFINE Step == \A t \in DOMAIN issued :
                      /\ t \in DOMAIN issued' /\ issued'[t].grant = issued[t].grant
                      /\ t \notin DOMAIN tokens =>
                           t \notin DOMAIN tokens' /\ issued'[t] = issued[t]
<1>1. StoreInv /\ [StoreNext]_storeVars => [Step]_storeVars
  BY StepRevivesNothing
<1>2. QED
  BY <1>1, StoreInvariant, PTL DEF StoreSpec, NoRevival

(* The table, with its deletions and its sweep, implements the ledger.     *)
THEOREM StoreImplementsLedger == StoreSpec => ImplementsLedger
<1>1. StoreInit => Ledger!Init
  BY DEF StoreInit, Ledger!Init
<1>2. StoreInv /\ [StoreNext]_storeVars => [Ledger!Next]_(Ledger!vars)
  <2> SUFFICES ASSUME StoreInv, [StoreNext]_storeVars
               PROVE  Ledger!Next \/ UNCHANGED Ledger!vars
    OBVIOUS
  <2>1. ASSUME NEW t \in Token, NEW p \in Peer, NEW q \in Port, Issue(t, p, q)
        PROVE  Ledger!Grant(t, p, q)
    BY <2>1 DEF Issue, Put, Ledger!Grant
  <2>2. ASSUME NEW t \in Token, VerifyGrantOK(t)
        PROVE  Ledger!Spend(t)
    <3>1. /\ t \in DOMAIN issued
          /\ tokens[t].expiresAt = issued[t].at + SessionTokenTTL
          /\ tokens[t].usesLeft >= 1
          /\ tokens[t].usesLeft + issued[t].uses = SessionTokenMaxUses
          /\ tokens[t].usesLeft \in Nat /\ issued[t].uses \in Nat
          /\ now \in Nat /\ tokens[t].expiresAt \in Nat
      BY <2>2 DEF VerifyGrantOK, StoreInv, StoreTypeOK, EntriesAccountForUses,
                  Entries, Receipts
    <3>2. now <= tokens[t].expiresAt
      BY <2>2, <3>1 DEF VerifyGrantOK, Refused
    <3>3. Ledger!Valid(t)
      BY <3>1, <3>2, SessionStoreAssumption DEF Ledger!Valid
    <3>4. QED
      BY <2>2, <3>3 DEF VerifyGrantOK, Ledger!Spend
  <2>3. ASSUME NEW t \in Token, VerifyGrantRefused(t)
        PROVE  UNCHANGED Ledger!vars
    BY <2>3 DEF VerifyGrantRefused, Ledger!vars
  <2>4. ASSUME Tick
        PROVE  Ledger!Pass
    BY <2>4 DEF Tick, Ledger!Pass
  <2>5. ASSUME UNCHANGED storeVars
        PROVE  UNCHANGED Ledger!vars
    BY <2>5 DEF storeVars, Ledger!vars
  <2>6. QED
    BY <2>1, <2>2, <2>3, <2>4, <2>5 DEF StoreNext, Ledger!Next
<1>3. QED
  BY <1>1, <1>2, StoreInvariant, PTL DEF StoreSpec, ImplementsLedger, Ledger!Spec
=============================================================================
