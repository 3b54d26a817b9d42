---------------------------- MODULE PairingProofs ----------------------------
(***************************************************************************)
(* Proofs about the life of an invite link, for any number of links,       *)
(* handlers, calls and backends and any bounds.  LinkInv is the inductive  *)
(* invariant; it says nothing of the trusted list or of the token table,   *)
(* which the links do not depend on.                                       *)
(***************************************************************************)
EXTENDS Pairing, SessionStoreProofs, TrustedPeersProofs

(* Links keep their fields, and a call carries the link it will insert.    *)
CallRecord == [pc : {"idle", "delete", "find", "insert", "cleanup"},
               mode : {"onetime", "pairing", NoID}, port : Nat,
               backend : Backend \cup {NoID}, expiresAt : Nat]
LinkShape(v) ==
    /\ v = [Mode |-> v.Mode, TargetPort |-> v.TargetPort, Backend |-> v.Backend,
            CreatedAt |-> v.CreatedAt, ExpiresAt |-> v.ExpiresAt, Used |-> v.Used,
            UsedByID |-> v.UsedByID]
    /\ v.Mode \in {"onetime", "pairing"} /\ v.Used \in BOOLEAN /\ v.ExpiresAt \in Nat
LinkTypes ==
    /\ now \in 0..MaxTime /\ backend \in Backend
    /\ call \in [Call -> CallRecord]
    /\ \A g \in Call : call[g].pc \in {"delete", "find", "insert"} =>
                         call[g].mode \in {"onetime", "pairing"}
    /\ inv = [i \in DOMAIN inv |-> inv[i]] /\ accepts = [i \in DOMAIN inv |-> accepts[i]]
    /\ \A i \in DOMAIN inv : LinkShape(inv[i]) /\ accepts[i] \in Nat
    /\ invites \subseteq DOMAIN inv

(* The Used flag of a one-time link is the number of requests it let in. *)
UsedIsCount ==
    \A i \in DOMAIN inv : inv[i].Mode = "onetime" =>
        accepts[i] = IF inv[i].Used THEN 1 ELSE 0

(* A revoked link is never listed again. *)
RevokedIsGone == revoked \subseteq DOMAIN inv /\ revoked \cap invites = {}

LinkInv == LinkTypes /\ UsableIsListed /\ ListedWorks /\ UsedIsCount /\ RevokedIsGone

(* What LinkInv depends on. *)
linkVars == <<inviteVars, backend, call, accepts, revoked, now>>

(* A step that leaves the links, the calls and the clock alone, as most of *)
(* the steps of handleIncomingConn do, keeps LinkInv.                      *)
LEMMA OtherStepsKeepLinkInv == LinkInv /\ UNCHANGED linkVars => LinkInv'
  BY DEF LinkInv, linkVars, inviteVars, LinkTypes, LinkShape, UsableIsListed, ListedWorks,
         active, UsedIsCount, RevokedIsGone

(* New starts a pairing manager without links. *)
LEMMA LinkInvInit == Init => LinkInv
  <1> SUFFICES ASSUME Init PROVE LinkInv
    OBVIOUS
  <1> USE DEF Init, StoreInit
  <1>1. LinkTypes
    BY SessionStoreAssumption DEF LinkTypes, NoCall, CallRecord
  <1> QED
    BY <1>1 DEF LinkInv, UsableIsListed, ListedWorks, UsedIsCount, RevokedIsGone

(* Making a request to generate a link, and moving on to its next step. *)
LEMMA CallStepsKeepLinkInv ==
  ASSUME LinkInv, NEW g \in Call,
         \/ \E q \in RequestedPort : GenerateOneTime(g, q) \/ GeneratePairing(g, q)
         \/ GenerateFinds(g) \/ GenerateFails(g) \/ ChangeFails(g)
         \/ \E b \in Backend : ChangeBackend(g, b)
  PROVE  LinkInv'
  <1> USE DEF inviteVars, historyVars, storeVars
  <1>0. OneTimeTTL \in Nat /\ MaxTime \in Nat /\ RequestedPort \subseteq Nat
    BY PairingAssumption, SessionStoreAssumption
  <1>1. UNCHANGED <<inv, invites, byInviteID, accepts, revoked, now>>
    BY DEF GenerateOneTime, GeneratePairing, GenerateFinds, GenerateFails, ChangeFails,
           ChangeBackend
  <1>2. LinkTypes
    BY DEF LinkInv
  <1>3. /\ call' \in [Call -> CallRecord] /\ backend' \in Backend
        /\ \A h \in Call : call'[h].pc \in {"delete", "find", "insert"} =>
                             call'[h].mode \in {"onetime", "pairing"}
    <2>1. CASE \E q \in RequestedPort : GenerateOneTime(g, q)
      BY <2>1, <1>0, <1>2 DEF GenerateOneTime, LinkTypes, CallRecord
    <2>2. CASE \E q \in RequestedPort : GeneratePairing(g, q)
      BY <2>2, <1>0, <1>2 DEF GeneratePairing, LinkTypes, CallRecord, NoExpiry
    <2>3. CASE GenerateFinds(g)
      BY <2>3, <1>2 DEF GenerateFinds, LinkTypes, CallRecord, NoCall
    <2>4. CASE GenerateFails(g)
      BY <2>4, <1>2 DEF GenerateFails, LinkTypes, CallRecord, NoCall
    <2>5. CASE ChangeFails(g)
      BY <2>5, <1>2 DEF ChangeFails, LinkTypes, CallRecord, NoCall
    <2>6. CASE \E b \in Backend : ChangeBackend(g, b)
      <3>1. PICK b \in Backend : ChangeBackend(g, b)
        BY <2>6
      <3>2. call[g] \in CallRecord /\ backend \in Backend
        BY <1>2 DEF LinkTypes
      <3>3. [call[g] EXCEPT !.pc = "cleanup", !.backend = backend] \in CallRecord
        BY <3>2, Zenon DEF CallRecord
      <3>4. call' = [call EXCEPT ![g] = [call[g] EXCEPT !.pc = "cleanup", !.backend = backend]]
        BY <3>1 DEF ChangeBackend
      <3>5. call'[g].pc = "cleanup"
        BY <1>2, <3>2, <3>4 DEF LinkTypes, CallRecord
      <3> QED
        BY <1>2, <3>1, <3>3, <3>4, <3>5 DEF ChangeBackend, LinkTypes
    <2> QED
      BY <2>1, <2>2, <2>3, <2>4, <2>5, <2>6
  <1>4. LinkTypes'
    BY <1>1, <1>2, <1>3 DEF LinkTypes, LinkShape
  <1> QED
    BY <1>1, <1>4 DEF LinkInv, UsableIsListed, ListedWorks, active, UsedIsCount, RevokedIsGone

(* DeletePendingPairingInvitesExceptBackend takes links out of both        *)
(* indexes, from generateURL and from handleConfig.                        *)
LEMMA CleanUpKeepsLinkInv ==
  ASSUME LinkInv, NEW g \in Call, GenerateDeletesStale(g) \/ ChangeCleansUp(g)
  PROVE  LinkInv'
  <1> USE DEF inviteVars, historyVars, storeVars
  <1>1. UNCHANGED <<inv, accepts, revoked, now, backend>>
    BY DEF GenerateDeletesStale, ChangeCleansUp
  <1>2. PICK S : invites' = invites \ S /\ byInviteID' = byInviteID \ S
    <2>1. CASE UNCHANGED <<invites, byInviteID>>
      <3>1. invites' = invites \ {} /\ byInviteID' = byInviteID \ {}
        BY <2>1
      <3> QED
        BY <3>1, Zenon
    <2>2. ASSUME NEW b, DeletePendingExcept(b)
          PROVE  \E S : invites' = invites \ S /\ byInviteID' = byInviteID \ S
      BY <2>2 DEF DeletePendingExcept
    <2> QED
      BY <2>1, <2>2 DEF GenerateDeletesStale, ChangeCleansUp
  <1>3. /\ call' \in [Call -> CallRecord]
        /\ \A h \in Call : call'[h].pc \in {"delete", "find", "insert"} =>
                             call'[h].mode \in {"onetime", "pairing"}
    BY DEF GenerateDeletesStale, ChangeCleansUp, LinkInv, LinkTypes, CallRecord, NoCall
  <1> QED
    BY <1>1, <1>2, <1>3 DEF LinkInv, LinkTypes, LinkShape, UsableIsListed,
       ListedWorks, active, UsedIsCount, RevokedIsGone

(* generateURL inserts a fresh link into both indexes. *)
LEMMA InsertKeepsLinkInv ==
  ASSUME LinkInv, NEW g \in Call, NEW i \in InviteID, GenerateInserts(g, i)
  PROVE  LinkInv'
  <1> USE DEF inviteVars, historyVars, storeVars
  <1>1. /\ UNCHANGED <<revoked, now, backend>>
        /\ i \notin DOMAIN inv /\ call[g].pc = "insert"
        /\ inv' = Put(inv, i, NewInvite(call[g])) /\ accepts' = Put(accepts, i, 0)
        /\ invites' = invites \cup {i} /\ byInviteID' = byInviteID \cup {i}
        /\ call' = [call EXCEPT ![g] = NoCall]
    BY DEF GenerateInserts
  <1>2. /\ DOMAIN inv' = DOMAIN inv \cup {i} /\ inv'[i] = NewInvite(call[g])
        /\ \A j \in DOMAIN inv : inv'[j] = inv[j]
        /\ inv' = [j \in DOMAIN inv' |-> inv'[j]]
    BY <1>1 DEF Put
  <1>3. /\ DOMAIN accepts = DOMAIN inv /\ accepts'[i] = 0
        /\ \A j \in DOMAIN inv : accepts'[j] = accepts[j]
        /\ accepts' = [j \in DOMAIN inv' |-> accepts'[j]]
    BY <1>1, <1>2 DEF Put, LinkInv, LinkTypes
  <1>4. LinkShape(NewInvite(call[g])) /\ NewInvite(call[g]).Used = FALSE
    BY <1>1 DEF LinkShape, NewInvite, LinkInv, LinkTypes, CallRecord
  <1>5. LinkTypes'
    BY <1>1, <1>2, <1>3, <1>4 DEF LinkInv, LinkTypes, CallRecord, NoCall, LinkShape
  <1>6. ListedWorks'
    BY <1>1, <1>2 DEF LinkInv, LinkTypes, ListedWorks, active
  <1>7. UsedIsCount'
    BY <1>2, <1>3, <1>4 DEF LinkInv, UsedIsCount
  <1> QED
    BY <1>1, <1>2, <1>5, <1>6, <1>7 DEF LinkInv, LinkTypes, UsableIsListed, RevokedIsGone

(* RevokeInvite takes a link out of both indexes. *)
LEMMA RevokeKeepsLinkInv ==
  ASSUME LinkInv, NEW i \in InviteID, RevokeInvite(i)
  PROVE  LinkInv'
  BY DEF RevokeInvite, LinkInv, LinkTypes, LinkShape, UsableIsListed, ListedWorks, active,
         UsedIsCount, RevokedIsGone, inviteVars, historyVars, storeVars

(* sweepLoop drops from byInviteID only what is dropped from invites too   *)
(* or has expired.                                                         *)
LEMMA SweepKeepsLinkInv == ASSUME LinkInv, Sweep PROVE LinkInv'
  <1> USE DEF inviteVars, historyVars, storeVars
  <1>1. PICK S \in SUBSET invites :
          /\ invites' = invites \ S
          /\ byInviteID' = byInviteID \ (S \cup {i \in invites : Expired(inv[i])})
    BY DEF Sweep
  <1>2. UNCHANGED <<inv, accepts, revoked, now, backend, call>>
    BY DEF Sweep
  <1>3. \A i \in invites : Expired(inv[i]) => ~active(inv[i])
    BY DEF LinkInv, LinkTypes, LinkShape, Expired, active
  <1>4. ListedWorks'
    BY <1>1, <1>2, <1>3 DEF LinkInv, ListedWorks, active
  <1> QED
    BY <1>1, <1>2, <1>4 DEF LinkInv, LinkTypes, LinkShape, UsableIsListed, UsedIsCount,
       RevokedIsGone

(* verifyAndConsume sets Used together with letting the request through. *)
LEMMA AcceptKeepsLinkInv ==
  ASSUME LinkInv, NEW c \in Conn, VerifyAccepts(c)
  PROVE  LinkInv'
  <1> DEFINE i == conn[c].invite
  <1>1. /\ UNCHANGED <<invites, byInviteID, backend, call, revoked, now>>
        /\ Consumable(conn[c])
        /\ inv' = [inv EXCEPT ![i].Used = @ \/ inv[i].Mode = "onetime"]
        /\ accepts' = [accepts EXCEPT ![i] = @ + 1]
    BY DEF VerifyAccepts, storeVars
  <1>2. i \in byInviteID /\ i \in invites /\ i \in DOMAIN inv /\ ~UsedUp(inv[i])
    BY <1>1 DEF Consumable, LinkInv, LinkTypes, UsableIsListed
  <1>3. /\ DOMAIN inv' = DOMAIN inv /\ inv' = [j \in DOMAIN inv' |-> inv'[j]]
        /\ \A j \in DOMAIN inv : j # i => inv'[j] = inv[j]
        /\ inv'[i] = [inv[i] EXCEPT !.Used = @ \/ inv[i].Mode = "onetime"]
    BY <1>1, <1>2, Zenon
  <1>4. /\ accepts' = [j \in DOMAIN inv' |-> accepts'[j]]
        /\ \A j \in DOMAIN inv : j # i => accepts'[j] = accepts[j]
        /\ accepts'[i] = accepts[i] + 1
    BY <1>1, <1>2, <1>3 DEF LinkInv, LinkTypes
  <1>5. LinkShape(inv[i]) /\ accepts[i] \in Nat
    BY <1>2 DEF LinkInv, LinkTypes
  <1>6. /\ LinkShape(inv'[i])
        /\ inv'[i].Mode = inv[i].Mode /\ inv'[i].ExpiresAt = inv[i].ExpiresAt
        /\ inv[i].Mode = "onetime" => inv'[i].Used
    BY <1>3, <1>5, Zenon DEF LinkShape
  <1> HIDE DEF i
  <1>7. LinkTypes'
    <2>1. \A j \in DOMAIN inv : LinkShape(inv'[j]) /\ accepts'[j] \in Nat
      <3> TAKE j \in DOMAIN inv
      <3>1. CASE j = i
        BY <1>4, <1>5, <1>6, <3>1
      <3>2. CASE j # i
        BY <1>3, <1>4, <3>2 DEF LinkInv, LinkTypes
      <3> QED
        BY <3>1, <3>2
    <2> QED
      BY <1>1, <1>3, <1>4, <2>1 DEF LinkInv, LinkTypes
  <1>8. UsedIsCount'
    <2> SUFFICES ASSUME NEW j \in DOMAIN inv, inv'[j].Mode = "onetime"
                 PROVE  accepts'[j] = IF inv'[j].Used THEN 1 ELSE 0
      BY <1>3 DEF UsedIsCount
    <2>1. CASE j = i
      <3>1. ~inv[i].Used /\ inv'[i].Used
        BY <1>2, <1>6, <2>1 DEF UsedUp
      <3>2. accepts[i] = 0
        BY <1>2, <1>6, <2>1, <3>1 DEF LinkInv, UsedIsCount
      <3> QED
        BY <1>4, <2>1, <3>1, <3>2
    <2>2. CASE j # i
      BY <1>3, <1>4, <2>2 DEF LinkInv, UsedIsCount
    <2> QED
      BY <2>1, <2>2
  <1>9. ListedWorks'
    BY <1>1, <1>2, <1>3, <1>6 DEF LinkInv, LinkTypes, ListedWorks, active
  <1> QED
    BY <1>1, <1>3, <1>7, <1>8, <1>9 DEF LinkInv, UsableIsListed, RevokedIsGone

(* verifyAndConsume deletes from byInviteID only a link past its expiry. *)
LEMMA RejectKeepsLinkInv ==
  ASSUME LinkInv, NEW c \in Conn, VerifyRejects(c)
  PROVE  LinkInv'
  <1>1. /\ UNCHANGED <<inv, invites, backend, call, accepts, revoked, now>>
        /\ byInviteID' \subseteq byInviteID
        /\ \A j \in byInviteID \ byInviteID' : PastExpiry(inv[j])
    BY DEF VerifyRejects, historyVars, storeVars
  <1>2. \A j \in invites : PastExpiry(inv[j]) => ~active(inv[j])
    BY DEF LinkInv, LinkTypes, LinkShape, PastExpiry, Expired, active
  <1>3. ListedWorks'
    BY <1>1, <1>2 DEF LinkInv, ListedWorks, active
  <1> QED
    BY <1>1, <1>3 DEF LinkInv, LinkTypes, LinkShape, UsableIsListed, UsedIsCount, RevokedIsGone

(* Recording who used a link changes nothing else of it. *)
LEMMA RecordKeepsLinkInv ==
  ASSUME LinkInv, NEW c \in Conn, RecordUse(c)
  PROVE  LinkInv'
  <1> DEFINE i == conn[c].invite
  <1>1. /\ UNCHANGED <<invites, byInviteID, backend, call, accepts, revoked, now>>
        /\ inv' = [inv EXCEPT ![i].UsedByID = conn[c].who.NodeID]
    BY DEF RecordUse, historyVars, storeVars
  <1>2. DOMAIN inv' = DOMAIN inv /\ inv' = [j \in DOMAIN inv' |-> inv'[j]]
    BY <1>1, Zenon DEF LinkInv, LinkTypes
  <1>3. \A j \in DOMAIN inv :
          /\ LinkShape(inv'[j]) /\ inv'[j].Mode = inv[j].Mode
          /\ inv'[j].ExpiresAt = inv[j].ExpiresAt /\ inv'[j].Used = inv[j].Used
    <2> TAKE j \in DOMAIN inv
    <2>1. LinkShape(inv[j])
      BY DEF LinkInv, LinkTypes
    <2>2. CASE j # i
      BY <1>1, <2>1, <2>2
    <2>3. CASE j = i
      BY <1>1, <2>1, <2>3 DEF LinkShape
    <2> QED
      BY <2>2, <2>3
  <1> QED
    BY <1>1, <1>2, <1>3 DEF LinkInv, LinkTypes, UsableIsListed, ListedWorks, active,
       UsedIsCount, RevokedIsGone

(* Time can only make a link inactive. *)
LEMMA TickKeepsLinkInv == ASSUME LinkInv, Time PROVE LinkInv'
  <1>1. /\ UNCHANGED <<inv, invites, byInviteID, backend, call, accepts, revoked>>
        /\ now' = now + 1 /\ now < MaxTime
    BY DEF Time, Tick, inviteVars, historyVars
  <1>2. now \in 0..MaxTime /\ MaxTime \in Nat
    BY SessionStoreAssumption DEF LinkInv, LinkTypes
  <1>3. \A j \in invites : active(inv[j])' => active(inv[j])
    BY <1>1, <1>2 DEF LinkInv, LinkTypes, LinkShape, active
  <1>4. now' \in 0..MaxTime
    BY <1>1, <1>2
  <1> QED
    BY <1>1, <1>3, <1>4 DEF LinkInv, LinkTypes, LinkShape, UsableIsListed, ListedWorks,
       UsedIsCount, RevokedIsGone

(* The steps of a handler other than the three above leave links alone. *)
LEMMA HandlerStepsLeaveLinks ==
  ASSUME NEW c \in Conn,
         \/ Receive(c) \/ RequestRejected(c) \/ TrustedAccepted(c) \/ TrustedRejected(c)
         \/ LoadTrusted(c) \/ StoreTrusted(c) \/ StorePanics(c) \/ IssueFails(c) \/ Respond(c)
         \/ \E t \in Token : IssueToken(c, t)
  PROVE  UNCHANGED linkVars
  BY Zenon DEF linkVars, inviteVars, historyVars, storeVars, Receive, ReceiveInviteRequest,
         ReceiveTrustedRequest, RequestRejected, TrustedAccepted, TrustedRejected, LoadTrusted,
         StoreTrusted, StorePanics, IssueFails, Respond, IssueToken, Issue

(* So do the second halves of the calls that edit the trusted list. *)
LEMMA EditStepsLeaveLinks ==
  ASSUME RevokeFinishes \/ RevokePanics \/ DeleteFinishes \/ \E n \in Nodes : DeleteAllowed(n)
  PROVE  UNCHANGED linkVars
  BY DEF linkVars, inviteVars, historyVars, storeVars, RevokeFinishes, RevokePanics, DeleteFinishes,
         DeleteAllowed

(* Every step of the manager keeps LinkInv. *)
LEMMA LinkInvInductive == LinkInv /\ [Next]_vars => LinkInv'
  <1> SUFFICES ASSUME LinkInv, [Next]_vars PROVE LinkInv'
    OBVIOUS
  <1>1. ASSUME NEW c \in Conn, Receive(c) \/ Handle(c) PROVE LinkInv'
    <2>1. CASE VerifyAccepts(c)
      BY <2>1, AcceptKeepsLinkInv
    <2>2. CASE VerifyRejects(c)
      BY <2>2, RejectKeepsLinkInv
    <2>3. CASE RecordUse(c)
      BY <2>3, RecordKeepsLinkInv
    <2>4. CASE ~(VerifyAccepts(c) \/ VerifyRejects(c) \/ RecordUse(c))
      <3>1. UNCHANGED linkVars
        BY <1>1, <2>4, HandlerStepsLeaveLinks DEF Handle
      <3> QED
        BY <3>1, OtherStepsKeepLinkInv
    <2> QED
      BY <2>1, <2>2, <2>3, <2>4
  <1>2. ASSUME NEW g \in Call, Generate(g) \/ Change(g) PROVE LinkInv'
    <2>1. CASE GenerateDeletesStale(g) \/ ChangeCleansUp(g)
      BY <2>1, CleanUpKeepsLinkInv
    <2>2. CASE \E i \in InviteID : GenerateInserts(g, i)
      BY <2>2, InsertKeepsLinkInv
    <2>3. CASE \/ \E q \in RequestedPort : GenerateOneTime(g, q) \/ GeneratePairing(g, q)
               \/ GenerateFinds(g) \/ GenerateFails(g) \/ ChangeFails(g)
               \/ \E b \in Backend : ChangeBackend(g, b)
      BY <2>3, CallStepsKeepLinkInv
    <2> QED
      BY <1>2, <2>1, <2>2, <2>3 DEF Generate, Change
  <1>3. ASSUME NEW i \in InviteID, RevokeInvite(i) PROVE LinkInv'
    BY <1>3, RevokeKeepsLinkInv
  <1>4. CASE RevokeFinishes \/ RevokePanics \/ DeleteFinishes \/ \E n \in Nodes : DeleteAllowed(n)
    BY <1>4, EditStepsLeaveLinks, OtherStepsKeepLinkInv
  <1>5. CASE Sweep
    BY <1>5, SweepKeepsLinkInv
  <1>6. CASE Time
    BY <1>6, TickKeepsLinkInv
  <1>7. CASE UNCHANGED vars
    BY <1>7, OtherStepsKeepLinkInv DEF vars, linkVars, inviteVars, historyVars, storeVars
  <1> QED
    BY <1>1, <1>2, <1>3, <1>4, <1>5, <1>6, <1>7 DEF Next

(* Along every run of the manager, whatever the interleaving of handlers,  *)
(* UI calls and sweeps, LinkInv holds.                                     *)
THEOREM LinkInvariant == Spec => []LinkInv
  BY LinkInvInit, LinkInvInductive, PTL DEF Spec

(* verifyAndConsume lets at most one request through a one-time link. *)
THEOREM OneTimeUseHolds == Spec => []OneTimeUse
  <1>1. LinkInv => OneTimeUse
    BY DEF LinkInv, UsedIsCount, OneTimeUse
  <1> QED
    BY <1>1, LinkInvariant, PTL

(* A link that can be used is one the UI lists, and so can be revoked; and *)
(* a link the UI lists as active can be used.                              *)
THEOREM IndexesAgreeHolds == Spec => []IndexesAgree
  <1>1. LinkInv => IndexesAgree
    BY DEF LinkInv, IndexesAgree
  <1> QED
    BY <1>1, LinkInvariant, PTL

(* verifyAndConsume accepts no link that is revoked, unlisted or, being    *)
(* one-time, expired.                                                      *)
THEOREM AcceptsOnlyLiveHolds == Spec => AcceptsOnlyLive
  <1> DEFINE Live(i) == /\ i \in invites /\ i \notin revoked
                        /\ inv[i].Mode = "onetime" => now <= inv[i].ExpiresAt
             Step == \A i \in DOMAIN accepts : accepts'[i] # accepts[i] => Live(i)
  <1>1. ASSUME LinkInv, Next PROVE Step
    <2>1. ASSUME NEW c \in Conn, VerifyAccepts(c) PROVE Step
      <3> DEFINE i == conn[c].invite
      <3>1. Consumable(conn[c]) /\ accepts' = [accepts EXCEPT ![i] = @ + 1]
        BY <2>1 DEF VerifyAccepts
      <3>2. i \in invites /\ i \notin revoked
        BY <1>1, <3>1 DEF Consumable, LinkInv, UsableIsListed, RevokedIsGone
      <3>3. inv[i].Mode = "onetime" => ~Expired(inv[i])
        BY <3>1 DEF Consumable, PastExpiry
      <3>4. now \in 0..MaxTime /\ inv[i].ExpiresAt \in Nat
        BY <1>1, <3>2 DEF LinkInv, LinkTypes, LinkShape
      <3>5. inv[i].Mode = "onetime" => now <= inv[i].ExpiresAt
        BY <3>3, <3>4, PairingAssumption, SessionStoreAssumption DEF Expired, NoExpiry
      <3> QED
        BY <3>1, <3>2, <3>5
    <2>2. ASSUME NEW g \in Call, NEW i \in InviteID, GenerateInserts(g, i) PROVE Step
      <3>1. DOMAIN accepts = DOMAIN inv
        BY <1>1 DEF LinkInv, LinkTypes
      <3> QED
        BY <2>2, <3>1 DEF GenerateInserts, Put
    <2>3. CASE UNCHANGED accepts
      BY <2>3
    <2>4. ASSUME NEW c \in Conn, Receive(c) \/ Handle(c), ~VerifyAccepts(c)
          PROVE  UNCHANGED accepts
      <3>1. CASE VerifyRejects(c) \/ RecordUse(c)
        BY <3>1 DEF VerifyRejects, RecordUse, historyVars
      <3> QED
        BY <2>4, <3>1, HandlerStepsLeaveLinks DEF Handle, linkVars
    <2>5. ASSUME NEW g \in Call, Generate(g) \/ Change(g),
                 ~\E i \in InviteID : GenerateInserts(g, i)
          PROVE  UNCHANGED accepts
      BY <2>5 DEF Generate, Change, GenerateOneTime, GeneratePairing, GenerateDeletesStale,
         GenerateFinds, GenerateFails, ChangeBackend, ChangeCleansUp, ChangeFails, historyVars
    <2>6. ASSUME \/ Sweep \/ Time \/ RevokeFinishes \/ RevokePanics \/ DeleteFinishes
                 \/ \E i \in InviteID : RevokeInvite(i)
                 \/ \E n \in Nodes : DeleteAllowed(n)
          PROVE  UNCHANGED accepts
      BY <2>6 DEF Sweep, Time, RevokeFinishes, RevokePanics, DeleteFinishes, RevokeInvite, DeleteAllowed,
         historyVars
    <2> HIDE DEF Step
    <2> QED
      BY <1>1, <2>1, <2>2, <2>3, <2>4, <2>5, <2>6 DEF Next
  <1>2. LinkInv /\ [Next]_vars => [Step]_vars
    BY <1>1
  <1> QED
    BY <1>2, LinkInvariant, PTL DEF Spec, AcceptsOnlyLive

-----------------------------------------------------------------------------
(* What pairing hands out, session tokens and lasting trust.  A handler    *)
(* drops the mutex several times between consuming a link and issuing a    *)
(* token, and the trusted list has no lock: the invariant says what each   *)
(* handler knows at each of its steps, and that every copy of the list     *)
(* anyone holds has only entries of nodes that paired.                     *)

Machines == {id.MachineID : id \in Identity}
Roots == {id.TPMRootThumbprint : id \in Identity}
TrustEntry == [NodeID : Nodes, MachineID : Machines, TPMRootThumbprint : Roots,
               TargetPort : Port]
HasPaired(n) == \E i \in InviteID : <<n, i>> \in paired
EarnedEntry == {e \in TrustEntry : HasPaired(e.NodeID)}

ConnRecord ==
    [pc : {"reading", "lookup", "verify", "record", "load", "store", "issue", "respond",
           "closed"},
     who : Identity \cup {NoIdentity}, mode : {"onetime", "pairing", "trusted", NoID},
     invite : InviteID \cup {NoID}, window : Nat, knows : BOOLEAN, port : Nat,
     snap : Seq(TrustEntry), token : Token \cup {NoID}]

(* The link the handler consumed, or the pairing its peer goes back to. *)
Accepted(c) ==
    /\ conn[c].who \in Identity /\ conn[c].mode \in {"onetime", "pairing", "trusted"}
    /\ conn[c].port \in Port
    /\ conn[c].mode # "onetime" => HasPaired(conn[c].who.NodeID)
    /\ conn[c].mode # "trusted" =>
         /\ conn[c].invite \in DOMAIN inv /\ accepts[conn[c].invite] >= 1
         /\ conn[c].mode = inv[conn[c].invite].Mode
         /\ conn[c].port = effectiveTargetPort(inv[conn[c].invite])

ConnInv(c) ==
    /\ conn[c].pc \notin {"respond", "closed"} => conn[c].token = NoID
    /\ conn[c].pc = "lookup" => /\ conn[c].who \in Identity /\ conn[c].mode = "trusted"
                                /\ conn[c].port \in RequestedPort \cup {0}
    /\ conn[c].pc = "verify" => /\ conn[c].who \in Identity
                                /\ conn[c].mode \in {"onetime", "pairing"}
    /\ conn[c].pc = "record" => conn[c].mode # "trusted"
    /\ conn[c].pc \in {"load", "store"} => conn[c].mode # "onetime"
    /\ conn[c].pc \in {"record", "load", "store", "issue"} \/ conn[c].token # NoID
         => Accepted(c)
    /\ conn[c].token # NoID =>
         /\ conn[c].token \in DOMAIN issued
         /\ issued[conn[c].token].grant =
              [PeerID |-> conn[c].who.NodeID, TargetPort |-> conn[c].port]
    /\ conn[c].snap \in Seq(EarnedEntry)

(* Each token has one handler that issued it. *)
TokensHaveHandlers == \A t \in DOMAIN issued : \E c \in Conn : conn[c].token = t
TokensApart ==
    \A c, d \in Conn : c # d /\ conn[c].token # NoID => conn[c].token # conn[d].token

(* The trusted list and the copies RevokeInvite and handleDeleteAllowed    *)
(* hold between their two halves.                                          *)
ListsEarned ==
    /\ trusted \in Seq(EarnedEntry)
    /\ edit = [e \in {"revoke", "delete"} |-> edit[e]]
    /\ \A e \in {"revoke", "delete"} : edit[e].snap \in Seq(EarnedEntry)

AccessInv ==
    /\ conn \in [Conn -> ConnRecord]
    /\ DOMAIN inv \subseteq InviteID
    /\ \A i \in DOMAIN inv : inv[i].TargetPort \in 0..MaxPort
    /\ ListsEarned
    /\ \A c \in Conn : ConnInv(c)
    /\ TokensHaveHandlers /\ TokensApart

-----------------------------------------------------------------------------
(* What no step takes back *)

(* A link keeps its mode and port, counts of uses only grow, and who has   *)
(* paired has paired.                                                      *)
LinksGrow ==
    /\ \A i \in DOMAIN inv :
         /\ i \in DOMAIN inv' /\ inv'[i].Mode = inv[i].Mode
         /\ inv'[i].TargetPort = inv[i].TargetPort
         /\ accepts[i] >= 1 => accepts'[i] >= 1
    /\ paired \subseteq paired'

(* A token keeps its grant. *)
TokensStay ==
    \A t \in DOMAIN issued : t \in DOMAIN issued' /\ issued'[t].grant = issued[t].grant

(* Lists with earned entries keep having them. *)
LEMMA EarnedStays ==
    ASSUME paired \subseteq paired', NEW list \in Seq(EarnedEntry)
    PROVE  list \in Seq(EarnedEntry')
<1>1. EarnedEntry \subseteq EarnedEntry'
  BY Zenon DEF EarnedEntry, HasPaired, TrustEntry
<1>2. QED
  BY <1>1, SeqGrows

(* A handler that keeps what it was asked keeps what it was granted. *)
LEMMA AcceptedStays ==
    ASSUME LinksGrow, NEW c \in Conn, Accepted(c), conn'[c].who = conn[c].who,
           conn'[c].mode = conn[c].mode, conn'[c].port = conn[c].port,
           conn'[c].invite = conn[c].invite
    PROVE  Accepted(c)'
BY DEF Accepted, LinksGrow, HasPaired, effectiveTargetPort

(* A handler that does not move loses nothing by the steps of others. *)
LEMMA OthersKeepConnInv ==
    ASSUME LinksGrow, TokensStay, NEW c \in Conn, ConnInv(c), conn'[c] = conn[c]
    PROVE  ConnInv(c)'
<1>1. Accepted(c) => Accepted(c)'
  BY AcceptedStays
<1>2. conn'[c].snap \in Seq(EarnedEntry')
  BY EarnedStays DEF LinksGrow, ConnInv
<1>3. QED
  BY <1>1, <1>2 DEF ConnInv, TokensStay

(* The host starts with no links, an empty list and idle handlers. *)
LEMMA AccessInvInit == Init => AccessInv
<1> SUFFICES ASSUME Init PROVE AccessInv
  OBVIOUS
<1>1. /\ conn = [c \in Conn |-> NewConn] /\ inv = [i \in {} |-> {}] /\ trusted = <<>>
      /\ edit = [e \in {"revoke", "delete"} |-> NoEdit] /\ issued = [t \in {} |-> {}]
  BY DEF Init, StoreInit
<1>2. \A S : <<>> \in Seq(S)
  OBVIOUS
<1>3. NewConn \in ConnRecord
  BY <1>2 DEF NewConn, ConnRecord
<1>4. \A c \in Conn : ConnInv(c)
  BY <1>1, <1>2, Zenon DEF NewConn, ConnInv
<1>5. ListsEarned
  BY <1>1, <1>2, Zenon DEF ListsEarned, NoEdit
<1>6. TokensHaveHandlers /\ TokensApart
  BY <1>1 DEF TokensHaveHandlers, TokensApart, NewConn
<1>7. QED
  BY <1>1, <1>3, <1>4, <1>5, <1>6 DEF AccessInv

-----------------------------------------------------------------------------
(* The steps of a handler *)

(* Lists nobody writes stay earned. *)
LEMMA ListsStay ==
    ASSUME ListsEarned, paired \subseteq paired', UNCHANGED <<trusted, edit>>
    PROVE  ListsEarned'
<1>1. trusted' \in Seq(EarnedEntry')
  BY EarnedStays DEF ListsEarned
<1>2. \A e \in {"revoke", "delete"} : edit'[e].snap \in Seq(EarnedEntry')
  BY EarnedStays DEF ListsEarned
<1>3. QED
  BY <1>1, <1>2 DEF ListsEarned

(* A step of one handler that issues no token: only what the handler knows *)
(* afterwards is to be shown.                                              *)
LEMMA HandlerStep ==
    ASSUME AccessInv, LinksGrow, NEW c \in Conn, NEW r \in ConnRecord,
           conn' = [conn EXCEPT ![c] = r], r.token = conn[c].token,
           DOMAIN inv' = DOMAIN inv, issued' = issued, ListsEarned', ConnInv(c)'
    PROVE  AccessInv'
<1>1. /\ conn' \in [Conn -> ConnRecord] /\ conn'[c] = r
      /\ \A d \in Conn : d # c => conn'[d] = conn[d]
      /\ \A d \in Conn : conn'[d].token = conn[d].token
  BY DEF AccessInv
<1>2. TokensStay
  BY DEF TokensStay
<1>3. \A d \in Conn : ConnInv(d)'
  <2> SUFFICES ASSUME NEW d \in Conn, d # c PROVE ConnInv(d)'
    OBVIOUS
  <2>1. QED
    BY <1>1, <1>2, OthersKeepConnInv DEF AccessInv
<1>4. TokensHaveHandlers' /\ TokensApart'
  BY <1>1 DEF AccessInv, TokensHaveHandlers, TokensApart
<1>5. DOMAIN inv' \subseteq InviteID /\ \A i \in DOMAIN inv' : inv'[i].TargetPort \in 0..MaxPort
  BY DEF AccessInv, LinksGrow
<1>6. QED
  BY <1>1, <1>3, <1>4, <1>5 DEF AccessInv

(* Steps that change the handler and nothing the invariant speaks of. *)
LEMMA QuietStep ==
    ASSUME AccessInv, NEW c \in Conn, NEW r \in ConnRecord,
           conn' = [conn EXCEPT ![c] = r], r.token = conn[c].token,
           UNCHANGED <<inv, accepts, paired, trusted, edit, issued>>, ConnInv(c)'
    PROVE  AccessInv'
<1>1. LinksGrow
  BY DEF LinksGrow
<1>2. ListsEarned'
  BY ListsStay DEF AccessInv
<1>3. QED
  BY <1>1, <1>2, HandlerStep, Zenon

(* The early returns. *)
LEMMA AbandonKeepsAccess ==
    ASSUME AccessInv, NEW c \in Conn, Abandon(c), conn[c].pc \notin {"respond", "closed"},
           UNCHANGED <<inv, accepts, paired, trusted, edit, issued>>
    PROVE  AccessInv'
<1> DEFINE r == [NewConn EXCEPT !.pc = "closed"]
<1>1. conn' = [conn EXCEPT ![c] = r]
  BY DEF Abandon
<1>2. <<>> \in Seq(TrustEntry) /\ <<>> \in Seq(EarnedEntry')
  OBVIOUS
<1>3. r \in ConnRecord /\ r.pc = "closed" /\ r.snap = <<>> /\ r.token = NoID
  BY <1>2, Zenon DEF ConnRecord, NewConn
<1> HIDE DEF r
<1>4. conn[c].token = NoID
  BY Zenon DEF AccessInv, ConnInv
<1>5. conn'[c] = r
  BY <1>1 DEF AccessInv
<1>6. ConnInv(c)'
  BY <1>2, <1>3, <1>5, Zenon DEF ConnInv
<1>7. QED
  BY <1>1, <1>3, <1>4, <1>6, QuietStep, Zenon

(* A request with an invite proof, or for reauthentication. *)
LEMMA ReceiveKeepsAccess ==
    ASSUME AccessInv, NEW c \in Conn, Receive(c)
    PROVE  AccessInv'
<1>0. conn[c] \in ConnRecord /\ ConnInv(c)
  BY DEF AccessInv
<1>1. ASSUME NEW id \in Identity, NEW m \in {"onetime", "pairing"}, NEW i \in InviteID,
             NEW w \in 0..TimeWindow(MaxTime), NEW k \in BOOLEAN,
             ReceiveInviteRequest(c, id, m, i, w, k)
      PROVE  AccessInv'
  <2> DEFINE r == [conn[c] EXCEPT !.pc = "verify", !.who = id, !.mode = m,
                                  !.invite = i, !.window = w, !.knows = k]
  <2>1. /\ conn' = [conn EXCEPT ![c] = r] /\ conn[c].pc = "reading"
        /\ UNCHANGED <<inv, accepts, paired, trusted, edit, issued>>
    BY <1>1 DEF ReceiveInviteRequest, inviteVars, historyVars, storeVars
  <2>2. w \in Nat
    OBVIOUS
  <2>3. r \in ConnRecord
    BY <1>0, <2>2, ZenonT(60) DEF ConnRecord
  <2>4. /\ r.pc = "verify" /\ r.who = id /\ r.mode = m /\ r.token = conn[c].token
        /\ r.snap = conn[c].snap
    BY <1>0 DEF ConnRecord
  <2>5. conn'[c] = r
    BY <2>1 DEF AccessInv
  <2> HIDE DEF r
  <2>6. conn'[c].snap \in Seq(EarnedEntry')
    BY <1>0, <2>1, <2>4, <2>5, EarnedStays DEF ConnInv
  <2>7. ConnInv(c)'
    BY <1>0, <2>1, <2>4, <2>5, <2>6 DEF ConnInv
  <2>8. QED
    BY <2>1, <2>3, <2>4, <2>7, QuietStep, Zenon
<1>2. ASSUME NEW id \in Identity, NEW q \in RequestedPort \cup {0},
             ReceiveTrustedRequest(c, id, q)
      PROVE  AccessInv'
  <2> DEFINE r == [conn[c] EXCEPT !.pc = "lookup", !.who = id, !.mode = "trusted", !.port = q]
  <2>1. /\ conn' = [conn EXCEPT ![c] = r] /\ conn[c].pc = "reading"
        /\ UNCHANGED <<inv, accepts, paired, trusted, edit, issued>>
    BY <1>2 DEF ReceiveTrustedRequest, inviteVars, historyVars, storeVars
  <2>2. q \in Nat
    BY PairingAssumption
  <2>3. r \in ConnRecord
    BY <1>0, <2>2, ZenonT(60) DEF ConnRecord
  <2>4. /\ r.pc = "lookup" /\ r.who = id /\ r.mode = "trusted" /\ r.token = conn[c].token
        /\ r.snap = conn[c].snap /\ r.port = q
    BY <1>0 DEF ConnRecord
  <2>5. conn'[c] = r
    BY <2>1 DEF AccessInv
  <2> HIDE DEF r
  <2>6. conn'[c].snap \in Seq(EarnedEntry')
    BY <1>0, <2>1, <2>4, <2>5, EarnedStays, Zenon DEF ConnInv
  <2>7. ConnInv(c)'
    BY <1>0, <2>1, <2>4, <2>5, <2>6 DEF ConnInv
  <2>8. QED
    BY <2>1, <2>3, <2>4, <2>7, QuietStep, Zenon
<1>3. QED
  BY <1>1, <1>2 DEF Receive

(* Ports that links grant exist, whatever uint16 made of the port asked    *)
(* for.                                                                    *)
LEMMA LinkPort ==
    ASSUME NEW v, v.TargetPort \in 0..MaxPort
    PROVE  effectiveTargetPort(v) \in 1..MaxPort /\ effectiveTargetPort(v) \in Port
BY MaxPortIsNat, GrantAssumption DEF effectiveTargetPort

(* TrustedPeer found the peer, so it is in the list and has paired. *)
LEMMA TrustedAcceptedKeepsAccess ==
    ASSUME AccessInv, NEW c \in Conn, TrustedAccepted(c)
    PROVE  AccessInv'
<1> DEFINE node == conn[c].who.NodeID
<1> DEFINE k == TrustedPeer(trusted, node)
<1> DEFINE p == TrustedPort(conn[c])
<1> DEFINE r == [conn[c] EXCEPT !.pc = "load", !.port = p]
<1>1. /\ conn' = [conn EXCEPT ![c] = r] /\ conn[c].pc = "lookup" /\ k # 0
      /\ UNCHANGED <<inv, accepts, paired, trusted, edit, issued>>
  BY DEF TrustedAccepted, Recognised, inviteVars, historyVars, storeVars
<1>2. trusted \in Seq(EarnedEntry)
  BY DEF AccessInv, ListsEarned
<1>3. k \in 1..Len(trusted) /\ trusted[k].NodeID = node /\ trusted[k] \in EarnedEntry
  <2>1. k \in 0..Len(trusted) /\ (k # 0 => trusted[k].NodeID = node)
    BY <1>2, TrustedPeerFinds
  <2> HIDE DEF k
  <2>2. k \in 1..Len(trusted)
    BY <1>1, <1>2, <2>1
  <2>3. trusted[k] \in EarnedEntry
    BY <1>2, <2>2
  <2>4. QED
    BY <1>1, <2>1, <2>2, <2>3
<1>4. HasPaired(node) /\ trusted[k].TargetPort \in Port
  BY <1>3 DEF EarnedEntry, TrustEntry
<1>5. /\ conn[c] \in ConnRecord /\ ConnInv(c) /\ conn[c].who \in Identity
      /\ conn[c].mode = "trusted" /\ conn[c].port \in RequestedPort \cup {0}
  BY <1>1 DEF AccessInv, ConnInv
<1>6. p \in Port /\ p \in Nat
  <2>1. ConfiguredPort \in Port /\ RequestedPort \subseteq Port /\ Port \subseteq Nat
    BY GrantAssumption
  <2>2. p = IF conn[c].port > 0 THEN conn[c].port
            ELSE IF trusted[k].TargetPort > 0 THEN trusted[k].TargetPort ELSE ConfiguredPort
    BY DEF TrustedPort
  <2> HIDE DEF p, k
  <2>3. conn[c].port # 0 => conn[c].port \in Port
    BY <1>5, <2>1, Zenon
  <2>4. ~(0 > 0)
    OBVIOUS
  <2>5. p \in Port
    BY <1>4, <2>1, <2>2, <2>3, <2>4
  <2>6. QED
    BY <2>1, <2>5
<1> HIDE DEF p, k
<1>7. /\ r \in ConnRecord /\ r.pc = "load" /\ r.who = conn[c].who /\ r.mode = "trusted"
      /\ r.token = conn[c].token /\ r.snap = conn[c].snap /\ r.port = p
  BY <1>5, <1>6, ZenonT(60) DEF ConnRecord
<1>8. conn'[c] = r
  BY <1>1 DEF AccessInv
<1> HIDE DEF r
<1>9. Accepted(c)'
  BY <1>1, <1>4, <1>5, <1>6, <1>7, <1>8 DEF Accepted, HasPaired
<1>10. conn'[c].snap \in Seq(EarnedEntry')
  BY <1>1, <1>5, <1>7, <1>8, EarnedStays DEF ConnInv
<1>11. ConnInv(c)'
  BY <1>1, <1>5, <1>7, <1>8, <1>9, <1>10, Zenon DEF ConnInv
<1>12. QED
  BY <1>1, <1>7, <1>11, QuietStep, Zenon

(* verifyAndConsume accepts: the use is counted and the pairing noted in   *)
(* the same critical section.                                              *)
LEMMA VerifyAcceptsGrows ==
    ASSUME AccessInv, LinkInv, NEW c \in Conn, VerifyAccepts(c)
    PROVE  /\ LinksGrow /\ DOMAIN inv' = DOMAIN inv
           /\ conn[c].invite \in DOMAIN inv /\ conn[c].mode = inv[conn[c].invite].Mode
           /\ accepts'[conn[c].invite] >= 1
           /\ inv[conn[c].invite].Mode = "pairing" =>
                <<conn[c].who.NodeID, conn[c].invite>> \in paired'
<1> DEFINE i == conn[c].invite
<1>1. /\ i \in byInviteID /\ conn[c].mode = inv[i].Mode
      /\ inv' = [inv EXCEPT ![i].Used = @ \/ inv[i].Mode = "onetime"]
      /\ accepts' = [accepts EXCEPT ![i] = @ + 1]
      /\ paired' = IF inv[i].Mode = "pairing"
                   THEN paired \cup {<<conn[c].who.NodeID, i>>} ELSE paired
  BY DEF VerifyAccepts, Consumable
<1>2. i \in DOMAIN inv
  BY <1>1 DEF LinkInv, LinkTypes, UsableIsListed
<1>3. /\ DOMAIN inv' = DOMAIN inv /\ DOMAIN accepts = DOMAIN inv
      /\ \A j \in DOMAIN inv : j # i => inv'[j] = inv[j]
      /\ inv'[i] = [inv[i] EXCEPT !.Used = @ \/ inv[i].Mode = "onetime"]
  BY <1>1, <1>2 DEF LinkInv, LinkTypes
<1>4. /\ \A j \in DOMAIN inv : j # i => accepts'[j] = accepts[j]
      /\ accepts'[i] = accepts[i] + 1 /\ accepts[i] \in Nat
  BY <1>1, <1>2, <1>3 DEF LinkInv, LinkTypes
<1>5. LinkShape(inv[i])
  BY <1>2 DEF LinkInv, LinkTypes
<1>6. inv'[i].Mode = inv[i].Mode /\ inv'[i].TargetPort = inv[i].TargetPort
  BY <1>3, <1>5 DEF LinkShape
<1> HIDE DEF i
<1>7. accepts'[i] >= 1
  BY <1>4
<1>8. LinksGrow
  <2>1. paired \subseteq paired'
    BY <1>1
  <2>2. ASSUME NEW j \in DOMAIN inv
        PROVE  /\ j \in DOMAIN inv' /\ inv'[j].Mode = inv[j].Mode
               /\ inv'[j].TargetPort = inv[j].TargetPort
               /\ accepts[j] >= 1 => accepts'[j] >= 1
    BY <1>3, <1>4, <1>6, <1>7, Zenon
  <2>3. QED
    BY <2>1, <2>2 DEF LinksGrow
<1>9. QED
  BY <1>1, <1>2, <1>3, <1>7, <1>8 DEF i

LEMMA VerifyAcceptsKeepsAccess ==
    ASSUME AccessInv, LinkInv, NEW c \in Conn, VerifyAccepts(c)
    PROVE  AccessInv'
<1> DEFINE i == conn[c].invite
<1> DEFINE p == effectiveTargetPort(inv[i])
<1> DEFINE r == [conn[c] EXCEPT !.pc = "record", !.window = 0, !.knows = FALSE, !.port = p]
<1>1. /\ conn' = [conn EXCEPT ![c] = r] /\ conn[c].pc = "verify"
      /\ UNCHANGED <<trusted, edit, issued>>
  BY DEF VerifyAccepts, storeVars
<1>2. /\ LinksGrow /\ DOMAIN inv' = DOMAIN inv /\ i \in DOMAIN inv
      /\ conn[c].mode = inv[i].Mode /\ accepts'[i] >= 1
      /\ inv[i].Mode = "pairing" => <<conn[c].who.NodeID, i>> \in paired'
  BY VerifyAcceptsGrows
<1>3. /\ conn[c] \in ConnRecord /\ ConnInv(c) /\ conn[c].who \in Identity
      /\ conn[c].mode \in {"onetime", "pairing"} /\ conn[c].token = NoID
      /\ i \in InviteID /\ inv[i].TargetPort \in 0..MaxPort
  BY <1>1, <1>2, Zenon DEF AccessInv, ConnInv
<1>4. p \in Port /\ p \in Nat /\ p = effectiveTargetPort(inv'[i])
  <2>1. p \in Port
    BY <1>3, LinkPort
  <2>2. inv'[i].TargetPort = inv[i].TargetPort
    BY <1>2 DEF LinksGrow
  <2>3. QED
    BY <2>1, <2>2, GrantAssumption, Zenon DEF effectiveTargetPort
<1> HIDE DEF p
<1>5. /\ r \in ConnRecord /\ r.pc = "record" /\ r.who = conn[c].who /\ r.mode = conn[c].mode
      /\ r.token = NoID /\ r.snap = conn[c].snap /\ r.port = p /\ r.invite = i
  BY <1>3, <1>4, ZenonT(60) DEF ConnRecord
<1>6. conn'[c] = r
  BY <1>1 DEF AccessInv
<1> HIDE DEF r
<1>7. Accepted(c)'
  <2>1. inv'[i].Mode = inv[i].Mode /\ i \in DOMAIN inv'
    BY <1>2 DEF LinksGrow
  <2>2. conn[c].mode # "onetime" => \E j \in InviteID : <<conn[c].who.NodeID, j>> \in paired'
    BY <1>2, <1>3
  <2> HIDE DEF i
  <2>3. QED
    BY <1>2, <1>3, <1>4, <1>5, <1>6, <2>1, <2>2 DEF Accepted, HasPaired
<1>8. conn'[c].snap \in Seq(EarnedEntry')
  BY <1>2, <1>3, <1>5, <1>6, EarnedStays, ZenonT(60) DEF ConnInv, LinksGrow
<1>9. ConnInv(c)'
  BY <1>3, <1>5, <1>6, <1>7, <1>8, ZenonT(60) DEF ConnInv
<1>10. ListsEarned'
  BY <1>1, <1>2, ListsStay, Zenon DEF AccessInv, LinksGrow
<1>11. QED
  BY <1>1, <1>2, <1>3, <1>5, <1>9, <1>10, HandlerStep, Zenon

(* Recording who used the link; only a pairing link leads to the list. *)
LEMMA RecordKeepsAccess ==
    ASSUME AccessInv, LinkInv, NEW c \in Conn, RecordUse(c)
    PROVE  AccessInv'
<1> DEFINE i == conn[c].invite
<1> DEFINE next == AfterRecord(c)
<1> DEFINE r == [conn[c] EXCEPT !.pc = next]
<1>1. /\ conn' = [conn EXCEPT ![c].pc = next] /\ conn[c].pc = "record"
      /\ inv' = [inv EXCEPT ![i].UsedByID = conn[c].who.NodeID]
      /\ UNCHANGED <<accepts, paired, trusted, edit, issued>>
  BY DEF RecordUse, Goto, historyVars, storeVars
<1>2. conn[c] \in ConnRecord /\ ConnInv(c) /\ Accepted(c)
  BY <1>1 DEF AccessInv, ConnInv
<1>3. LinksGrow /\ DOMAIN inv' = DOMAIN inv
  <2>1. DOMAIN inv' = DOMAIN inv
    BY <1>1 DEF LinkInv, LinkTypes
  <2>2. ASSUME NEW j \in DOMAIN inv
        PROVE  inv'[j].Mode = inv[j].Mode /\ inv'[j].TargetPort = inv[j].TargetPort
    <3>1. LinkShape(inv[j])
      BY DEF LinkInv, LinkTypes
    <3>2. CASE j # i
      BY <1>1, <3>2
    <3>3. CASE j = i
      BY <1>1, <3>1, <3>3 DEF LinkShape
    <3>4. QED
      BY <3>2, <3>3
  <2>3. QED
    BY <1>1, <2>1, <2>2 DEF LinksGrow
<1>4. next \in {"load", "issue"} /\ (next = "load" => conn[c].mode # "onetime")
  BY DEF AfterRecord
<1> HIDE DEF next
<1>5. /\ r \in ConnRecord /\ r.pc = next /\ r.who = conn[c].who /\ r.mode = conn[c].mode
      /\ r.token = conn[c].token /\ r.snap = conn[c].snap /\ r.port = conn[c].port
      /\ r.invite = i
  BY <1>2, <1>4 DEF ConnRecord
<1>6. conn' = [conn EXCEPT ![c] = r] /\ conn'[c] = r
  BY <1>1 DEF AccessInv
<1> HIDE DEF r
<1>7. Accepted(c)'
  BY <1>2, <1>3, <1>5, <1>6, AcceptedStays
<1>8. conn'[c].snap \in Seq(EarnedEntry')
  BY <1>2, <1>3, <1>5, <1>6, EarnedStays DEF ConnInv, LinksGrow
<1>9. ConnInv(c)'
  BY <1>1, <1>2, <1>4, <1>5, <1>6, <1>7, <1>8 DEF ConnInv
<1>10. ListsEarned'
  BY <1>1, ListsStay DEF AccessInv
<1>11. QED
  BY <1>1, <1>3, <1>5, <1>6, <1>9, <1>10, HandlerStep, Zenon

(* AddTrustedPeer's scan takes a copy of an earned list. *)
LEMMA LoadKeepsAccess ==
    ASSUME AccessInv, NEW c \in Conn, LoadTrusted(c)
    PROVE  AccessInv'
<1> DEFINE r == [conn[c] EXCEPT !.pc = "store", !.snap = trusted]
<1>1. /\ conn' = [conn EXCEPT ![c] = r] /\ conn[c].pc = "load"
      /\ UNCHANGED <<inv, accepts, paired, trusted, edit, issued>>
  BY DEF LoadTrusted, inviteVars, historyVars, storeVars
<1>2. conn[c] \in ConnRecord /\ ConnInv(c) /\ Accepted(c) /\ trusted \in Seq(EarnedEntry)
  BY <1>1, Zenon DEF AccessInv, ConnInv, ListsEarned
<1>3. trusted \in Seq(TrustEntry)
  <2>1. EarnedEntry \subseteq TrustEntry
    BY DEF EarnedEntry
  <2>2. QED
    BY <1>2, <2>1, SeqGrows
<1>4. /\ r \in ConnRecord /\ r.pc = "store" /\ r.who = conn[c].who /\ r.mode = conn[c].mode
      /\ r.token = conn[c].token /\ r.snap = trusted /\ r.port = conn[c].port
      /\ r.invite = conn[c].invite
  BY <1>2, <1>3, Zenon DEF ConnRecord
<1>5. conn'[c] = r
  BY <1>1 DEF AccessInv
<1> HIDE DEF r
<1>6. Accepted(c)'
  <2>1. LinksGrow
    BY <1>1 DEF LinksGrow
  <2>2. QED
    BY <1>2, <1>4, <1>5, <2>1, AcceptedStays
<1>7. conn'[c].snap \in Seq(EarnedEntry')
  BY <1>1, <1>2, <1>4, <1>5, EarnedStays
<1>8. ConnInv(c)'
  BY <1>1, <1>2, <1>4, <1>5, <1>6, <1>7 DEF ConnInv
<1>9. QED
  BY <1>1, <1>4, <1>8, QuietStep, Zenon

(* Any slice a call may end up working on has earned entries. *)
LEMMA SeenIsEarned ==
    ASSUME trusted \in Seq(EarnedEntry), NEW old \in Seq(EarnedEntry), NEW list \in Seen(old)
    PROVE  list \in Seq(EarnedEntry)
<1>1. Overlay(old) \in Seq(EarnedEntry)
  BY DEF Overlay
<1>2. QED
  BY <1>1 DEF Seen

(* The entry a handler adds is that of a peer that paired. *)
LEMMA EntryIsEarned ==
    ASSUME NEW c \in Conn, Accepted(c), conn[c].mode # "onetime"
    PROVE  /\ EntryOf(conn[c]) \in EarnedEntry
           /\ \A d \in EarnedEntry : mergeTrustedPeer(d, EntryOf(conn[c])) \in EarnedEntry
<1> DEFINE p == EntryOf(conn[c])
<1>1. p \in TrustEntry /\ p.NodeID = conn[c].who.NodeID
  BY ZenonT(60) DEF Accepted, EntryOf, TrustEntry, Nodes, Machines, Roots
<1>2. p \in EarnedEntry
  BY <1>1 DEF EarnedEntry, Accepted
<1> HIDE DEF p
<1>3. ASSUME NEW d \in EarnedEntry PROVE mergeTrustedPeer(d, p) \in EarnedEntry
  <2>1. d \in TrustEntry /\ HasPaired(d.NodeID) /\ HasPaired(p.NodeID)
    BY <1>2 DEF EarnedEntry
  <2> DEFINE m == mergeTrustedPeer(d, p)
  <2>2. m \in TrustEntry
    BY <1>1, <2>1 DEF mergeTrustedPeer, Stated, TrustEntry
  <2>3. m.NodeID \in {d.NodeID, p.NodeID}
    BY DEF mergeTrustedPeer, Stated
  <2>4. QED
    BY <2>1, <2>2, <2>3 DEF EarnedEntry
<1>4. QED
  BY <1>2, <1>3 DEF p

(* AddTrustedPeer's write, on whichever slice it hits. *)
LEMMA StoreKeepsAccess ==
    ASSUME AccessInv, NEW c \in Conn, StoreTrusted(c)
    PROVE  AccessInv'
<1> DEFINE r == [conn[c] EXCEPT !.pc = "issue", !.snap = <<>>]
<1> DEFINE p == EntryOf(conn[c])
<1> DEFINE k == FoundAt(c)
<1>1. /\ conn' = [conn EXCEPT ![c] = r] /\ conn[c].pc = "store"
      /\ UNCHANGED <<inv, accepts, paired, edit, issued>>
  BY DEF StoreTrusted, inviteVars, historyVars, storeVars
<1>2. PICK list \in Seen(conn[c].snap) : k <= Len(list) /\ trusted' = AddAt(list, k, p)
  BY DEF StoreTrusted
<1>3. /\ conn[c] \in ConnRecord /\ ConnInv(c) /\ Accepted(c) /\ conn[c].mode # "onetime"
      /\ trusted \in Seq(EarnedEntry) /\ conn[c].snap \in Seq(EarnedEntry)
  BY <1>1, ZenonT(60) DEF AccessInv, ConnInv, ListsEarned
<1>4. list \in Seq(EarnedEntry)
  BY <1>2, <1>3, SeenIsEarned
<1>5. k \in 0..Len(list)
  <2>1. k \in 0..Len(conn[c].snap)
    BY <1>3, trustedIndexFinds DEF FoundAt
  <2>2. Len(list) \in Nat /\ Len(conn[c].snap) \in Nat
    BY <1>3, <1>4
  <2> HIDE DEF k
  <2>3. QED
    BY <1>2, <2>1, <2>2
<1>6. p \in EarnedEntry /\ \A d \in EarnedEntry : mergeTrustedPeer(d, p) \in EarnedEntry
  BY <1>3, EntryIsEarned
<1> HIDE DEF p, k
<1>7. trusted' \in Seq(EarnedEntry)
  BY <1>2, <1>4, <1>5, <1>6, AddAtInSeq
<1>8. ListsEarned'
  BY <1>1, <1>7, EarnedStays DEF AccessInv, ListsEarned
<1>9. <<>> \in Seq(TrustEntry) /\ <<>> \in Seq(EarnedEntry')
  OBVIOUS
<1>10. /\ r \in ConnRecord /\ r.pc = "issue" /\ r.who = conn[c].who /\ r.mode = conn[c].mode
       /\ r.token = conn[c].token /\ r.snap = <<>> /\ r.port = conn[c].port
       /\ r.invite = conn[c].invite
  BY <1>3, <1>9, ZenonT(60) DEF ConnRecord
<1>11. conn'[c] = r
  BY <1>1 DEF AccessInv
<1> HIDE DEF r
<1>12. LinksGrow
  BY <1>1 DEF LinksGrow
<1>13. Accepted(c)'
  BY <1>3, <1>10, <1>11, <1>12, AcceptedStays
<1>14. ConnInv(c)'
  BY <1>1, <1>3, <1>9, <1>10, <1>11, <1>13, ZenonT(60) DEF ConnInv
<1>15. QED
  BY <1>1, <1>8, <1>10, <1>12, <1>14, HandlerStep, Zenon

(* A handler issues a token for what it accepted. *)
LEMMA IssueIsGrant ==
    ASSUME AccessInv, NEW c \in Conn, NEW t \in Token, IssueToken(c, t)
    PROVE  /\ Issue(t, conn[c].who.NodeID, conn[c].port) /\ Accepted(c)
           /\ conn[c].who.NodeID \in Peer /\ conn[c].port \in Port
<1>1. conn[c].pc = "issue" /\ Issue(t, conn[c].who.NodeID, conn[c].port)
  BY DEF IssueToken, GrantedPort
<1>2. Accepted(c)
  BY <1>1, ZenonT(60) DEF AccessInv, ConnInv
<1>3. QED
  BY <1>1, <1>2, GrantAssumption, Zenon DEF Accepted

LEMMA IssueKeepsAccess ==
    ASSUME AccessInv, StoreInv, NEW c \in Conn, NEW t \in Token, IssueToken(c, t)
    PROVE  AccessInv'
<1> DEFINE r == [conn[c] EXCEPT !.pc = "respond", !.token = t]
<1> DEFINE g == [PeerID |-> conn[c].who.NodeID, TargetPort |-> conn[c].port]
<1>1. /\ conn' = [conn EXCEPT ![c] = r] /\ conn[c].pc = "issue"
      /\ UNCHANGED <<inv, accepts, paired, trusted, edit>>
  BY DEF IssueToken, inviteVars, historyVars
<1>2. Accepted(c) /\ Issue(t, conn[c].who.NodeID, conn[c].port)
  BY IssueIsGrant
<1>3. /\ t \notin DOMAIN issued /\ DOMAIN issued' = DOMAIN issued \cup {t}
      /\ issued'[t].grant = g /\ \A u \in DOMAIN issued : issued'[u] = issued[u]
  BY <1>2 DEF Issue, Put
<1>4. conn[c] \in ConnRecord /\ ConnInv(c) /\ conn[c].token = NoID /\ t # NoID
  BY <1>1, PairingAssumption DEF AccessInv, ConnInv
<1>5. /\ r \in ConnRecord /\ r.pc = "respond" /\ r.who = conn[c].who /\ r.mode = conn[c].mode
      /\ r.token = t /\ r.snap = conn[c].snap /\ r.port = conn[c].port
      /\ r.invite = conn[c].invite
  BY <1>4, ZenonT(60) DEF ConnRecord
<1>6. /\ conn' \in [Conn -> ConnRecord] /\ conn'[c] = r
      /\ \A d \in Conn : d # c => conn'[d] = conn[d]
  BY <1>1, <1>5 DEF AccessInv
<1> HIDE DEF r
<1>7. LinksGrow /\ TokensStay
  BY <1>1, <1>3 DEF LinksGrow, TokensStay
<1>8. ConnInv(c)'
  <2>1. Accepted(c)'
    BY <1>2, <1>5, <1>6, <1>7, AcceptedStays
  <2>2. conn'[c].snap \in Seq(EarnedEntry')
    BY <1>1, <1>4, <1>5, <1>6, EarnedStays, ZenonT(60) DEF ConnInv
  <2>3. QED
    BY <1>3, <1>5, <1>6, <2>1, <2>2 DEF ConnInv
<1>9. \A d \in Conn : ConnInv(d)'
  <2> SUFFICES ASSUME NEW d \in Conn, d # c PROVE ConnInv(d)'
    BY <1>8
  <2>1. QED
    BY <1>6, <1>7, OthersKeepConnInv DEF AccessInv
<1>10. TokensHaveHandlers'
  <2> SUFFICES ASSUME NEW u \in DOMAIN issued' PROVE \E d \in Conn : conn'[d].token = u
    BY DEF TokensHaveHandlers
  <2>1. CASE u = t
    BY <1>5, <1>6, <2>1
  <2>2. CASE u # t
    <3>1. PICK d \in Conn : conn[d].token = u
      BY <1>3, <2>2 DEF AccessInv, TokensHaveHandlers
    <3>2. d # c
      <4>1. u \in Token
        BY <1>3, <2>2 DEF StoreInv, StoreTypeOK
      <4>2. QED
        BY <1>4, <3>1, <4>1, PairingAssumption
    <3>3. QED
      BY <1>6, <3>1, <3>2
  <2>3. QED
    BY <2>1, <2>2
<1>11. TokensApart'
  <2>1. \A d \in Conn : conn[d].token # NoID => conn[d].token # t
    BY <1>3, Zenon DEF AccessInv, ConnInv
  <2>2. QED
    BY <1>4, <1>5, <1>6, <2>1 DEF AccessInv, TokensApart
<1>12. ListsEarned'
  BY <1>1, ListsStay DEF AccessInv
<1>13. QED
  BY <1>1, <1>6, <1>9, <1>10, <1>11, <1>12, Zenon DEF AccessInv

(* The deferred Close. *)
LEMMA RespondKeepsAccess ==
    ASSUME AccessInv, NEW c \in Conn, Respond(c)
    PROVE  AccessInv'
<1> DEFINE r == [conn[c] EXCEPT !.pc = "closed"]
<1>1. /\ conn' = [conn EXCEPT ![c].pc = "closed"]
      /\ UNCHANGED <<inv, accepts, paired, trusted, edit, issued>>
  BY DEF Respond, Goto, inviteVars, historyVars, storeVars
<1>2. conn[c] \in ConnRecord /\ ConnInv(c)
  BY DEF AccessInv
<1>3. /\ r \in ConnRecord /\ r.pc = "closed" /\ r.who = conn[c].who /\ r.mode = conn[c].mode
      /\ r.token = conn[c].token /\ r.snap = conn[c].snap /\ r.port = conn[c].port
      /\ r.invite = conn[c].invite
  BY <1>2 DEF ConnRecord
<1>4. conn' = [conn EXCEPT ![c] = r] /\ conn'[c] = r
  BY <1>1 DEF AccessInv
<1> HIDE DEF r
<1>5. Accepted(c) => Accepted(c)'
  <2>1. LinksGrow
    BY <1>1 DEF LinksGrow
  <2>2. QED
    BY <1>3, <1>4, <2>1, AcceptedStays
<1>6. conn'[c].snap \in Seq(EarnedEntry')
  BY <1>1, <1>2, <1>3, <1>4, EarnedStays DEF ConnInv
<1>7. ConnInv(c)'
  BY <1>1, <1>2, <1>3, <1>4, <1>5, <1>6 DEF ConnInv
<1>8. QED
  BY <1>1, <1>3, <1>4, <1>7, QuietStep, Zenon

(* Every step of a handler. *)
LEMMA HandleKeepsAccess ==
    ASSUME AccessInv, LinkInv, StoreInv, NEW c \in Conn, Receive(c) \/ Handle(c)
    PROVE  AccessInv'
<1> USE DEF inviteVars, historyVars, storeVars
<1>1. CASE Receive(c)
  BY <1>1, ReceiveKeepsAccess
<1>2. CASE RequestRejected(c)
  BY <1>2, AbandonKeepsAccess DEF RequestRejected
<1>3. CASE TrustedAccepted(c)
  BY <1>3, TrustedAcceptedKeepsAccess
<1>4. CASE TrustedRejected(c)
  BY <1>4, AbandonKeepsAccess DEF TrustedRejected
<1>5. CASE VerifyAccepts(c)
  BY <1>5, VerifyAcceptsKeepsAccess
<1>6. CASE VerifyRejects(c)
  BY <1>6, AbandonKeepsAccess DEF VerifyRejects
<1>7. CASE RecordUse(c)
  BY <1>7, RecordKeepsAccess
<1>8. CASE LoadTrusted(c)
  BY <1>8, LoadKeepsAccess
<1>9. CASE StoreTrusted(c)
  BY <1>9, StoreKeepsAccess
<1>10. CASE StorePanics(c)
  BY <1>10, AbandonKeepsAccess DEF StorePanics
<1>11. CASE \E t \in Token : IssueToken(c, t)
  BY <1>11, IssueKeepsAccess
<1>12. CASE IssueFails(c)
  BY <1>12, AbandonKeepsAccess DEF IssueFails
<1>13. CASE Respond(c)
  BY <1>13, RespondKeepsAccess
<1>14. QED
  BY <1>1, <1>2, <1>3, <1>4, <1>5, <1>6, <1>7, <1>8, <1>9, <1>10, <1>11, <1>12, <1>13
     DEF Handle

-----------------------------------------------------------------------------
(* The steps of the others *)

(* A step that moves no handler and issues no token. *)
LEMMA OtherStep ==
    ASSUME AccessInv, LinksGrow, UNCHANGED conn, TokensStay, DOMAIN issued' = DOMAIN issued,
           DOMAIN inv' \subseteq InviteID,
           \A i \in DOMAIN inv' : inv'[i].TargetPort \in 0..MaxPort, ListsEarned'
    PROVE  AccessInv'
<1>1. \A c \in Conn : ConnInv(c)'
  BY OthersKeepConnInv DEF AccessInv
<1>2. TokensHaveHandlers' /\ TokensApart'
  BY DEF AccessInv, TokensHaveHandlers, TokensApart
<1>3. QED
  BY <1>1, <1>2 DEF AccessInv

(* A step that changes nothing the invariant speaks of but, perhaps, the   *)
(* use count of a token.                                                   *)
LEMMA UnrelatedStep ==
    ASSUME AccessInv, UNCHANGED <<inv, accepts, paired, trusted, edit, conn>>,
           TokensStay, DOMAIN issued' = DOMAIN issued
    PROVE  AccessInv'
<1>1. LinksGrow
  BY DEF LinksGrow
<1>2. ListsEarned'
  BY ListsStay DEF AccessInv
<1>3. QED
  BY <1>1, <1>2, OtherStep DEF AccessInv

(* generateURL inserts a fresh link, nobody's yet. *)
LEMMA InsertKeepsAccess ==
    ASSUME AccessInv, LinkInv, NEW g \in Call, NEW i \in InviteID, GenerateInserts(g, i)
    PROVE  AccessInv'
<1>1. /\ i \notin DOMAIN inv /\ inv' = Put(inv, i, NewInvite(call[g]))
      /\ accepts' = Put(accepts, i, 0) /\ UNCHANGED <<trusted, conn, edit, paired, issued>>
  BY DEF GenerateInserts, storeVars
<1>2. /\ DOMAIN inv' = DOMAIN inv \cup {i} /\ inv'[i] = NewInvite(call[g])
      /\ \A j \in DOMAIN inv : inv'[j] = inv[j]
  BY <1>1 DEF Put
<1>3. \A j \in DOMAIN inv : accepts'[j] = accepts[j]
  BY <1>1 DEF Put, LinkInv, LinkTypes
<1>4. inv'[i].TargetPort \in 0..MaxPort
  <2>1. call[g].port \in Nat
    BY DEF LinkInv, LinkTypes, CallRecord
  <2>2. StoredPort(call[g].port) \in 0..MaxPort
    <3>1. \A q, m \in Nat : q % (m + 1) \in 0..m
      BY SMT
    <3>2. QED
      BY <2>1, <3>1, MaxPortIsNat DEF StoredPort
  <2>3. inv'[i].TargetPort = StoredPort(call[g].port)
    BY <1>2 DEF NewInvite
  <2>4. QED
    BY <2>1, <2>2, <2>3
<1>5. LinksGrow /\ TokensStay
  BY <1>1, <1>2, <1>3 DEF LinksGrow, TokensStay
<1>6. ListsEarned'
  BY <1>1, ListsStay, ZenonT(60) DEF AccessInv
<1>7. QED
  BY <1>1, <1>2, <1>4, <1>5, <1>6, OtherStep DEF AccessInv

(* RevokeInvite and handleDeleteAllowed: the first half copies an earned   *)
(* list, the second writes one back.                                       *)
LEMMA EditKeepsAccess ==
    ASSUME AccessInv,
           \/ \E i \in InviteID : RevokeInvite(i)
           \/ RevokeFinishes \/ RevokePanics \/ DeleteFinishes
           \/ \E n \in Nodes : DeleteAllowed(n)
    PROVE  AccessInv'
<1>1. UNCHANGED <<inv, accepts, paired, conn, issued>>
  BY Zenon DEF RevokeInvite, RevokeFinishes, RevokePanics, DeleteFinishes, DeleteAllowed,
         inviteVars, historyVars, storeVars
<1>2. /\ trusted \in Seq(EarnedEntry) /\ edit["revoke"].snap \in Seq(EarnedEntry)
      /\ edit["delete"].snap \in Seq(EarnedEntry)
      /\ edit = [e \in {"revoke", "delete"} |-> edit[e]]
  BY DEF AccessInv, ListsEarned
<1>3. NoEdit.snap \in Seq(EarnedEntry)
  BY DEF NoEdit
<1>4. trusted' \in Seq(EarnedEntry)
  <2>1. CASE RevokeFinishes
    <3> DEFINE k == RevokeIndex
    <3>1. CASE k = 0
      BY <1>2, <2>1, <3>1 DEF RevokeFinishes
    <3>2. CASE k # 0
      <4>1. PICK list \in Seen(edit["revoke"].snap) :
              k <= Len(list) /\ trusted' = Without(list, k)
        BY <2>1, <3>2 DEF RevokeFinishes
      <4>2. list \in Seq(EarnedEntry)
        BY <1>2, <4>1, SeenIsEarned
      <4>3. k \in 0..Len(edit["revoke"].snap)
        BY <1>2, TrustedPeerFinds DEF RevokeIndex
      <4> HIDE DEF k
      <4>4. Len(list) \in Nat /\ Len(edit["revoke"].snap) \in Nat
        BY <1>2, <4>2
      <4>5. k \in 1..Len(list)
        BY <3>2, <4>1, <4>3, <4>4
      <4>6. QED
        BY <4>1, <4>2, <4>5, WithoutInSeq
    <3>3. QED
      BY <3>1, <3>2
  <2>2. CASE DeleteFinishes
    <3>1. PICK list \in Seen(edit["delete"].snap) :
            trusted' = IF IsTrusted(list, edit["delete"].node)
                       THEN WithoutNode(list, edit["delete"].node) ELSE trusted
      BY <2>2 DEF DeleteFinishes
    <3>2. list \in Seq(EarnedEntry)
      BY <1>2, <3>1, SeenIsEarned
    <3>3. WithoutNode(list, edit["delete"].node) \in Seq(EarnedEntry)
      BY <3>2, WithoutNodeInSeq
    <3>4. QED
      BY <1>2, <3>1, <3>3
  <2>3. CASE UNCHANGED trusted
    BY <1>2, <2>3
  <2>4. QED
    BY <2>1, <2>2, <2>3 DEF RevokeInvite, RevokePanics, DeleteAllowed
<1> DEFINE EditsEarned == /\ edit' = [e \in {"revoke", "delete"} |-> edit'[e]]
                          /\ edit'["revoke"].snap \in Seq(EarnedEntry)
                          /\ edit'["delete"].snap \in Seq(EarnedEntry)
<1>5. EditsEarned
  <2>1. ASSUME NEW i \in InviteID, RevokeInvite(i) PROVE EditsEarned
    BY <1>2, <2>1 DEF RevokeInvite
  <2>2. CASE RevokeFinishes \/ RevokePanics
    BY <1>2, <1>3, <2>2, Zenon DEF RevokeFinishes, RevokePanics
  <2>3. ASSUME NEW n \in Nodes, DeleteAllowed(n) PROVE EditsEarned
    BY <1>2, <2>3, Zenon DEF DeleteAllowed
  <2>4. CASE DeleteFinishes
    BY <1>2, <1>3, <2>4, Zenon DEF DeleteFinishes
  <2> HIDE DEF EditsEarned
  <2>5. QED
    BY <2>1, <2>2, <2>3, <2>4
<1>6. ListsEarned'
  BY <1>1, <1>4, <1>5, EarnedStays DEF ListsEarned
<1>7. LinksGrow /\ TokensStay
  BY <1>1 DEF LinksGrow, TokensStay
<1>8. QED
  BY <1>1, <1>6, <1>7, OtherStep, ZenonT(60) DEF AccessInv

(* To the token table, a step of the pairing manager is one of the table's *)
(* own operations or nothing.                                              *)
LEMMA PairingStepOfTable ==
    ASSUME AccessInv, [Next]_vars
    PROVE  /\ \/ \E t \in Token, p \in Peer, q \in Port : Issue(t, p, q)
              \/ Tick
              \/ UNCHANGED storeVars
           /\ [StoreNext]_storeVars
<1>1. ASSUME NEW c \in Conn, NEW t \in Token, IssueToken(c, t)
      PROVE  \E p \in Peer, q \in Port : Issue(t, p, q)
  BY <1>1, IssueIsGrant
<1>2. CASE \E c \in Conn : \E t \in Token : IssueToken(c, t)
  BY <1>1, <1>2 DEF StoreNext
<1>3. CASE Time
  BY <1>3 DEF Time, StoreNext
<1>4. CASE UNCHANGED storeVars
  BY <1>4
<1>5. ASSUME NEW c \in Conn, Receive(c) \/ Handle(c), ~\E t \in Token : IssueToken(c, t)
      PROVE  UNCHANGED storeVars
  BY <1>5, Zenon DEF Receive, Handle, ReceiveInviteRequest, ReceiveTrustedRequest, RequestRejected,
     TrustedAccepted, TrustedRejected, VerifyAccepts, VerifyRejects, RecordUse, LoadTrusted,
     StoreTrusted, StorePanics, IssueFails, Respond
<1>6. ASSUME NEW g \in Call, Generate(g) \/ Change(g) PROVE UNCHANGED storeVars
  BY <1>6 DEF Generate, Change, GenerateOneTime, GeneratePairing, GenerateDeletesStale,
     GenerateFinds, GenerateFails, GenerateInserts, ChangeBackend, ChangeCleansUp, ChangeFails
<1>7. CASE \/ \E i \in InviteID : RevokeInvite(i)
           \/ RevokeFinishes \/ RevokePanics \/ DeleteFinishes \/ Sweep
           \/ \E n \in Nodes : DeleteAllowed(n)
  BY <1>7, <1>4, Zenon DEF RevokeInvite, RevokeFinishes, RevokePanics, DeleteFinishes, Sweep,
     DeleteAllowed
<1>8. CASE UNCHANGED vars
  BY <1>8, <1>4 DEF vars
<1>9. QED
  BY <1>2, <1>3, <1>4, <1>5, <1>6, <1>7, <1>8 DEF Next

(* Every step of the manager. *)
LEMMA AccessInvStep ==
    ASSUME AccessInv, LinkInv, StoreInv, [Next]_vars
    PROVE  AccessInv'
<1>1. ASSUME NEW c \in Conn, Receive(c) \/ Handle(c) PROVE AccessInv'
  BY <1>1, HandleKeepsAccess
<1>2. ASSUME NEW g \in Call, NEW i \in InviteID, GenerateInserts(g, i) PROVE AccessInv'
  BY <1>2, InsertKeepsAccess
<1>3. CASE \/ \E i \in InviteID : RevokeInvite(i)
           \/ RevokeFinishes \/ RevokePanics \/ DeleteFinishes
           \/ \E n \in Nodes : DeleteAllowed(n)
  BY <1>3, EditKeepsAccess
<1>4. CASE UNCHANGED <<inv, accepts, paired, trusted, edit, conn, issued>>
  <2>1. TokensStay
    BY <1>4 DEF TokensStay
  <2>2. QED
    BY <1>4, <2>1, UnrelatedStep
<1>5. ASSUME NEW g \in Call, Generate(g) \/ Change(g), ~\E i \in InviteID : GenerateInserts(g, i)
      PROVE  UNCHANGED <<inv, accepts, paired, trusted, edit, conn, issued>>
  BY <1>5 DEF Generate, Change, GenerateOneTime, GeneratePairing, GenerateDeletesStale,
     GenerateFinds, GenerateFails, ChangeBackend, ChangeCleansUp, ChangeFails,
     inviteVars, historyVars, storeVars
<1>6. Sweep \/ Time => UNCHANGED <<inv, accepts, paired, trusted, edit, conn, issued>>
  BY DEF Sweep, Time, Tick, inviteVars, historyVars, storeVars
<1>7. UNCHANGED vars => UNCHANGED <<inv, accepts, paired, trusted, edit, conn, issued>>
  BY DEF vars, inviteVars, historyVars, storeVars
<1>8. QED
  BY <1>1, <1>2, <1>3, <1>4, <1>5, <1>6, <1>7 DEF Next

PairingInv == AccessInv /\ LinkInv /\ StoreInv

-----------------------------------------------------------------------------

(* Along every run, each handler knows what its step says it knows. *)
THEOREM PairingInvariant == Spec => []PairingInv
<1>1. Init => PairingInv
  BY AccessInvInit, LinkInvInit, StoreInvInit DEF PairingInv, Init
<1>2. PairingInv /\ [Next]_vars => PairingInv'
  <2> SUFFICES ASSUME PairingInv, [Next]_vars PROVE PairingInv'
    OBVIOUS
  <2>1. AccessInv'
    BY AccessInvStep DEF PairingInv
  <2>2. LinkInv'
    BY LinkInvInductive DEF PairingInv
  <2>3. StoreInv'
    BY PairingStepOfTable, StoreInvInductive DEF PairingInv
  <2>4. QED
    BY <2>1, <2>2, <2>3 DEF PairingInv
<1>3. QED
  BY <1>1, <1>2, PTL DEF Spec

(* What AccessInv says of tokens and of the list. *)
LEMMA AccessInvImplies == AccessInv /\ StoreInv => AccessIsEarned
<1> SUFFICES ASSUME AccessInv, StoreInv PROVE AccessIsEarned
  OBVIOUS
<1>1. TokensAreEarned
  <2> SUFFICES ASSUME NEW t \in DOMAIN issued
               PROVE  \E c \in Conn :
                        /\ conn[c].token = t
                        /\ \A d \in Conn \ {c} : conn[d].token # t
                        /\ issued[t].grant.PeerID = conn[c].who.NodeID
                        /\ conn[c].mode # "trusted" =>
                             /\ accepts[conn[c].invite] >= 1
                             /\ conn[c].mode = inv[conn[c].invite].Mode
                             /\ issued[t].grant.TargetPort =
                                  effectiveTargetPort(inv[conn[c].invite])
    BY DEF TokensAreEarned
  <2>1. PICK c \in Conn : conn[c].token = t
    BY DEF AccessInv, TokensHaveHandlers
  <2>2. ConnInv(c) /\ TokensApart
    BY DEF AccessInv
  <2>3. t # NoID
    BY PairingAssumption DEF StoreInv, StoreTypeOK
  <2>4. /\ Accepted(c)
        /\ issued[t].grant = [PeerID |-> conn[c].who.NodeID, TargetPort |-> conn[c].port]
    BY <2>1, <2>2, <2>3 DEF ConnInv
  <2>5. issued[t].grant.PeerID = conn[c].who.NodeID /\ issued[t].grant.TargetPort = conn[c].port
    BY <2>4
  <2>6. conn[c].mode # "trusted" =>
          /\ accepts[conn[c].invite] >= 1
          /\ conn[c].mode = inv[conn[c].invite].Mode
          /\ conn[c].port = effectiveTargetPort(inv[conn[c].invite])
    BY <2>4, Zenon DEF Accepted
  <2>7. \A d \in Conn \ {c} : conn[d].token # t
    BY <2>1, <2>2, <2>3 DEF TokensApart
  <2>8. QED
    BY <2>1, <2>5, <2>6, <2>7
<1>2. TrustIsEarned
  <2>1. \A k \in DOMAIN trusted : trusted[k] \in EarnedEntry
    BY DEF AccessInv, ListsEarned
  <2>2. QED
    BY <2>1 DEF TrustIsEarned, EarnedEntry, HasPaired
<1>3. QED
  BY <1>1, <1>2 DEF AccessIsEarned

(* Every session token goes back to one handler that authenticated its     *)
(* peer, and every entry of the trusted list to a pairing link its node    *)
(* consumed, whatever the interleaving of handlers, UI calls and the       *)
(* unlocked writes of the list.                                            *)
THEOREM AccessIsEarnedHolds == Spec => []AccessIsEarned
<1>1. PairingInv => AccessIsEarned
  BY AccessInvImplies DEF PairingInv
<1>2. QED
  BY <1>1, PairingInvariant, PTL
=============================================================================
