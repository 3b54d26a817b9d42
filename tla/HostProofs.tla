----------------------------- MODULE HostProofs -----------------------------
(***************************************************************************)
(* Proofs about the tunnel handlers of a host, for every number of streams *)
(* and tokens and for every port, and about the host as a whole.           *)
(*                                                                         *)
(* A tunnel handler's step is either a step of the token table or leaves   *)
(* the table alone, so what is proved about the table carries over; the    *)
(* rest is about what a handler remembers of the table after VerifyGrant   *)
(* returned and the mutex was released.  Pairing handlers and tunnel       *)
(* handlers share the table, each side uses it only through its            *)
(* operations, and so neither breaks what the other relies on.             *)
(***************************************************************************)
EXTENDS Host, PairingProofs

Verified == {"check", "ready", "dial", "bridged"}
Admitted == {"ready", "dial", "bridged"}

(* What a handler's program counter says about its token.  Admitted starts *)
(* earlier than ChannelsWithinGrant does: the checks are made at "check",  *)
(* and nothing after it looks at the grant again.                          *)
HandlerInv(x) ==
    /\ stream[x].pc \in {"verify"} \cup Verified => stream[x].hello \in Hellos
    /\ stream[x].spent => stream[x].hello \in Hellos /\ stream[x].hello.token \in DOMAIN issued
    /\ stream[x].pc \in {"hello", "ponged", "verify"} => ~stream[x].spent
    /\ stream[x].pc \in Verified => stream[x].spent
    /\ stream[x].pc \in Admitted =>
         /\ Permitted(stream[x].hello, GrantOf(x))
         /\ stream[x].target = targetAddrForPort(PortOf(GrantOf(x)))

(* Each use the table has handed out belongs to one stream. *)
UsesAreStreams == \A t \in DOMAIN issued : Cardinality(SpentBy(t)) = issued[t].uses

TunnelInv == /\ StoreInv
             /\ TunnelTypeOK
             /\ \A x \in Stream : HandlerInv(x)
             /\ UsesAreStreams

-----------------------------------------------------------------------------

(* targetAddrForPort falls back to a port that exists. *)
LEMMA TargetInRange == \A q : targetAddrForPort(q) \in 0..MaxPort
BY MaxPortIsNat, TunnelHostAssumption DEF targetAddrForPort

(* The streams that spent a token are finitely many. *)
LEMMA SpentByFinite == \A t : IsFiniteSet(SpentBy(t))
<1> SUFFICES ASSUME NEW t PROVE IsFiniteSet(SpentBy(t))
  OBVIOUS
<1>1. SpentBy(t) \in SUBSET Stream
  BY DEF SpentBy
<1>2. IsFiniteSet(Stream)
  BY TunnelHostAssumption
<1>3. QED
  BY <1>1, <1>2, FS_Subset

(* No handler runs before the first stream is accepted. *)
LEMMA TunnelInvInit == TunnelInit => TunnelInv
<1> SUFFICES ASSUME TunnelInit PROVE TunnelInv
  OBVIOUS
<1>1. StoreInv
  BY StoreInvInit DEF TunnelInit
<1>2. TunnelTypeOK
  BY <1>1, MaxPortIsNat DEF StoreInv, TunnelInit, TunnelTypeOK, NewStream
<1>3. \A x \in Stream : HandlerInv(x)
  BY DEF TunnelInit, NewStream, HandlerInv, Verified, Admitted
<1>4. UsesAreStreams
  BY DEF TunnelInit, StoreInit, UsesAreStreams
<1>5. QED
  BY <1>1, <1>2, <1>3, <1>4 DEF TunnelInv

(* A step of the table, by whomever, takes nothing from the handlers: what *)
(* a token was issued for stays, and only VerifyGrant counts a use.        *)
LEMMA TableStepKeepsHandler ==
    ASSUME StoreInv, [StoreNext]_storeVars, NEW x \in Stream, HandlerInv(x),
           stream'[x] = stream[x]
    PROVE  HandlerInv(x)'
<1>1. \A t \in DOMAIN issued : t \in DOMAIN issued' /\ issued'[t].grant = issued[t].grant
  BY StepRevivesNothing
<1>2. stream[x].spent => GrantOf(x)' = GrantOf(x)
  BY <1>1 DEF GrantOf, HandlerInv
<1>3. stream[x].pc \in Admitted => stream[x].spent
  BY DEF HandlerInv, Admitted, Verified
<1>4. stream[x].pc \in Admitted =>
         /\ Permitted(stream'[x].hello, GrantOf(x)')
         /\ stream'[x].target = targetAddrForPort(PortOf(GrantOf(x)'))
  BY <1>2, <1>3 DEF HandlerInv
<1>5. QED
  BY <1>1, <1>4 DEF HandlerInv

-----------------------------------------------------------------------------
(* The steps of a handler *)

(* A step that only moves the handler: the token table and what the        *)
(* handler holds stay as they are.                                         *)
LEMMA MoveKeepsInv ==
    ASSUME TunnelInv, NEW s \in Stream, NEW pc, Move(s, pc), UNCHANGED storeVars,
           \/ pc = "closed"
           \/ pc = "ponged" /\ stream[s].pc = "hello"
           \/ pc = "dial" /\ stream[s].pc = "ready"
           \/ pc = "bridged" /\ stream[s].pc = "dial"
    PROVE  TunnelInv'
<1>1. /\ \A x \in Stream : x # s => stream'[x] = stream[x]
      /\ tokens' = tokens /\ issued' = issued /\ now' = now
  BY DEF Move, TunnelInv, TunnelTypeOK, storeVars
<1>2. /\ stream'[s].pc = pc /\ stream'[s].hello = stream[s].hello
      /\ stream'[s].spent = stream[s].spent /\ stream'[s].target = stream[s].target
  BY DEF Move, TunnelInv, TunnelTypeOK
<1>3. StoreInv'
  BY StoreInvInductive DEF TunnelInv
<1>4. TunnelTypeOK'
  BY <1>3 DEF StoreInv, Move, TunnelInv, TunnelTypeOK
<1>5. \A x \in Stream : HandlerInv(x)'
  <2> SUFFICES ASSUME NEW x \in Stream PROVE HandlerInv(x)'
    OBVIOUS
  <2>1. HandlerInv(x)
    BY DEF TunnelInv
  <2>2. CASE x = s
    BY <1>1, <1>2, <2>1, <2>2 DEF HandlerInv, GrantOf, Verified, Admitted
  <2>3. CASE x # s
    BY <1>1, <2>1, <2>3, TableStepKeepsHandler DEF TunnelInv
  <2>4. QED
    BY <2>2, <2>3
<1>6. UsesAreStreams'
  <2>1. \A t : SpentBy(t)' = SpentBy(t)
    BY <1>1, <1>2 DEF SpentBy
  <2>2. QED
    BY <1>1, <2>1 DEF TunnelInv, UsesAreStreams
<1>7. QED
  BY <1>3, <1>4, <1>5, <1>6 DEF TunnelInv

(* Reading the hello. *)
LEMMA ReceiveHelloKeepsInv ==
    ASSUME TunnelInv, NEW s \in Stream, NEW h \in Hellos, ReceiveHello(s, h)
    PROVE  TunnelInv'
<1>1. /\ \A x \in Stream : x # s => stream'[x] = stream[x]
      /\ tokens' = tokens /\ issued' = issued /\ now' = now
  BY DEF ReceiveHello, TunnelInv, TunnelTypeOK, storeVars
<1>2. /\ stream'[s].pc = "verify" /\ stream'[s].hello = h
      /\ stream'[s].spent = stream[s].spent /\ ~stream[s].spent
  BY DEF ReceiveHello, At, TunnelInv, TunnelTypeOK, HandlerInv
<1>3. StoreInv'
  BY StoreInvInductive DEF TunnelInv, ReceiveHello
<1>4. TunnelTypeOK'
  BY <1>3 DEF StoreInv, ReceiveHello, TunnelInv, TunnelTypeOK
<1>5. \A x \in Stream : HandlerInv(x)'
  <2> SUFFICES ASSUME NEW x \in Stream PROVE HandlerInv(x)'
    OBVIOUS
  <2>1. HandlerInv(x)
    BY DEF TunnelInv
  <2>2. CASE x = s
    BY <1>2, <2>2 DEF HandlerInv, Verified, Admitted
  <2>3. CASE x # s
    BY <1>1, <2>1, <2>3, TableStepKeepsHandler DEF TunnelInv, ReceiveHello
  <2>4. QED
    BY <2>2, <2>3
<1>6. UsesAreStreams'
  <2>1. \A t : SpentBy(t)' = SpentBy(t)
    BY <1>1, <1>2 DEF SpentBy
  <2>2. QED
    BY <1>1, <2>1 DEF TunnelInv, UsesAreStreams
<1>7. QED
  BY <1>3, <1>4, <1>5, <1>6 DEF TunnelInv

(* VerifyGrant succeeds: one more stream and one more use, of one token. *)
LEMMA VerifyAcceptedKeepsInv ==
    ASSUME TunnelInv, NEW s \in Stream, VerifyAccepted(s)
    PROVE  TunnelInv' /\ [StoreNext]_storeVars
<1> DEFINE k == stream[s].hello.token
<1>1. k \in Token /\ VerifyGrantOK(k) /\ stream[s].hello \in Hellos /\ ~stream[s].spent
  BY DEF VerifyAccepted, At, TunnelInv, HandlerInv, Hellos
<1>2. StoreNext
  BY <1>1 DEF StoreNext
<1>3. StoreInv'
  BY <1>2, StoreInvInductive DEF TunnelInv
<1>4. \A x \in Stream : x # s => stream'[x] = stream[x]
  BY DEF VerifyAccepted, TunnelInv, TunnelTypeOK
<1>5. /\ stream'[s].pc = "check" /\ stream'[s].hello = stream[s].hello
      /\ stream'[s].spent = TRUE
  BY DEF VerifyAccepted, TunnelInv, TunnelTypeOK
<1>6. /\ k \in DOMAIN issued /\ issued[k] \in Receipts
      /\ DOMAIN issued' = DOMAIN issued
      /\ issued'[k].uses = issued[k].uses + 1
      /\ \A t \in DOMAIN issued : t # k => issued'[t] = issued[t]
  <2>1. k \in DOMAIN issued /\ issued[k] \in Receipts
    BY <1>1 DEF VerifyGrantOK, TunnelInv, StoreInv, StoreTypeOK
  <2>2. issued' = [issued EXCEPT ![k].uses = @ + 1]
    BY <1>1 DEF VerifyGrantOK
  <2>3. QED
    BY <2>1, <2>2 DEF Receipts
<1>7. TunnelTypeOK'
  BY <1>3 DEF StoreInv, VerifyAccepted, TunnelInv, TunnelTypeOK
<1>8. \A x \in Stream : HandlerInv(x)'
  <2> SUFFICES ASSUME NEW x \in Stream PROVE HandlerInv(x)'
    OBVIOUS
  <2>1. CASE x = s
    BY <1>1, <1>5, <1>6, <2>1 DEF HandlerInv, Verified, Admitted
  <2>2. CASE x # s
    BY <1>2, <1>4, <2>2, TableStepKeepsHandler DEF TunnelInv
  <2>3. QED
    BY <2>1, <2>2
<1>9. UsesAreStreams'
  <2> SUFFICES ASSUME NEW t \in DOMAIN issued'
               PROVE  Cardinality(SpentBy(t)') = issued'[t].uses
    BY DEF UsesAreStreams
  <2>1. Cardinality(SpentBy(t)) = issued[t].uses
    BY <1>6 DEF TunnelInv, UsesAreStreams
  <2>2. CASE t = k
    <3>1. SpentBy(t)' = SpentBy(t) \cup {s} /\ s \notin SpentBy(t)
      BY <1>1, <1>4, <1>5, <2>2 DEF SpentBy
    <3>2. Cardinality(SpentBy(t) \cup {s}) = Cardinality(SpentBy(t)) + 1
      BY <3>1, SpentByFinite, FS_AddElement
    <3>3. QED
      BY <1>6, <2>1, <2>2, <3>1, <3>2
  <2>3. CASE t # k
    <3>1. SpentBy(t)' = SpentBy(t)
      BY <1>1, <1>4, <1>5, <2>3 DEF SpentBy
    <3>2. QED
      BY <1>6, <2>1, <2>3, <3>1
  <2>4. QED
    BY <2>2, <2>3
<1>10. QED
  BY <1>2, <1>3, <1>7, <1>8, <1>9 DEF TunnelInv

(* VerifyGrant fails: the table may lose the token, the handler closes. *)
LEMMA VerifyRejectedKeepsInv ==
    ASSUME TunnelInv, NEW s \in Stream, VerifyRejected(s)
    PROVE  TunnelInv' /\ [StoreNext]_storeVars
<1> DEFINE k == stream[s].hello.token
<1>1. CASE k \notin DOMAIN tokens /\ UNCHANGED storeVars
  BY <1>1, MoveKeepsInv DEF VerifyRejected
<1>2. CASE VerifyGrantRefused(k)
  <2>1. k \in Token
    BY DEF VerifyRejected, At, TunnelInv, HandlerInv, Hellos
  <2>2. StoreNext
    BY <1>2, <2>1 DEF StoreNext
  <2>3. StoreInv'
    BY <2>2, StoreInvInductive DEF TunnelInv
  <2>4. /\ \A x \in Stream : x # s => stream'[x] = stream[x]
        /\ stream'[s].pc = "closed" /\ stream'[s].hello = stream[s].hello
        /\ stream'[s].spent = stream[s].spent /\ issued' = issued
    BY <1>2 DEF VerifyRejected, Move, VerifyGrantRefused, TunnelInv, TunnelTypeOK
  <2>5. TunnelTypeOK'
    BY <2>3 DEF StoreInv, VerifyRejected, Move, TunnelInv, TunnelTypeOK
  <2>6. \A x \in Stream : HandlerInv(x)'
    <3> SUFFICES ASSUME NEW x \in Stream PROVE HandlerInv(x)'
      OBVIOUS
    <3>1. HandlerInv(x)
      BY DEF TunnelInv
    <3>2. CASE x = s
      BY <2>4, <3>1, <3>2 DEF HandlerInv, Verified, Admitted
    <3>3. CASE x # s
      BY <2>2, <2>4, <3>1, <3>3, TableStepKeepsHandler DEF TunnelInv
    <3>4. QED
      BY <3>2, <3>3
  <2>7. UsesAreStreams'
    <3>1. \A t : SpentBy(t)' = SpentBy(t)
      BY <2>4 DEF SpentBy
    <3>2. QED
      BY <2>4, <3>1 DEF TunnelInv, UsesAreStreams
  <2>8. QED
    BY <2>2, <2>3, <2>5, <2>6, <2>7 DEF TunnelInv
<1>3. QED
  BY <1>1, <1>2 DEF VerifyRejected

(* The checks pass: what ChannelsWithinGrant promises is fixed here. *)
LEMMA CheckAcceptsKeepsInv ==
    ASSUME TunnelInv, NEW s \in Stream, CheckAccepts(s)
    PROVE  TunnelInv'
<1> DEFINE q == targetAddrForPort(PortOf(GrantOf(s)))
<1>1. /\ \A x \in Stream : x # s => stream'[x] = stream[x]
      /\ tokens' = tokens /\ issued' = issued /\ now' = now
  BY DEF CheckAccepts, TunnelInv, TunnelTypeOK, storeVars
<1>2. /\ stream'[s].pc = "ready" /\ stream'[s].hello = stream[s].hello
      /\ stream'[s].spent = stream[s].spent /\ stream'[s].target = q
  BY DEF CheckAccepts, TunnelInv, TunnelTypeOK
<1>3. StoreInv'
  BY StoreInvInductive DEF TunnelInv, CheckAccepts
<1>4. TunnelTypeOK'
  <2>1. q \in 0..MaxPort
    BY TargetInRange
  <2>2. stream' = [stream EXCEPT ![s].pc = "ready", ![s].target = q]
    BY DEF CheckAccepts
  <2> HIDE DEF q
  <2>3. QED
    BY <1>3, <2>1, <2>2 DEF StoreInv, TunnelInv, TunnelTypeOK
<1>5. \A x \in Stream : HandlerInv(x)'
  <2> SUFFICES ASSUME NEW x \in Stream PROVE HandlerInv(x)'
    OBVIOUS
  <2>1. HandlerInv(x)
    BY DEF TunnelInv
  <2>2. CASE x = s
    <3>1. GrantOf(s)' = GrantOf(s) /\ Permitted(stream[s].hello, GrantOf(s))
      BY <1>1, <1>2 DEF GrantOf, CheckAccepts
    <3>2. stream[s].pc = "check"
      BY DEF CheckAccepts, At
    <3>3. QED
      BY <1>1, <1>2, <2>1, <2>2, <3>1, <3>2 DEF HandlerInv, Verified, Admitted
  <2>3. CASE x # s
    BY <1>1, <2>1, <2>3, TableStepKeepsHandler DEF TunnelInv, CheckAccepts
  <2>4. QED
    BY <2>2, <2>3
<1>6. UsesAreStreams'
  <2>1. \A t : SpentBy(t)' = SpentBy(t)
    BY <1>1, <1>2 DEF SpentBy
  <2>2. QED
    BY <1>1, <2>1 DEF TunnelInv, UsesAreStreams
<1>7. QED
  BY <1>3, <1>4, <1>5, <1>6 DEF TunnelInv

(* Every step of a handler keeps TunnelInv, and to the table it is one of  *)
(* the table's own operations or nothing.                                  *)
LEMMA TunnelStepKeepsInv ==
    ASSUME TunnelInv, NEW s \in Stream, TunnelStep(s)
    PROVE  TunnelInv' /\ [StoreNext]_storeVars
<1>1. CASE HelloFails(s)
  BY <1>1, MoveKeepsInv DEF HelloFails
<1>2. CASE Ping(s)
  BY <1>2, MoveKeepsInv DEF Ping, At
<1>3. CASE \E h \in Hellos : ReceiveHello(s, h)
  BY <1>3, ReceiveHelloKeepsInv DEF ReceiveHello
<1>4. CASE VerifyAccepted(s)
  BY <1>4, VerifyAcceptedKeepsInv
<1>5. CASE VerifyRejected(s)
  BY <1>5, VerifyRejectedKeepsInv
<1>6. CASE CheckAccepts(s)
  BY <1>6, CheckAcceptsKeepsInv DEF CheckAccepts
<1>7. CASE CheckRejects(s)
  BY <1>7, MoveKeepsInv DEF CheckRejects
<1>8. CASE WriteReady(s)
  BY <1>8, MoveKeepsInv DEF WriteReady, At
<1>9. CASE WriteReadyFails(s)
  BY <1>9, MoveKeepsInv DEF WriteReadyFails
<1>10. CASE Dial(s)
  BY <1>10, MoveKeepsInv DEF Dial, At
<1>11. CASE DialFails(s)
  BY <1>11, MoveKeepsInv DEF DialFails
<1>12. CASE BridgeEnds(s)
  BY <1>12, MoveKeepsInv DEF BridgeEnds
<1>13. QED
  BY <1>1, <1>2, <1>3, <1>4, <1>5, <1>6, <1>7, <1>8, <1>9, <1>10, <1>11, <1>12
     DEF TunnelStep, Handshake

(* Issue and the passing of time, whoever makes them happen. *)
LEMMA TableStepKeepsInv ==
    ASSUME TunnelInv, UNCHANGED stream,
           \/ \E t \in Token, p \in Peer, q \in Port : Issue(t, p, q)
           \/ Tick
           \/ UNCHANGED storeVars
    PROVE  TunnelInv' /\ [StoreNext]_storeVars
<1>1. [StoreNext]_storeVars
  BY DEF StoreNext
<1>2. StoreInv'
  BY <1>1, StoreInvInductive DEF TunnelInv
<1>3. TunnelTypeOK'
  BY <1>2 DEF StoreInv, TunnelInv, TunnelTypeOK
<1>4. \A x \in Stream : HandlerInv(x)'
  BY <1>1, TableStepKeepsHandler DEF TunnelInv
<1>5. \A t : SpentBy(t)' = SpentBy(t)
  BY DEF SpentBy
<1>6. UsesAreStreams'
  <2>1. ASSUME NEW t \in Token, NEW p \in Peer, NEW q \in Port, Issue(t, p, q)
        PROVE  UsesAreStreams'
    <3>1. /\ t \notin DOMAIN issued /\ DOMAIN issued' = DOMAIN issued \cup {t}
          /\ issued'[t].uses = 0
          /\ \A u \in DOMAIN issued : issued'[u] = issued[u]
      BY <2>1 DEF Issue, Put
    <3>2. SpentBy(t) = {}
      BY <3>1 DEF SpentBy, TunnelInv, HandlerInv
    <3>3. QED
      BY <1>5, <3>1, <3>2, FS_EmptySet DEF TunnelInv, UsesAreStreams
  <2>2. CASE issued' = issued
    BY <1>5, <2>2 DEF TunnelInv, UsesAreStreams
  <2>3. QED
    BY <2>1, <2>2 DEF Tick, storeVars
<1>7. QED
  BY <1>1, <1>2, <1>3, <1>4, <1>6 DEF TunnelInv

(* One step of the tunnel host. *)
LEMMA TunnelInvInductive ==
    TunnelInv /\ [TunnelNext]_tunnelVars => TunnelInv' /\ [StoreNext]_storeVars
<1> SUFFICES ASSUME TunnelInv, [TunnelNext]_tunnelVars
             PROVE  TunnelInv' /\ [StoreNext]_storeVars
  OBVIOUS
<1>1. CASE \E s \in Stream : TunnelStep(s)
  BY <1>1, TunnelStepKeepsInv
<1>2. CASE UNCHANGED stream /\ \E t \in Token, p \in Peer, q \in Port : Issue(t, p, q)
  BY <1>2, TableStepKeepsInv
<1>3. CASE UNCHANGED stream /\ Tick
  BY <1>3, TableStepKeepsInv
<1>4. CASE UNCHANGED tunnelVars
  BY <1>4, TableStepKeepsInv DEF tunnelVars
<1>5. QED
  BY <1>1, <1>2, <1>3, <1>4 DEF TunnelNext

-----------------------------------------------------------------------------

(* What every handler knows about its token holds at all times. *)
THEOREM TunnelInvariant == TunnelSpec => []TunnelInv
BY TunnelInvInit, TunnelInvInductive, PTL DEF TunnelSpec

(* The tunnel handlers use the token table only through its operations, so *)
(* the table under any number of concurrent handlers is the table alone.   *)
THEOREM TunnelUsesTable == TunnelSpec => StoreSpec
<1>1. TunnelInit => StoreInit
  BY DEF TunnelInit
<1>2. QED
  BY <1>1, TunnelInvInductive, TunnelInvariant, PTL DEF TunnelSpec, StoreSpec

(* Handlers spend tokens as the ledger allows: within the time to live and *)
(* the use limit, whatever the interleaving of their handshakes.           *)
THEOREM TunnelImplementsLedger == TunnelSpec => ImplementsLedger
BY TunnelUsesTable, StoreImplementsLedger, PTL

(* What TunnelInv says of streams and tokens. *)
LEMMA TunnelInvImplies == TunnelInv => StreamsPerToken /\ ChannelsWithinGrant
<1>1. ASSUME TunnelInv PROVE StreamsPerToken
  <2> SUFFICES ASSUME NEW t \in Token
               PROVE  Cardinality(SpentBy(t)) <= SessionTokenMaxUses
    BY DEF StreamsPerToken
  <2>1. CASE t \in DOMAIN issued
    BY <1>1, <2>1 DEF TunnelInv, UsesAreStreams, StoreInv, UseBound
  <2>2. CASE t \notin DOMAIN issued
    <3>1. SpentBy(t) = {}
      BY <1>1, <2>2 DEF SpentBy, TunnelInv, HandlerInv
    <3>2. QED
      BY <3>1, FS_EmptySet, SessionStoreAssumption
  <2>3. QED
    BY <2>1, <2>2
<1>2. ASSUME TunnelInv PROVE ChannelsWithinGrant
  <2> SUFFICES ASSUME NEW s \in Stream, stream[s].pc \in {"dial", "bridged"}
               PROVE  /\ stream[s].hello.token \in DOMAIN issued
                      /\ GrantOf(s).PeerID = stream[s].hello.peer
                      /\ stream[s].hello.port \in {0, PortOf(GrantOf(s))}
                      /\ stream[s].target = targetAddrForPort(PortOf(GrantOf(s)))
                      /\ stream[s].hello.loopback
    BY DEF ChannelsWithinGrant
  <2>1. /\ Permitted(stream[s].hello, GrantOf(s)) /\ stream[s].hello \in Hellos
        /\ stream[s].hello.token \in DOMAIN issued
        /\ stream[s].target = targetAddrForPort(PortOf(GrantOf(s)))
    BY <1>2 DEF TunnelInv, HandlerInv, Verified, Admitted
  <2>2. stream[s].hello.port \in Nat
    BY <2>1, TunnelHostAssumption DEF Hellos
  <2>3. QED
    BY <2>1, <2>2 DEF Permitted
<1>3. QED
  BY <1>1, <1>2

(* No more streams get past VerifyGrant with one token than it has uses. *)
THEOREM StreamsPerTokenHolds == TunnelSpec => []StreamsPerToken
BY TunnelInvImplies, TunnelInvariant, PTL

(* A stream reaches the local service only for the peer and on the port of *)
(* its token's grant, also when the token has left the table since.        *)
THEOREM ChannelsWithinGrantHolds == TunnelSpec => []ChannelsWithinGrant
BY TunnelInvImplies, TunnelInvariant, PTL

-----------------------------------------------------------------------------
(* The pairing handlers and the tunnel handlers together. *)

HostInv == PairingInv /\ TunnelInv

(* A tunnel handler neither issues tokens nor moves the clock. *)
LEMMA TunnelStepIssuesNothing ==
    ASSUME TunnelInv, NEW s \in Stream, TunnelStep(s)
    PROVE  now' = now /\ DOMAIN issued' = DOMAIN issued
<1>1. CASE VerifyAccepted(s)
  BY <1>1 DEF VerifyAccepted, VerifyGrantOK
<1>2. CASE VerifyRejected(s)
  BY <1>2 DEF VerifyRejected, VerifyGrantRefused, storeVars
<1>3. CASE UNCHANGED storeVars
  BY <1>3 DEF storeVars
<1>4. QED
  BY <1>1, <1>2, <1>3 DEF TunnelStep, Handshake, HelloFails, Ping, ReceiveHello, CheckAccepts,
     CheckRejects, WriteReady, WriteReadyFails, Dial, DialFails, BridgeEnds

(* A step of a tunnel handler leaves the pairing side's invariant alone. *)
LEMMA TunnelStepKeepsHost ==
    ASSUME HostInv, NEW s \in Stream, TunnelStep(s), UNCHANGED pairingOwn
    PROVE  HostInv'
<1>1. TunnelInv' /\ [StoreNext]_storeVars
  BY TunnelStepKeepsInv DEF HostInv
<1>2. now' = now /\ DOMAIN issued' = DOMAIN issued
  BY TunnelStepIssuesNothing DEF HostInv
<1>3. LinkInv'
  BY <1>2, OtherStepsKeepLinkInv DEF HostInv, PairingInv, pairingOwn, linkVars, inviteVars,
     historyVars
<1>4. TokensStay
  BY <1>1, StepRevivesNothing DEF TokensStay, HostInv, PairingInv
<1>5. AccessInv'
  BY <1>2, <1>4, UnrelatedStep DEF HostInv, PairingInv, pairingOwn, inviteVars, historyVars
<1>6. QED
  BY <1>1, <1>3, <1>5 DEF HostInv, PairingInv, TunnelInv

(* A step of the pairing manager leaves the tunnel handlers' alone. *)
LEMMA PairingStepKeepsHost ==
    ASSUME HostInv, [Next]_vars, UNCHANGED stream
    PROVE  HostInv'
<1>1. AccessInv' /\ LinkInv'
  BY AccessInvStep, LinkInvInductive DEF HostInv, PairingInv
<1>2. TunnelInv'
  BY PairingStepOfTable, TableStepKeepsInv DEF HostInv, PairingInv
<1>3. QED
  BY <1>1, <1>2 DEF HostInv, PairingInv, TunnelInv

(* Both sides' invariants hold of the host as a whole. *)
THEOREM HostInvariant == HostSpec => []HostInv
<1>1. HostInit => HostInv
  BY AccessInvInit, LinkInvInit, StoreInvInit, TunnelInvInit
     DEF HostInit, HostInv, PairingInv, Init
<1>2. HostInv /\ [HostNext]_hostVars => HostInv'
  <2> SUFFICES ASSUME HostInv, [HostNext]_hostVars PROVE HostInv'
    OBVIOUS
  <2>1. CASE Next /\ UNCHANGED stream
    BY <2>1, PairingStepKeepsHost
  <2>2. CASE (\E s \in Stream : TunnelStep(s)) /\ UNCHANGED pairingOwn
    BY <2>2, TunnelStepKeepsHost
  <2>3. CASE UNCHANGED hostVars
    BY <2>3, PairingStepKeepsHost DEF hostVars
  <2>4. QED
    BY <2>1, <2>2, <2>3 DEF HostNext
<1>3. QED
  BY <1>1, <1>2, PTL DEF HostSpec

(* A stream that reaches a local service belongs to a peer that a pairing  *)
(* handler authenticated, and goes to the port of the link that handler    *)
(* consumed, or the peer had paired before.                                *)
THEOREM ChannelsAreAuthorisedHolds == HostSpec => []ChannelsAreAuthorised
<1>1. HostInv => ChannelsAreAuthorised
  <2> SUFFICES ASSUME HostInv, NEW s \in Stream, stream[s].pc \in {"dial", "bridged"}
               PROVE  \E c \in Conn :
                        /\ conn[c].token = stream[s].hello.token
                        /\ conn[c].who.NodeID = stream[s].hello.peer
                        /\ conn[c].mode = "trusted" =>
                             \E i \in InviteID : <<stream[s].hello.peer, i>> \in paired
                        /\ conn[c].mode # "trusted" =>
                             /\ accepts[conn[c].invite] >= 1
                             /\ stream[s].target = effectiveTargetPort(inv[conn[c].invite])
    BY DEF ChannelsAreAuthorised
  <2> DEFINE t == stream[s].hello.token
  <2>1. /\ t \in DOMAIN issued /\ issued[t].grant.PeerID = stream[s].hello.peer
        /\ stream[s].target = targetAddrForPort(PortOf(issued[t].grant))
    BY DEF HostInv, TunnelInv, HandlerInv, Verified, Admitted, Permitted, GrantOf
  <2> HIDE DEF t
  <2>2. PICK c \in Conn : conn[c].token = t
    BY <2>1 DEF HostInv, PairingInv, AccessInv, TokensHaveHandlers
  <2>3. t # NoID
    BY <2>1, PairingAssumption DEF HostInv, PairingInv, StoreInv, StoreTypeOK
  <2>4. /\ Accepted(c)
        /\ issued[t].grant = [PeerID |-> conn[c].who.NodeID, TargetPort |-> conn[c].port]
    BY <2>2, <2>3 DEF HostInv, PairingInv, AccessInv, ConnInv
  <2>5. conn[c].mode # "trusted" => stream[s].target = effectiveTargetPort(inv[conn[c].invite])
    <3> SUFFICES ASSUME conn[c].mode # "trusted"
                 PROVE  stream[s].target = effectiveTargetPort(inv[conn[c].invite])
      OBVIOUS
    <3> DEFINE p == effectiveTargetPort(inv[conn[c].invite])
    <3>1. conn[c].port = p /\ conn[c].invite \in DOMAIN inv
      BY <2>4 DEF Accepted
    <3>2. p \in 1..MaxPort
      BY <3>1, LinkPort DEF HostInv, PairingInv, AccessInv
    <3> HIDE DEF p
    <3>3. PortOf(issued[t].grant) = p
      BY <2>4, <3>1, <3>2, MaxPortIsNat DEF PortOf
    <3>4. targetAddrForPort(p) = p
      BY <3>2 DEF targetAddrForPort
    <3>5. QED
      BY <2>1, <3>3, <3>4 DEF p
  <2>6. QED
    BY <2>1, <2>2, <2>4, <2>5 DEF Accepted, HasPaired, t
<1>2. QED
  BY <1>1, HostInvariant, PTL

(* What the tunnel side promises on its own, it keeps with tokens coming   *)
(* from the pairing handlers: a token opens no more streams than it has    *)
(* uses, and a stream stays within its token's grant.                      *)
THEOREM HostKeepsTunnelPromises == HostSpec => [](StreamsPerToken /\ ChannelsWithinGrant)
<1>1. HostInv => StreamsPerToken /\ ChannelsWithinGrant
  BY TunnelInvImplies DEF HostInv
<1>2. QED
  BY <1>1, HostInvariant, PTL
=============================================================================
