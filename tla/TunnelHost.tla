----------------------------- MODULE TunnelHost -----------------------------
(***************************************************************************)
(* The host side of the tunnel protocol (internal/tunnel): the handler of  *)
(* one tunnel stream reads a hello, spends a session token, checks what    *)
(* the token grants, answers Ready and connects the stream to the local    *)
(* service.  VerifyGrant is one step under the manager's mutex; the checks *)
(* and the answer that follow run without it.                              *)
(***************************************************************************)
EXTENDS SessionStore, FiniteSets

CONSTANTS Stream,           \* tunnel streams, one handler goroutine each
          HelloPort,        \* ports a hello may name; 0 names none
          TargetPort,       \* Manager.configuredTargetPort
          NoHello           \* before the hello is read

ASSUME TunnelHostAssumption ==
    /\ HelloPort \subseteq Nat /\ TargetPort \in 1..MaxPort
    /\ Port \subseteq Nat
    /\ IsFiniteSet(Stream)

VARIABLE stream

NewStream == [pc |-> "hello", hello |-> NoHello, spent |-> FALSE, target |-> 0]
TunnelInit == StoreInit /\ stream = [s \in Stream |-> NewStream]

At(s, pc) == stream[s].pc = pc
Move(s, pc) == stream' = [stream EXCEPT ![s].pc = pc]

(* A read error, another frame, an unsupported version or method, a node   *)
(* id that cannot be resolved.  There is no deadline on this read.         *)
HelloFails(s) == At(s, "hello") /\ Move(s, "closed") /\ UNCHANGED storeVars

(* A ping is answered on the stream, which the handler leaves open. *)
Ping(s) == At(s, "hello") /\ Move(s, "ponged") /\ UNCHANGED storeVars

ReceiveHello(s, h) ==
    /\ At(s, "hello")
    /\ stream' = [stream EXCEPT ![s].pc = "verify", ![s].hello = h]
    /\ UNCHANGED storeVars

(* A use of the token is gone from here on, whatever the checks say. *)
VerifyAccepted(s) ==
    /\ At(s, "verify")
    /\ VerifyGrantOK(stream[s].hello.token)
    /\ stream' = [stream EXCEPT ![s].pc = "check", ![s].spent = TRUE]

VerifyRejected(s) ==
    /\ At(s, "verify")
    /\ \/ VerifyGrantRefused(stream[s].hello.token)
       \/ stream[s].hello.token \notin DOMAIN tokens /\ UNCHANGED storeVars
    /\ Move(s, "closed")

(* The grant VerifyGrant returned, and the three checks against the hello. *)
GrantOf(s) == issued[stream[s].hello.token].grant
PortOf(g) == IF g.TargetPort <= 0 THEN TargetPort ELSE g.TargetPort
targetAddrForPort(q) == IF q \in 1..MaxPort THEN q ELSE TargetPort
Permitted_AnyPeer(h, g) ==
    /\ h.port > 0 => h.port = PortOf(g)
    /\ h.loopback
Permitted(h, g) ==
    /\ g.PeerID = h.peer
    /\ h.port > 0 => h.port = PortOf(g)
    /\ h.loopback

CheckAccepts(s) ==
    /\ At(s, "check") /\ Permitted(stream[s].hello, GrantOf(s))
    /\ stream' = [stream EXCEPT ![s].pc = "ready",
                                  ![s].target = targetAddrForPort(PortOf(GrantOf(s)))]
    /\ UNCHANGED storeVars

CheckRejects_Returns(s) ==
    /\ At(s, "check") /\ ~Permitted(stream[s].hello, GrantOf(s))
    /\ UNCHANGED <<stream, storeVars>>
CheckRejects(s) ==
    /\ At(s, "check") /\ ~Permitted(stream[s].hello, GrantOf(s))
    /\ Move(s, "closed") /\ UNCHANGED storeVars

(* Ready is written before the service is dialled. *)
WriteReady(s) == At(s, "ready") /\ Move(s, "dial") /\ UNCHANGED storeVars
WriteReadyFails(s) == At(s, "ready") /\ Move(s, "closed") /\ UNCHANGED storeVars
Dial(s) == At(s, "dial") /\ Move(s, "bridged") /\ UNCHANGED storeVars
DialFails(s) == At(s, "dial") /\ Move(s, "closed") /\ UNCHANGED storeVars
BridgeEnds(s) == At(s, "bridged") /\ Move(s, "closed") /\ UNCHANGED storeVars

Hellos == [peer : Peer, token : Token, port : HelloPort, loopback : BOOLEAN]

Handshake(s) == \/ VerifyAccepted(s) \/ VerifyRejected(s)
                \/ CheckAccepts(s) \/ CheckRejects(s)
                \/ WriteReady(s) \/ WriteReadyFails(s)
                \/ Dial(s) \/ DialFails(s)

TunnelStep(s) == \/ HelloFails(s) \/ Ping(s)
                 \/ \E h \in Hellos : ReceiveHello(s, h)
                 \/ Handshake(s)
                 \/ BridgeEnds(s)

tunnelVars == <<stream, storeVars>>

(* On its own, the tunnel host meets tokens issued to anyone at any time. *)
TunnelNext ==
    \/ \E s \in Stream : TunnelStep(s)
    \/ UNCHANGED stream /\ \E t \in Token, p \in Peer, q \in Port : Issue(t, p, q)
    \/ UNCHANGED stream /\ Tick

TunnelSpec == TunnelInit /\ [][TunnelNext]_tunnelVars

(* A handler that has its hello runs on: the mutex is held for table       *)
(* accesses only and the dial has a 5 s timeout.                           *)
FairTunnelSpec == TunnelSpec /\ \A s \in Stream : WF_tunnelVars(Handshake(s))

-----------------------------------------------------------------------------

(* Handlers are where the code can be, and dial only ports that TCP has.   *)
TunnelTypeOK ==
    /\ StoreTypeOK
    /\ stream \in [Stream -> [pc : {"hello", "ponged", "verify", "check", "ready", "dial",
                                   "bridged", "closed"},
                             hello : Hellos \cup {NoHello},
                             spent : BOOLEAN,
                             target : 0..MaxPort]]

SpentBy(t) == {s \in Stream : stream[s].spent /\ stream[s].hello.token = t}

(* "bounds how many app TCP streams one authenticated pairing/reauth       *)
(* response can open": counted at the streams, closed ones included.       *)
StreamsPerToken == \A t \in Token : Cardinality(SpentBy(t)) <= SessionTokenMaxUses

(* "The host verifies the requested loopback target and port": a stream    *)
(* reaches the local service only for the peer its token was issued to and *)
(* only on the port it was issued for, even when the table has meanwhile   *)
(* forgotten the token.                                                    *)
ChannelsWithinGrant ==
    \A s \in Stream : stream[s].pc \in {"dial", "bridged"} =>
        /\ stream[s].hello.token \in DOMAIN issued
        /\ GrantOf(s).PeerID = stream[s].hello.peer
        /\ stream[s].hello.port \in {0, PortOf(GrantOf(s))}
        /\ stream[s].target = targetAddrForPort(PortOf(GrantOf(s)))
        /\ stream[s].hello.loopback

(* A handler with a hello ends in a bridge or closes its stream. *)
HandshakeEnds ==
    \A s \in Stream : At(s, "verify") ~> (At(s, "bridged") \/ At(s, "closed"))
=============================================================================
