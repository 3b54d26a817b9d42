----------------------------- MODULE DirectQuic -----------------------------
(***************************************************************************)
(* Opening a pairing stream over direct QUIC: DirectQUICBackend races all  *)
(* addresses of a host (openFirstPairingStream), each racer goes through   *)
(* the connection cache of quicnet.Backend.  An endpoint is a public key   *)
(* and an address; the host's certificate has its node key.  Applying      *)
(* network settings replaces the backend object while racers still hold    *)
(* the old one.  The connection that racer s dials is named by s.          *)
(***************************************************************************)
EXTENDS Lists

CONSTANTS Attempt,       \* connection attempts, 1..n, taken in order
          Addr,          \* UDP addresses
          Public,        \* those isPublicHostPort accepts
          Racer,         \* goroutines <<attempt, i>> for its i-th address
          Key,           \* public keys
          NodeKey,       \* the node key of the host
          None

ASSUME DirectQuicAssumption ==
    /\ Public \subseteq Addr /\ NodeKey \in Key /\ None \notin Addr \cup Key /\ None \notin Racer
    /\ Racer \subseteq Attempt \X (Nat \ {0})

VARIABLES cur,           \* the backend object that is registered
          conns,         \* object -> endpoint -> cached connection
          conn,          \* connection -> "free", "live", "dead"
          racer,         \* where a racer is, its address, its connection
          race           \* attempt -> backend object, key; is its context alive

Object == {"first", "second"}
Endpoint == Key \X Addr
NoRacer == [pc |-> "none", addr |-> None, on |-> None]
Finished == [pc |-> "over", addr |-> None, on |-> None]
Lost == [pc |-> "lost", addr |-> None, on |-> None]
Over == {"none", "won", "over", "lost"}

QuicInit == /\ cur = "first"
            /\ conns = [o \in Object |-> [e \in Endpoint |-> None]]
            /\ conn = [s \in Racer |-> "free"]
            /\ racer = [s \in Racer |-> NoRacer]
            /\ race = [t \in Attempt |-> [obj |-> None, key |-> None, alive |-> FALSE]]

(* The addresses without repetition, public ones first. *)
orderDirectQUICAddrs_Repeats(addrs) == addrs
orderDirectQUICAddrs(addrs) ==
    LET once == {i \in DOMAIN addrs : \A j \in 1..(i - 1) : addrs[j] # addrs[i]}
        public == {i \in once : addrs[i] \in Public}
    IN  Kept(addrs, public) \o Kept(addrs, once \ public)

(* openFirstPairingStream starts one goroutine per address; Racer is the  *)
(* bound on how many.                                                      *)
StartRace(t, key, addrs) ==
    /\ \A i \in 1..Len(addrs) : <<t, i>> \in Racer
    /\ race' = [race EXCEPT ![t] = [obj |-> cur, key |-> key, alive |-> TRUE]]
    /\ racer' = [s \in Racer |-> IF s[1] = t /\ s[2] <= Len(addrs)
                                 THEN [pc |-> "look", addr |-> addrs[s[2]], on |-> None]
                                 ELSE racer[s]]
    /\ UNCHANGED <<cur, conns, conn>>

EndpointOf_ByAddr(s) == <<NodeKey, racer[s].addr>>
EndpointOf(s) == <<race[s[1]].key, racer[s].addr>>
Cache(s) == conns[race[s[1]].obj][EndpointOf(s)]
Put(s, c) == conns' = [conns EXCEPT ![race[s[1]].obj][EndpointOf(s)] = c]
Alive(s) == race[s[1]].alive

(* cachedConn: under the lock; then, without it, dial and insert. *)
Look(s) ==
    /\ racer[s].pc = "look"
    /\ racer' = [racer EXCEPT ![s] =
                   [pc |-> IF Cache(s) = None THEN "dial" ELSE "open",
                    addr |-> racer[s].addr, on |-> Cache(s)]]
    /\ UNCHANGED <<cur, conns, conn, race>>
verifyPeer(s) == race[s[1]].key = NodeKey
DialConnects(s) ==
    /\ racer[s].pc = "dial" /\ verifyPeer(s)
    /\ conn' = [conn EXCEPT ![s] = "live"] /\ Put(s, s)
    /\ racer' = [racer EXCEPT ![s] = [pc |-> "open", addr |-> racer[s].addr, on |-> s]]
    /\ UNCHANGED <<cur, race>>
DialFails(s) == /\ racer[s].pc = "dial" /\ racer' = [racer EXCEPT ![s] = Finished]
                /\ UNCHANGED <<cur, conns, conn, race>>

(* openStream on the connection it got. *)
StreamOpens(s) ==
    /\ racer[s].pc = "open" /\ Alive(s) /\ conn[racer[s].on] = "live"
    /\ racer' = [racer EXCEPT ![s].pc = "ok"]
    /\ UNCHANGED <<cur, conns, conn, race>>
(* dropConn closes what is cached for the address by now. *)
dropConn_Forgets(s) == Put(s, None) /\ conn' = conn
dropConn(s) ==
    /\ Put(s, None)
    /\ conn' = [c \in Racer |-> IF c = Cache(s) THEN "dead" ELSE conn[c]]
StreamFails(s) ==
    /\ racer[s].pc = "open" /\ (~Alive(s) \/ conn[racer[s].on] = "dead")
    /\ racer' = [racer EXCEPT ![s] = Finished] /\ dropConn(s)
    /\ UNCHANGED <<cur, race>>
(* The stream opened, but writing its kind failed. *)
KindFails(s) ==
    /\ racer[s].pc = "open" /\ conn[racer[s].on] = "dead"
    /\ racer' = [racer EXCEPT ![s] = Finished]
    /\ UNCHANGED <<cur, conns, conn, race>>

(* A racer with a stream: the race takes it; or, once the context is over, *)
(* closes it; or it ends in the buffer of a race that reads no more.       *)
Take(s) ==
    /\ racer[s].pc = "ok" /\ racer' = [racer EXCEPT ![s].pc = "won"]
    /\ race' = [race EXCEPT ![s[1]].alive = FALSE]
    /\ UNCHANGED <<cur, conns, conn>>
CloseLate(s) ==
    /\ racer[s].pc = "ok" /\ ~Alive(s) /\ racer' = [racer EXCEPT ![s] = Finished]
    /\ UNCHANGED <<cur, conns, conn, race>>
Buffered(s) ==
    /\ racer[s].pc = "ok" /\ ~Alive(s) /\ racer' = [racer EXCEPT ![s] = Lost]
    /\ UNCHANGED <<cur, conns, conn, race>>
NoneLeft_Never(t) == FALSE
NoneLeft(t) == \A s \in Racer : s[1] = t => racer[s].pc \in Over
(* The stream the race returned is closed by its user. *)
CloseWinner(t) == /\ racer' = [s \in Racer |-> IF s[1] = t /\ racer[s].pc = "won"
                                               THEN Finished ELSE racer[s]]
                  /\ UNCHANGED <<cur, conns, conn, race>>
EndContext(t) == /\ race' = [race EXCEPT ![t].alive = FALSE]
                 /\ UNCHANGED <<cur, conns, conn, racer>>

(* ApplyNetworkConfig closes the backend, which closes what is cached, and *)
(* registers a new one.                                                    *)
Replace == /\ cur = "first" /\ cur' = "second"
           /\ conn' = [c \in Racer |-> IF \E e \in Endpoint : conns["first"][e] = c
                                       THEN "dead" ELSE conn[c]]
           /\ conns' = [conns EXCEPT !["first"] = [e \in Endpoint |-> None]]
           /\ UNCHANGED <<racer, race>>
(* The host is gone, or the connection was idle for too long. *)
InUse(c) == \/ \E o \in Object, e \in Endpoint : conns[o][e] = c
            \/ \E s \in Racer : racer[s].on = c
ConnDies(c) == /\ conn[c] = "live" /\ InUse(c) /\ conn' = [conn EXCEPT ![c] = "dead"]
               /\ UNCHANGED <<cur, conns, racer, race>>

RacerStep(s) == \/ Look(s) \/ DialConnects(s) \/ DialFails(s)
                \/ StreamOpens(s) \/ StreamFails(s) \/ KindFails(s) \/ CloseLate(s)
=============================================================================
