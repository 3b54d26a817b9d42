------------------------- MODULE ClientPairingProofs -------------------------
(***************************************************************************)
(* The client side of pairing over direct QUIC, for any number of attempts *)
(* and racers, any addresses and any identities of the host.               *)
(***************************************************************************)
EXTENDS ClientPairing, TrustedPeersProofs

RacerRecord == [pc : {"none", "look", "dial", "open", "ok", "won", "over", "lost"},
                addr : Addr \cup {None}, on : Racer \cup {None}]
RaceRecord == [obj : Object \cup {None}, key : Key \cup {None}, alive : BOOLEAN]
AttemptRecord == [kind : {None, "invite", "reauth"},
                  pc : {"idle", "open", "race", "write", "read", "done"},
                  snap : RemoteConfig \cup {None}, stream : {"none", "open", "closed"},
                  addrs : Seq(Addr)]
QuicTypes ==
    /\ cur \in Object /\ conns \in [Object -> [Endpoint -> Racer \cup {None}]]
    /\ conn \in [Racer -> {"free", "live", "dead"}] /\ racer \in [Racer -> RacerRecord]
    /\ race \in [Attempt -> RaceRecord]

(* A racer has an address while it runs, and a connection once it has got  *)
(* one; the key it asks for is then the node key.                          *)
Using == {"open", "ok", "won"}
RacerHolds(s) ==
    /\ racer[s].addr # None <=> racer[s].pc \in {"look", "dial"} \cup Using
    /\ racer[s].addr # None => race[s[1]].obj \in Object /\ race[s[1]].key \in Key
    /\ racer[s].on # None <=> racer[s].pc \in Using
    /\ racer[s].on # None => verifyPeer(s)
    /\ racer[s].pc \in {"none", "look", "dial"} => conn[s] = "free"
RacersHold == \A s \in Racer : RacerHolds(s)

(* The racers of a race have different addresses. *)
AddrsApart ==
    \A s, u \in Racer :
        s # u /\ s[1] = u[1] /\ racer[s].addr # None => racer[s].addr # racer[u].addr

(* A connection is dialled once, to one endpoint: the cache holds it only  *)
(* there, and whoever uses it asked for that endpoint.                     *)
CacheHolds ==
    /\ \A o \in Object, e \in Endpoint : conns[o][e] # None =>
         conn[conns[o][e]] # "free" /\ e[1] = NodeKey
    /\ \A o, p \in Object, e, f \in Endpoint :
         conns[o][e] # None /\ conns[o][e] = conns[p][f] => e = f
UsersAgree ==
    \A s \in Racer : racer[s].on # None =>
        /\ conn[racer[s].on] # "free"
        /\ \A o \in Object, e \in Endpoint : conns[o][e] = racer[s].on => e = EndpointOf(s)

QuicInv == QuicTypes /\ RacersHold /\ AddrsApart /\ CacheHolds /\ UsersAgree

(* An attempt that has not opened anything has no racers. *)
AttemptsHold ==
    /\ remote \in RemoteConfig \cup {None} /\ att \in [Attempt -> AttemptRecord]
    /\ StreamIsClosed
    /\ \A s \in Racer : att[s[1]].pc \in {"idle", "open"} => racer[s].pc = "none"

ClientInv == QuicInv /\ AttemptsHold

-----------------------------------------------------------------------------

LEMMA RacersArePairs ==
    /\ \A s \in Racer : s[1] \in Attempt /\ s[2] \in Nat \ {0}
    /\ \A s, u \in Racer : s # u /\ s[1] = u[1] => s[2] # u[2]
BY DirectQuicAssumption

(* orderDirectQUICAddrs lists no address twice. *)
LEMMA OrderedApart ==
    ASSUME NEW addrs \in Seq(Addr)
    PROVE  LET out == orderDirectQUICAddrs(addrs)
           IN  out \in Seq(Addr) /\ \A i, j \in DOMAIN out : i # j => out[i] # out[j]
<1> DEFINE once == {i \in DOMAIN addrs : \A j \in 1..(i - 1) : addrs[j] # addrs[i]}
<1> DEFINE public == {i \in once : addrs[i] \in Public}
<1> DEFINE a == Kept(addrs, public)
<1> DEFINE private == once \ public
<1> DEFINE b == Kept(addrs, private)
<1>1. once \in SUBSET DOMAIN addrs /\ public \in SUBSET once /\ private \in SUBSET once
  OBVIOUS
<1>2. \A i, j \in once : i # j => addrs[i] # addrs[j]
  OBVIOUS
<1>3. \A i \in public : addrs[i] \in Public
  OBVIOUS
<1>4. \A i \in private : addrs[i] \notin Public
  OBVIOUS
<1>5. orderDirectQUICAddrs(addrs) = a \o b
  BY DEF orderDirectQUICAddrs
<1> HIDE DEF once, public, private
<1>6. /\ a \in Seq(Addr)
      /\ \A n \in DOMAIN a : KeptAt(public, n) \in public /\ a[n] = addrs[KeptAt(public, n)]
      /\ \A n, m \in DOMAIN a : n # m => KeptAt(public, n) # KeptAt(public, m)
  BY <1>1, KeptEntries
<1>7. /\ b \in Seq(Addr)
      /\ \A n \in DOMAIN b : KeptAt(private, n) \in private /\ b[n] = addrs[KeptAt(private, n)]
      /\ \A n, m \in DOMAIN b : n # m => KeptAt(private, n) # KeptAt(private, m)
  BY <1>1, KeptEntries
<1> HIDE DEF a, b
<1>8. \A i, j \in DOMAIN a : i # j => a[i] # a[j]
  BY <1>1, <1>2, <1>6
<1>9. \A i, j \in DOMAIN b : i # j => b[i] # b[j]
  BY <1>1, <1>2, <1>7
<1>10. \A i \in DOMAIN a, j \in DOMAIN b : a[i] # b[j]
  BY <1>3, <1>4, <1>6, <1>7
<1>11. PICK out : out = a \o b
  BY Zenon
<1>12. /\ out \in Seq(Addr) /\ Len(out) = Len(a) + Len(b)
       /\ \A i \in 1..Len(a) : out[i] = a[i]
       /\ \A i \in (Len(a) + 1)..Len(out) : out[i] = b[i - Len(a)]
  BY <1>6, <1>7, <1>11
<1>13. Len(a) \in Nat /\ Len(b) \in Nat /\ DOMAIN a = 1..Len(a) /\ DOMAIN b = 1..Len(b)
       /\ DOMAIN out = 1..Len(out)
  BY <1>6, <1>7, <1>12
<1>14. ASSUME NEW i \in DOMAIN out, NEW j \in DOMAIN out, i # j PROVE out[i] # out[j]
  <2>1. CASE i <= Len(a) /\ j <= Len(a)
    BY <1>8, <1>12, <1>13, <1>14, <2>1
  <2>2. CASE i > Len(a) /\ j > Len(a)
    <3>1. i - Len(a) \in DOMAIN b /\ j - Len(a) \in DOMAIN b /\ i - Len(a) # j - Len(a)
      BY <1>12, <1>13, <1>14, <2>2
    <3>2. i \in (Len(a) + 1)..Len(out) /\ j \in (Len(a) + 1)..Len(out)
      BY <1>12, <1>13, <2>2
    <3>3. out[i] = b[i - Len(a)] /\ out[j] = b[j - Len(a)]
      BY <1>12, <3>2
    <3>4. QED
      BY <1>9, <3>1, <3>3
  <2>3. CASE i <= Len(a) /\ j > Len(a)
    <3>1. i \in DOMAIN a /\ j - Len(a) \in DOMAIN b
      BY <1>12, <1>13, <2>3
    <3>2. out[i] = a[i] /\ out[j] = b[j - Len(a)]
      BY <1>12, <1>13, <2>3
    <3>3. QED
      BY <1>10, <3>1, <3>2
  <2>4. CASE i > Len(a) /\ j <= Len(a)
    <3>1. j \in DOMAIN a /\ i - Len(a) \in DOMAIN b
      BY <1>12, <1>13, <2>4
    <3>2. out[j] = a[j] /\ out[i] = b[i - Len(a)]
      BY <1>12, <1>13, <2>4
    <3>3. QED
      BY <1>10, <3>1, <3>2
  <2>5. QED
    BY <1>12, <1>13, <2>1, <2>2, <2>3, <2>4
<1>15. QED
  BY <1>5, <1>11, <1>12, <1>14

-----------------------------------------------------------------------------
(* Most steps only let go: connections are closed, the cache forgets       *)
(* closed ones, and racers go on with what they have or end.               *)

CacheShrinks ==
    \A o \in Object, e \in Endpoint :
        \/ conns'[o][e] = conns[o][e]
        \/ conns'[o][e] = None /\ (conns[o][e] # None => conn'[conns[o][e]] = "dead")
ConnsDie == \A c \in Racer : conn'[c] = conn[c] \/ (conn[c] # "free" /\ conn'[c] = "dead")
GoesOn(s) ==
    \/ racer'[s] = racer[s]
    \/ /\ racer[s].pc \in Using /\ racer'[s].pc \in Using
       /\ racer'[s].addr = racer[s].addr /\ racer'[s].on = racer[s].on
    \/ /\ racer[s].pc # "none" /\ racer'[s].pc \in {"over", "lost"}
       /\ racer'[s].addr = None /\ racer'[s].on = None
LetsGo ==
    /\ QuicTypes' /\ CacheShrinks /\ ConnsDie /\ \A s \in Racer : GoesOn(s)
    /\ \A t \in Attempt : race'[t].obj = race[t].obj /\ race'[t].key = race[t].key

LEMMA LettingGoKeeps ==
    ASSUME QuicInv, LetsGo
    PROVE  QuicInv'
<1>1. \A s \in Racer : s[1] \in Attempt
  BY RacersArePairs
<1>2. \A s \in Racer : racer'[s].on \in {racer[s].on, None} /\ racer'[s].addr \in {racer[s].addr, None}
  BY DEF LetsGo, GoesOn
<1>3. \A s \in Racer : racer'[s].on # None =>
        racer'[s].on = racer[s].on /\ racer'[s].addr = racer[s].addr
  BY <1>2 DEF LetsGo, GoesOn
<1>4. \A s \in Racer : racer'[s].on # None => EndpointOf(s)' = EndpointOf(s)
  BY <1>1, <1>3 DEF LetsGo, EndpointOf
<1>5. \A o \in Object, e \in Endpoint : conns'[o][e] # None => conns'[o][e] = conns[o][e]
  BY DEF LetsGo, CacheShrinks
<1>6. \A o \in Object, e \in Endpoint : conns[o][e] # None => conns[o][e] \in Racer
  BY DEF QuicInv, QuicTypes
<1>7. \A s \in Racer : racer[s].on # None => racer[s].on \in Racer
  BY DEF QuicInv, QuicTypes, RacerRecord
<1>8. \A c \in Racer : conn[c] # "free" => conn'[c] # "free"
  BY DEF LetsGo, ConnsDie
<1>9. RacersHold'
  <2> SUFFICES ASSUME NEW s \in Racer PROVE RacerHolds(s)'
    BY DEF RacersHold
  <2>1. RacerHolds(s)
    BY DEF QuicInv, RacersHold
  <2>2. race'[s[1]].obj = race[s[1]].obj /\ race'[s[1]].key = race[s[1]].key
    BY <1>1 DEF LetsGo
  <2>3. conn'[s] = conn[s] \/ (conn[s] # "free" /\ conn'[s] = "dead")
    BY DEF LetsGo, ConnsDie
  <2>4. CASE racer'[s] = racer[s]
    BY <2>1, <2>2, <2>3, <2>4 DEF RacerHolds, verifyPeer
  <2>5. CASE racer[s].pc \in Using /\ racer'[s].pc \in Using
             /\ racer'[s].addr = racer[s].addr /\ racer'[s].on = racer[s].on
    BY <2>1, <2>2, <2>5 DEF RacerHolds, verifyPeer, Using
  <2>6. CASE racer'[s].pc \in {"over", "lost"} /\ racer'[s].addr = None /\ racer'[s].on = None
    BY <2>6 DEF RacerHolds, Using
  <2>7. QED
    BY <2>4, <2>5, <2>6 DEF LetsGo, GoesOn
<1>10. AddrsApart'
  BY <1>2 DEF QuicInv, AddrsApart
<1>11. CacheHolds'
  BY <1>5, <1>6, <1>8 DEF QuicInv, CacheHolds
<1>12. UsersAgree'
  <2> SUFFICES ASSUME NEW s \in Racer, racer'[s].on # None
               PROVE  /\ conn'[racer'[s].on] # "free"
                      /\ \A o \in Object, e \in Endpoint :
                            conns'[o][e] = racer'[s].on => e = EndpointOf(s)'
    BY DEF UsersAgree
  <2>1. racer'[s].on = racer[s].on /\ racer[s].on \in Racer /\ EndpointOf(s)' = EndpointOf(s)
    BY <1>3, <1>4, <1>7
  <2>2. /\ conn[racer[s].on] # "free"
        /\ \A o \in Object, e \in Endpoint : conns[o][e] = racer[s].on => e = EndpointOf(s)
    BY <2>1 DEF QuicInv, UsersAgree
  <2>3. QED
    BY <1>5, <1>8, <2>1, <2>2
<1>13. QED
  BY <1>9, <1>10, <1>11, <1>12 DEF QuicInv, LetsGo

(* A racer of a race that may use the cache: the entry it looks at. *)
LEMMA CacheEntry ==
    ASSUME QuicInv, NEW s \in Racer, racer[s].pc \in {"look", "dial", "open"}
    PROVE  /\ race[s[1]].obj \in Object /\ EndpointOf(s) \in Endpoint
           /\ Cache(s) \in Racer \cup {None}
<1>1. racer[s].addr \in Addr /\ race[s[1]].obj \in Object /\ race[s[1]].key \in Key
  BY DEF QuicInv, QuicTypes, RacerRecord, RacersHold, RacerHolds, Using
<1>2. EndpointOf(s) \in Endpoint
  BY <1>1 DEF EndpointOf, Endpoint
<1>3. QED
  BY <1>1, <1>2 DEF Cache, QuicInv, QuicTypes

LEMMA PutEntry ==
    ASSUME QuicInv, NEW s \in Racer, racer[s].pc \in {"look", "dial", "open"},
           NEW c \in Racer \cup {None}, Put(s, c)
    PROVE  /\ conns' \in [Object -> [Endpoint -> Racer \cup {None}]]
           /\ conns'[race[s[1]].obj][EndpointOf(s)] = c
           /\ \A o \in Object, e \in Endpoint :
                o # race[s[1]].obj \/ e # EndpointOf(s) => conns'[o][e] = conns[o][e]
<1>1. PICK q : q = race[s[1]].obj
  OBVIOUS
<1>2. PICK f : f = EndpointOf(s)
  OBVIOUS
<1>3. q \in Object /\ f \in Endpoint
  BY <1>1, <1>2, CacheEntry
<1>4. conns \in [Object -> [Endpoint -> Racer \cup {None}]]
  BY DEF QuicInv, QuicTypes
<1>5. conns' = [conns EXCEPT ![q][f] = c]
  BY <1>1, <1>2 DEF Put
<1>6. /\ conns' \in [Object -> [Endpoint -> Racer \cup {None}]]
      /\ conns'[q][f] = c
      /\ \A o \in Object, e \in Endpoint : o # q \/ e # f => conns'[o][e] = conns[o][e]
  BY <1>3, <1>4, <1>5
<1>7. QED
  BY <1>1, <1>2, <1>6

LEMMA LookKeeps ==
    ASSUME QuicInv, NEW s \in Racer, Look(s)
    PROVE  QuicInv'
<1>1. PICK c : c = Cache(s)
  OBVIOUS
<1>2. PICK a : a = racer[s].addr
  OBVIOUS
<1>3. racer[s].pc = "look" /\ c \in Racer \cup {None} /\ EndpointOf(s) \in Endpoint
      /\ race[s[1]].obj \in Object
  BY <1>1, CacheEntry DEF Look
<1>4. /\ RacerHolds(s) /\ racer \in [Racer -> RacerRecord] /\ a \in Addr
      /\ conn[s] = "free" /\ race[s[1]].key \in Key
  BY <1>2, <1>3 DEF QuicInv, QuicTypes, RacerRecord, RacersHold, RacerHolds, Using
<1>5. PICK x : x = [pc |-> IF c = None THEN "dial" ELSE "open", addr |-> a, on |-> c]
  BY Zenon
<1>6. /\ x \in RacerRecord /\ x.addr = a /\ x.on = c
      /\ x.pc = IF c = None THEN "dial" ELSE "open"
  BY <1>3, <1>4, <1>5 DEF RacerRecord
<1>7. racer' = [racer EXCEPT ![s] = x] /\ UNCHANGED <<cur, conns, conn, race>>
  BY <1>1, <1>2, <1>5 DEF Look
<1>8. /\ racer' \in [Racer -> RacerRecord] /\ racer'[s] = x
      /\ \A u \in Racer : u # s => racer'[u] = racer[u]
  BY <1>4, <1>6, <1>7
<1>9. \A u \in Racer : racer'[u].addr = racer[u].addr /\ EndpointOf(u)' = EndpointOf(u)
  BY <1>2, <1>6, <1>7, <1>8 DEF EndpointOf
<1>10. c # None => /\ conn[c] # "free" /\ race[s[1]].key = NodeKey
                   /\ \A o \in Object, e \in Endpoint : conns[o][e] = c => e = EndpointOf(s)
  BY <1>1, <1>3 DEF Cache, QuicInv, CacheHolds, EndpointOf
<1>11. QuicTypes'
  BY <1>7, <1>8 DEF QuicInv, QuicTypes
<1>12. RacersHold'
  <2>1. RacerHolds(s)'
    <3>1. /\ racer'[s].addr = a /\ racer'[s].on = c /\ a # None
          /\ racer'[s].pc = IF c = None THEN "dial" ELSE "open"
          /\ conn'[s] = "free" /\ race' = race
      BY <1>4, <1>6, <1>7, <1>8, DirectQuicAssumption
    <3>2. CASE c = None
      BY <1>3, <1>4, <3>1, <3>2 DEF RacerHolds, Using
    <3>3. CASE c # None
      BY <1>3, <1>4, <1>10, <3>1, <3>3 DEF RacerHolds, Using, verifyPeer
    <3>4. QED
      BY <3>2, <3>3
  <2>2. \A u \in Racer : u # s => RacerHolds(u)'
    BY <1>7, <1>8 DEF QuicInv, RacersHold, RacerHolds, verifyPeer
  <2>3. QED
    BY <2>1, <2>2 DEF RacersHold
<1>13. AddrsApart'
  BY <1>9 DEF QuicInv, AddrsApart
<1>14. CacheHolds'
  BY <1>7 DEF QuicInv, CacheHolds
<1>15. UsersAgree'
  BY <1>6, <1>7, <1>8, <1>9, <1>10 DEF QuicInv, UsersAgree
<1>16. QED
  BY <1>11, <1>12, <1>13, <1>14, <1>15 DEF QuicInv

LEMMA DialConnectsKeeps ==
    ASSUME QuicInv, NEW s \in Racer, DialConnects(s)
    PROVE  QuicInv'
<1>1. PICK a : a = racer[s].addr
  OBVIOUS
<1>2. PICK q : q = race[s[1]].obj
  OBVIOUS
<1>3. PICK f : f = EndpointOf(s)
  OBVIOUS
<1>4. /\ racer[s].pc = "dial" /\ race[s[1]].key = NodeKey
      /\ conn' = [conn EXCEPT ![s] = "live"] /\ Put(s, s) /\ cur' = cur /\ race' = race
  BY DEF DialConnects, verifyPeer
<1>5. /\ racer \in [Racer -> RacerRecord] /\ a \in Addr /\ conn[s] = "free"
      /\ conn \in [Racer -> {"free", "live", "dead"}]
      /\ race[s[1]].obj \in Object /\ race[s[1]].key \in Key
  BY <1>1, <1>4 DEF QuicInv, QuicTypes, RacerRecord, RacersHold, RacerHolds, Using
<1>6. PICK x : x = [pc |-> "open", addr |-> a, on |-> s]
  BY Zenon
<1>7. x \in RacerRecord /\ x.addr = a /\ x.on = s /\ x.pc = "open"
  BY <1>5, <1>6 DEF RacerRecord
<1>8. racer' = [racer EXCEPT ![s] = x]
  BY <1>1, <1>6 DEF DialConnects
<1>9. /\ racer' \in [Racer -> RacerRecord] /\ racer'[s] = x
      /\ \A u \in Racer : u # s => racer'[u] = racer[u]
  BY <1>5, <1>7, <1>8
<1>10. /\ conn' \in [Racer -> {"free", "live", "dead"}] /\ conn'[s] = "live"
       /\ \A c \in Racer : c # s => conn'[c] = conn[c]
  BY <1>4, <1>5
<1>11. q \in Object /\ f \in Endpoint /\ f[1] = NodeKey
  BY <1>2, <1>3, <1>4, CacheEntry DEF EndpointOf
<1>12. /\ conns' \in [Object -> [Endpoint -> Racer \cup {None}]] /\ conns'[q][f] = s
       /\ \A o \in Object, e \in Endpoint : o # q \/ e # f => conns'[o][e] = conns[o][e]
  BY <1>2, <1>3, <1>4, PutEntry
<1>13. \A o \in Object, e \in Endpoint : conns[o][e] # None =>
         conns[o][e] \in Racer /\ conn[conns[o][e]] # "free" /\ e[1] = NodeKey /\ conns[o][e] # s
  BY <1>5 DEF QuicInv, QuicTypes, CacheHolds
<1>14. \A u \in Racer : racer[u].on # None =>
         racer[u].on \in Racer /\ conn[racer[u].on] # "free" /\ racer[u].on # s
  BY <1>5 DEF QuicInv, QuicTypes, RacerRecord, UsersAgree
<1>15. \A u \in Racer : racer'[u].addr = racer[u].addr /\ EndpointOf(u)' = EndpointOf(u)
  BY <1>1, <1>4, <1>7, <1>9 DEF EndpointOf
<1>16. s # None
  BY DirectQuicAssumption
<1>17. QuicTypes'
  BY <1>4, <1>9, <1>10, <1>12 DEF QuicInv, QuicTypes
<1>18. RacersHold'
  <2>1. RacerHolds(s)'
    BY <1>4, <1>5, <1>7, <1>9, <1>16, DirectQuicAssumption DEF RacerHolds, Using, verifyPeer
  <2>2. \A u \in Racer : u # s => RacerHolds(u)'
    BY <1>4, <1>9, <1>10 DEF QuicInv, RacersHold, RacerHolds, verifyPeer
  <2>3. QED
    BY <2>1, <2>2 DEF RacersHold
<1>19. AddrsApart'
  BY <1>15 DEF QuicInv, AddrsApart
<1>20. CacheHolds'
  <2>1. \A o \in Object, e \in Endpoint : conns'[o][e] # None =>
          conn'[conns'[o][e]] # "free" /\ e[1] = NodeKey
    BY <1>10, <1>11, <1>12, <1>13
  <2>2. \A o \in Object, e \in Endpoint :
          conns'[o][e] = s => e = f
    BY <1>12, <1>13, <1>16
  <2>3. \A o \in Object, e \in Endpoint :
          conns'[o][e] # s => conns'[o][e] = conns[o][e]
    BY <1>12
  <2>4. \A o, p \in Object, e, g \in Endpoint :
          conns'[o][e] # None /\ conns'[o][e] = conns'[p][g] => e = g
    BY <2>2, <2>3 DEF QuicInv, CacheHolds
  <2>5. QED
    BY <2>1, <2>4 DEF CacheHolds
<1>21. UsersAgree'
  <2> SUFFICES ASSUME NEW u \in Racer, racer'[u].on # None
               PROVE  /\ conn'[racer'[u].on] # "free"
                      /\ \A o \in Object, e \in Endpoint :
                            conns'[o][e] = racer'[u].on => e = EndpointOf(u)'
    BY DEF UsersAgree
  <2>1. CASE u = s
    BY <1>3, <1>7, <1>9, <1>10, <1>12, <1>13, <1>15, <1>16, <2>1
  <2>2. CASE u # s
    <3>1. racer'[u].on = racer[u].on /\ racer[u].on # s /\ racer[u].on \in Racer
      BY <1>9, <1>14, <2>2
    <3>2. \A o \in Object, e \in Endpoint : conns[o][e] = racer[u].on => e = EndpointOf(u)
      BY <3>1 DEF QuicInv, UsersAgree
    <3>3. \A o \in Object, e \in Endpoint :
            conns'[o][e] = racer[u].on => conns[o][e] = racer[u].on
      BY <1>12, <3>1
    <3>4. QED
      BY <1>10, <1>14, <1>15, <3>1, <3>2, <3>3
  <2>3. QED
    BY <2>1, <2>2
<1>22. QED
  BY <1>17, <1>18, <1>19, <1>20, <1>21 DEF QuicInv

(* A race starts with racers that have not run, one per address. *)
LEMMA StartRaceKeeps ==
    ASSUME QuicInv, NEW t \in Attempt, NEW key \in Key, NEW addrs \in Seq(Addr),
           \A i, j \in DOMAIN addrs : i # j => addrs[i] # addrs[j],
           \A s \in Racer : s[1] = t => racer[s].pc = "none",
           StartRace(t, key, addrs)
    PROVE  QuicInv'
<1>1. /\ race' = [race EXCEPT ![t] = [obj |-> cur, key |-> key, alive |-> TRUE]]
      /\ racer' = [s \in Racer |-> IF s[1] = t /\ s[2] <= Len(addrs)
                                   THEN [pc |-> "look", addr |-> addrs[s[2]], on |-> None]
                                   ELSE racer[s]]
      /\ UNCHANGED <<cur, conns, conn>>
  BY DEF StartRace
<1>2. /\ racer \in [Racer -> RacerRecord] /\ race \in [Attempt -> RaceRecord]
      /\ cur \in Object
  BY DEF QuicInv, QuicTypes
<1>3. /\ race' \in [Attempt -> RaceRecord]
      /\ race'[t].obj = cur /\ race'[t].key = key
      /\ \A u \in Attempt : u # t => race'[u] = race[u]
  <2>1. [obj |-> cur, key |-> key, alive |-> TRUE] \in RaceRecord
    BY <1>2 DEF RaceRecord
  <2>2. QED
    BY <1>1, <1>2, <2>1
<1>4. \A s \in Racer : s[1] = t /\ s[2] <= Len(addrs) => s[2] \in DOMAIN addrs /\ addrs[s[2]] \in Addr
  BY RacersArePairs
<1>5. \A s \in Racer : s[1] = t /\ s[2] <= Len(addrs) =>
        /\ racer'[s].pc = "look" /\ racer'[s].addr = addrs[s[2]] /\ racer'[s].on = None
        /\ racer'[s] \in RacerRecord
  BY <1>1, <1>4 DEF RacerRecord
<1>6. \A s \in Racer : ~(s[1] = t /\ s[2] <= Len(addrs)) => racer'[s] = racer[s]
  BY <1>1
<1>7. racer' \in [Racer -> RacerRecord]
  BY <1>1, <1>2, <1>5, <1>6
<1>8. \A s \in Racer : s[1] = t => racer[s].addr = None /\ racer[s].on = None /\ conn[s] = "free"
  BY DEF QuicInv, RacersHold, RacerHolds, Using
<1>9. \A s \in Racer : racer'[s].on = racer[s].on
  BY <1>5, <1>6, <1>8
<1>10. \A s \in Racer : racer'[s].on # None => EndpointOf(s)' = EndpointOf(s)
  <2> SUFFICES ASSUME NEW s \in Racer, racer'[s].on # None PROVE EndpointOf(s)' = EndpointOf(s)
    OBVIOUS
  <2>1. s[1] # t /\ s[1] \in Attempt
    BY <1>8, <1>9, RacersArePairs
  <2>2. QED
    BY <1>3, <1>6, <2>1 DEF EndpointOf
<1>11. QuicTypes'
  BY <1>1, <1>3, <1>7 DEF QuicInv, QuicTypes
<1>12. RacersHold'
  <2> SUFFICES ASSUME NEW s \in Racer PROVE RacerHolds(s)'
    BY DEF RacersHold
  <2>1. RacerHolds(s)
    BY DEF QuicInv, RacersHold
  <2>2. CASE s[1] = t /\ s[2] <= Len(addrs)
    BY <1>1, <1>2, <1>3, <1>4, <1>5, <1>8, <2>2, DirectQuicAssumption DEF RacerHolds, Using
  <2>3. CASE s[1] = t /\ ~(s[2] <= Len(addrs))
    BY <1>1, <1>6, <1>8, <2>1, <2>3 DEF RacerHolds
  <2>4. CASE s[1] # t
    <3>1. race'[s[1]] = race[s[1]] /\ racer'[s] = racer[s] /\ conn' = conn
      BY <1>1, <1>3, <1>6, <2>4, RacersArePairs
    <3>2. QED
      BY <2>1, <3>1 DEF RacerHolds, verifyPeer
  <2>5. QED
    BY <2>2, <2>3, <2>4
<1>13. AddrsApart'
  <2> SUFFICES ASSUME NEW s \in Racer, NEW u \in Racer, s # u, s[1] = u[1], racer'[s].addr # None
               PROVE  racer'[s].addr # racer'[u].addr
    BY DEF AddrsApart
  <2>1. CASE s[1] # t
    BY <1>6, <2>1 DEF QuicInv, AddrsApart
  <2>2. CASE s[1] = t
    <3>1. s[2] <= Len(addrs) /\ s[2] # u[2] /\ u[1] = t
      BY <1>6, <1>8, <2>2, RacersArePairs, Zenon
    <3>2. CASE u[2] <= Len(addrs)
      BY <1>4, <1>5, <2>2, <3>1, <3>2
    <3>3. CASE ~(u[2] <= Len(addrs))
      BY <1>6, <1>8, <3>1, <3>3
    <3>4. QED
      BY <3>2, <3>3
  <2>3. QED
    BY <2>1, <2>2
<1>14. CacheHolds'
  BY <1>1 DEF QuicInv, CacheHolds
<1>15. UsersAgree'
  BY <1>1, <1>9, <1>10 DEF QuicInv, UsersAgree
<1>16. QED
  BY <1>11, <1>12, <1>13, <1>14, <1>15 DEF QuicInv

-----------------------------------------------------------------------------
(* The steps that let go *)

LEMMA NothingHappens ==
    ASSUME QuicInv, UNCHANGED <<cur, conns, conn, racer, race>>
    PROVE  LetsGo
BY DEF QuicInv, QuicTypes, LetsGo, CacheShrinks, ConnsDie, GoesOn

(* One racer goes on or ends; its race may end with it. *)
LEMMA RacerMoves ==
    ASSUME QuicInv, NEW s \in Racer, NEW x \in RacerRecord,
           racer' = [racer EXCEPT ![s] = x],
           \/ /\ racer[s].pc \in Using /\ x.pc \in Using
              /\ x.addr = racer[s].addr /\ x.on = racer[s].on
           \/ /\ racer[s].pc # "none" /\ x.pc \in {"over", "lost"}
              /\ x.addr = None /\ x.on = None,
           race' \in [Attempt -> RaceRecord],
           \A t \in Attempt : race'[t].obj = race[t].obj /\ race'[t].key = race[t].key,
           cur' = cur, conns' \in [Object -> [Endpoint -> Racer \cup {None}]],
           conn' \in [Racer -> {"free", "live", "dead"}], CacheShrinks, ConnsDie
    PROVE  LetsGo
<1>1. racer \in [Racer -> RacerRecord]
  BY DEF QuicInv, QuicTypes
<1>2. /\ racer' \in [Racer -> RacerRecord] /\ racer'[s] = x
      /\ \A u \in Racer : u # s => racer'[u] = racer[u]
  BY <1>1
<1>3. \A u \in Racer : GoesOn(u)
  BY <1>2 DEF GoesOn
<1>4. QuicTypes'
  BY <1>2 DEF QuicInv, QuicTypes
<1>5. QED
  BY <1>3, <1>4 DEF LetsGo

LEMMA RacerEnds ==
    ASSUME QuicInv, NEW s \in Racer, racer[s].pc # "none", NEW x \in {Finished, Lost},
           racer' = [racer EXCEPT ![s] = x], UNCHANGED <<cur, conns, conn, race>>
    PROVE  LetsGo
<1>1. x \in RacerRecord /\ x.pc \in {"over", "lost"} /\ x.addr = None /\ x.on = None
  BY DEF Finished, Lost, RacerRecord
<1>2. CacheShrinks /\ ConnsDie
  BY DEF CacheShrinks, ConnsDie
<1>3. /\ race' \in [Attempt -> RaceRecord]
      /\ \A t \in Attempt : race'[t].obj = race[t].obj /\ race'[t].key = race[t].key
      /\ conns' \in [Object -> [Endpoint -> Racer \cup {None}]]
      /\ conn' \in [Racer -> {"free", "live", "dead"}]
  BY DEF QuicInv, QuicTypes
<1>4. QED
  BY <1>1, <1>2, <1>3, RacerMoves, Zenon

LEMMA RacerGoesOn ==
    ASSUME QuicInv, NEW s \in Racer, racer[s].pc \in Using, NEW pc \in Using,
           racer' = [racer EXCEPT ![s].pc = pc], UNCHANGED <<cur, conns, conn>>,
           race' \in [Attempt -> RaceRecord],
           \A t \in Attempt : race'[t].obj = race[t].obj /\ race'[t].key = race[t].key
    PROVE  LetsGo
<1>1. racer[s] \in RacerRecord /\ racer \in [Racer -> RacerRecord]
  BY DEF QuicInv, QuicTypes
<1>2. PICK x : x = [racer[s] EXCEPT !.pc = pc]
  BY Zenon
<1>3. x \in RacerRecord /\ x.pc = pc /\ x.addr = racer[s].addr /\ x.on = racer[s].on
  BY <1>1, <1>2 DEF RacerRecord, Using
<1>4. racer' = [racer EXCEPT ![s] = x]
  BY <1>2
<1>5. CacheShrinks /\ ConnsDie
  BY DEF CacheShrinks, ConnsDie
<1>6. /\ conns' \in [Object -> [Endpoint -> Racer \cup {None}]]
      /\ conn' \in [Racer -> {"free", "live", "dead"}]
  BY DEF QuicInv, QuicTypes
<1>7. QED
  BY <1>3, <1>4, <1>5, <1>6, RacerMoves, Zenon

LEMMA ContextEnds ==
    ASSUME QuicInv, NEW t \in Attempt, race' = [race EXCEPT ![t].alive = FALSE]
    PROVE  /\ race' \in [Attempt -> RaceRecord]
           /\ \A u \in Attempt : race'[u].obj = race[u].obj /\ race'[u].key = race[u].key
<1>1. race \in [Attempt -> RaceRecord] /\ race[t] \in RaceRecord
  BY DEF QuicInv, QuicTypes
<1>2. PICK x : x = [race[t] EXCEPT !.alive = FALSE]
  BY Zenon
<1>3. x \in RaceRecord /\ x.obj = race[t].obj /\ x.key = race[t].key
  BY <1>1, <1>2, Zenon DEF RaceRecord
<1>4. race' = [race EXCEPT ![t] = x]
  BY <1>2
<1>5. QED
  BY <1>1, <1>3, <1>4, Zenon

(* dropConn forgets what the cache holds by now, and closes it. *)
LEMMA StreamFailsLetsGo ==
    ASSUME QuicInv, NEW s \in Racer, StreamFails(s)
    PROVE  LetsGo
<1>1. /\ racer[s].pc = "open" /\ racer' = [racer EXCEPT ![s] = Finished] /\ Put(s, None)
      /\ conn' = [c \in Racer |-> IF c = Cache(s) THEN "dead" ELSE conn[c]]
      /\ UNCHANGED <<cur, race>>
  BY DEF StreamFails, dropConn
<1>2. /\ race[s[1]].obj \in Object /\ EndpointOf(s) \in Endpoint
      /\ Cache(s) \in Racer \cup {None}
  BY <1>1, CacheEntry
<1>3. /\ conns' \in [Object -> [Endpoint -> Racer \cup {None}]]
      /\ conns'[race[s[1]].obj][EndpointOf(s)] = None
      /\ \A o \in Object, e \in Endpoint :
           o # race[s[1]].obj \/ e # EndpointOf(s) => conns'[o][e] = conns[o][e]
  BY <1>1, PutEntry
<1>4. conn \in [Racer -> {"free", "live", "dead"}] /\ race \in [Attempt -> RaceRecord]
  BY DEF QuicInv, QuicTypes
<1>5. conn' \in [Racer -> {"free", "live", "dead"}]
  BY <1>1, <1>4
<1>6. CacheShrinks
  BY <1>1, <1>2, <1>3 DEF CacheShrinks, Cache
<1>7. Cache(s) # None => conn[Cache(s)] # "free"
  BY <1>2 DEF QuicInv, CacheHolds, Cache
<1>8. ConnsDie
  BY <1>1, <1>7, DirectQuicAssumption DEF ConnsDie
<1>9. Finished \in RacerRecord /\ Finished.pc = "over" /\ Finished.addr = None /\ Finished.on = None
  BY DEF Finished, RacerRecord
<1>10. QED
  BY <1>1, <1>3, <1>4, <1>5, <1>6, <1>8, <1>9, RacerMoves, Zenon

LEMMA RacerStepLetsGo ==
    ASSUME QuicInv, NEW s \in Racer,
           DialFails(s) \/ StreamOpens(s) \/ StreamFails(s) \/ KindFails(s) \/ CloseLate(s)
             \/ Buffered(s) \/ Take(s)
    PROVE  LetsGo
<1>1. CASE DialFails(s)
  BY <1>1, RacerEnds, Zenon DEF DialFails
<1>2. CASE StreamOpens(s)
  <2>1. /\ race' \in [Attempt -> RaceRecord]
        /\ \A t \in Attempt : race'[t].obj = race[t].obj /\ race'[t].key = race[t].key
    BY <1>2 DEF QuicInv, QuicTypes, StreamOpens
  <2>2. "ok" \in Using /\ racer[s].pc \in Using
    BY <1>2 DEF Using, StreamOpens
  <2>3. QED
    BY <1>2, <2>1, <2>2, RacerGoesOn, Zenon DEF StreamOpens
<1>3. CASE StreamFails(s)
  BY <1>3, StreamFailsLetsGo
<1>4. CASE KindFails(s)
  BY <1>4, RacerEnds, Zenon DEF KindFails
<1>5. CASE CloseLate(s)
  BY <1>5, RacerEnds, Zenon DEF CloseLate
<1>6. CASE Buffered(s)
  BY <1>6, RacerEnds, Zenon DEF Buffered
<1>7. CASE Take(s)
  <2>1. /\ race' \in [Attempt -> RaceRecord]
        /\ \A t \in Attempt : race'[t].obj = race[t].obj /\ race'[t].key = race[t].key
    BY <1>7, ContextEnds, RacersArePairs, Zenon DEF Take
  <2>2. "won" \in Using /\ racer[s].pc \in Using
    BY <1>7 DEF Using, Take
  <2>3. QED
    BY <1>7, <2>1, <2>2, RacerGoesOn, Zenon DEF Take
<1>8. QED
  BY <1>1, <1>2, <1>3, <1>4, <1>5, <1>6, <1>7

LEMMA CloseWinnerLetsGo ==
    ASSUME QuicInv, NEW t \in Attempt, CloseWinner(t)
    PROVE  LetsGo
<1>1. /\ racer' = [s \in Racer |-> IF s[1] = t /\ racer[s].pc = "won" THEN Finished ELSE racer[s]]
      /\ UNCHANGED <<cur, conns, conn, race>>
  BY DEF CloseWinner
<1>2. Finished \in RacerRecord /\ Finished.pc = "over" /\ Finished.addr = None /\ Finished.on = None
  BY DEF Finished, RacerRecord
<1>3. \A s \in Racer : racer'[s] = racer[s] \/ (racer[s].pc = "won" /\ racer'[s] = Finished)
  BY <1>1
<1>4. \A s \in Racer : GoesOn(s)
  BY <1>2, <1>3 DEF GoesOn
<1>5. QuicTypes'
  BY <1>1, <1>2 DEF QuicInv, QuicTypes
<1>6. QED
  BY <1>1, <1>4, <1>5 DEF LetsGo, CacheShrinks, ConnsDie

LEMMA EndContextLetsGo ==
    ASSUME QuicInv, NEW t \in Attempt, EndContext(t)
    PROVE  LetsGo
<1>1. race' = [race EXCEPT ![t].alive = FALSE] /\ UNCHANGED <<cur, conns, conn, racer>>
  BY DEF EndContext
<1>2. /\ race' \in [Attempt -> RaceRecord]
      /\ \A u \in Attempt : race'[u].obj = race[u].obj /\ race'[u].key = race[u].key
  BY <1>1, ContextEnds, Zenon
<1>3. QuicTypes'
  BY <1>1, <1>2 DEF QuicInv, QuicTypes
<1>4. QED
  BY <1>1, <1>2, <1>3 DEF LetsGo, CacheShrinks, ConnsDie, GoesOn

(* Closing the backend closes all that it has cached. *)
LEMMA TransportLetsGo ==
    ASSUME QuicInv, Transport
    PROVE  LetsGo
<1>1. QuicTypes
  BY DEF QuicInv
<1>2. CASE Replace
  <2>1. /\ cur' = "second" /\ UNCHANGED <<racer, race>>
        /\ conn' = [c \in Racer |-> IF \E e \in Endpoint : conns["first"][e] = c
                                    THEN "dead" ELSE conn[c]]
        /\ conns' = [conns EXCEPT !["first"] = [e \in Endpoint |-> None]]
    BY <1>2 DEF Replace
  <2>2. "first" \in Object /\ "second" \in Object
    BY DEF Object
  <2>3. conns \in [Object -> [Endpoint -> Racer \cup {None}]]
        /\ conn \in [Racer -> {"free", "live", "dead"}]
    BY <1>1 DEF QuicTypes
  <2>4. [e \in Endpoint |-> None] \in [Endpoint -> Racer \cup {None}]
    OBVIOUS
  <2>5. /\ conns' \in [Object -> [Endpoint -> Racer \cup {None}]]
        /\ \A e \in Endpoint : conns'["first"][e] = None
        /\ \A o \in Object : o # "first" => conns'[o] = conns[o]
    BY <2>1, <2>2, <2>3, <2>4
  <2>6. conn' \in [Racer -> {"free", "live", "dead"}]
    BY <2>1, <2>3
  <2>7. CacheShrinks
    <3> SUFFICES ASSUME NEW o \in Object, NEW e \in Endpoint
                 PROVE  \/ conns'[o][e] = conns[o][e]
                        \/ conns'[o][e] = None /\ (conns[o][e] # None => conn'[conns[o][e]] = "dead")
      BY DEF CacheShrinks
    <3>1. CASE o # "first"
      BY <2>5, <3>1
    <3>2. CASE o = "first"
      <4>1. conns'[o][e] = None
        BY <2>5, <3>2
      <4>2. ASSUME conns[o][e] # None PROVE conn'[conns[o][e]] = "dead"
        <5>1. conns[o][e] \in Racer
          BY <2>3, <4>2
        <5>2. QED
          BY <2>1, <3>2, <5>1
      <4>3. QED
        BY <4>1, <4>2
    <3>3. QED
      BY <3>1, <3>2
  <2>8. ConnsDie
    <3>1. \A e \in Endpoint : conns["first"][e] # None => conn[conns["first"][e]] # "free"
      BY <2>2 DEF QuicInv, CacheHolds
    <3>2. QED
      BY <2>1, <3>1, DirectQuicAssumption DEF ConnsDie
  <2>9. QuicTypes'
    BY <1>1, <2>1, <2>2, <2>5, <2>6 DEF QuicTypes
  <2>10. QED
    BY <2>1, <2>7, <2>8, <2>9 DEF LetsGo, GoesOn
<1>3. ASSUME NEW c \in Racer, ConnDies(c) PROVE LetsGo
  <2>1. conn[c] = "live" /\ conn' = [conn EXCEPT ![c] = "dead"] /\ UNCHANGED <<cur, conns, racer, race>>
    BY <1>3 DEF ConnDies
  <2>2. conn' \in [Racer -> {"free", "live", "dead"}] /\ ConnsDie
    BY <1>1, <2>1 DEF QuicTypes, ConnsDie
  <2>3. QuicTypes'
    BY <1>1, <2>1, <2>2 DEF QuicTypes
  <2>4. QED
    BY <2>1, <2>2, <2>3 DEF LetsGo, CacheShrinks, GoesOn
<1>4. QED
  BY <1>2, <1>3 DEF Transport

-----------------------------------------------------------------------------
(* The attempts *)

NoneStay == \A s \in Racer : racer[s].pc = "none" => racer'[s].pc = "none"

LEMMA LettingGoStartsNone == ASSUME LetsGo PROVE NoneStay
BY DEF LetsGo, GoesOn, NoneStay, Using

LEMMA AttemptsStay ==
    ASSUME AttemptsHold, att' = att, remote' \in RemoteConfig \cup {None}, NoneStay
    PROVE  AttemptsHold'
BY DEF AttemptsHold, StreamIsClosed, NoneStay

LEMMA AttemptMoves ==
    ASSUME AttemptsHold, NEW t \in Attempt, NEW x \in AttemptRecord,
           att' = [att EXCEPT ![t] = x], remote' \in RemoteConfig \cup {None},
           x.stream = "open" <=> x.pc \in {"write", "read"},
           \A s \in Racer : s[1] # t /\ racer[s].pc = "none" => racer'[s].pc = "none",
           x.pc \in {"idle", "open"} => att[t].pc \in {"idle", "open"} /\ NoneStay
    PROVE  AttemptsHold'
<1>1. att \in [Attempt -> AttemptRecord]
  BY DEF AttemptsHold
<1>2. /\ att' \in [Attempt -> AttemptRecord] /\ att'[t] = x
      /\ \A u \in Attempt : u # t => att'[u] = att[u]
  BY <1>1
<1>3. StreamIsClosed'
  BY <1>2 DEF AttemptsHold, StreamIsClosed
<1>4. ASSUME NEW s \in Racer, att'[s[1]].pc \in {"idle", "open"} PROVE racer'[s].pc = "none"
  <2>1. s[1] \in Attempt
    BY RacersArePairs
  <2>2. CASE s[1] = t
    <3>1. att[s[1]].pc \in {"idle", "open"} /\ NoneStay
      BY <1>2, <1>4, <2>2
    <3>2. racer[s].pc = "none"
      BY <3>1 DEF AttemptsHold
    <3>3. QED
      BY <3>1, <3>2 DEF NoneStay
  <2>3. CASE s[1] # t
    BY <1>2, <1>4, <2>1, <2>3 DEF AttemptsHold
  <2>4. QED
    BY <2>2, <2>3
<1>5. QED
  BY <1>2, <1>3, <1>4 DEF AttemptsHold

(* The same for a step that only lets go, or touches no racer at all. *)
LEMMA AttemptGoesOn ==
    ASSUME AttemptsHold, QuicInv, LetsGo, NEW t \in Attempt, NEW x \in AttemptRecord,
           att' = [att EXCEPT ![t] = x], remote' \in RemoteConfig \cup {None},
           x.stream = "open" <=> x.pc \in {"write", "read"},
           x.pc \in {"idle", "open"} => att[t].pc \in {"idle", "open"}
    PROVE  ClientInv'
<1>1. QuicInv'
  BY LettingGoKeeps
<1>2. NoneStay
  BY LettingGoStartsNone
<1>3. \A s \in Racer : s[1] # t /\ racer[s].pc = "none" => racer'[s].pc = "none"
  BY <1>2 DEF NoneStay
<1>4. AttemptsHold'
  BY <1>2, <1>3, AttemptMoves, Zenon
<1>5. QED
  BY <1>1, <1>4 DEF ClientInv

LEMMA EndedRecord ==
    ASSUME NEW stream \in {"none", "closed"}
    PROVE  Ended(stream) \in AttemptRecord /\ Ended(stream).pc = "done" /\ Ended(stream).stream = stream
<1>1. NoAttempt \in AttemptRecord
  BY DEF NoAttempt, AttemptRecord
<1>2. PICK x \in AttemptRecord : x = NoAttempt
  BY <1>1
<1>3. /\ [x EXCEPT !.pc = "done", !.stream = stream] \in AttemptRecord
      /\ [x EXCEPT !.pc = "done", !.stream = stream].pc = "done"
      /\ [x EXCEPT !.pc = "done", !.stream = stream].stream = stream
  BY Zenon DEF AttemptRecord
<1>4. QED
  BY <1>2, <1>3 DEF Ended

LEMMA BegunRecord ==
    ASSUME NEW kind \in {"invite", "reauth"}, NEW snap \in RemoteConfig \cup {None}
    PROVE  /\ Begun(kind, snap) \in AttemptRecord /\ Begun(kind, snap).pc = "open"
           /\ Begun(kind, snap).stream = "none"
<1>1. NoAttempt \in AttemptRecord /\ NoAttempt.stream = "none"
  BY DEF NoAttempt, AttemptRecord
<1>2. PICK x \in AttemptRecord : x = NoAttempt
  BY <1>1
<1>3. PICK y : y = [x EXCEPT !.kind = kind, !.pc = "open", !.snap = snap]
  OBVIOUS
<1>4. y \in AttemptRecord /\ y.pc = "open" /\ y.stream = x.stream
  BY <1>3, Zenon DEF AttemptRecord
<1>5. QED
  BY <1>1, <1>2, <1>3, <1>4 DEF Begun

LEMMA BeginKeeps ==
    ASSUME ClientInv, NEW t \in Attempt, ConnectByURL(t) \/ ReauthPairedWithBackend(t)
    PROVE  ClientInv'
<1>1. QuicInv /\ AttemptsHold /\ remote \in RemoteConfig \cup {None}
  BY DEF ClientInv, AttemptsHold
<1>2. /\ att[t].pc = "idle" /\ UNCHANGED <<cur, conns, conn, racer, race, remote>>
      /\ \E kind \in {"invite", "reauth"}, snap \in RemoteConfig \cup {None} :
           att' = [att EXCEPT ![t] = Begun(kind, snap)]
  BY <1>1 DEF ConnectByURL, ReauthPairedWithBackend, Fresh
<1>3. PICK kind \in {"invite", "reauth"}, snap \in RemoteConfig \cup {None} :
        att' = [att EXCEPT ![t] = Begun(kind, snap)]
  BY <1>2, Zenon
<1>4. LetsGo
  BY <1>1, <1>2, NothingHappens
<1>5. /\ Begun(kind, snap) \in AttemptRecord /\ Begun(kind, snap).pc = "open"
      /\ Begun(kind, snap).stream = "none"
  BY BegunRecord
<1>6. QED
  BY <1>1, <1>2, <1>3, <1>4, <1>5, AttemptGoesOn, Zenon

(* A race starts: what it needs to know of the addresses and the key. *)
RaceStarts(t) ==
    \E key \in Key, addrs \in Seq(Addr) :
        /\ \A i, j \in DOMAIN addrs : i # j => addrs[i] # addrs[j]
        /\ \A s \in Racer : s[1] = t => racer[s].pc = "none"
        /\ StartRace(t, key, addrs)
        /\ att' = [att EXCEPT ![t] = [@ EXCEPT !.pc = "race", !.addrs = addrs]]

LEMMA OpenIsStart ==
    ASSUME ClientInv, NEW t \in Attempt,
           OpenStored(t) \/ \E list \in Records : OpenFound(t, list)
    PROVE  RaceStarts(t) /\ att[t].pc = "open" /\ remote' = remote
<1>1. att[t] \in AttemptRecord
  BY DEF ClientInv, AttemptsHold
<1>2. att[t].snap \in RemoteConfig \cup {None}
  BY <1>1 DEF AttemptRecord
<1>3. PICK list \in Seq(Addr) : att[t].pc = "open" /\ KnowsKey(t) /\ Races(t, list)
  <2>1. CASE OpenStored(t)
    <3>1. att[t].snap.addrs \in Seq(Addr)
      BY <1>2, <2>1 DEF OpenStored, KnowsAddrs, RemoteConfig
    <3>2. QED
      BY <2>1, <3>1 DEF OpenStored
  <2>2. CASE \E list \in Records : OpenFound(t, list)
    BY <2>2, ClientAssumption DEF OpenFound
  <2>3. QED
    BY <2>1, <2>2
<1>4. KeyOf(t) \in Key
  <2>1. CASE att[t].kind = "invite"
    BY <2>1, DirectQuicAssumption DEF KeyOf
  <2>2. CASE att[t].kind # "invite"
    BY <1>2, <1>3, <2>2 DEF KeyOf, KnowsKey, RemoteConfig
  <2>3. QED
    BY <2>1, <2>2
<1>5. PICK addrs : addrs = orderDirectQUICAddrs(list)
  OBVIOUS
<1>6. addrs \in Seq(Addr) /\ \A i, j \in DOMAIN addrs : i # j => addrs[i] # addrs[j]
  BY <1>3, <1>5, OrderedApart
<1>7. \A s \in Racer : s[1] = t => racer[s].pc = "none"
  BY <1>3 DEF ClientInv, AttemptsHold
<1>8. /\ StartRace(t, KeyOf(t), addrs) /\ remote' = remote
      /\ att' = [att EXCEPT ![t] = [@ EXCEPT !.pc = "race", !.addrs = addrs]]
  BY <1>3, <1>5 DEF Races
<1>9. RaceStarts(t)
  BY <1>4, <1>6, <1>7, <1>8, Zenon DEF RaceStarts
<1>10. QED
  BY <1>3, <1>8, <1>9

LEMMA RaceStartsKeeps ==
    ASSUME ClientInv, NEW t \in Attempt, RaceStarts(t), att[t].pc = "open", remote' = remote
    PROVE  ClientInv'
<1>1. PICK key \in Key, addrs \in Seq(Addr) :
        /\ \A i, j \in DOMAIN addrs : i # j => addrs[i] # addrs[j]
        /\ \A s \in Racer : s[1] = t => racer[s].pc = "none"
        /\ StartRace(t, key, addrs)
        /\ att' = [att EXCEPT ![t] = [@ EXCEPT !.pc = "race", !.addrs = addrs]]
  BY Zenon DEF RaceStarts
<1>2. QuicInv'
  BY <1>1, StartRaceKeeps DEF ClientInv
<1>3. AttemptsHold /\ att[t] \in AttemptRecord /\ remote' \in RemoteConfig \cup {None}
  BY DEF ClientInv, AttemptsHold
<1>4. att[t].stream # "open"
  BY <1>3 DEF AttemptsHold, StreamIsClosed
<1>5. PICK x : x = [att[t] EXCEPT !.pc = "race", !.addrs = addrs]
  OBVIOUS
<1>6. x \in AttemptRecord /\ x.pc = "race" /\ x.stream = att[t].stream
  BY <1>3, <1>5, Zenon DEF AttemptRecord
<1>7. \A s \in Racer : s[1] # t /\ racer[s].pc = "none" => racer'[s].pc = "none"
  BY <1>1 DEF StartRace
<1>8. att' = [att EXCEPT ![t] = x]
  BY <1>1, <1>5
<1>9. AttemptsHold'
  BY <1>3, <1>4, <1>6, <1>7, <1>8, AttemptMoves, Zenon
<1>10. QED
  BY <1>2, <1>9 DEF ClientInv

(* OpenOne, OpenFails, RaceWon, RaceFails *)
LEMMA OpenedKeeps ==
    ASSUME ClientInv, NEW t \in Attempt,
           OpenOne(t) \/ OpenFails(t) \/ RaceFails(t) \/ \E s \in Racer : s[1] = t /\ RaceWon(s)
    PROVE  ClientInv'
<1>1. /\ QuicInv /\ AttemptsHold /\ att[t] \in AttemptRecord
      /\ remote \in RemoteConfig \cup {None}
  BY DEF ClientInv, AttemptsHold
<1>2. /\ Ended("none") \in AttemptRecord /\ Ended("none").pc = "done"
      /\ Ended("none").stream = "none"
  BY EndedRecord
<1>3. PICK x : x = [att[t] EXCEPT !.pc = "write", !.stream = "open"]
  OBVIOUS
<1>4. x \in AttemptRecord /\ x.pc = "write" /\ x.stream = "open"
  BY <1>1, <1>3, Zenon DEF AttemptRecord
<1>5. CASE OpenOne(t)
  <2>1. LetsGo
    BY <1>1, <1>5, NothingHappens DEF OpenOne
  <2>2. att' = [att EXCEPT ![t] = x] /\ remote' = remote
    BY <1>3, <1>5 DEF OpenOne
  <2>3. QED
    BY <1>1, <1>4, <2>1, <2>2, AttemptGoesOn, Zenon
<1>6. CASE OpenFails(t)
  <2>1. LetsGo
    BY <1>1, <1>6, NothingHappens DEF OpenFails
  <2>2. QED
    BY <1>1, <1>2, <1>6, <2>1, AttemptGoesOn, Zenon DEF OpenFails
<1>7. CASE RaceFails(t)
  <2>1. LetsGo
    BY <1>1, <1>7, EndContextLetsGo DEF RaceFails
  <2>2. QED
    BY <1>1, <1>2, <1>7, <2>1, AttemptGoesOn, Zenon DEF RaceFails
<1>8. ASSUME NEW s \in Racer, s[1] = t, RaceWon(s) PROVE ClientInv'
  <2>1. LetsGo
    BY <1>1, <1>8, RacerStepLetsGo, Zenon DEF RaceWon
  <2>2. att' = [att EXCEPT ![t] = x] /\ remote' = remote
    BY <1>3, <1>8, Zenon DEF RaceWon
  <2>3. QED
    BY <1>1, <1>4, <2>1, <2>2, AttemptGoesOn, ZenonT(60)
<1>9. QED
  BY <1>5, <1>6, <1>7, <1>8

(* What is written to the list is a record of the host. *)
LEMMA AddRemoteRecord ==
    ASSUME ClientInv, NEW id \in Identity, NEW addrs \in Seq(Addr)
    PROVE  AddRemote(id, addrs) \in RemoteConfig /\ AddRemote(id, addrs).machine = id.machine
<1>1. id.key \in Key \cup {None} /\ id.machine \in Machine
  BY ClientAssumption
<1>2. remote # None => remote.key \in Key \cup {None} /\ remote.addrs \in Seq(Addr)
  BY DEF ClientInv, AttemptsHold, RemoteConfig
<1>3. CASE remote = None
  BY <1>1, <1>3 DEF AddRemote, RemoteConfig
<1>4. CASE remote # None
  BY <1>1, <1>2, <1>4 DEF AddRemote, RemoteConfig
<1>5. QED
  BY <1>3, <1>4

LEMMA StreamStepKeeps ==
    ASSUME ClientInv, NEW t \in Attempt, StreamStep(t)
    PROVE  ClientInv'
<1>1. /\ QuicInv /\ AttemptsHold /\ att[t] \in AttemptRecord
      /\ remote \in RemoteConfig \cup {None} /\ att[t].addrs \in Seq(Addr)
  BY DEF ClientInv, AttemptsHold, AttemptRecord
<1>2. /\ Ended("closed") \in AttemptRecord /\ Ended("closed").pc = "done"
      /\ Ended("closed").stream = "closed"
  BY EndedRecord
<1>3. ASSUME Finish(t), remote' \in RemoteConfig \cup {None} PROVE ClientInv'
  <2>1. LetsGo
    BY <1>1, <1>3, CloseWinnerLetsGo DEF Finish
  <2>2. QED
    BY <1>1, <1>2, <1>3, <2>1, AttemptGoesOn, Zenon DEF Finish
<1>4. CASE WriteRequest(t)
  <2>1. LetsGo
    BY <1>1, <1>4, NothingHappens DEF WriteRequest
  <2>2. PICK x : x = [att[t] EXCEPT !.pc = "read"]
    BY Zenon
  <2>3. x \in AttemptRecord /\ x.pc = "read" /\ x.stream = att[t].stream
    BY <1>1, <2>2 DEF AttemptRecord
  <2>4. att[t].stream = "open"
    BY <1>1, <1>4 DEF WriteRequest, AttemptsHold, StreamIsClosed
  <2>5. att' = [att EXCEPT ![t] = x] /\ remote' = remote
    BY <1>4, <2>2 DEF WriteRequest
  <2>6. QED
    BY <1>1, <2>1, <2>3, <2>4, <2>5, AttemptGoesOn, Zenon
<1>5. CASE WriteFails(t)
  BY <1>1, <1>3, <1>5 DEF WriteFails
<1>6. CASE NothingStored(t)
  BY <1>1, <1>3, <1>6 DEF NothingStored
<1>7. ASSUME NEW id \in Identity, AnswerAccepted(t, id) PROVE ClientInv'
  BY <1>1, <1>3, <1>7, AddRemoteRecord DEF AnswerAccepted
<1>8. QED
  BY <1>4, <1>5, <1>6, <1>7 DEF StreamStep

LEMMA ClientInvInit == Init => ClientInv
<1> SUFFICES ASSUME Init PROVE ClientInv
  OBVIOUS
<1>1. /\ cur = "first" /\ conns = [o \in Object |-> [e \in Endpoint |-> None]]
      /\ conn = [s \in Racer |-> "free"] /\ racer = [s \in Racer |-> NoRacer]
      /\ race = [t \in Attempt |-> [obj |-> None, key |-> None, alive |-> FALSE]]
      /\ remote \in Stored \cup {None} /\ att = [t \in Attempt |-> NoAttempt]
  BY DEF Init, QuicInit
<1>2. /\ NoRacer \in RacerRecord /\ NoRacer.pc = "none" /\ NoRacer.addr = None
      /\ NoRacer.on = None
  BY DEF NoRacer, RacerRecord
<1>3. /\ NoAttempt \in AttemptRecord /\ NoAttempt.pc = "idle" /\ NoAttempt.stream = "none"
  BY DEF NoAttempt, AttemptRecord
<1>4. [obj |-> None, key |-> None, alive |-> FALSE] \in RaceRecord /\ "first" \in Object
  BY DEF RaceRecord, Object
<1>5. QuicTypes
  BY <1>1, <1>2, <1>4 DEF QuicTypes
<1>6. \A s \in Racer : racer[s].pc = "none" /\ racer[s].addr = None /\ racer[s].on = None
                        /\ conn[s] = "free"
  BY <1>1, <1>2
<1>7. RacersHold /\ AddrsApart
  BY <1>6 DEF RacersHold, RacerHolds, AddrsApart, Using
<1>8. CacheHolds /\ UsersAgree
  BY <1>1, <1>6 DEF CacheHolds, UsersAgree
<1>9. AttemptsHold
  BY <1>1, <1>3, <1>6, RacersArePairs, ClientAssumption, Zenon DEF AttemptsHold, StreamIsClosed
<1>10. QED
  BY <1>5, <1>7, <1>8, <1>9 DEF ClientInv, QuicInv

(* Racers and the network on their own. *)
LEMMA QuicStepKeeps ==
    ASSUME ClientInv, (\E s \in Racer : RacerStep(s)) \/ Transport, UNCHANGED <<remote, att>>
    PROVE  ClientInv'
<1>1. QuicInv /\ AttemptsHold /\ remote' \in RemoteConfig \cup {None}
  BY DEF ClientInv, AttemptsHold
<1>2. ASSUME LetsGo PROVE ClientInv'
  BY <1>1, <1>2, LettingGoKeeps, LettingGoStartsNone, AttemptsStay DEF ClientInv
<1>3. ASSUME QuicInv', NEW s \in Racer, racer[s].pc # "none",
             \A u \in Racer : u # s => racer'[u] = racer[u]
      PROVE  ClientInv'
  <2>1. NoneStay
    BY <1>3 DEF NoneStay
  <2>2. QED
    BY <1>1, <1>3, <2>1, AttemptsStay DEF ClientInv
<1>4. ASSUME NEW s \in Racer, Look(s) PROVE ClientInv'
  <2>1. QuicInv' /\ racer[s].pc # "none"
    BY <1>1, <1>4, LookKeeps, Zenon DEF Look
  <2>2. \A u \in Racer : u # s => racer'[u] = racer[u]
    BY <1>1, <1>4 DEF Look, QuicInv, QuicTypes
  <2>3. QED
    BY <1>3, <2>1, <2>2
<1>5. ASSUME NEW s \in Racer, DialConnects(s) PROVE ClientInv'
  <2>1. QuicInv' /\ racer[s].pc # "none"
    BY <1>1, <1>5, DialConnectsKeeps, Zenon DEF DialConnects
  <2>2. \A u \in Racer : u # s => racer'[u] = racer[u]
    BY <1>1, <1>5 DEF DialConnects, QuicInv, QuicTypes
  <2>3. QED
    BY <1>3, <2>1, <2>2
<1>6. ASSUME NEW s \in Racer,
             DialFails(s) \/ StreamOpens(s) \/ StreamFails(s) \/ KindFails(s) \/ CloseLate(s)
      PROVE  ClientInv'
  BY <1>1, <1>2, <1>6, RacerStepLetsGo
<1>7. CASE Transport
  BY <1>1, <1>2, <1>7, TransportLetsGo
<1>8. QED
  BY <1>4, <1>5, <1>6, <1>7 DEF RacerStep

LEMMA ClientInvStep == ClientInv /\ [Next]_vars => ClientInv'
<1> SUFFICES ASSUME ClientInv, [Next]_vars PROVE ClientInv'
  OBVIOUS
<1>1. QuicInv /\ AttemptsHold /\ remote \in RemoteConfig \cup {None}
  BY DEF ClientInv, AttemptsHold
<1>2. ASSUME LetsGo, att' = att, remote' \in RemoteConfig \cup {None} PROVE ClientInv'
  BY <1>1, <1>2, LettingGoKeeps, LettingGoStartsNone, AttemptsStay DEF ClientInv
<1>3. CASE UNCHANGED vars
  BY <1>1, <1>2, <1>3, NothingHappens DEF vars
<1>4. ASSUME NEW t \in Attempt, ConnectByURL(t) \/ ReauthPairedWithBackend(t) PROVE ClientInv'
  BY <1>4, BeginKeeps
<1>5. ASSUME NEW t \in Attempt, AttemptStep(t) PROVE ClientInv'
  <2>1. CASE OpenStored(t) \/ \E list \in Records : OpenFound(t, list)
    BY <2>1, OpenIsStart, RaceStartsKeeps
  <2>2. CASE OpenOne(t) \/ OpenFails(t) \/ RaceFails(t)
    BY <2>2, OpenedKeeps
  <2>3. CASE StreamStep(t)
    BY <2>3, StreamStepKeeps
  <2>4. QED
    BY <1>5, <2>1, <2>2, <2>3 DEF AttemptStep, OpenStep
<1>6. ASSUME NEW t \in Attempt, Cancel(t) PROVE ClientInv'
  BY <1>1, <1>2, <1>6, EndContextLetsGo DEF Cancel
<1>7. ASSUME NEW s \in Racer, RaceWon(s) PROVE ClientInv'
  BY <1>7, OpenedKeeps, RacersArePairs
<1>8. ASSUME NEW s \in Racer, LeftBehind(s) PROVE ClientInv'
  BY <1>1, <1>2, <1>8, RacerStepLetsGo DEF LeftBehind
<1>9. CASE RemoveRemote
  BY <1>1, <1>2, <1>9, NothingHappens DEF RemoveRemote
<1>10. QED
  BY <1>3, <1>4, <1>5, <1>6, <1>7, <1>8, <1>9, QuicStepKeeps DEF Next

(* Every connection has one endpoint, every race its own addresses, and    *)
(* every attempt its stream, whatever races, fails, is cancelled or is     *)
(* replaced.                                                               *)
THEOREM ClientInvariant == FairSpec => []ClientInv
<1>1. Init => ClientInv
  BY ClientInvInit
<1>2. ClientInv /\ [Next]_vars => ClientInv'
  BY ClientInvStep
<1>3. QED
  BY <1>1, <1>2, PTL DEF FairSpec

(* Every path of an attempt that ends has closed its stream. *)
THEOREM StreamIsClosedHolds == FairSpec => []StreamIsClosed
<1>1. ClientInv => StreamIsClosed
  BY DEF ClientInv, AttemptsHold
<1>2. QED
  BY <1>1, ClientInvariant, PTL

(* A direct QUIC stream leads to the holder of the key that was asked for, *)
(* also on a connection that another racer dialled.                        *)
THEOREM PeerIsVerifiedHolds == FairSpec => []PeerIsVerified
<1>1. ClientInv => PeerIsVerified
  BY DEF ClientInv, QuicInv, RacersHold, RacerHolds, Using, PeerIsVerified
<1>2. QED
  BY <1>1, ClientInvariant, PTL

-----------------------------------------------------------------------------
(* What a step may do to connections and the cache. *)
LEMMA StepShape ==
    ASSUME ClientInv, [Next]_vars
    PROVE  \/ conns' = conns /\ conn' = conn
           \/ racer' = racer /\ LetsGo
           \/ \E s \in Racer : DialConnects(s) \/ StreamFails(s)
<1>1. CASE UNCHANGED vars
  BY <1>1 DEF vars
<1>2. ASSUME NEW t \in Attempt, ConnectByURL(t) \/ ReauthPairedWithBackend(t) \/ Cancel(t)
      PROVE  conns' = conns /\ conn' = conn
  BY <1>2 DEF ConnectByURL, ReauthPairedWithBackend, Cancel, EndContext
<1>3. ASSUME NEW t \in Attempt, AttemptStep(t) PROVE conns' = conns /\ conn' = conn
  <2>1. CASE OpenStep(t)
    BY <2>1, Zenon DEF OpenStep, OpenStored, OpenFound, OpenOne, OpenFails, Races, StartRace
  <2>2. CASE StreamStep(t)
    BY <2>2 DEF StreamStep, WriteRequest, WriteFails, NothingStored, AnswerAccepted, Finish,
       CloseWinner
  <2>3. CASE RaceFails(t)
    BY <2>3 DEF RaceFails, EndContext
  <2>4. QED
    BY <1>3, <2>1, <2>2, <2>3 DEF AttemptStep
<1>4. ASSUME NEW s \in Racer, RaceWon(s) \/ LeftBehind(s) PROVE conns' = conns /\ conn' = conn
  BY <1>4 DEF RaceWon, LeftBehind, Take, Buffered
<1>5. ASSUME NEW s \in Racer, RacerStep(s)
      PROVE  (conns' = conns /\ conn' = conn) \/ DialConnects(s) \/ StreamFails(s)
  BY <1>5 DEF RacerStep, Look, DialFails, StreamOpens, KindFails, CloseLate
<1>6. CASE Transport
  <2>1. LetsGo
    BY <1>6, TransportLetsGo DEF ClientInv
  <2>2. QED
    BY <1>6, <2>1 DEF Transport, Replace, ConnDies
<1>7. CASE RemoveRemote
  BY <1>7 DEF RemoveRemote
<1>8. QED
  BY <1>1, <1>2, <1>3, <1>4, <1>5, <1>6, <1>7 DEF Next

(* No live connection falls out of the cache unclosed, unless the racer of *)
(* another attempt dialled the same address at the same time.              *)
THEOREM CachedIsClosedHolds == FairSpec => CachedIsClosed
<1> DEFINE Closed == \A o \in Object, e \in Endpoint :
                       LET c == conns[o][e] IN
                       c # None /\ conns'[o][e] # c
                       => conn'[c] = "dead" \/ (conns'[o][e] # None /\ conn[conns'[o][e]] = "free")
<1>1. ClientInv /\ [Next]_vars => [Closed]_vars
  <2> SUFFICES ASSUME ClientInv, [Next]_vars,
                      NEW o \in Object, NEW e \in Endpoint, conns[o][e] # None,
                      conns'[o][e] # conns[o][e]
               PROVE  \/ conn'[conns[o][e]] = "dead"
                      \/ conns'[o][e] # None /\ conn[conns'[o][e]] = "free"
    OBVIOUS
  <2>1. CASE LetsGo
    BY <2>1 DEF LetsGo, CacheShrinks
  <2>2. ASSUME NEW s \in Racer, DialConnects(s)
        PROVE  conns'[o][e] # None /\ conn[conns'[o][e]] = "free"
    <3>1. racer[s].pc = "dial" /\ Put(s, s) /\ QuicInv
      BY <2>2 DEF DialConnects, ClientInv
    <3>2. conn[s] = "free"
      BY <3>1 DEF QuicInv, RacersHold, RacerHolds
    <3>3. conns'[o][e] = s
      BY <3>1, PutEntry
    <3>4. QED
      BY <3>2, <3>3, DirectQuicAssumption
  <2>3. ASSUME NEW s \in Racer, StreamFails(s) PROVE LetsGo
    BY <2>3, StreamFailsLetsGo DEF ClientInv
  <2>4. QED
    BY <2>1, <2>2, <2>3, StepShape
<1>2. QED
  BY <1>1, ClientInvariant, PTL DEF FairSpec, CachedIsClosed

(* A racer that loses closes only the connection that is cached for its    *)
(* own address, and the winner of its race has another address.            *)
THEOREM LosersSpareWinnerHolds == FairSpec => LosersSpareWinner
<1> DEFINE Spares == \A s \in Racer : racer[s].pc = "open" /\ racer'[s].pc = "over"
                       => \A c \in Uses(s[1]) : conn[c] = "live" => conn'[c] = "live"
<1>1. ClientInv /\ [Next]_vars => [Spares]_vars
  <2> SUFFICES ASSUME ClientInv, [Next]_vars, NEW s \in Racer,
                      racer[s].pc = "open", racer'[s].pc = "over",
                      NEW c \in Uses(s[1]), conn[c] = "live"
               PROVE  conn'[c] = "live"
    OBVIOUS
  <2>1. PICK w \in Racer : w[1] = s[1] /\ racer[w].pc = "won" /\ c = racer[w].on
    BY DEF Uses
  <2>2. QuicInv /\ racer \in [Racer -> RacerRecord] /\ RacerHolds(w)
    BY DEF ClientInv, QuicInv, QuicTypes, RacersHold
  <2>3. c # None /\ c \in Racer /\ w # s
    BY <2>1, <2>2 DEF RacerHolds, Using, RacerRecord
  <2>4. ASSUME NEW u \in Racer, DialConnects(u) PROVE FALSE
    BY <2>2, <2>4 DEF DialConnects
  <2>5. ASSUME NEW u \in Racer, StreamFails(u) PROVE conn'[c] = "live"
    <3>1. u = s
      BY <2>2, <2>5 DEF StreamFails
    <3>2. conn' = [d \in Racer |-> IF d = Cache(s) THEN "dead" ELSE conn[d]]
      BY <2>5, <3>1 DEF StreamFails, dropConn
    <3>3. race[s[1]].obj \in Object /\ EndpointOf(s) \in Endpoint
      BY <2>2, CacheEntry
    <3>4. Cache(s) # c
      <4> SUFFICES ASSUME Cache(s) = c PROVE FALSE
        OBVIOUS
      <4>1. EndpointOf(s) = EndpointOf(w)
        BY <2>1, <2>2, <2>3, <3>3 DEF QuicInv, UsersAgree, Cache
      <4>2. racer[s].addr = racer[w].addr
        BY <4>1 DEF EndpointOf
      <4>3. racer[s].addr # None
        BY <2>2 DEF QuicInv, RacersHold, RacerHolds, Using
      <4>4. QED
        BY <2>1, <2>2, <2>3, <4>2, <4>3 DEF QuicInv, AddrsApart
    <3>5. QED
      BY <2>3, <3>2, <3>4
  <2>6. QED
    BY <2>4, <2>5, StepShape
<1>2. QED
  BY <1>1, ClientInvariant, PTL DEF FairSpec, LosersSpareWinner

(* A step that ends an attempt belongs to it. *)
LEMMA OthersStay ==
    ASSUME ClientInv, NEW t \in Attempt, att[t].pc = "read", att'[t].pc = "done",
           remote' # remote, [Next]_vars
    PROVE  \E id \in Identity : AnswerAccepted(t, id)
<1>1. att \in [Attempt -> AttemptRecord]
  BY DEF ClientInv, AttemptsHold
<1>2. ASSUME att' = att PROVE FALSE
  BY <1>2
<1>3. ASSUME remote' = remote PROVE FALSE
  BY <1>3
<1>4. ASSUME NEW u \in Attempt, StreamStep(u) PROVE \E id \in Identity : AnswerAccepted(t, id)
  <2>1. PICK id \in Identity : AnswerAccepted(u, id)
    BY <1>3, <1>4 DEF StreamStep, WriteRequest, WriteFails, NothingStored
  <2>2. att' = [att EXCEPT ![u] = Ended("closed")]
    BY <2>1 DEF AnswerAccepted, Finish
  <2>3. u = t
    BY <1>1, <2>2
  <2>4. QED
    BY <2>1, <2>3
<1>5. ASSUME NEW u \in Attempt, OpenStep(u) \/ RaceFails(u) PROVE FALSE
  BY <1>3, <1>5, ZenonT(60) DEF OpenStep, OpenStored, OpenFound, OpenOne, OpenFails, Races, RaceFails
<1>6. ASSUME NEW u \in Attempt, ConnectByURL(u) \/ ReauthPairedWithBackend(u) \/ Cancel(u)
      PROVE  FALSE
  BY <1>3, <1>6 DEF ConnectByURL, ReauthPairedWithBackend, Cancel
<1>7. ASSUME NEW s \in Racer, RaceWon(s) \/ LeftBehind(s) PROVE FALSE
  BY <1>3, <1>7 DEF RaceWon, LeftBehind
<1>8. CASE RemoveRemote
  BY <1>2, <1>8 DEF RemoveRemote
<1>9. CASE UNCHANGED vars
  BY <1>2, <1>9 DEF vars
<1>10. QED
  BY <1>2, <1>4, <1>5, <1>6, <1>7, <1>8, <1>9 DEF Next, AttemptStep

(* A reauthentication stores only the machine it had read from the list,   *)
(* whatever the list and the host have become meanwhile.                   *)
THEOREM ReauthIsPinnedHolds == FairSpec => ReauthIsPinned
<1> DEFINE Pinned == \A t \in Attempt :
                       att[t].kind = "reauth" /\ att[t].pc = "read" /\ att'[t].pc = "done"
                         /\ remote' # remote
                       => /\ att[t].snap # None
                          /\ remote' # None /\ remote'.machine = att[t].snap.machine
<1>1. ClientInv /\ [Next]_vars => [Pinned]_vars
  <2> SUFFICES ASSUME ClientInv, [Next]_vars, NEW t \in Attempt, att[t].kind = "reauth",
                      att[t].pc = "read", att'[t].pc = "done", remote' # remote
               PROVE  /\ att[t].snap # None
                      /\ remote' # None /\ remote'.machine = att[t].snap.machine
    OBVIOUS
  <2>1. PICK id \in Identity : AnswerAccepted(t, id)
    BY OthersStay
  <2>2. att[t].addrs \in Seq(Addr)
    BY DEF ClientInv, AttemptsHold, AttemptRecord
  <2>3. remote' = AddRemote(id, att[t].addrs)
    BY <2>1 DEF AnswerAccepted
  <2>4. remote' \in RemoteConfig /\ remote'.machine = id.machine
    BY <2>2, <2>3, AddRemoteRecord
  <2>5. att[t].snap # None /\ att[t].snap.machine = id.machine
    BY <2>1 DEF AnswerAccepted, verifyStoredIdentity, canRepairStoredSoftwarePublicKey
  <2>6. QED
    BY <2>4, <2>5, ClientAssumption
<1>2. QED
  BY <1>1, ClientInvariant, PTL DEF FairSpec, ReauthIsPinned
=============================================================================
