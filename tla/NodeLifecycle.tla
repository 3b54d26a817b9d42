--------------------------- MODULE NodeLifecycle ---------------------------
(***************************************************************************)
(* The libp2p node (internal/node) under the service's calls               *)
(* (internal/service): the host, the relay reservations, the goroutines    *)
(* that keep them, and the DHT client.  networkMu admits one service call  *)
(* at a time, kept in call; n.mu protects single steps of it and of the    *)
(* goroutines.  A context is "app" (the process), "call" (the call that is *)
(* running), "connect" (a connect attempt that goes on) or "done".         *)
(***************************************************************************)
EXTENDS Naturals, FiniteSets

CONSTANTS Configured,    \* the relays resolveRelays can give
          Discovered,    \* the relays the DHT's routing table can give
          Loop,          \* slots for the two loops of startRelayLoops
          Reconnector,   \* slots for reconnectWithBackoff
          Lookup,        \* slots for the goroutine of startDHT
          None

VARIABLES share,         \* cfg.ActiveNetworkBackend(); "other" is not libp2p
          pending,       \* handleConfig has edited cfg and not yet applied it
          active,        \* activeLibp2pBackend
          host,          \* Host: "none" or "up"
          infos,         \* relayInfos
          refused,       \* the relays of relayRefusedUntil that cool off
          sized,         \* relayRefusedUntil is as long as relayInfos
          relayAddrs,    \* relays a reservation is held on
          relayCancel,   \* the loops that relayCancel stops
          loop,          \* slot -> context and where its goroutines are
          rec,           \* slot -> where the goroutine is, and its loops
          dhtGen,        \* the goroutine started last
          dhtClient,     \* the published client, named by its goroutine
          dht,           \* slot -> the goroutine and the client it made
          call,          \* the call that holds networkMu
          writerWaits,   \* a goroutine waits in n.mu.Lock
          panicked       \* "no", or the context of the goroutine that did

relayVars == <<infos, refused, sized, relayAddrs>>
loopVars == <<relayCancel, loop, rec>>
dhtVars == <<dhtGen, dhtClient, dht>>
nodeVars == <<share, pending, active, host, relayVars, loopVars, dhtVars,
              call, writerWaits, panicked>>

NoCall == [pc |-> "idle", kind |-> "none", ctx |-> "done"]
Gone == [pc |-> "gone", ctx |-> "done"]
Idle == [pc |-> "gone", loop |-> None]

(* configuredLibp2pBackend *)
Libp2p(b) == IF b = "other" THEN "none" ELSE b

(* RunStack calls New with the context of the process. *)
Init == /\ share \in {"relay", "dht", "other"} /\ active = Libp2p(share)
        /\ pending = FALSE /\ host = "none"
        /\ infos = {} /\ refused = {} /\ sized = TRUE /\ relayAddrs = {}
        /\ relayCancel = None /\ loop = [l \in Loop |-> Gone]
        /\ rec = [r \in Reconnector |-> Idle]
        /\ dhtGen = None /\ dhtClient = None /\ dht = [d \in Lookup |-> Gone]
        /\ call = [pc |-> "start", kind |-> "new", ctx |-> "app"]
        /\ writerWaits = FALSE /\ panicked = "no"

At(pc) == call.pc = pc
Goto(pc) == call' = [call EXCEPT !.pc = pc]
Unlocked == ~At("status")                  \* n.mu can be locked for writing
relayEnabled == active = "relay"
dhtEnabled == active = "dht"
DHTReady == dhtClient # None               \* and it may have peers by now

(* backendRunningLocked *)
Running(b) == IF b = "relay" THEN host = "up" ELSE dhtClient # None

(* A context ends, or is handed on, with everything that derives from it.  *)
Moved(g, from, to) == IF g.ctx = from THEN [g EXCEPT !.ctx = to] ELSE g
Move(from, to) == /\ loop' = [l \in Loop |-> Moved(loop[l], from, to)]
                  /\ dht' = [d \in Lookup |-> Moved(dht[d], from, to)]

(* relayCancel() and relayCancel = nil *)
CancelRelay_Drops == relayCancel' = None /\ UNCHANGED <<loop, rec>>
CancelRelay ==
    /\ relayCancel' = None
    /\ loop' = [l \in Loop |-> IF l = relayCancel THEN [loop[l] EXCEPT !.ctx = "done"]
                               ELSE loop[l]]
    /\ UNCHANGED rec

(* dhtCancel(), the client taken out of the node and closed. *)
CancelDHT_Drops == dhtClient' = None /\ UNCHANGED <<dhtGen, dht>>
CancelDHT == /\ dhtClient' = None
             /\ dht' = [d \in Lookup |->
                          IF d = dhtClient THEN Gone
                          ELSE IF d = dhtGen THEN [dht[d] EXCEPT !.ctx = "done"]
                          ELSE dht[d]]
             /\ UNCHANGED dhtGen
ForgetRelays == infos' = {} /\ refused' = {} /\ sized' = TRUE /\ relayAddrs' = {}

(* reserveAll under context c: every relay that does not cool off is       *)
(* tried; one that refuses cools off; a context that is over reserves      *)
(* nothing; what was reserved before is forgotten first.                   *)
ReserveAll_IgnoresContext(c) ==
    \E got \in SUBSET (infos \ refused) :
      relayAddrs' = got /\ UNCHANGED <<infos, refused, sized>>
ReserveAll(c) ==
    \E got, no \in SUBSET (infos \ refused) :
      /\ got \cap no = {}
      /\ c = "done" => got = {} /\ no = {}
      /\ relayAddrs' = got
      /\ refused' = refused \cup no
      /\ UNCHANGED <<infos, sized>>

(* reserveAll fails on a host that is gone, or on the shorter slice.       *)
ReservePanics == infos # {} /\ (~sized \/ (infos \ refused # {} /\ host = "none"))
CanReserve == Unlocked /\ ~ReservePanics
Panic(c) == panicked' = (IF c = "done" THEN "stale" ELSE "live")

-----------------------------------------------------------------------------
(* The service's calls *)

(* handleConfig edits the configuration before it asks for networkMu. *)
ChangeShare(b) ==
    /\ ~pending /\ b # share
    /\ share' = b /\ pending' = TRUE
    /\ UNCHANGED <<active, host, relayVars, loopVars, dhtVars, call, writerWaits, panicked>>

(* The first critical section of applyNetworkConfig; the host that decides *)
(* how it goes on only changes under networkMu.                            *)
Clear(kind, b) ==
    /\ active' = b /\ CancelRelay /\ CancelDHT /\ ForgetRelays
    /\ call' = [pc |-> IF b = "none" \/ host = "none" THEN "start"
                       ELSE IF b = "relay" THEN "resolve again" ELSE "dht",
                kind |-> kind, ctx |-> "call"]
    /\ UNCHANGED <<share, host, writerWaits, panicked>>

ApplyNetworkConfig ==
    /\ At("idle") /\ pending
    /\ Clear("apply", Libp2p(share)) /\ pending' = FALSE

(* ensureNetworkBackendLocked for a connect attempt. *)
EnsureConnect(b) ==
    /\ At("idle") /\ (b = "relay" \/ dhtClient = None)
    /\ Clear("connect", b) /\ UNCHANGED pending
EnsureFinds ==
    /\ At("idle") /\ dhtClient # None
    /\ call' = [pc |-> "wait", kind |-> "connect", ctx |-> "call"]
    /\ UNCHANGED <<share, pending, active, host, relayVars, loopVars, dhtVars,
                   writerWaits, panicked>>

(* The ticker of RunStack: the selected backend, when it is not running. *)
BackgroundRetry ==
    /\ At("idle") /\ share # "other" /\ ~Running(share)
    /\ Clear("retry", share) /\ UNCHANGED pending

(* The call returns.  The contexts of handleConfig and of the retry are    *)
(* cancelled with it; a connect attempt goes on under its own.             *)
Return == /\ call' = NoCall
          /\ Move("call", IF call.kind = "connect" THEN "connect" ELSE "done")

(* StopLibp2p *)
StopLibp2p ==
    /\ At("start") /\ active = "none"
    /\ host' = "none" /\ dhtClient' = None /\ ForgetRelays /\ Return
    /\ UNCHANGED <<share, pending, active, relayCancel, rec, dhtGen, writerWaits, panicked>>

(* startLibp2pHost.  A start that fails ends New, and the process with it. *)
HostStarts ==
    /\ At("start") /\ active # "none" /\ host = "none"
    /\ host' = "up" /\ Goto("resolve")
    /\ UNCHANGED <<share, pending, active, relayVars, loopVars, dhtVars, writerWaits, panicked>>
HostFails ==
    /\ At("start") /\ active # "none" /\ host = "none" /\ call.kind # "new"
    /\ Return
    /\ UNCHANGED <<share, pending, active, host, relayVars, relayCancel, rec, dhtGen,
                   dhtClient, writerWaits, panicked>>
(* resolveRelays for a new host: two assignments, outside n.mu. *)
ResolveForHost(s) ==
    /\ At("resolve") /\ infos' = s /\ sized' = FALSE /\ Goto("size")
    /\ UNCHANGED <<share, pending, active, host, refused, relayAddrs, loopVars, dhtVars,
                   writerWaits, panicked>>
SizeRefused ==
    /\ At("size") /\ sized' = TRUE /\ refused' = {}
    /\ Goto(IF relayEnabled THEN "reserve" ELSE "dht")
    /\ UNCHANGED <<share, pending, active, host, infos, relayAddrs, loopVars, dhtVars,
                   writerWaits, panicked>>
(* resolveRelays for a host that stays: both under n.mu. *)
ResolveAgain(s) ==
    /\ At("resolve again") /\ infos' = s /\ sized' = TRUE /\ refused' = {}
    /\ Goto("reserve")
    /\ UNCHANGED <<share, pending, active, host, relayAddrs, loopVars, dhtVars,
                   writerWaits, panicked>>
ResolveFails ==
    /\ At("resolve") \/ At("resolve again")
    /\ Goto(IF relayEnabled THEN "loops" ELSE "dht")
    /\ UNCHANGED <<share, pending, active, host, relayVars, loopVars, dhtVars,
                   writerWaits, panicked>>
CallReserves ==
    /\ At("reserve") /\ CanReserve /\ ReserveAll(call.ctx) /\ Goto("loops")
    /\ UNCHANGED <<share, pending, active, host, loopVars, dhtVars, writerWaits, panicked>>

(* startRelayLoops *)
FreeLoop(l) == /\ loop[l].pc = "gone"
               /\ \A r \in Reconnector : rec[r].pc # "gone" => rec[r].loop # l
StartRelayLoops(l) ==
    /\ At("loops") /\ FreeLoop(l)
    /\ relayCancel' = l
    /\ loop' = [m \in Loop |->
                  IF m = l THEN [pc |-> "wait", ctx |-> call.ctx]
                  ELSE IF m = relayCancel THEN [loop[m] EXCEPT !.ctx = "done"]
                  ELSE loop[m]]
    /\ Goto("dht")
    /\ UNCHANGED <<share, pending, active, host, relayVars, rec, dhtVars, writerWaits, panicked>>

(* startDHT; a connect or a retry that needs the DHT then waits for it. *)
FreeLookup(d) == /\ dht[d].pc \in {"gone", "up"} /\ dht[d].ctx = "done" /\ dhtClient # d
StartDHT(d) ==
    /\ At("dht") /\ dhtEnabled /\ FreeLookup(d)
    /\ dhtGen' = d
    /\ dht' = [e \in Lookup |->
                 IF e = d THEN [pc |-> "new", ctx |-> call.ctx]
                 ELSE IF e = dhtGen THEN [dht[e] EXCEPT !.ctx = "done"] ELSE dht[e]]
    /\ Goto(IF call.kind \in {"connect", "retry"} THEN "wait" ELSE "return")
    /\ UNCHANGED <<share, pending, active, host, relayVars, loopVars, dhtClient,
                   writerWaits, panicked>>
NoDHT ==
    /\ At("dht") /\ ~dhtEnabled
    /\ dhtClient' = None
    /\ dht' = [d \in Lookup |-> IF d = dhtGen THEN [dht[d] EXCEPT !.ctx = "done"] ELSE dht[d]]
    /\ Goto("return")
    /\ UNCHANGED <<share, pending, active, host, relayVars, loopVars, dhtGen,
                   writerWaits, panicked>>
(* WaitDHTReady *)
WaitDHTReady ==
    /\ At("wait") /\ (DHTReady \/ call.ctx = "done") /\ Return
    /\ UNCHANGED <<share, pending, active, host, relayVars, relayCancel, rec, dhtGen,
                   dhtClient, writerWaits, panicked>>

(* The rest of the call works on the other backends. *)
CallReturns ==
    /\ At("return") /\ Return
    /\ UNCHANGED <<share, pending, active, host, relayVars, relayCancel, rec, dhtGen,
                   dhtClient, writerWaits, panicked>>

(* The contexts end: a timeout during the call, or the end of a connect. *)
CallTimesOut ==
    /\ call.ctx = "call" /\ call' = [call EXCEPT !.ctx = "done"] /\ Move("call", "done")
    /\ UNCHANGED <<share, pending, active, host, relayVars, relayCancel, rec, dhtGen,
                   dhtClient, writerWaits, panicked>>
ConnectEnds ==
    /\ \/ \E l \in Loop : loop[l].ctx = "connect"
       \/ \E d \in Lookup : dht[d].ctx = "connect"
    /\ Move("connect", "done")
    /\ UNCHANGED <<share, pending, active, host, relayVars, relayCancel, rec, dhtGen,
                   dhtClient, call, writerWaits, panicked>>

(* NetworkStatus holds n.mu for reading and locks it again in RelayMask: a *)
(* writer that has come in between waits for it, and it for the writer.    *)
StatusLocks ==
    /\ At("idle") /\ call' = [pc |-> "status", kind |-> "status", ctx |-> "done"]
    /\ UNCHANGED <<share, pending, active, host, relayVars, loopVars, dhtVars,
                   writerWaits, panicked>>
StatusAnswers ==
    /\ At("status") /\ ~writerWaits /\ call' = NoCall
    /\ UNCHANGED <<share, pending, active, host, relayVars, loopVars, dhtVars,
                   writerWaits, panicked>>
WriterArrives ==
    /\ At("status") /\ ~writerWaits
    /\ \/ \E l \in Loop : loop[l].pc # "gone"
       \/ \E r \in Reconnector : rec[r].pc = "try"
       \/ \E d \in Lookup : dht[d].pc \in {"new", "made"}
    /\ writerWaits' = TRUE
    /\ UNCHANGED <<share, pending, active, host, relayVars, loopVars, dhtVars, call, panicked>>

-----------------------------------------------------------------------------
(* The goroutines *)

callVars == <<share, pending, active, host, call, writerWaits>>
Ctx(r) == loop[rec[r].loop].ctx

(* keepAliveLoop, and pingRelays with the relays it read *)
KeepAliveTick(l) ==
    /\ loop[l].pc = "wait" /\ ~writerWaits /\ infos # {}
    /\ loop' = [loop EXCEPT ![l].pc = "ping"]
    /\ UNCHANGED <<callVars, relayVars, relayCancel, rec, dhtVars, panicked>>
PingFindsAll(l) ==
    /\ loop[l].pc = "ping" /\ host = "up"
    /\ loop' = [loop EXCEPT ![l].pc = "wait"]
    /\ UNCHANGED <<callVars, relayVars, relayCancel, rec, dhtVars, panicked>>
PingReconnects(l, r) ==
    /\ loop[l].pc = "ping" /\ host = "up" /\ rec[r].pc = "gone"
    /\ rec' = [rec EXCEPT ![r] = [pc |-> "try", loop |-> l]]
    /\ loop' = [loop EXCEPT ![l].pc = "wait"]
    /\ UNCHANGED <<callVars, relayVars, relayCancel, dhtVars, panicked>>
PingPanics(l) ==
    /\ loop[l].pc = "ping" /\ host = "none" /\ Panic(loop[l].ctx)
    /\ UNCHANGED <<callVars, relayVars, loopVars, dhtVars>>
(* Both loops have seen that the context is over. *)
LoopsEnd(l) ==
    /\ loop[l].pc = "wait" /\ loop[l].ctx = "done"
    /\ loop' = [loop EXCEPT ![l].pc = "gone"]
    /\ UNCHANGED <<callVars, relayVars, relayCancel, rec, dhtVars, panicked>>

(* reservationRefreshLoop *)
Refresh(l) ==
    /\ loop[l].pc # "gone" /\ CanReserve /\ ReserveAll(loop[l].ctx)
    /\ UNCHANGED <<callVars, loopVars, dhtVars, panicked>>
RefreshPanics(l) ==
    /\ loop[l].pc # "gone" /\ Unlocked /\ ReservePanics /\ Panic(loop[l].ctx)
    /\ UNCHANGED <<callVars, relayVars, loopVars, dhtVars>>

(* reconnectWithBackoff *)
ReconnectTries(r) ==
    /\ rec[r].pc = "try" /\ CanReserve /\ ReserveAll(Ctx(r))
    /\ rec' = [rec EXCEPT ![r].pc = IF relayAddrs' = {} THEN "wait" ELSE "check"]
    /\ UNCHANGED <<callVars, relayCancel, loop, dhtVars, panicked>>
ReconnectPanics(r) ==
    /\ rec[r].pc = "try" /\ Unlocked /\ ReservePanics /\ Panic(Ctx(r))
    /\ UNCHANGED <<callVars, relayVars, loopVars, dhtVars>>
ReconnectChecks(r) ==
    /\ rec[r].pc = "check" /\ ~writerWaits
    /\ rec' = [rec EXCEPT ![r] = IF relayEnabled /\ relayAddrs # {} THEN Idle
                                 ELSE [@ EXCEPT !.pc = "wait"]]
    /\ UNCHANGED <<callVars, relayVars, relayCancel, loop, dhtVars, panicked>>
ReconnectBacksOff(r) ==
    /\ rec[r].pc = "wait" /\ rec' = [rec EXCEPT ![r].pc = "try"]
    /\ UNCHANGED <<callVars, relayVars, relayCancel, loop, dhtVars, panicked>>
(* addDHTRelays, in an attempt after the third *)
AddDHTRelays_Short(r) ==
    /\ rec[r].pc = "try" /\ Unlocked /\ DHTReady /\ ~(Discovered \subseteq infos)
    /\ infos' = infos \cup Discovered /\ sized' = FALSE
    /\ UNCHANGED <<callVars, refused, relayAddrs, loopVars, dhtVars, panicked>>
AddDHTRelays(r) ==
    /\ rec[r].pc = "try" /\ Unlocked /\ DHTReady /\ ~(Discovered \subseteq infos)
    /\ infos' = infos \cup Discovered
    /\ UNCHANGED <<callVars, refused, sized, relayAddrs, loopVars, dhtVars, panicked>>
ReconnectEnds(r) ==
    /\ rec[r].pc = "wait" /\ Ctx(r) = "done" /\ rec' = [rec EXCEPT ![r] = Idle]
    /\ UNCHANGED <<callVars, relayVars, relayCancel, loop, dhtVars, panicked>>

(* The goroutine of startDHT *)
MakeClient(d) ==
    /\ dht[d].pc = "new" /\ host = "up" /\ dht' = [dht EXCEPT ![d].pc = "made"]
    /\ UNCHANGED <<callVars, relayVars, loopVars, dhtGen, dhtClient, panicked>>
MakeFails(d) ==
    /\ dht[d].pc = "new" /\ Unlocked /\ host = "up" /\ dht' = [dht EXCEPT ![d] = Gone]
    /\ UNCHANGED <<callVars, relayVars, loopVars, dhtGen, dhtClient, panicked>>
MakePanics(d) ==
    /\ dht[d].pc = "new" /\ host = "none" /\ Panic(dht[d].ctx)
    /\ UNCHANGED <<callVars, relayVars, loopVars, dhtVars>>
Publish_Always(d) ==
    /\ dht[d].pc = "made" /\ Unlocked
    /\ dhtClient' = d /\ dht' = [dht EXCEPT ![d].pc = "up"]
    /\ UNCHANGED <<callVars, relayVars, loopVars, dhtGen, panicked>>
Publish(d) ==
    /\ dht[d].pc = "made" /\ Unlocked
    /\ \/ /\ dhtGen = d /\ dhtClient' = d /\ dht' = [dht EXCEPT ![d].pc = "up"]
       \/ /\ dhtGen # d /\ dht' = [dht EXCEPT ![d] = Gone] /\ UNCHANGED dhtClient
    /\ UNCHANGED <<callVars, relayVars, loopVars, dhtGen, panicked>>
(* The half hour of a relay that refused is over. *)
CoolOffEnds(a) ==
    /\ a \in refused /\ refused' = refused \ {a}
    /\ UNCHANGED <<callVars, infos, sized, relayAddrs, loopVars, dhtVars, panicked>>

-----------------------------------------------------------------------------
CallStep == \/ StopLibp2p \/ HostStarts \/ HostFails 
            \/ \E s \in SUBSET Configured \ {{}} : ResolveForHost(s) \/ ResolveAgain(s)
            \/ SizeRefused \/ ResolveFails \/ CallReserves
            \/ \E l \in Loop : StartRelayLoops(l)
            \/ (\E d \in Lookup : StartDHT(d)) \/ NoDHT
            \/ WaitDHTReady \/ CallReturns \/ StatusAnswers
NewCall == \/ ApplyNetworkConfig \/ BackgroundRetry \/ EnsureFinds \/ StatusLocks
           \/ \E b \in {"relay", "dht"} : EnsureConnect(b)
KeepAlive(l) == \/ KeepAliveTick(l) \/ PingFindsAll(l) \/ PingPanics(l) \/ LoopsEnd(l)
                \/ \E r \in Reconnector : PingReconnects(l, r)
Refreshes(l) == Refresh(l) \/ RefreshPanics(l)
Reconnects(r) == \/ ReconnectTries(r) \/ ReconnectPanics(r) \/ ReconnectChecks(r)
                 \/ ReconnectBacksOff(r) \/ AddDHTRelays(r) \/ ReconnectEnds(r)
LooksUp(d) == MakeClient(d) \/ MakeFails(d) \/ MakePanics(d) \/ Publish(d)

Next == /\ panicked = "no"
        /\ \/ CallStep \/ NewCall \/ CallTimesOut \/ ConnectEnds \/ WriterArrives
           \/ \E b \in {"relay", "dht", "other"} : ChangeShare(b)
           \/ \E l \in Loop : KeepAlive(l) \/ Refreshes(l)
           \/ \E r \in Reconnector : Reconnects(r)
           \/ \E d \in Lookup : LooksUp(d)
           \/ \E a \in Configured \cup Discovered : CoolOffEnds(a)

Spec == Init /\ [][Next]_nodeVars
-----------------------------------------------------------------------------
(* Properties *)

(* A relay address is advertised only while the relay backend is active    *)
(* and its host is up, and only for a relay of the present list: no loop   *)
(* left over from earlier settings reserves for the present ones           *)
(* (applyNetworkConfig, reserveAll).                                       *)
HeldForRelayOnly ==
    /\ relayAddrs # {} => active = "relay" /\ host = "up"
    /\ relayAddrs \subseteq infos /\ refused \subseteq infos

(* At most one pair of relay loops has a live context, and it is the one   *)
(* that relayCancel can stop; and a DHT client that has been taken out of  *)
(* the node is not kept running by a live context, though startDHT may     *)
(* drop it without Close.                                                  *)
NothingRunsUnheld ==
    /\ \A l \in Loop : loop[l].ctx # "done" => l = relayCancel
    /\ \A d \in Lookup : dht[d].pc = "up" /\ d # dhtClient => dht[d].ctx = "done"
    /\ dhtClient # None => dht[dhtClient].pc = "up"

(* The goroutine of an earlier startDHT never replaces what a later one    *)
(* has published, however late its client is made.                         *)
NewestReplaces == [][dhtClient' \in {None, dhtClient, dhtGen}]_nodeVars

(* Only a goroutine whose context is over can meet a host that is gone or  *)
(* a slice that is too short.                                              *)
OnlyStalePanics == panicked # "live"
=============================================================================
