------------------------ MODULE NodeLifecycleProofs ------------------------
(***************************************************************************)
(* Proofs about the libp2p node under the service's calls, for any number  *)
(* of relays, of loops and reconnectors left over from earlier settings,   *)
(* and of DHT goroutines.                                                  *)
(*                                                                         *)
(* applyNetworkConfig cancels everything the settings before it started,   *)
(* outside the lock that the goroutines take, and builds up the new        *)
(* backend in several steps.  NodeInv says how far a call has come, that   *)
(* no goroutine has a live context until the call starts it, and that one  *)
(* with a live context is the one the node would cancel.                   *)
(***************************************************************************)
EXTENDS NodeLifecycle, TLAPS

Context == {"app", "call", "connect", "done"}

RecTypes ==
    /\ rec \in [Reconnector -> [pc : {"gone", "try", "check", "wait"}, loop : Loop \cup {None}]]
    /\ \A r \in Reconnector : rec[r].pc # "gone" => rec[r].loop \in Loop
LoopTypes == loop \in [Loop -> [pc : {"gone", "wait", "ping"}, ctx : Context]]
LookupTypes == dht \in [Lookup -> [pc : {"gone", "new", "made", "up"}, ctx : Context]]
Kind == {"none", "new", "apply", "connect", "retry", "status"}
CallTypes ==
    call \in [pc : {"idle", "start", "resolve", "size", "resolve again", "reserve", "loops",
                    "dht", "wait", "return", "status"}, kind : Kind, ctx : Context]
NodeTypes ==
    /\ share \in {"relay", "dht", "other"} /\ active \in {"relay", "dht", "none"}
    /\ host \in {"none", "up"}
    /\ LoopTypes /\ LookupTypes /\ RecTypes /\ CallTypes

(* A call between its first critical section and the start of the loops,   *)
(* and what it has found or made by then.                                  *)
Resolving == {"start", "resolve", "size", "resolve again"}
Preparing == Resolving \cup {"reserve", "loops"}
CallPhase ==
    /\ call.pc \in Resolving => relayAddrs = {} /\ refused = {}
    /\ call.pc = "reserve" => relayAddrs = {}
    /\ call.pc = "start" => active = "none" \/ host = "none"
    /\ call.pc \in {"resolve", "size", "dht"} => host = "up" /\ active # "none"
    /\ call.pc \in {"resolve again", "reserve", "loops"} => host = "up" /\ active = "relay"
    /\ ~sized => call.pc = "size"

LoopIsHeld(l) ==
    loop[l].ctx # "done" => /\ l = relayCancel /\ active = "relay" /\ host = "up"
                            /\ call.pc \notin Preparing
LookupIsHeld(d) ==
    dht[d].ctx # "done" => /\ d = dhtGen /\ host = "up"
                           /\ call.pc \notin Preparing \cup {"dht"}
                           /\ dht[d].pc = "up" => d = dhtClient
ClientIsUp == dhtClient # None => dhtClient \in Lookup /\ dht[dhtClient].pc = "up"

NodeInv == /\ NodeTypes /\ CallPhase /\ HeldForRelayOnly /\ ClientIsUp
           /\ \A l \in Loop : LoopIsHeld(l)
           /\ \A d \in Lookup : LookupIsHeld(d)
           /\ OnlyStalePanics

(* What the node holds under its own locks, and who may use it. *)
Rest == /\ CallPhase /\ HeldForRelayOnly /\ ClientIsUp /\ OnlyStalePanics
Held == (\A l \in Loop : LoopIsHeld(l)) /\ (\A d \in Lookup : LookupIsHeld(d))

-----------------------------------------------------------------------------

(* RunStack starts with nothing running and the first call under way. *)
LEMMA NodeInvInit == Init => NodeInv
<1> SUFFICES ASSUME Init PROVE NodeInv
  OBVIOUS
<1> USE DEF Init
<1>1. NodeTypes
  BY DEF NodeTypes, LoopTypes, LookupTypes, RecTypes, CallTypes, Kind, Context, Gone, Idle, Libp2p
<1>2. Rest
  BY DEF Rest, CallPhase, Resolving, HeldForRelayOnly, ClientIsUp, OnlyStalePanics, Libp2p
<1>3. Held
  BY DEF Held, LoopIsHeld, LookupIsHeld, Gone
<1>4. QED
  BY <1>1, <1>2, <1>3 DEF NodeInv, Rest, Held

(* Contexts that end or are handed on make nothing live that was not. *)
LEMMA MoveEnds ==
    ASSUME NodeInv, NEW to \in {"connect", "done"}, NEW from \in {"call", "connect"},
           Move(from, to)
    PROVE  /\ LoopTypes' /\ LookupTypes'
           /\ \A l \in Loop : loop'[l].ctx # "done" => loop[l].ctx # "done"
           /\ \A d \in Lookup : dht'[d].pc = dht[d].pc
           /\ \A d \in Lookup : dht'[d].ctx # "done" => dht[d].ctx # "done"
<1> USE DEF NodeInv, NodeTypes, LoopTypes, LookupTypes, Context, Move, Moved
<1>1. LoopTypes' /\ \A l \in Loop : loop'[l].ctx # "done" => loop[l].ctx # "done"
  OBVIOUS
<1>2. LookupTypes' /\ \A d \in Lookup :
                        dht'[d].pc = dht[d].pc /\ (dht'[d].ctx # "done" => dht[d].ctx # "done")
  OBVIOUS
<1>3. QED
  BY <1>1, <1>2

(* The first critical section of applyNetworkConfig stops everything the   *)
(* settings before it started.                                             *)
LEMMA ClearKeeps ==
    ASSUME NodeInv, NEW kind \in Kind, NEW b \in {"relay", "dht", "none"}, Clear(kind, b)
    PROVE  NodeInv'
<1> USE DEF Clear
<1>1. LoopTypes' /\ \A l \in Loop : loop'[l].ctx = "done"
  BY DEF NodeInv, NodeTypes, LoopTypes, LoopIsHeld, Context, CancelRelay
<1>2. LookupTypes' /\ \A d \in Lookup : dht'[d].ctx = "done"
  BY DEF NodeInv, NodeTypes, LookupTypes, LookupIsHeld, Context, CancelDHT, Gone
<1>3. NodeTypes'
  BY <1>1, <1>2 DEF NodeInv, NodeTypes, RecTypes, CallTypes, Kind, Context, CancelRelay
<1>4. Rest'
  <2>1. /\ relayAddrs' = {} /\ refused' = {} /\ infos' = {} /\ sized' = TRUE
        /\ dhtClient' = None /\ active' = b /\ host' = host /\ panicked' = panicked
        /\ call'.pc = IF b = "none" \/ host = "none" THEN "start"
                      ELSE IF b = "relay" THEN "resolve again" ELSE "dht"
    BY DEF CancelDHT, ForgetRelays
  <2>2. host \in {"none", "up"} /\ panicked # "live"
    BY DEF NodeInv, NodeTypes, OnlyStalePanics
  <2>3. QED
    BY <2>1, <2>2 DEF Rest, CallPhase, Resolving, HeldForRelayOnly, ClientIsUp, OnlyStalePanics
<1>5. Held'
  BY <1>1, <1>2 DEF Held, LoopIsHeld, LookupIsHeld
<1>6. QED
  BY <1>3, <1>4, <1>5 DEF NodeInv, Rest, Held

(* Steps of a call that do not touch the node, at its start or its end, or *)
(* without it.                                                             *)
CallRests == \/ call'.pc = call.pc
             \/ call.pc # "size" /\ call'.pc \notin Preparing \cup {"dht"}
LEMMA QuietStepKeeps ==
    ASSUME NodeInv, UNCHANGED <<active, host, relayVars, loopVars, dhtVars, panicked>>,
           share' \in {"relay", "dht", "other"}, CallTypes', CallRests
    PROVE  NodeInv'
<1> USE DEF NodeInv, relayVars, loopVars, dhtVars, CallRests, Preparing, Resolving
<1>1. NodeTypes'
  BY DEF NodeTypes, LoopTypes, LookupTypes, RecTypes
<1>2. Rest'
  BY DEF Rest, CallPhase, HeldForRelayOnly, ClientIsUp, OnlyStalePanics
<1>3. Held'
  BY DEF Held, LoopIsHeld, LookupIsHeld
<1>4. QED
  BY <1>1, <1>2, <1>3 DEF Rest, Held

(* The service's calls begin. *)
LEMMA NewCallKeeps == ASSUME NodeInv, NewCall PROVE NodeInv'
<1>1. CASE ApplyNetworkConfig
  BY <1>1, ClearKeeps DEF Kind, ApplyNetworkConfig, Libp2p, NodeInv, NodeTypes
<1>2. CASE \E b \in {"relay", "dht"} : EnsureConnect(b)
  BY <1>2, ClearKeeps DEF Kind, EnsureConnect
<1>3. CASE BackgroundRetry
  BY <1>3, ClearKeeps DEF Kind, BackgroundRetry, NodeInv, NodeTypes
<1>4. CASE EnsureFinds
  <2>1. CallTypes' /\ CallRests /\ share' = share
    BY <1>4 DEF EnsureFinds, At, CallTypes, Kind, Context, CallRests, Preparing, Resolving
  <2>2. QED
    BY <1>4, <2>1, QuietStepKeeps DEF EnsureFinds, NodeInv, NodeTypes
<1>5. CASE StatusLocks
  <2>1. CallTypes' /\ CallRests /\ share' = share
    BY <1>5 DEF StatusLocks, At, CallTypes, Kind, Context, CallRests, Preparing, Resolving
  <2>2. QED
    BY <1>5, <2>1, QuietStepKeeps DEF StatusLocks, NodeInv, NodeTypes
<1>6. QED
  BY <1>1, <1>2, <1>3, <1>4, <1>5 DEF NewCall

(* startRelayLoops is the only step that makes a loop live, and only after *)
(* every older one has been cancelled.                                     *)
LEMMA StartRelayLoopsKeeps == ASSUME NodeInv, NEW l \in Loop, StartRelayLoops(l) PROVE NodeInv'
<1> USE DEF StartRelayLoops, At, Goto, relayVars, dhtVars, NodeInv
<1>1. NodeTypes'
  <2>1. call.ctx \in Context /\ LoopTypes
    BY DEF NodeTypes, CallTypes
  <2>2. LoopTypes'
    BY <2>1 DEF LoopTypes, Context
  <2>3. CallTypes'
    BY DEF NodeTypes, CallTypes
  <2>4. QED
    BY <2>2, <2>3 DEF NodeTypes, LookupTypes, RecTypes
<1>2. Rest'
  BY DEF Rest, CallPhase, Resolving, HeldForRelayOnly, ClientIsUp, OnlyStalePanics
<1>3. Held'
  BY DEF Held, LoopIsHeld, LookupIsHeld, CallPhase, Preparing, Resolving, NodeTypes, LoopTypes
<1>4. QED
  BY <1>1, <1>2, <1>3 DEF Rest, Held

(* The same of startDHT. *)
LEMMA StartDHTKeeps == ASSUME NodeInv, NEW d \in Lookup, StartDHT(d) PROVE NodeInv'
<1> USE DEF StartDHT, At, Goto, relayVars, loopVars, NodeInv
<1>1. NodeTypes'
  <2>1. LookupTypes'
    BY DEF NodeTypes, LookupTypes, CallTypes, Context
  <2>2. CallTypes'
    BY DEF NodeTypes, CallTypes
  <2>3. QED
    BY <2>1, <2>2 DEF NodeTypes, LoopTypes, RecTypes
<1>2. Rest'
  BY DEF Rest, CallPhase, Resolving, HeldForRelayOnly, ClientIsUp, OnlyStalePanics, FreeLookup,
         NodeTypes, LookupTypes
<1>3. Held'
  BY DEF Held, LoopIsHeld, LookupIsHeld, CallPhase, Preparing, Resolving, NodeTypes, LookupTypes
<1>4. QED
  BY <1>1, <1>2, <1>3 DEF Rest, Held

(* A call returns, or a context ends, with or without StopLibp2p. *)
LEMMA EndStepKeeps ==
    ASSUME NodeInv, NEW from \in {"call", "connect"}, NEW to \in {"connect", "done"},
           Move(from, to), UNCHANGED <<share, active, relayCancel, rec, dhtGen, panicked>>,
           CallTypes', CallRests,
           \/ UNCHANGED <<host, relayVars, dhtClient>>
           \/ At("start") /\ host' = "none" /\ dhtClient' = None /\ ForgetRelays
    PROVE  NodeInv'
<1>1. /\ LoopTypes' /\ LookupTypes'
      /\ \A l \in Loop : loop'[l].ctx # "done" => loop[l].ctx # "done"
      /\ \A d \in Lookup : dht'[d].pc = dht[d].pc
      /\ \A d \in Lookup : dht'[d].ctx # "done" => dht[d].ctx # "done"
  BY MoveEnds
<1> USE DEF ForgetRelays, At, relayVars, CallRests, Preparing, Resolving
<1>2. NodeTypes'
  BY <1>1 DEF NodeInv, NodeTypes, RecTypes
<1>3. Rest'
  <2>1. ClientIsUp'
    BY <1>1 DEF NodeInv, ClientIsUp
  <2>2. CallPhase' /\ HeldForRelayOnly' /\ OnlyStalePanics'
    BY DEF NodeInv, CallPhase, HeldForRelayOnly, OnlyStalePanics
  <2>3. QED
    BY <2>1, <2>2 DEF Rest
<1>4. Held'
  BY <1>1 DEF NodeInv, Held, LoopIsHeld, LookupIsHeld
<1>5. QED
  BY <1>2, <1>3, <1>4 DEF NodeInv, Rest, Held

LEMMA EndingsKeep ==
    ASSUME NodeInv,
           \/ StopLibp2p \/ HostFails \/ WaitDHTReady \/ CallReturns
           \/ CallTimesOut \/ ConnectEnds
    PROVE  NodeInv'
<1> USE DEF At, CallTypes, Kind, Context, CallRests, Preparing, Resolving, NoCall
<1>1. CASE StopLibp2p
  BY <1>1, EndStepKeeps DEF StopLibp2p, Return
<1>2. CASE HostFails
  BY <1>2, EndStepKeeps DEF HostFails, Return
<1>3. CASE WaitDHTReady \/ CallReturns
  <2>1. call' = NoCall /\ call.pc # "size"
    BY <1>3 DEF WaitDHTReady, CallReturns, Return
  <2>2. PICK to \in {"connect", "done"} : Move("call", to)
    BY <1>3 DEF WaitDHTReady, CallReturns, Return
  <2>3. QED
    BY <1>3, <2>1, <2>2, EndStepKeeps DEF WaitDHTReady, CallReturns
<1>4. CASE CallTimesOut
  <2>1. call'.pc = call.pc /\ CallTypes'
    BY <1>4 DEF CallTimesOut, NodeInv, NodeTypes
  <2>2. QED
    BY <1>4, <2>1, EndStepKeeps DEF CallTimesOut
<1>5. CASE ConnectEnds
  BY <1>5, EndStepKeeps DEF ConnectEnds, NodeInv, NodeTypes
<1>6. QED
  BY <1>1, <1>2, <1>3, <1>4, <1>5

(* The other steps of a call. *)
LEMMA CallStepKeeps == ASSUME NodeInv, CallStep PROVE NodeInv'
<1> USE DEF At, Goto, relayVars, loopVars, dhtVars
<1>1. CASE StopLibp2p \/ HostFails \/ WaitDHTReady \/ CallReturns
  BY <1>1, EndingsKeep
<1>2. CASE \E l \in Loop : StartRelayLoops(l)
  BY <1>2, StartRelayLoopsKeeps
<1>3. CASE \E d \in Lookup : StartDHT(d)
  BY <1>3, StartDHTKeeps
<1>4. CASE StatusAnswers
  <2>1. CallTypes' /\ CallRests /\ share' = share
    BY <1>4 DEF StatusAnswers, NoCall, CallTypes, Kind, Context, CallRests, Preparing, Resolving
  <2>2. QED
    BY <1>4, <2>1, QuietStepKeeps DEF StatusAnswers, NodeInv, NodeTypes
<1> DEFINE Unmoved == /\ loop' = loop /\ rec' = rec /\ dht' = dht /\ dhtClient' = dhtClient
                     /\ share' = share /\ active' = active /\ panicked' = panicked
                     /\ relayCancel' = relayCancel /\ dhtGen' = dhtGen
<1>5. ASSUME Unmoved, host' \in {"none", "up"}, CallTypes',
             CallPhase', HeldForRelayOnly', host' = host \/ At("start"),
             call'.pc \in Preparing \cup {"dht"} => call.pc \in Preparing,
             call'.pc \in Preparing \/ call'.pc = "dht"
      PROVE  NodeInv'
  <2>1. NodeTypes'
    BY <1>5 DEF NodeInv, NodeTypes, LoopTypes, LookupTypes, RecTypes
  <2>2. Rest'
    BY <1>5 DEF NodeInv, Rest, ClientIsUp, OnlyStalePanics
  <2>3. Held'
    BY <1>5 DEF NodeInv, Held, LoopIsHeld, LookupIsHeld, Preparing, Resolving
  <2>4. QED
    BY <2>1, <2>2, <2>3 DEF NodeInv, Rest, Held
<1> HIDE DEF Unmoved
<1> USE DEF NodeInv, NodeTypes, CallPhase, HeldForRelayOnly, CallTypes, Resolving, Preparing
<1>6. CASE HostStarts
  BY <1>5, <1>6 DEF HostStarts, Unmoved
<1>7. CASE \E s \in SUBSET Configured \ {{}} : ResolveForHost(s)
  BY <1>5, <1>7 DEF ResolveForHost, Unmoved
<1>8. CASE \E s \in SUBSET Configured \ {{}} : ResolveAgain(s)
  BY <1>5, <1>8 DEF ResolveAgain, Unmoved
<1>9. CASE SizeRefused
  BY <1>5, <1>9 DEF SizeRefused, relayEnabled, Unmoved
<1>10. CASE ResolveFails
  BY <1>5, <1>10 DEF ResolveFails, relayEnabled, Unmoved
<1>11. CASE CallReserves
  <2>1. /\ relayAddrs' \subseteq infos /\ refused' \subseteq infos
        /\ infos' = infos /\ sized' = sized
    BY <1>11 DEF CallReserves, ReserveAll
  <2>2. call.pc = "reserve" /\ call' = [call EXCEPT !.pc = "loops"] /\ host' = host /\ Unmoved
    BY <1>11 DEF CallReserves, Unmoved
  <2>3. CallTypes' /\ call'.pc = "loops"
    BY <2>2
  <2>4. CallPhase' /\ HeldForRelayOnly'
    BY <2>1, <2>2, <2>3 DEF Unmoved
  <2>5. QED
    BY <1>5, <2>2, <2>3, <2>4
<1>12. CASE NoDHT
  <2>1. LookupTypes' /\ CallTypes' /\ \A d \in Lookup : dht'[d].ctx = "done"
    BY <1>12 DEF NoDHT, LookupTypes, LookupIsHeld, Context
  <2>2. Held'
    BY <1>12, <2>1 DEF NoDHT, Held, LoopIsHeld, LookupIsHeld
  <2>3. NodeTypes'
    BY <1>12, <2>1 DEF NoDHT, LoopTypes, RecTypes
  <2>4. Rest'
    BY <1>12 DEF NoDHT, Rest, ClientIsUp, OnlyStalePanics
  <2>5. QED
    BY <2>2, <2>3, <2>4 DEF Rest, Held
<1>13. QED
  BY <1>1, <1>2, <1>3, <1>4, <1>6, <1>7, <1>8, <1>9, <1>10, <1>11, <1>12 DEF CallStep

-----------------------------------------------------------------------------
(* The goroutines *)

(* A loop that goes on, and a reconnector it may start. *)
LEMMA LoopMovesKeeps ==
    ASSUME NodeInv, NEW l \in Loop, NEW pc \in {"gone", "wait", "ping"},
           loop' = [loop EXCEPT ![l].pc = pc], RecTypes',
           UNCHANGED <<callVars, relayVars, relayCancel, dhtVars, panicked>>
    PROVE  NodeInv'
<1> USE DEF NodeInv, callVars, relayVars, dhtVars
<1>1. LoopTypes' /\ \A m \in Loop : loop'[m].ctx = loop[m].ctx
  BY DEF NodeTypes, LoopTypes
<1>2. NodeTypes'
  BY <1>1 DEF NodeTypes, LookupTypes, CallTypes
<1>3. Rest'
  BY DEF Rest, CallPhase, HeldForRelayOnly, ClientIsUp, OnlyStalePanics
<1>4. Held'
  BY <1>1 DEF Held, LoopIsHeld, LookupIsHeld
<1>5. QED
  BY <1>2, <1>3, <1>4 DEF Rest, Held

(* A panic of a goroutine whose context is over. *)
LEMMA StalePanicKeeps ==
    ASSUME NodeInv, Panic("done"), UNCHANGED <<callVars, relayVars, loopVars, dhtVars>>
    PROVE  NodeInv'
<1> USE DEF NodeInv, callVars, relayVars, loopVars, dhtVars
<1>1. NodeTypes'
  BY DEF NodeTypes, LoopTypes, LookupTypes, RecTypes, CallTypes
<1>2. Rest'
  BY DEF Rest, CallPhase, HeldForRelayOnly, ClientIsUp, OnlyStalePanics, Panic
<1>3. Held'
  BY DEF Held, LoopIsHeld, LookupIsHeld
<1>4. QED
  BY <1>1, <1>2, <1>3 DEF Rest, Held

LEMMA KeepAliveKeeps == ASSUME NodeInv, NEW l \in Loop, KeepAlive(l) PROVE NodeInv'
<1>1. CASE KeepAliveTick(l)
  BY <1>1, LoopMovesKeeps DEF KeepAliveTick, NodeInv, NodeTypes, RecTypes
<1>2. CASE PingFindsAll(l)
  BY <1>2, LoopMovesKeeps DEF PingFindsAll, NodeInv, NodeTypes, RecTypes
<1>3. CASE LoopsEnd(l)
  BY <1>3, LoopMovesKeeps DEF LoopsEnd, NodeInv, NodeTypes, RecTypes
<1>4. ASSUME NEW r \in Reconnector, PingReconnects(l, r) PROVE NodeInv'
  <2>1. RecTypes'
    BY <1>4 DEF PingReconnects, NodeInv, NodeTypes, RecTypes
  <2>2. QED
    BY <1>4, <2>1, LoopMovesKeeps DEF PingReconnects
<1>5. CASE PingPanics(l)
  <2>1. loop[l].ctx = "done"
    BY <1>5 DEF PingPanics, NodeInv, LoopIsHeld
  <2>2. QED
    BY <1>5, <2>1, StalePanicKeeps DEF PingPanics
<1>6. QED
  BY <1>1, <1>2, <1>3, <1>4, <1>5 DEF KeepAlive

(* reserveAll by whoever calls it: a goroutine whose context is over only  *)
(* forgets what was reserved, and one with a live context works for the    *)
(* settings of now.                                                        *)
LEMMA ReserveKeeps ==
    ASSUME NodeInv, NEW l \in Loop, CanReserve, ReserveAll(loop[l].ctx), RecTypes',
           UNCHANGED <<callVars, relayCancel, loop, dhtVars, panicked>>
    PROVE  NodeInv'
<1> USE DEF NodeInv, callVars, dhtVars
<1>1. /\ relayAddrs' \subseteq infos \ refused /\ refused' \subseteq infos
      /\ loop[l].ctx = "done" => relayAddrs' = {} /\ refused' = refused
      /\ infos' = infos /\ sized' = sized
  BY DEF ReserveAll, HeldForRelayOnly
<1>2. loop[l].ctx # "done" => active = "relay" /\ host = "up" /\ call.pc \notin Preparing
  BY DEF LoopIsHeld
<1>3. NodeTypes'
  BY DEF NodeTypes, LoopTypes, LookupTypes, CallTypes
<1>4. HeldForRelayOnly'
  BY <1>1, <1>2 DEF HeldForRelayOnly
<1>5. CallPhase'
  BY <1>1, <1>2 DEF CallPhase, Preparing, Resolving
<1>6. Rest'
  BY <1>4, <1>5 DEF Rest, ClientIsUp, OnlyStalePanics
<1>7. Held'
  BY DEF Held, LoopIsHeld, LookupIsHeld
<1>8. QED
  BY <1>3, <1>6, <1>7 DEF Rest, Held

(* A live loop finds its host and a slice that is long enough. *)
LEMMA LiveLoopReserves ==
    ASSUME NodeInv, NEW l \in Loop, ReservePanics
    PROVE  loop[l].ctx = "done"
  BY DEF NodeInv, LoopIsHeld, CallPhase, Preparing, Resolving, ReservePanics

LEMMA RefreshesKeeps == ASSUME NodeInv, NEW l \in Loop, Refreshes(l) PROVE NodeInv'
<1>1. CASE Refresh(l)
  BY <1>1, ReserveKeeps DEF Refresh, loopVars, NodeInv, NodeTypes, RecTypes
<1>2. CASE RefreshPanics(l)
  <2>1. loop[l].ctx = "done"
    BY <1>2, LiveLoopReserves DEF RefreshPanics
  <2>2. QED
    BY <1>2, <2>1, StalePanicKeeps DEF RefreshPanics
<1>3. QED
  BY <1>1, <1>2 DEF Refreshes

(* reconnectWithBackoff runs under the context of the loops that started   *)
(* it.                                                                     *)
LEMMA ReconnectsKeeps == ASSUME NodeInv, NEW r \in Reconnector, Reconnects(r) PROVE NodeInv'
<1>1. rec[r] \in [pc : {"gone", "try", "check", "wait"}, loop : Loop \cup {None}] /\ RecTypes
  BY DEF NodeInv, NodeTypes, RecTypes
<1>2. CASE ReconnectTries(r)
  <2>1. rec[r].loop \in Loop /\ RecTypes'
    BY <1>1, <1>2 DEF ReconnectTries, RecTypes
  <2>2. QED
    BY <1>2, <2>1, ReserveKeeps DEF ReconnectTries, Ctx
<1>3. CASE ReconnectPanics(r)
  <2>1. Ctx(r) = "done"
    BY <1>1, <1>3, LiveLoopReserves DEF ReconnectPanics, Ctx, RecTypes
  <2>2. QED
    BY <1>3, <2>1, StalePanicKeeps DEF ReconnectPanics
<1>4. CASE ReconnectChecks(r) \/ ReconnectBacksOff(r) \/ ReconnectEnds(r) \/ AddDHTRelays(r)
  <2>1. RecTypes'
    BY <1>1, <1>4 DEF ReconnectChecks, ReconnectBacksOff, ReconnectEnds, AddDHTRelays, loopVars,
       RecTypes, Idle
  <2>2. /\ UNCHANGED <<callVars, refused, sized, relayAddrs, relayCancel, loop, dhtVars, panicked>>
        /\ infos \subseteq infos'
    BY <1>4 DEF ReconnectChecks, ReconnectBacksOff, ReconnectEnds, AddDHTRelays, loopVars, relayVars
  <2> USE DEF NodeInv, callVars, dhtVars
  <2>3. NodeTypes'
    BY <2>1, <2>2 DEF NodeTypes, LoopTypes, LookupTypes, CallTypes
  <2>4. Rest'
    BY <2>2 DEF Rest, CallPhase, HeldForRelayOnly, ClientIsUp, OnlyStalePanics
  <2>5. Held'
    BY <2>2 DEF Held, LoopIsHeld, LookupIsHeld
  <2>6. QED
    BY <2>3, <2>4, <2>5 DEF Rest, Held
<1>5. QED
  BY <1>2, <1>3, <1>4 DEF Reconnects

(* The goroutine of startDHT: a client it publishes is its own. *)
LEMMA LooksUpKeeps == ASSUME NodeInv, NEW d \in Lookup, LooksUp(d) PROVE NodeInv'
<1> USE DEF NodeInv, callVars, relayVars, loopVars
<1>1. ASSUME UNCHANGED <<callVars, relayVars, loopVars, dhtGen, panicked>>,
             LookupTypes', ClientIsUp',
             \A e \in Lookup : dht'[e].ctx # "done" =>
                /\ dht[e].ctx # "done"
                /\ dht'[e].pc = "up" => e = dhtClient'
      PROVE  NodeInv'
  <2>1. NodeTypes'
    BY <1>1 DEF NodeTypes, LoopTypes, RecTypes, CallTypes
  <2>2. Rest'
    BY <1>1 DEF Rest, CallPhase, HeldForRelayOnly, OnlyStalePanics
  <2>3. Held'
    BY <1>1 DEF Held, LoopIsHeld, LookupIsHeld
  <2>4. QED
    BY <2>1, <2>2, <2>3 DEF Rest, Held
<1>2. LookupTypes /\ ClientIsUp /\ \A e \in Lookup : LookupIsHeld(e)
  BY DEF NodeTypes
<1>3. CASE MakeClient(d)
  BY <1>1, <1>2, <1>3 DEF MakeClient, LookupTypes, ClientIsUp, LookupIsHeld
<1>4. CASE MakeFails(d)
  BY <1>1, <1>2, <1>4 DEF MakeFails, LookupTypes, ClientIsUp, LookupIsHeld, Gone, Context
<1>5. CASE MakePanics(d)
  <2>1. dht[d].ctx = "done"
    BY <1>2, <1>5 DEF MakePanics, LookupIsHeld
  <2>2. QED
    BY <1>5, <2>1, StalePanicKeeps DEF MakePanics
<1>6. CASE Publish(d)
  <2>1. CASE dhtGen = d
    <3>1. dhtClient' = d /\ dht' = [dht EXCEPT ![d].pc = "up"]
      BY <1>6, <2>1 DEF Publish
    <3>2. QED
      BY <1>1, <1>2, <1>6, <2>1, <3>1 DEF Publish, LookupTypes, ClientIsUp, LookupIsHeld
  <2>2. CASE dhtGen # d
    <3>1. dhtClient' = dhtClient /\ dht' = [dht EXCEPT ![d] = Gone]
      BY <1>6, <2>2 DEF Publish
    <3>2. QED
      BY <1>1, <1>2, <1>6, <2>2, <3>1 DEF Publish, LookupTypes, ClientIsUp, LookupIsHeld, Gone,
         Context
  <2>3. QED
    BY <2>1, <2>2
<1>7. QED
  BY <1>3, <1>4, <1>5, <1>6 DEF LooksUp

(* A relay's half hour ends. *)
LEMMA CoolOffKeeps == ASSUME NodeInv, NEW a, CoolOffEnds(a) PROVE NodeInv'
<1> USE DEF NodeInv, callVars, loopVars, dhtVars, CoolOffEnds
<1>1. NodeTypes'
  BY DEF NodeTypes, LoopTypes, LookupTypes, RecTypes, CallTypes
<1>2. Rest'
  BY DEF Rest, CallPhase, HeldForRelayOnly, ClientIsUp, OnlyStalePanics
<1>3. Held'
  BY DEF Held, LoopIsHeld, LookupIsHeld
<1>4. QED
  BY <1>1, <1>2, <1>3 DEF Rest, Held

-----------------------------------------------------------------------------

LEMMA NodeInvStep == NodeInv /\ [Next]_nodeVars => NodeInv'
<1> SUFFICES ASSUME NodeInv, [Next]_nodeVars PROVE NodeInv'
  OBVIOUS
<1>1. CASE CallStep
  BY <1>1, CallStepKeeps
<1>2. CASE NewCall
  BY <1>2, NewCallKeeps
<1>3. CASE CallTimesOut \/ ConnectEnds
  BY <1>3, EndingsKeep
<1>4. CASE WriterArrives \/ \E b \in {"relay", "dht", "other"} : ChangeShare(b)
  <2>1. /\ UNCHANGED <<active, host, relayVars, loopVars, dhtVars, panicked, call>>
        /\ share' \in {"relay", "dht", "other"}
    BY <1>4 DEF WriterArrives, ChangeShare, NodeInv, NodeTypes
  <2>2. QED
    BY <2>1, QuietStepKeeps DEF CallRests, NodeInv, NodeTypes, CallTypes
<1>5. CASE \E l \in Loop : KeepAlive(l) \/ Refreshes(l)
  BY <1>5, KeepAliveKeeps, RefreshesKeeps
<1>6. CASE \E r \in Reconnector : Reconnects(r)
  BY <1>6, ReconnectsKeeps
<1>7. CASE \E d \in Lookup : LooksUp(d)
  BY <1>7, LooksUpKeeps
<1>8. CASE \E a \in Configured \cup Discovered : CoolOffEnds(a)
  BY <1>8, CoolOffKeeps
<1>9. CASE UNCHANGED nodeVars
  BY <1>9, QuietStepKeeps DEF nodeVars, CallRests, NodeInv, NodeTypes, CallTypes
<1>10. QED
  BY <1>1, <1>2, <1>3, <1>4, <1>5, <1>6, <1>7, <1>8, <1>9 DEF Next

(* Through every call of the service, every timeout and every step of a    *)
(* goroutine that an earlier call left behind, a live context is the one   *)
(* the node would cancel next and works for the settings of now            *)
(* (applyNetworkConfig, startRelayLoops, startDHT).                        *)
THEOREM NodeInvariant == Spec => []NodeInv
<1>1. Init => NodeInv
  BY NodeInvInit
<1>2. NodeInv /\ [Next]_nodeVars => NodeInv'
  BY NodeInvStep
<1>3. QED
  BY <1>1, <1>2, PTL DEF Spec

(* A relay address is advertised only for a relay of the present list,     *)
(* while the relay backend is active and its host is up (reserveAll,       *)
(* applyNetworkConfig).                                                    *)
THEOREM HeldForRelayOnlyHolds == Spec => []HeldForRelayOnly
<1>1. NodeInv => HeldForRelayOnly
  BY DEF NodeInv
<1>2. QED
  BY <1>1, NodeInvariant, PTL

(* relayCancel stops the only loops with a live context, and a DHT client  *)
(* that is no longer the node's has none (startRelayLoops, startDHT).      *)
THEOREM NothingRunsUnheldHolds == Spec => []NothingRunsUnheld
<1>1. NodeInv => NothingRunsUnheld
  BY DEF NodeInv, LoopIsHeld, LookupIsHeld, ClientIsUp, NothingRunsUnheld
<1>2. QED
  BY <1>1, NodeInvariant, PTL

(* Whatever panics on a host that is gone or on a slice that is too short  *)
(* runs under a context that is over (reserveAll, pingRelays).             *)
THEOREM OnlyStalePanicsHolds == Spec => []OnlyStalePanics
<1>1. NodeInv => OnlyStalePanics
  BY DEF NodeInv
<1>2. QED
  BY <1>1, NodeInvariant, PTL

(* However late an older goroutine of startDHT makes its client, it never  *)
(* replaces the one the newest has published (startDHT).                   *)
THEOREM NewestReplacesHolds == Spec => NewestReplaces
<1>1. [Next]_nodeVars => [dhtClient' \in {None, dhtClient, dhtGen}]_nodeVars
  <2> SUFFICES ASSUME [Next]_nodeVars PROVE dhtClient' \in {None, dhtClient, dhtGen}
    OBVIOUS
  <2> USE DEF dhtVars, nodeVars
  <2>1. CASE CallStep
    BY <2>1 DEF CallStep, StopLibp2p, HostStarts, HostFails, ResolveForHost, ResolveAgain,
       SizeRefused, ResolveFails, CallReserves, StartRelayLoops, StartDHT, NoDHT, WaitDHTReady,
       CallReturns, StatusAnswers
  <2>2. CASE NewCall
    BY <2>2 DEF NewCall, ApplyNetworkConfig, BackgroundRetry, EnsureFinds, StatusLocks,
       EnsureConnect, Clear, CancelDHT
  <2>3. CASE \/ CallTimesOut \/ ConnectEnds \/ WriterArrives
            \/ \E b \in {"relay", "dht", "other"} : ChangeShare(b)
            \/ \E a \in Configured \cup Discovered : CoolOffEnds(a)
    BY <2>3 DEF CallTimesOut, ConnectEnds, WriterArrives, ChangeShare, CoolOffEnds
  <2>4. CASE \E l \in Loop : KeepAlive(l) \/ Refreshes(l)
    BY <2>4 DEF KeepAlive, Refreshes, KeepAliveTick, PingFindsAll, PingPanics, LoopsEnd,
       PingReconnects, Refresh, RefreshPanics
  <2>5. CASE \E r \in Reconnector : Reconnects(r)
    BY <2>5 DEF Reconnects, ReconnectTries, ReconnectPanics, ReconnectChecks, ReconnectBacksOff,
       AddDHTRelays, ReconnectEnds
  <2>6. CASE \E d \in Lookup : LooksUp(d)
    BY <2>6 DEF LooksUp, MakeClient, MakeFails, MakePanics, Publish
  <2>7. CASE UNCHANGED nodeVars
    BY <2>7
  <2>8. QED
    BY <2>1, <2>2, <2>3, <2>4, <2>5, <2>6, <2>7 DEF Next
<1>2. QED
  BY <1>1, PTL DEF Spec, NewestReplaces
=============================================================================
