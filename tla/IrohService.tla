---------------------------- MODULE IrohService ----------------------------
(***************************************************************************)
(* The part of the service (internal/service, RunStack) that starts, stops *)
(* and registers the iroh sidecar.  networkMu admits one call at a time,   *)
(* kept in call; pairing and tunnel read their registries without it.      *)
(***************************************************************************)
EXTENDS Sidecar

CONSTANT Key             \* the keys of references; "selected" is one of them

VARIABLES selected,      \* cfg.ActiveNetworkBackend() is iroh
          pending,       \* handleConfig has edited cfg and not yet applied it
          refs,          \* backendRefs["iroh"]
          sidecar,       \* irohSidecar
          pairReg,       \* the backend pairing has registered
          tunReg,        \* the backend tunnel has registered
          handlers,      \* objects whose SetHandlers has been called
          call,          \* the call that holds networkMu
          exited         \* RunStack has returned

serviceVars == <<selected, pending, refs, sidecar, pairReg, tunReg, handlers, call, exited>>
irohVars == <<sidecarVars, serviceVars>>

NoCall == [pc |-> "idle", then |-> "idle", b |-> None, p |-> None]
Step(pc) == call' = [call EXCEPT !.pc = pc]

(* RunStack takes the first reference itself when iroh is selected. *)
Init == /\ SidecarInit
        /\ selected \in BOOLEAN /\ pending = FALSE
        /\ refs = (IF selected THEN {"selected"} ELSE {})
        /\ sidecar = None /\ pairReg = None /\ tunReg = None /\ handlers = {}
        /\ call = (IF selected THEN [NoCall EXCEPT !.pc = "start"] ELSE NoCall)
        /\ exited = FALSE

-----------------------------------------------------------------------------
(* setBackendRefLocked: references that remain start the sidecar, the last *)
(* one to go stops it.                                                     *)
SetRefs(next) ==
    /\ call.pc = "idle" /\ refs' = next
    /\ call' = [NoCall EXCEPT !.pc = IF next # {} THEN "start"
                                     ELSE IF sidecar # None THEN "stop" ELSE "idle"]
    /\ UNCHANGED <<sidecarVars, sidecar, pairReg, tunReg, handlers, exited>>

retainNetworkBackend(k) == SetRefs(refs \cup {k}) /\ UNCHANGED <<selected, pending>>
releaseNetworkBackend(k) == /\ k \in refs /\ SetRefs(refs \ {k})
                            /\ UNCHANGED <<selected, pending>>
ApplyNetworkConfig ==
    /\ pending /\ pending' = FALSE /\ UNCHANGED selected
    /\ SetRefs(IF selected THEN refs \cup {"selected"} ELSE refs \ {"selected"})
handleConfig ==
    /\ ~pending /\ pending' = TRUE /\ selected' = ~selected
    /\ UNCHANGED <<sidecarVars, refs, sidecar, pairReg, tunReg, handlers, call, exited>>

(* ensureNetworkBackendLocked: an attempt that holds a reference, or the   *)
(* background retry.                                                       *)
Ensure ==
    /\ call.pc = "idle"
    /\ \/ refs \ {"selected"} # {}
       \/ selected /\ ~(sidecar # None /\ Running(sidecar))
    /\ call' = [NoCall EXCEPT !.pc = "start"]
    /\ UNCHANGED <<sidecarVars, selected, pending, refs, sidecar, pairReg, tunReg, handlers, exited>>

(* startIrohSidecarLocked *)
StartKeeps ==
    /\ call.pc = "start" /\ sidecar # None /\ Running(sidecar) /\ call' = NoCall
    /\ UNCHANGED <<sidecarVars, selected, pending, refs, sidecar, pairReg, tunReg, handlers, exited>>
StartReplaces ==
    /\ call.pc = "start" /\ sidecar # None /\ ~Running(sidecar)
    /\ call' = [call EXCEPT !.pc = "stop", !.then = "start"]
    /\ UNCHANGED <<sidecarVars, selected, pending, refs, sidecar, pairReg, tunReg, handlers, exited>>
StartSpawns(b, p) ==
    /\ call.pc = "start" /\ sidecar = None /\ Spawn(b, p)
    /\ call' = [call EXCEPT !.pc = "ready", !.b = b]
    /\ handlers' = handlers \ {b}
    /\ UNCHANGED <<selected, pending, refs, sidecar, pairReg, tunReg, exited>>
StartFails ==
    /\ call.pc = "start" /\ sidecar = None /\ call' = NoCall
    /\ UNCHANGED <<sidecarVars, selected, pending, refs, sidecar, pairReg, tunReg, handlers, exited>>
NewFails ==
    /\ call.pc = "ready" /\ NotReady(call.b) /\ call' = NoCall
    /\ UNCHANGED <<selected, pending, refs, sidecar, pairReg, tunReg, handlers, exited>>
NewReturns ==
    /\ call.pc = "ready" /\ BecomesReady(call.b) /\ Step("register")
    /\ UNCHANGED <<selected, pending, refs, sidecar, pairReg, tunReg, handlers, exited>>

(* registerIrohSidecarLocked *)
RegisterPairing ==
    /\ call.pc = "register" /\ sidecar' = call.b /\ pairReg' = call.b /\ Step("register tunnel")
    /\ UNCHANGED <<sidecarVars, selected, pending, refs, tunReg, handlers, exited>>
RegisterTunnel_NoHandlers ==
    /\ call.pc = "register tunnel" /\ tunReg' = call.b /\ call' = NoCall
    /\ UNCHANGED <<sidecarVars, selected, pending, refs, sidecar, pairReg, handlers, exited>>
RegisterTunnel ==
    /\ call.pc = "register tunnel" /\ tunReg' = call.b
    /\ handlers' = handlers \cup {call.b} /\ call' = NoCall
    /\ UNCHANGED <<sidecarVars, selected, pending, refs, sidecar, pairReg, exited>>

(* stopIrohSidecarLocked *)
StopPairing ==
    /\ call.pc = "stop" /\ sidecar' = None /\ pairReg' = None
    /\ call' = [call EXCEPT !.pc = "stop tunnel", !.b = sidecar]
    /\ UNCHANGED <<sidecarVars, selected, pending, refs, tunReg, handlers, exited>>
StopTunnel_Forgets ==
    /\ call.pc = "stop tunnel" /\ Step("close")
    /\ UNCHANGED <<sidecarVars, selected, pending, refs, sidecar, pairReg, tunReg, handlers, exited>>
StopTunnel ==
    /\ call.pc = "stop tunnel" /\ tunReg' = None /\ Step("close")
    /\ UNCHANGED <<sidecarVars, selected, pending, refs, sidecar, pairReg, handlers, exited>>
StopCloses ==
    /\ call.pc = "close" /\ CloseMarks(call.b)
    /\ call' = [call EXCEPT !.pc = "kill", !.p = obj[call.b].cmd]
    /\ UNCHANGED <<selected, pending, refs, sidecar, pairReg, tunReg, handlers, exited>>
StopKills ==
    /\ call.pc = "kill" /\ CloseEnds(call.p)
    /\ call' = [NoCall EXCEPT !.pc = call.then, !.then = call.then]
    /\ exited' = (call.then = "exit")
    /\ UNCHANGED <<selected, pending, refs, sidecar, pairReg, tunReg, handlers>>

(* The deferred stop when the process ends. *)
Shutdown ==
    /\ call.pc = "idle"
    /\ call' = [NoCall EXCEPT !.pc = IF sidecar = None THEN "exit" ELSE "stop", !.then = "exit"]
    /\ exited' = (sidecar = None)
    /\ UNCHANGED <<sidecarVars, selected, pending, refs, sidecar, pairReg, tunReg, handlers>>

(* Pairing and tunnel look up their backend. *)
LookUp(o) == /\ \E b \in {pairReg, tunReg} \ {None} : Enter(o, b)
             /\ UNCHANGED serviceVars

-----------------------------------------------------------------------------
Working == \/ StartKeeps \/ StartReplaces \/ StartFails \/ NewFails \/ NewReturns
           \/ (\E b \in Backend, p \in Process : StartSpawns(b, p))
           \/ RegisterPairing \/ RegisterTunnel
           \/ StopPairing \/ StopTunnel \/ StopCloses \/ StopKills
Next == \/ /\ ~exited
           /\ \/ Working \/ Shutdown \/ ApplyNetworkConfig \/ handleConfig \/ Ensure
              \/ \E k \in Key \ {"selected"} : retainNetworkBackend(k) \/ releaseNetworkBackend(k)
              \/ \E o \in Opener : LookUp(o) \/ (Opening(o) /\ UNCHANGED serviceVars)
        \/ Environment /\ UNCHANGED serviceVars

Spec == Init /\ [][Next]_irohVars
-----------------------------------------------------------------------------
(* Properties *)

(* A backend is never closed while pairing, tunnel or service can still    *)
(* find it, so only an opener that found it earlier can meet a closed one; *)
(* and when no call of the service is under way the three agree on the     *)
(* backend, and it has an address and its handlers.                        *)
RegistriesAgree ==
    /\ \A b \in {sidecar, pairReg, tunReg} \ {None} : obj[b].st = "open" /\ obj[b].url # None
    /\ call.pc = "idle" => /\ pairReg = sidecar /\ tunReg = sidecar
                           /\ sidecar # None => sidecar \in handlers

(* A sidecar process belongs to a backend that is being made, is open, or  *)
(* is being closed, unless ensureRunning, which is not locked, has put it  *)
(* out of reach.  In particular none outlives RunStack otherwise.          *)
ProcessesAreOwned ==
    \A p \in Process \ stray :
      Alive(p) => \/ \E b \in Backend : obj[b].st \in {"making", "open"} /\ obj[b].cmd = p
                  \/ call.pc = "kill" /\ call.p = p
=============================================================================
