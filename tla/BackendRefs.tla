---------------------------- MODULE BackendRefs ----------------------------
(***************************************************************************)
(* The references on the iroh backend that the service keeps               *)
(* (internal/service, RunStack) and the sidecar process they keep alive.   *)
(* Every function here runs under networkMu, so a call is one step of its  *)
(* caller; an operator gives the set of outcomes the call can have.        *)
(***************************************************************************)
EXTENDS Naturals, FiniteSets

VARIABLES refs,      \* backendRefs["iroh"]: the keys that hold a reference
          sidecar    \* irohSidecar: "none", "running", or "dead" when it is
                     \* still registered but no longer answers

backendVars == <<refs, sidecar>>

(* startIrohSidecarLocked: a running sidecar is kept; a dead one is closed *)
(* first; a new one needs a context that is alive, and may not come up.    *)
startIrohSidecarLocked(alive) ==
    IF sidecar = "running" THEN {[sidecar |-> "running", ok |-> TRUE]}
    ELSE {[sidecar |-> "none", ok |-> FALSE]}
         \cup (IF alive THEN {[sidecar |-> "running", ok |-> TRUE]} ELSE {})

(* setBackendRefLocked: the reference is recorded or dropped whatever      *)
(* becomes of the sidecar; references that remain start it again.          *)
Outcomes_KeepsRunning(next, alive) ==
    IF next = {} THEN {[refs |-> next, sidecar |-> sidecar, ok |-> TRUE]}
    ELSE {[refs |-> next, sidecar |-> s.sidecar, ok |-> s.ok] :
            s \in startIrohSidecarLocked(alive)}
Outcomes(next, alive) ==
    IF next = {} THEN {[refs |-> next, sidecar |-> "none", ok |-> TRUE]}
    ELSE {[refs |-> next, sidecar |-> s.sidecar, ok |-> s.ok] :
            s \in startIrohSidecarLocked(alive)}
retainNetworkBackend(key, alive) == Outcomes(refs \cup {key}, alive)
releaseNetworkBackend(key) == Outcomes(refs \ {key}, TRUE)

Apply(o) == refs' = o.refs /\ sidecar' = o.sidecar

(* The process exits, or stops answering its control port in time. *)
SidecarDies == sidecar = "running" /\ sidecar' = "dead" /\ UNCHANGED refs
=============================================================================
