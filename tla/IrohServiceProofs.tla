------------------------- MODULE IrohServiceProofs -------------------------
(***************************************************************************)
(* Proofs about the iroh sidecar and the service that registers it, for    *)
(* any number of backend objects, of processes and of goroutines that open *)
(* streams and restart the process.                                        *)
(*                                                                         *)
(* A call of the service registers a backend with pairing and tunnel one   *)
(* after the other, and takes it out the same way.  IrohInv says what each *)
(* registry holds at every point of a call, that an opener's backend was   *)
(* shared once and so is open or closed, and who owns each process.        *)
(***************************************************************************)
EXTENDS IrohService, TLAPS

Object == [st : {"free", "making", "open", "closed"}, cmd : Process \cup {None},
           url : Process \cup {None}]
OpenerAt == {"idle", "ensure", "stopped", "start", "file", "status", "open"}
OpenerState == [pc : OpenerAt, b : Backend \cup {None}, p : Process \cup {None}]
CallAt == {"idle", "start", "ready", "register", "register tunnel", "stop", "stop tunnel",
           "close", "kill", "exit"}
IrohTypes ==
    /\ obj \in [Backend -> Object]
    /\ proc \in [Process -> {"gone", "up", "hung"}]
    /\ opener \in [Opener -> OpenerState]
    /\ call \in [pc : CallAt, then : {"idle", "start", "exit"},
                 b : Backend \cup {None}, p : Process \cup {None}]
    /\ {sidecar, pairReg, tunReg} \subseteq Backend \cup {None}

(* What a backend that is shared has. *)
Shared(b) == b \in Backend /\ obj[b].st = "open" /\ obj[b].url # None

(* The registries at each point of a call. *)
Agreed == /\ pairReg = sidecar /\ tunReg = sidecar
          /\ sidecar # None => Shared(sidecar) /\ sidecar \in handlers
Empty == sidecar = None /\ pairReg = None /\ tunReg = None
CallHolds ==
    /\ call.pc \in {"idle", "start", "stop", "exit"} => Agreed
    /\ call.pc = "stop" => sidecar # None
    /\ call.pc \in {"ready", "register", "close", "kill"} => Empty
    /\ call.pc = "ready" => call.b \in Backend
    /\ call.pc \in {"register", "register tunnel", "stop tunnel", "close"} => Shared(call.b)
    /\ call.pc = "register tunnel" => sidecar = call.b /\ pairReg = call.b /\ tunReg = None
    /\ call.pc = "stop tunnel" => sidecar = None /\ pairReg = None /\ tunReg = call.b

OpenerHolds(o) ==
    opener[o].pc # "idle" => opener[o].b \in Backend /\ obj[opener[o].b].st \in {"open", "closed"}

IrohInv == IrohTypes /\ CallHolds /\ (\A o \in Opener : OpenerHolds(o)) /\ ProcessesAreOwned

Owns(b, p) == obj[b].st \in {"making", "open"} /\ obj[b].cmd = p

-----------------------------------------------------------------------------

(* A step leaves every process owned if the one it starts is, and if what  *)
(* loses its owner ends, is being killed, or is out of reach.              *)
LEMMA OwnedKeeps ==
    ASSUME ProcessesAreOwned, NEW new,
           \A p \in Process : p \notin stray' /\ Alive(p)' =>
               \/ p = new /\ \E b \in Backend : Owns(b, p)'
               \/ p \notin stray /\ Alive(p),
           \A b \in Backend, p \in Process \ stray' : Owns(b, p) /\ Alive(p)' =>
               Owns(b, p)' \/ (call'.pc = "kill" /\ call'.p = p),
           \A p \in Process \ stray' : call.pc = "kill" /\ call.p = p /\ Alive(p)' =>
               call'.pc = "kill" /\ call'.p = p
    PROVE  ProcessesAreOwned'
  BY DEF ProcessesAreOwned, Owns

LEMMA IrohInvInit == Init => IrohInv
<1> SUFFICES ASSUME Init PROVE IrohInv
  OBVIOUS
<1> USE DEF Init, SidecarInit, NoObject, NoOpener, NoCall
<1>1. IrohTypes
  BY DEF IrohTypes, Object, OpenerState, OpenerAt, CallAt
<1>2. CallHolds
  BY DEF CallHolds, Agreed, Empty, Shared
<1>3. (\A o \in Opener : OpenerHolds(o)) /\ ProcessesAreOwned
  BY DEF OpenerHolds, ProcessesAreOwned, Alive
<1>4. QED
  BY <1>1, <1>2, <1>3 DEF IrohInv

(* Steps of the service that leave objects and processes alone. *)
LEMMA ServiceStepKeeps ==
    ASSUME IrohInv, UNCHANGED sidecarVars, call.pc # "kill", IrohTypes', CallHolds'
    PROVE  IrohInv'
  BY DEF IrohInv, OpenerHolds, ProcessesAreOwned, Alive, sidecarVars

LEMMA CallKeeps ==
    ASSUME IrohInv,
           \/ StartKeeps \/ StartReplaces \/ StartFails \/ RegisterPairing \/ RegisterTunnel
           \/ StopPairing \/ StopTunnel \/ Shutdown \/ Ensure
           \/ \E next : SetRefs(next)
    PROVE  IrohInv'
<1> USE DEF sidecarVars
<1>1. UNCHANGED sidecarVars /\ call.pc # "kill"
  BY DEF StartKeeps, StartReplaces, StartFails, RegisterPairing, RegisterTunnel, StopPairing,
     StopTunnel, Shutdown, Ensure, SetRefs
<1>2. /\ IrohTypes /\ CallHolds
      /\ call.pc \in CallAt /\ call.then \in {"idle", "start", "exit"}
      /\ call.b \in Backend \cup {None} /\ call.p \in Process \cup {None}
  BY DEF IrohInv, IrohTypes
<1> DEFINE Calls == [pc : CallAt, then : {"idle", "start", "exit"},
                     b : Backend \cup {None}, p : Process \cup {None}]
<1>3. ASSUME call' \in Calls, {sidecar', pairReg', tunReg'} \subseteq Backend \cup {None},
             CallHolds'
      PROVE  IrohInv'
  BY <1>1, <1>2, <1>3, ServiceStepKeeps DEF IrohTypes
<1>4. CASE StartKeeps
  <2>1. call' \in Calls /\ {sidecar', pairReg', tunReg'} \subseteq Backend \cup {None}
    BY <1>2, <1>4 DEF IrohTypes, StartKeeps, NoCall, Step, CallAt
  <2>2. CallHolds'
    BY <1>1, <1>2, <1>4 DEF IrohTypes, StartKeeps, NoCall, Step, CallHolds, Agreed, Empty, Shared
  <2>3. QED
    BY <1>3, <2>1, <2>2
<1>5. CASE StartReplaces
  <2>1. call' \in Calls /\ {sidecar', pairReg', tunReg'} \subseteq Backend \cup {None}
    BY <1>2, <1>5 DEF IrohTypes, StartReplaces, NoCall, Step, CallAt
  <2>2. CallHolds'
    BY <1>1, <1>2, <1>5 DEF IrohTypes, StartReplaces, NoCall, Step, CallHolds, Agreed, Empty, Shared
  <2>3. QED
    BY <1>3, <2>1, <2>2
<1>6. CASE StartFails
  <2>1. call' \in Calls /\ {sidecar', pairReg', tunReg'} \subseteq Backend \cup {None}
    BY <1>2, <1>6 DEF IrohTypes, StartFails, NoCall, Step, CallAt
  <2>2. CallHolds'
    BY <1>1, <1>2, <1>6 DEF IrohTypes, StartFails, NoCall, Step, CallHolds, Agreed, Empty, Shared
  <2>3. QED
    BY <1>3, <2>1, <2>2
<1>7. CASE RegisterPairing
  <2>1. call' \in Calls /\ {sidecar', pairReg', tunReg'} \subseteq Backend \cup {None}
    BY <1>2, <1>7 DEF IrohTypes, RegisterPairing, NoCall, Step, CallAt
  <2>2. CallHolds'
    BY <1>1, <1>2, <1>7 DEF IrohTypes, RegisterPairing, NoCall, Step, CallHolds, Agreed, Empty, Shared
  <2>3. QED
    BY <1>3, <2>1, <2>2
<1>8. CASE RegisterTunnel
  <2>1. call' \in Calls /\ {sidecar', pairReg', tunReg'} \subseteq Backend \cup {None}
    BY <1>2, <1>8 DEF IrohTypes, RegisterTunnel, NoCall, Step, CallAt
  <2>2. CallHolds'
    BY <1>1, <1>2, <1>8 DEF IrohTypes, RegisterTunnel, NoCall, Step, CallHolds, Agreed, Empty, Shared
  <2>3. QED
    BY <1>3, <2>1, <2>2
<1>9. CASE StopPairing
  <2>1. call' \in Calls /\ {sidecar', pairReg', tunReg'} \subseteq Backend \cup {None}
    BY <1>2, <1>9 DEF IrohTypes, StopPairing, NoCall, Step, CallAt
  <2>2. CallHolds'
    BY <1>1, <1>2, <1>9 DEF IrohTypes, StopPairing, NoCall, Step, CallHolds, Agreed, Empty, Shared
  <2>3. QED
    BY <1>3, <2>1, <2>2
<1>10. CASE StopTunnel
  <2>1. call' \in Calls /\ {sidecar', pairReg', tunReg'} \subseteq Backend \cup {None}
    BY <1>2, <1>10 DEF IrohTypes, StopTunnel, NoCall, Step, CallAt
  <2>2. CallHolds'
    BY <1>1, <1>2, <1>10 DEF IrohTypes, StopTunnel, NoCall, Step, CallHolds, Agreed, Empty, Shared
  <2>3. QED
    BY <1>3, <2>1, <2>2
<1>11. CASE Shutdown
  <2>1. call' \in Calls /\ {sidecar', pairReg', tunReg'} \subseteq Backend \cup {None}
    BY <1>2, <1>11 DEF IrohTypes, Shutdown, NoCall, Step, CallAt
  <2>2. CallHolds'
    BY <1>1, <1>2, <1>11 DEF IrohTypes, Shutdown, NoCall, Step, CallHolds, Agreed, Empty, Shared
  <2>3. QED
    BY <1>3, <2>1, <2>2
<1>12. CASE Ensure
  <2>1. call' \in Calls /\ {sidecar', pairReg', tunReg'} \subseteq Backend \cup {None}
    BY <1>2, <1>12 DEF IrohTypes, Ensure, NoCall, Step, CallAt
  <2>2. CallHolds'
    BY <1>1, <1>2, <1>12 DEF IrohTypes, Ensure, NoCall, Step, CallHolds, Agreed, Empty, Shared
  <2>3. QED
    BY <1>3, <2>1, <2>2
<1>13. CASE \E next : SetRefs(next)
  <2>1. PICK pc \in {"start", "stop", "idle"} : call' = [NoCall EXCEPT !.pc = pc]
    BY <1>13 DEF SetRefs
  <2>2. call' \in Calls
    BY <2>1 DEF NoCall, CallAt
  <2>3. {sidecar', pairReg', tunReg'} \subseteq Backend \cup {None}
    BY <1>2, <1>13 DEF IrohTypes, SetRefs
  <2>4. CallHolds'
    BY <1>1, <1>2, <1>13 DEF IrohTypes, SetRefs, NoCall, Step, CallHolds, Agreed, Empty, Shared
  <2>5. QED
    BY <1>3, <2>2, <2>3, <2>4
<1>14. QED
  BY <1>4, <1>5, <1>6, <1>7, <1>8, <1>9, <1>10, <1>11, <1>12, <1>13

-----------------------------------------------------------------------------
(* newWithCommand: the new process belongs to the object that is made. *)
LEMMA SpawnKeeps ==
    ASSUME IrohInv, NEW b \in Backend, NEW p \in Process, StartSpawns(b, p)
    PROVE  IrohInv'
<1> USE DEF StartSpawns, Spawn
<1>1. IrohTypes'
  BY DEF IrohInv, IrohTypes, Object, CallAt
<1>2. CallHolds'
  BY DEF IrohInv, IrohTypes, CallHolds, Agreed, Empty
<1>3. \A o \in Opener : OpenerHolds(o)'
  BY SidecarAssumption DEF IrohInv, IrohTypes, OpenerHolds, Used
<1>4. Owns(b, p)' /\ \A c \in Backend : \A q : Owns(c, q) => Owns(c, q)'
  BY DEF IrohInv, IrohTypes, Owns
<1>5. stray' = stray \ {p} /\ \A q \in Process : q # p => (Alive(q)' <=> Alive(q))
  BY DEF IrohInv, IrohTypes, Alive
<1>6. call.pc # "kill" /\ ProcessesAreOwned
  BY DEF IrohInv
<1> HIDE DEF StartSpawns, Spawn
<1>7. ProcessesAreOwned'
  BY <1>4, <1>5, <1>6, OwnedKeeps
<1>8. QED
  BY <1>1, <1>2, <1>3, <1>7 DEF IrohInv

(* A process that does not become ready ends with its object. *)
LEMMA MakingKeeps ==
    ASSUME IrohInv,
           \/ NewFails \/ NewReturns
           \/ \E b \in Backend, p \in Process : StartSpawns(b, p)
    PROVE  IrohInv'
<1> USE SidecarAssumption DEF IrohInv
<1>1. CASE \E b \in Backend, p \in Process : StartSpawns(b, p)
  BY <1>1, SpawnKeeps
<1>2. CASE NewFails
  <2> USE <1>2 DEF NewFails, NotReady, Exits
  <2>1. call.b \in Backend /\ Empty
    BY DEF CallHolds
  <2>2. IrohTypes'
    BY <2>1 DEF IrohTypes, Object, CallAt, NoObject, NoCall
  <2>3. CallHolds'
    BY <2>1 DEF IrohTypes, CallHolds, Agreed, Empty, NoCall
  <2>4. \A o \in Opener : OpenerHolds(o)'
    BY <2>1 DEF IrohTypes, OpenerHolds, NoObject
  <2>5. ProcessesAreOwned'
    BY <2>1 DEF IrohTypes, ProcessesAreOwned, Alive, NoObject
  <2>6. QED
    BY <2>2, <2>3, <2>4, <2>5
<1>3. CASE NewReturns
  <2> USE <1>3 DEF NewReturns, BecomesReady, Step
  <2>1. call.b \in Backend /\ Empty
    BY DEF CallHolds
  <2>2. IrohTypes'
    <3>1. obj' \in [Backend -> Object]
      BY <2>1 DEF IrohTypes, Object
    <3>2. QED
      BY <2>1, <3>1 DEF IrohTypes, CallAt
  <2>3. CallHolds'
    <3>1. Shared(call.b)' /\ call'.pc = "register" /\ call'.b = call.b /\ Empty'
      BY <2>1 DEF IrohTypes, Object, Shared, Up, Empty
    <3>2. QED
      BY <3>1 DEF CallHolds
  <2>4. \A o \in Opener : OpenerHolds(o)'
    BY <2>1 DEF IrohTypes, Object, OpenerHolds
  <2>5. ProcessesAreOwned'
    BY <2>1 DEF IrohTypes, Object, ProcessesAreOwned, Alive
  <2>6. QED
    BY <2>2, <2>3, <2>4, <2>5
<1>4. QED
  BY <1>1, <1>2, <1>3

(* Close: what the object still owned when it was marked is killed, and no *)
(* registry can give the object to an opener any more.                     *)
LEMMA ClosingKeeps == ASSUME IrohInv, StopCloses \/ StopKills PROVE IrohInv'
<1> USE SidecarAssumption DEF IrohInv
<1>1. CASE StopCloses
  <2> USE <1>1 DEF StopCloses, CloseMarks
  <2>1. call.b \in Backend /\ Empty
    BY DEF CallHolds, Shared
  <2>2. IrohTypes'
    BY <2>1 DEF IrohTypes, Object, CallAt
  <2>3. CallHolds'
    BY <2>1 DEF IrohTypes, CallHolds, Agreed, Empty
  <2>4. \A o \in Opener : OpenerHolds(o)'
    BY <2>1 DEF IrohTypes, Object, OpenerHolds
  <2>5. ProcessesAreOwned'
    BY <2>1 DEF IrohTypes, Object, ProcessesAreOwned, Alive
  <2>6. QED
    BY <2>2, <2>3, <2>4, <2>5
<1>2. CASE StopKills
  <2> USE <1>2 DEF StopKills, CloseEnds, Exits
  <2>1. Empty
    BY DEF CallHolds
  <2>2. IrohTypes'
    BY <2>1 DEF IrohTypes, CallAt, NoCall
  <2>3. CallHolds'
    BY <2>1 DEF IrohTypes, CallHolds, Agreed, Empty, NoCall
  <2>4. \A o \in Opener : OpenerHolds(o)'
    BY <2>1 DEF OpenerHolds
  <2>5. ProcessesAreOwned'
    BY <2>1 DEF IrohTypes, ProcessesAreOwned, Alive
  <2>6. QED
    BY <2>2, <2>3, <2>4, <2>5
<1>3. QED
  BY <1>1, <1>2

-----------------------------------------------------------------------------
(* Openers and processes, of which the service does not know. *)

(* What an opener becomes, while objects keep their states. *)
LEMMA OpenerMoves ==
    ASSUME IrohInv, NEW o \in Opener, NEW x \in OpenerState,
           opener' = [opener EXCEPT ![o] = x],
           \A b \in Backend : obj'[b].st = obj[b].st,
           x.pc # "idle" => x.b \in Backend /\ obj[x.b].st \in {"open", "closed"}
    PROVE  opener' \in [Opener -> OpenerState] /\ \A q \in Opener : OpenerHolds(q)'
  BY DEF IrohInv, IrohTypes, OpenerHolds

LEMMA OpenerGoesOn ==
    ASSUME IrohInv, NEW o \in Opener, NEW pc \in OpenerAt, NEW p \in Process \cup {None},
           opener[o].pc # "idle",
           opener' = [opener EXCEPT ![o] = [pc |-> pc, b |-> opener[o].b, p |-> p]],
           \A b \in Backend : obj'[b].st = obj[b].st
    PROVE  opener' \in [Opener -> OpenerState] /\ \A q \in Opener : OpenerHolds(q)'
<1>1. opener[o].b \in Backend /\ obj[opener[o].b].st \in {"open", "closed"}
  BY DEF IrohInv, OpenerHolds
<1>2. [pc |-> pc, b |-> opener[o].b, p |-> p] \in OpenerState
  BY <1>1 DEF OpenerState
<1>3. QED
  BY <1>1, <1>2, OpenerMoves

LEMMA OpenerEnds ==
    ASSUME IrohInv, NEW o \in Opener, Finish(o), \A b \in Backend : obj'[b].st = obj[b].st
    PROVE  opener' \in [Opener -> OpenerState] /\ \A q \in Opener : OpenerHolds(q)'
<1>1. NoOpener \in OpenerState /\ NoOpener.pc = "idle"
  BY DEF NoOpener, OpenerState, OpenerAt
<1>2. QED
  BY <1>1, OpenerMoves DEF Finish

(* A registry holds no backend that is not open. *)
LEMMA LookUpFindsOpen ==
    ASSUME IrohInv, NEW b \in {pairReg, tunReg} \ {None}
    PROVE  b \in Backend /\ obj[b].st = "open"
<1>1. call.pc \in CallAt /\ CallHolds
  BY DEF IrohInv, IrohTypes
<1>2. CASE call.pc \in {"idle", "start", "stop", "exit"}
  BY <1>1, <1>2 DEF CallHolds, Agreed, Shared
<1>3. CASE call.pc \in {"ready", "register", "close", "kill"}
  BY <1>1, <1>3 DEF CallHolds, Empty
<1>4. CASE call.pc \in {"register tunnel", "stop tunnel"}
  <2>1. b = call.b
    BY <1>1, <1>4 DEF CallHolds
  <2>2. QED
    BY <1>1, <1>4, <2>1 DEF CallHolds, Shared
<1>5. QED
  BY <1>1, <1>2, <1>3, <1>4 DEF CallAt

(* Steps of an opener that touch neither objects nor processes. *)
LEMMA OpenerStepKeeps ==
    ASSUME IrohInv, NEW o \in Opener,
           \/ LookUp(o)
           \/ /\ UNCHANGED serviceVars
              /\ \/ FoundRunning(o) \/ FoundStopped(o) \/ RestartAllowed(o) \/ WaitReady(o)
                 \/ RestartRefused(o) \/ Opens(o) \/ Fails(o)
    PROVE  IrohInv'
<1> USE DEF serviceVars
<1>1. UNCHANGED <<obj, proc, stray, call, sidecar, pairReg, tunReg, handlers>>
  BY DEF LookUp, Enter, FoundRunning, FoundStopped, RestartAllowed, WaitReady, RestartRefused,
     Opens, Fails
<1>2. opener' \in [Opener -> OpenerState] /\ \A q \in Opener : OpenerHolds(q)'
  <2>1. CASE LookUp(o)
    <3>1. PICK b \in {pairReg, tunReg} \ {None} : Enter(o, b)
      BY <2>1 DEF LookUp
    <3>2. b \in Backend /\ obj[b].st = "open"
      BY LookUpFindsOpen
    <3>3. [pc |-> "ensure", b |-> b, p |-> None] \in OpenerState
      BY <3>2 DEF OpenerState, OpenerAt
    <3>4. QED
      BY <1>1, <3>1, <3>2, <3>3, OpenerMoves DEF Enter
  <2>2. CASE FoundRunning(o) \/ FoundStopped(o) \/ RestartAllowed(o) \/ WaitReady(o)
    <3>1. PICK pc \in OpenerAt : Goto(o, pc) /\ opener[o].pc # "idle"
      BY <2>2 DEF FoundRunning, FoundStopped, RestartAllowed, WaitReady, At, OpenerAt
    <3>2. opener[o] \in OpenerState /\ opener \in [Opener -> OpenerState]
      BY DEF IrohInv, IrohTypes
    <3> DEFINE x == [opener[o] EXCEPT !.pc = pc]
    <3>3. x \in OpenerState /\ x.b = opener[o].b
      BY <3>2 DEF OpenerState
    <3>4. opener[o].b \in Backend /\ obj[opener[o].b].st \in {"open", "closed"}
      BY <3>1 DEF IrohInv, OpenerHolds
    <3>5. opener' = [opener EXCEPT ![o] = x]
      BY <3>1 DEF Goto
    <3> HIDE DEF x
    <3>6. QED
      BY <1>1, <3>3, <3>4, <3>5, OpenerMoves
  <2>3. CASE RestartRefused(o) \/ Opens(o) \/ Fails(o)
    BY <1>1, <2>3, OpenerEnds DEF RestartRefused, Opens, Fails
  <2>4. QED
    BY <2>1, <2>2, <2>3
<1>3. IrohTypes'
  BY <1>1, <1>2 DEF IrohInv, IrohTypes
<1>4. CallHolds' /\ ProcessesAreOwned'
  BY <1>1 DEF IrohInv, CallHolds, Agreed, Empty, Shared, ProcessesAreOwned, Alive
<1>5. QED
  BY <1>2, <1>3, <1>4 DEF IrohInv

(* startProcess: the old process is out of reach, and so is a new one that *)
(* Close will not see.                                                     *)
LEMMA RestartKeeps ==
    ASSUME IrohInv, NEW o \in Opener, NEW p \in Process, Restart(o, p), UNCHANGED serviceVars
    PROVE  IrohInv'
<1>1. PICK b \in Backend : /\ b = opener[o].b /\ obj[b].st \in {"open", "closed"}
                          /\ opener[o].pc # "idle"
  BY DEF IrohInv, OpenerHolds, Restart, At
<1>2. /\ obj' \in [Backend -> Object] /\ proc' \in [Process -> {"gone", "up", "hung"}]
      /\ obj'[b].cmd = p
      /\ \A c \in Backend : obj'[c].st = obj[c].st /\ obj'[c].url = obj[c].url
      /\ \A c \in Backend : c # b => obj'[c] = obj[c]
  BY <1>1 DEF Restart, IrohInv, IrohTypes, Object
<1>3. opener' = [opener EXCEPT ![o] = [pc |-> "file", b |-> b, p |-> p]]
  BY <1>1 DEF Restart
<1>4. opener' \in [Opener -> OpenerState] /\ \A q \in Opener : OpenerHolds(q)'
  BY <1>1, <1>2, <1>3, OpenerGoesOn DEF OpenerAt
<1>5. IrohTypes' /\ CallHolds'
  BY <1>2, <1>4 DEF IrohInv, IrohTypes, CallHolds, Agreed, Empty, Shared, serviceVars
<1>6. ProcessesAreOwned'
  <2>1. /\ stray' = ((stray \ {p}) \cup (IF Alive(obj[b].cmd) THEN {obj[b].cmd} ELSE {}))
                    \cup (IF obj[b].st = "closed" THEN {p} ELSE {})
        /\ FreeProcess(p) /\ call' = call
    BY <1>1 DEF Restart, serviceVars
  <2>2. \A q \in Process : q # p => (Alive(q)' <=> Alive(q))
    BY DEF Restart, Alive, IrohInv, IrohTypes
  <2>3. p \notin stray' => Owns(b, p)'
    BY <1>1, <1>2, <2>1 DEF Owns
  <2>4. \A c \in Backend, q \in Process \ stray' : Owns(c, q) /\ Alive(q)' => Owns(c, q)'
    BY <1>1, <1>2, <2>1, <2>2 DEF Owns, FreeProcess
  <2>5. \A q \in Process : q \notin stray' /\ Alive(q)' =>
            (q = p /\ \E c \in Backend : Owns(c, q)') \/ (q \notin stray /\ Alive(q))
    BY <1>1, <2>1, <2>2, <2>3
  <2>6. QED
    BY <2>1, <2>4, <2>5, OwnedKeeps DEF IrohInv
<1>7. QED
  BY <1>4, <1>5, <1>6 DEF IrohInv

(* The ready file gives an object its address, or the process is ended. *)
LEMMA ReadyFileKeeps ==
    ASSUME IrohInv, NEW o \in Opener, ReadyFile(o) \/ NoReadyFile(o), UNCHANGED serviceVars
    PROVE  IrohInv'
<1> DEFINE b == opener[o].b
<1>1. b \in Backend /\ opener[o].pc # "idle" /\ opener[o].p \in Process \cup {None}
  BY DEF IrohInv, IrohTypes, OpenerState, OpenerHolds, ReadyFile, NoReadyFile, At
<1>2. /\ obj' \in [Backend -> Object] /\ proc' \in [Process -> {"gone", "up", "hung"}]
      /\ \A c \in Backend : obj'[c].st = obj[c].st /\ obj'[c].cmd = obj[c].cmd
      /\ \A c \in Backend : obj[c].url # None => obj'[c].url # None
      /\ \A q \in Process : proc'[q] # "gone" => proc[q] # "gone"
  BY <1>1 DEF ReadyFile, NoReadyFile, Exits, Alive, IrohInv, IrohTypes, Object
<1>3. opener' \in [Opener -> OpenerState] /\ \A q \in Opener : OpenerHolds(q)'
  <2>1. CASE ReadyFile(o)
    <3>1. opener' = [opener EXCEPT ![o] = [pc |-> "status", b |-> b, p |-> None]]
      BY <2>1 DEF ReadyFile
    <3>2. QED
      BY <1>1, <1>2, <3>1, OpenerGoesOn DEF OpenerAt
  <2>2. CASE NoReadyFile(o)
    BY <1>2, <2>2, OpenerEnds DEF NoReadyFile
  <2>3. QED
    BY <2>1, <2>2
<1>4. IrohTypes' /\ CallHolds'
  BY <1>2, <1>3 DEF IrohInv, IrohTypes, CallHolds, Agreed, Empty, Shared, serviceVars
<1>5. ProcessesAreOwned'
  BY <1>2 DEF IrohInv, ProcessesAreOwned, Alive, ReadyFile, NoReadyFile, serviceVars
<1>6. QED
  BY <1>3, <1>4, <1>5 DEF IrohInv

LEMMA EnvironmentKeeps == ASSUME IrohInv, Environment, UNCHANGED serviceVars PROVE IrohInv'
<1>1. /\ proc' \in [Process -> {"gone", "up", "hung"}] /\ UNCHANGED <<obj, opener, stray>>
      /\ \A q \in Process : proc'[q] # "gone" => proc[q] # "gone"
  BY DEF Environment, Dies, Hangs, Recovers, Exits, Alive, Up, IrohInv, IrohTypes
<1>2. IrohTypes' /\ \A o \in Opener : OpenerHolds(o)'
  BY <1>1 DEF IrohInv, IrohTypes, OpenerHolds, serviceVars
<1>3. CallHolds' /\ ProcessesAreOwned'
  BY <1>1 DEF IrohInv, CallHolds, Agreed, Empty, Shared, ProcessesAreOwned, Alive, serviceVars
<1>4. QED
  BY <1>2, <1>3 DEF IrohInv

-----------------------------------------------------------------------------

LEMMA IrohInvStep == IrohInv /\ [Next]_irohVars => IrohInv'
<1> SUFFICES ASSUME IrohInv, [Next]_irohVars PROVE IrohInv'
  OBVIOUS
<1>1. CASE Working
  BY <1>1, CallKeeps, MakingKeeps, ClosingKeeps DEF Working
<1>2. CASE Shutdown \/ Ensure
  BY <1>2, CallKeeps
<1>3. CASE \/ ApplyNetworkConfig
          \/ \E k \in Key \ {"selected"} : retainNetworkBackend(k) \/ releaseNetworkBackend(k)
  BY <1>3, CallKeeps DEF ApplyNetworkConfig, retainNetworkBackend, releaseNetworkBackend
<1>4. CASE \E o \in Opener : LookUp(o) \/ (Opening(o) /\ UNCHANGED serviceVars)
  BY <1>4, OpenerStepKeeps, RestartKeeps, ReadyFileKeeps DEF Opening
<1>5. CASE Environment /\ UNCHANGED serviceVars
  BY <1>5, EnvironmentKeeps
<1>6. CASE handleConfig \/ UNCHANGED irohVars
  <2>1. UNCHANGED <<obj, proc, opener, stray, sidecar, pairReg, tunReg, handlers, call>>
    BY <1>6 DEF handleConfig, irohVars, sidecarVars, serviceVars
  <2>2. IrohTypes' /\ CallHolds'
    BY <2>1 DEF IrohInv, IrohTypes, CallHolds, Agreed, Empty, Shared
  <2>3. (\A o \in Opener : OpenerHolds(o)') /\ ProcessesAreOwned'
    BY <2>1 DEF IrohInv, OpenerHolds, ProcessesAreOwned, Alive
  <2>4. QED
    BY <2>2, <2>3 DEF IrohInv
<1>7. QED
  BY <1>1, <1>2, <1>3, <1>4, <1>5, <1>6 DEF Next

(* What each registry holds at every point of a call of the service, for   *)
(* every interleaving with openers that restart the process without the    *)
(* service's lock (registerIrohSidecarLocked, stopIrohSidecarLocked,       *)
(* ensureRunning).                                                         *)
THEOREM IrohInvariant == Spec => []IrohInv
<1>1. Init => IrohInv
  BY IrohInvInit
<1>2. IrohInv /\ [Next]_irohVars => IrohInv'
  BY IrohInvStep
<1>3. QED
  BY <1>1, <1>2, PTL DEF Spec

(* A backend that pairing, tunnel or service can find is open and has an   *)
(* address, and between calls the three agree (startIrohSidecarLocked,     *)
(* stopIrohSidecarLocked).                                                 *)
THEOREM RegistriesAgreeHolds == Spec => []RegistriesAgree
<1>1. IrohInv => RegistriesAgree
  <2> SUFFICES ASSUME IrohInv PROVE RegistriesAgree
    OBVIOUS
  <2>1. call.pc \in CallAt /\ CallHolds
    BY DEF IrohInv, IrohTypes
  <2>2. CASE call.pc \in {"idle", "start", "stop", "exit"}
    BY <2>1, <2>2 DEF CallHolds, Agreed, Shared, RegistriesAgree
  <2>3. CASE call.pc \in {"ready", "register", "close", "kill"}
    BY <2>1, <2>3 DEF CallHolds, Empty, RegistriesAgree
  <2>4. CASE call.pc \in {"register tunnel", "stop tunnel"}
    <3>1. {sidecar, pairReg, tunReg} \subseteq {call.b, None} /\ Shared(call.b)
      BY <2>1, <2>4 DEF CallHolds
    <3>2. QED
      BY <2>4, <3>1 DEF Shared, RegistriesAgree
  <2>5. QED
    BY <2>1, <2>2, <2>3, <2>4 DEF CallAt
<1>2. QED
  BY <1>1, IrohInvariant, PTL

(* Every process that no unlocked restart has put out of reach belongs to  *)
(* a backend that is being made, is open, or is being closed (startProcess,*)
(* Close).                                                                 *)
THEOREM ProcessesAreOwnedHolds == Spec => []ProcessesAreOwned
<1>1. IrohInv => ProcessesAreOwned
  BY DEF IrohInv
<1>2. QED
  BY <1>1, IrohInvariant, PTL
=============================================================================
