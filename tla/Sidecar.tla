------------------------------ MODULE Sidecar ------------------------------
(***************************************************************************)
(* The iroh sidecar backend (internal/irohsidecar): Backend objects, the   *)
(* processes they start, and goroutines that open a stream through one and *)
(* restart its process when it does not answer.  b.mu covers single reads; *)
(* cmd and baseURL are written without it.                                 *)
(***************************************************************************)
EXTENDS Naturals, FiniteSets

CONSTANTS Backend,       \* slots for Backend objects
          Process,       \* slots for sidecar processes
          Opener,        \* goroutines in OpenPairing or OpenTunnel
          None

ASSUME SidecarAssumption == None \notin Backend \cup Process

VARIABLES obj,           \* slot -> the Backend object
          proc,          \* slot -> "gone", "up", or "hung" (runs, no answer)
          opener,        \* goroutine -> where it is
          stray          \* history: processes that a restart put out of reach

sidecarVars == <<obj, proc, opener, stray>>

NoObject == [st |-> "free", cmd |-> None, url |-> None]
NoOpener == [pc |-> "idle", b |-> None, p |-> None]

SidecarInit == /\ obj = [b \in Backend |-> NoObject]
               /\ proc = [p \in Process |-> "gone"]
               /\ opener = [o \in Opener |-> NoOpener]
               /\ stray = {}

Alive(p) == p # None /\ proc[p] # "gone"
Up(p) == p # None /\ proc[p] = "up"
Used(b) == \E o \in Opener : opener[o].b = b

(* Running: not closed, cmdDone still open, and /status answers. *)
Running(b) == obj[b].st = "open" /\ Alive(obj[b].cmd) /\ Up(obj[b].url)

(* A process slot can stand for a new process. *)
FreeProcess(p) == /\ proc[p] = "gone"
                  /\ \A b \in Backend : obj[b].cmd # p /\ obj[b].url # p
                  /\ \A o \in Opener : opener[o].p # p

Exits(p) == proc' = [proc EXCEPT ![p] = "gone"]

-----------------------------------------------------------------------------
(* newWithCommand, step by step; the object is not yet shared. *)
Spawn(b, p) ==
    /\ obj[b].st \in {"free", "closed"} /\ ~Used(b) /\ FreeProcess(p)
    /\ obj' = [obj EXCEPT ![b] = [st |-> "making", cmd |-> p, url |-> None]]
    /\ proc' = [proc EXCEPT ![p] = "up"]
    /\ stray' = stray \ {p}
    /\ UNCHANGED opener
(* waitReadyFile, waitReady and startCallbacks succeed. *)
BecomesReady(b) ==
    /\ obj[b].st = "making" /\ Up(obj[b].cmd)
    /\ obj' = [obj EXCEPT ![b] = [st |-> "open", cmd |-> obj[b].cmd, url |-> obj[b].cmd]]
    /\ UNCHANGED <<proc, opener, stray>>
(* One of them fails: the process is killed, or Close ends it. *)
NotReady_NoClose(b) ==
    /\ obj[b].st = "making" /\ obj' = [obj EXCEPT ![b] = NoObject]
    /\ UNCHANGED <<proc, opener, stray>>
NotReady(b) ==
    /\ obj[b].st = "making" /\ obj' = [obj EXCEPT ![b] = NoObject]
    /\ Exits(obj[b].cmd) /\ UNCHANGED <<opener, stray>>

(* Close: under b.mu it marks the object and reads cmd; then it asks the   *)
(* process to shut down, waits, and kills it.                              *)
CloseMarks(b) == /\ obj' = [obj EXCEPT ![b].st = "closed"]
                 /\ UNCHANGED <<proc, opener, stray>>
CloseEnds(p) == Exits(p) /\ UNCHANGED <<obj, opener, stray>>

-----------------------------------------------------------------------------
(* OpenPairing and OpenTunnel *)
At(o, pc) == opener[o].pc = pc
Goto(o, pc) == opener' = [opener EXCEPT ![o].pc = pc]
Finish(o) == opener' = [opener EXCEPT ![o] = NoOpener]

Enter(o, b) == /\ At(o, "idle")
               /\ opener' = [opener EXCEPT ![o] = [pc |-> "ensure", b |-> b, p |-> None]]
               /\ UNCHANGED <<obj, proc, stray>>

(* ensureRunning *)
FoundRunning(o) == /\ At(o, "ensure") /\ Running(opener[o].b) /\ Goto(o, "open")
                   /\ UNCHANGED <<obj, proc, stray>>
FoundStopped(o) == /\ At(o, "ensure") /\ ~Running(opener[o].b) /\ Goto(o, "stopped")
                   /\ UNCHANGED <<obj, proc, stray>>
RestartRefused(o) ==
    /\ At(o, "stopped") /\ obj[opener[o].b].st = "closed" /\ Finish(o)
    /\ UNCHANGED <<obj, proc, stray>>
RestartAllowed(o) ==
    /\ At(o, "stopped") /\ obj[opener[o].b].st # "closed" /\ Goto(o, "start")
    /\ UNCHANGED <<obj, proc, stray>>
(* startProcess: the old process is forgotten, and a Close that has read   *)
(* cmd will not see the new one.                                           *)
Restart(o, p) ==
    LET b == opener[o].b
    IN  /\ At(o, "start") /\ FreeProcess(p)
        /\ proc' = [proc EXCEPT ![p] = "up"]
        /\ obj' = [obj EXCEPT ![b].cmd = p]
        /\ opener' = [opener EXCEPT ![o] = [pc |-> "file", b |-> b, p |-> p]]
        /\ stray' = ((stray \ {p}) \cup (IF Alive(obj[b].cmd) THEN {obj[b].cmd} ELSE {}))
                    \cup (IF obj[b].st = "closed" THEN {p} ELSE {})
ReadyFile(o) ==
    /\ At(o, "file") /\ Alive(opener[o].p)
    /\ obj' = [obj EXCEPT ![opener[o].b].url = opener[o].p]
    /\ opener' = [opener EXCEPT ![o] = [pc |-> "status", b |-> opener[o].b, p |-> None]]
    /\ UNCHANGED <<proc, stray>>
NoReadyFile(o) ==
    /\ At(o, "file") /\ Exits(opener[o].p) /\ Finish(o)
    /\ UNCHANGED <<obj, stray>>
(* waitReady and registerHandlers: two requests to the process at baseURL *)
WaitReady(o) ==
    /\ At(o, "status") /\ Up(obj[opener[o].b].url) /\ Goto(o, "open")
    /\ UNCHANGED <<obj, proc, stray>>
(* openStream, or any request before it fails or times out. *)
Opens(o) == /\ At(o, "open") /\ Up(obj[opener[o].b].url) /\ Finish(o)
            /\ UNCHANGED <<obj, proc, stray>>
Fails(o) == /\ opener[o].pc \in {"start", "status", "open"} /\ Finish(o)
            /\ UNCHANGED <<obj, proc, stray>>

(* The process exits, stops answering, or answers again. *)
Dies(p) == Alive(p) /\ Exits(p) /\ UNCHANGED <<obj, opener, stray>>
Hangs(p) == Up(p) /\ proc' = [proc EXCEPT ![p] = "hung"] /\ UNCHANGED <<obj, opener, stray>>
Recovers(p) == /\ proc[p] = "hung" /\ proc' = [proc EXCEPT ![p] = "up"]
               /\ UNCHANGED <<obj, opener, stray>>

Opening(o) == \/ FoundRunning(o) \/ FoundStopped(o) \/ RestartRefused(o) \/ RestartAllowed(o)
              \/ \E p \in Process : Restart(o, p)
              \/ ReadyFile(o) \/ NoReadyFile(o) \/ WaitReady(o)
              \/ Opens(o) \/ Fails(o)
Environment == \E p \in Process : Dies(p) \/ Hangs(p) \/ Recovers(p)
=============================================================================
