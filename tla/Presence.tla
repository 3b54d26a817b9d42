------------------------------ MODULE Presence ------------------------------
(***************************************************************************)
(* The presence manager of one machine (internal/presence) and the peers   *)
(* it hears of.  Announcements can be lost and overtake each other; pubsub *)
(* delivers none of them twice.  The manager's three goroutines share m.mu,*)
(* a read-write lock: a writer that waits keeps new readers out, and       *)
(* notify locks for reading twice.  No callback is ever registered.        *)
(***************************************************************************)
EXTENDS Naturals, FiniteSets

CONSTANTS Peer,          \* other machines
          Remote,        \* those of them in cfg.Remotes
          Addr,          \* non-empty lists of dialable relay addresses
          None,          \* the empty list
          After          \* offlineAfter, in ticks

ASSUME PresenceAssumption ==
    /\ Remote \subseteq Peer /\ None \notin Addr
    /\ After \in Nat \ {0}

VARIABLES host,          \* peer -> is it up, and its relay addresses
          net,           \* announcements under way
          peers,         \* m.peers, with the time since LastSeen
          stored,        \* remote -> RelayAddrs in the configuration
          task,          \* goroutine -> where it is, and its message
          todo,          \* remotes dhtColdStart has still to look at
          cold           \* the remote it looks for, and what it found

vars == <<host, net, peers, stored, task, todo, cold>>

Task == {"receive", "sweep", "cold"}
Unknown == [known |-> FALSE, online |-> FALSE, age |-> 0, addrs |-> None]
Idle == [pc |-> "idle", msg |-> None]
NoSearch == [peer |-> None, addrs |-> None]
NotStarted == [peer |-> "wait", addrs |-> None]

Init == /\ host \in [Peer -> [up : BOOLEAN, addrs : {None}]]
        /\ net = {} /\ peers = [p \in Peer |-> Unknown]
        /\ stored \in [Remote -> Addr \cup {None}]
        /\ task = [t \in Task |-> Idle]
        /\ todo = {} /\ cold = NotStarted

IsOnline(p) == peers[p].known /\ peers[p].online

-----------------------------------------------------------------------------
(* m.mu *)
Goto(t, pc) == task' = [task EXCEPT ![t].pc = pc]
Readers == {t \in Task : task[t].pc \in {"all", "both"}}
Writers == {t \in Task : task[t].pc = "lock"}
Writable == Readers = {}
Readable == Writers = {}
Stuck == ~Readable /\ \E t \in Task : task[t].pc = "all"

(* Lock while notify of another goroutine is under way. *)
WaitsForLock(t, m) ==
    /\ task[t].pc = "idle" /\ ~Writable
    /\ task' = [task EXCEPT ![t] = [pc |-> "lock", msg |-> m]]
    /\ UNCHANGED <<host, peers, stored, todo, cold>>

(* notify: RLock, and then RLock again in All *)
NotifyLocks(t) == /\ task[t].pc = "notify" /\ Readable /\ Goto(t, "all")
                  /\ UNCHANGED <<host, net, peers, stored, todo, cold>>
NotifyReads(t) == /\ task[t].pc = "all" /\ Readable /\ Goto(t, "both")
                  /\ UNCHANGED <<host, net, peers, stored, todo, cold>>
NotifyUnlocks(t) == /\ task[t].pc = "both" /\ Goto(t, "idle")
                    /\ UNCHANGED <<host, net, peers, stored, todo, cold>>

-----------------------------------------------------------------------------
(* The other machines *)

(* announce: by the loop, and by AnnounceNow when the addresses change.    *)
Announce(p) ==
    /\ host[p].up /\ net' = net \cup {[from |-> p, addrs |-> host[p].addrs]}
    /\ UNCHANGED <<host, peers, stored, task, todo, cold>>
AddrsChange(p, a) ==
    /\ host[p].up /\ a # host[p].addrs /\ host' = [host EXCEPT ![p].addrs = a]
    /\ net' = net \cup {[from |-> p, addrs |-> a]}
    /\ UNCHANGED <<peers, stored, task, todo, cold>>
(* announceOffline, when the process is told to stop. *)
AnnounceOffline(p) ==
    /\ host[p].up /\ host' = [host EXCEPT ![p] = [up |-> FALSE, addrs |-> None]]
    /\ net' = net \cup {[from |-> p, addrs |-> None]}
    /\ UNCHANGED <<peers, stored, task, todo, cold>>
Crash(p) ==
    /\ host[p].up /\ host' = [host EXCEPT ![p] = [up |-> FALSE, addrs |-> None]]
    /\ UNCHANGED <<net, peers, stored, task, todo, cold>>
Starts(p) ==
    /\ ~host[p].up /\ host' = [host EXCEPT ![p].up = TRUE]
    /\ UNCHANGED <<net, peers, stored, task, todo, cold>>
Lose(m) ==
    /\ m \in net /\ net' = net \ {m}
    /\ UNCHANGED <<host, peers, stored, task, todo, cold>>

-----------------------------------------------------------------------------
(* receiveLoop.  An empty list means that a peer we know goes offline; any *)
(* other announcement replaces what was known and what is stored.          *)
Goodbye(m) == peers[m.from].known /\ m.addrs = None
Online(a) == [known |-> TRUE, online |-> TRUE, age |-> 0, addrs |-> a]
Heard(m) == [peers EXCEPT ![m.from] =
               IF Goodbye(m) THEN [@ EXCEPT !.online = FALSE, !.addrs = None]
               ELSE Online(m.addrs)]
updateRemoteAddrs_Always(m) ==
    IF m.from \notin Remote THEN stored ELSE [stored EXCEPT ![m.from] = m.addrs]
updateRemoteAddrs(m) ==
    IF Goodbye(m) \/ m.from \notin Remote THEN stored
    ELSE [stored EXCEPT ![m.from] = m.addrs]
Handle(m) == /\ peers' = Heard(m) /\ stored' = updateRemoteAddrs(m)
             /\ task' = [task EXCEPT !["receive"] =
                           [pc |-> IF Goodbye(m) THEN "notify" ELSE "idle", msg |-> None]]

Receive(m) == /\ task["receive"].pc = "idle" /\ m \in net /\ net' = net \ {m}
              /\ Writable /\ Handle(m) /\ UNCHANGED <<host, todo, cold>>
ReceiveWaits(m) == m \in net /\ net' = net \ {m} /\ WaitsForLock("receive", m)
ReceiveGoesOn == /\ task["receive"].pc = "lock" /\ Writable
                 /\ Handle(task["receive"].msg) /\ UNCHANGED <<host, net, todo, cold>>

(* sweep *)
Swept_Never(s) == s
Swept_Early(s) == [s EXCEPT !.online = s.online /\ s.age < After - 1]
Swept(s) == [s EXCEPT !.online = s.online /\ s.age < After]
SweepAll == /\ peers' = [p \in Peer |-> Swept(peers[p])]
            /\ task' = [task EXCEPT !["sweep"] =
                          [pc |-> IF peers' # peers THEN "notify" ELSE "idle", msg |-> None]]
Sweep == /\ task["sweep"].pc = "idle" /\ Writable /\ SweepAll
         /\ UNCHANGED <<host, net, stored, todo, cold>>
SweepWaits == WaitsForLock("sweep", None) /\ UNCHANGED net
SweepGoesOn == /\ task["sweep"].pc = "lock" /\ Writable /\ SweepAll
               /\ UNCHANGED <<host, net, stored, todo, cold>>
(* Time passes; beyond offlineAfter it makes no difference. *)
Older(s) == [s EXCEPT !.age = IF @ < After THEN @ + 1 ELSE @]
Tick == /\ peers' = [p \in Peer |-> IF peers[p].known THEN Older(peers[p]) ELSE peers[p]]
        /\ UNCHANGED <<host, net, stored, task, todo, cold>>

-----------------------------------------------------------------------------
(* dhtColdStart: the DHT has peers, and the configured remotes are copied. *)
ColdStart == /\ cold = NotStarted /\ Readable /\ cold' = NoSearch /\ todo' = Remote
             /\ UNCHANGED <<host, net, peers, stored, task>>
(* A peer that has been heard of is skipped; one that has not is looked    *)
(* for, outside the lock, and connected to.                                *)
ColdSkips(p) == /\ task["cold"].pc = "idle" /\ cold = NoSearch /\ p \in todo
                /\ Readable /\ peers[p].known /\ todo' = todo \ {p}
                /\ UNCHANGED <<host, net, peers, stored, task, cold>>
ColdSearches(p) == /\ task["cold"].pc = "idle" /\ cold = NoSearch /\ p \in todo
                   /\ Readable /\ ~peers[p].known
                   /\ todo' = todo \ {p} /\ cold' = [peer |-> p, addrs |-> None]
                   /\ UNCHANGED <<host, net, peers, stored, task>>
(* Not found, not reached, or no relay address. *)
ColdFails == /\ task["cold"].pc = "idle" /\ cold.peer \in Peer /\ cold.addrs = None
             /\ cold' = NoSearch
             /\ UNCHANGED <<host, net, peers, stored, task, todo>>
ColdFinds(a) == /\ task["cold"].pc = "idle" /\ cold.peer \in Peer /\ cold.addrs = None
                /\ cold' = [cold EXCEPT !.addrs = a]
                /\ UNCHANGED <<host, net, peers, stored, task, todo>>
(* What was found is recorded unless the peer has been heard of since. *)
Recorded_Always == [peers EXCEPT ![cold.peer] = Online(cold.addrs)]
Recorded == IF peers[cold.peer].known THEN peers
            ELSE [peers EXCEPT ![cold.peer] = Online(cold.addrs)]
ColdRecord == /\ peers' = Recorded /\ cold' = NoSearch
              /\ task' = [task EXCEPT !["cold"] = [pc |-> "notify", msg |-> None]]
              /\ UNCHANGED <<host, net, stored, todo>>
ColdRecords == task["cold"].pc = "idle" /\ cold.addrs # None /\ Writable /\ ColdRecord
ColdWaits == cold.addrs # None /\ WaitsForLock("cold", None) /\ UNCHANGED net
ColdGoesOn == task["cold"].pc = "lock" /\ Writable /\ ColdRecord

(* This machine restarts: only the configuration is left. *)
Restart == /\ peers' = [p \in Peer |-> Unknown]
           /\ task' = [t \in Task |-> Idle] /\ todo' = {} /\ cold' = NotStarted
           /\ UNCHANGED <<host, net, stored>>

-----------------------------------------------------------------------------
Others == \E p \in Peer : \/ Announce(p) \/ AnnounceOffline(p) \/ Crash(p) \/ Starts(p)
                          \/ \E a \in Addr \cup {None} : AddrsChange(p, a)
Receiving == (\E m \in net : Receive(m) \/ ReceiveWaits(m)) \/ ReceiveGoesOn
Sweeping == Sweep \/ SweepWaits \/ SweepGoesOn
Cold == \/ ColdStart \/ ColdFails \/ ColdRecords \/ ColdWaits \/ ColdGoesOn
        \/ (\E p \in Remote : ColdSkips(p) \/ ColdSearches(p))
        \/ (\E a \in Addr : ColdFinds(a))
Notifying(t) == NotifyLocks(t) \/ NotifyReads(t) \/ NotifyUnlocks(t)
Next == \/ Others \/ Receiving \/ Sweeping \/ Cold \/ Tick \/ Restart
        \/ (\E m \in net : Lose(m)) \/ (\E t \in Task : Notifying(t))

(* The sweeping ticker fires, goroutines that can run do, time passes. *)
FairSpec == /\ Init /\ [][Next]_vars
            /\ WF_vars(Tick) /\ WF_vars(Sweeping)
            /\ \A t \in Task : WF_vars(Notifying(t))
            /\ WF_vars(ReceiveGoesOn) /\ WF_vars(ColdGoesOn)
-----------------------------------------------------------------------------
(* Properties *)

(* The types of the state; what is online has been heard of, and a peer    *)
(* that is offline before offlineAfter has said goodbye: sweep gives up no *)
(* peer early, and no address of a peer that said goodbye is left.         *)
PresenceTypeOK ==
    /\ net \subseteq [from : Peer, addrs : Addr \cup {None}]
    /\ \A p \in Peer : /\ peers[p].age \in 0..After /\ peers[p].addrs \in Addr \cup {None}
                       /\ peers[p].online => peers[p].known
                       /\ peers[p].online \/ peers[p].age = After \/ peers[p].addrs = None
    /\ \A p \in Remote : stored[p] \in Addr \cup {None}
    /\ \A t \in Task : task[t].pc \in {"idle", "lock", "notify", "all", "both"}

(* A peer we know comes online, or gets other addresses, only by an        *)
(* announcement of its own: the DHT's answer, which may be old and comes   *)
(* late, overwrites none (dhtColdStart), a sweep revives no peer that said *)
(* goodbye, and a timeout keeps the addresses.                             *)
AnnouncedIsKept ==
    [][\A p \in Peer :
         /\ peers[p].known /\ peers'[p].known
         /\ peers'[p].addrs # peers[p].addrs \/ (peers'[p].online /\ ~peers[p].online)
         => \E m \in net \cup {task["receive"].msg} :
              m # None /\ m.from = p /\ m.addrs = peers'[p].addrs]_vars

(* The addresses kept in the configuration for the time after a restart    *)
(* are emptied only when the first thing heard of a peer is an             *)
(* announcement without addresses (receiveLoop, updateRemoteAddrs).        *)
StoredIsKept ==
    [][\A p \in Remote : stored[p] # None /\ stored'[p] = None => ~peers[p].known]_vars

(* A peer that is gone for good, with or without a goodbye, is sooner or   *)
(* later not shown as online, however late its announcements come, unless  *)
(* the second RLock of notify has stopped the manager.                     *)
GoneGoesOffline ==
    \A p \in Peer : <>[](~host[p].up) => []<>(~IsOnline(p) \/ Stuck)
=============================================================================
