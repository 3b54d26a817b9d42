--------------------------- MODULE ClientPairing ---------------------------
(***************************************************************************)
(* The client side of pairing: attempts by link (ConnectByURL) and by      *)
(* stored record (reauthRemoteWithBackend), for one service of one host,   *)
(* over direct QUIC or over a backend that opens a single stream.  The     *)
(* host answers with whatever identity it has by then.                     *)
(***************************************************************************)
EXTENDS DirectQuic

CONSTANTS Identity,      \* [key, machine] that the host can have: a key of
                         \* its own, None with a TPM, its node key without
                         \* either; a software key fixes the machine ID
          Records,       \* address lists that a DHT lookup can return
          Stored         \* records of the host an earlier run has left

(* RemoteConfig of the host *)
Machine == {id.machine : id \in Identity} \cup {r.machine : r \in Stored}
RemoteConfig == [key : Key \cup {None}, machine : Machine, addrs : Seq(Addr)]
ASSUME ClientAssumption ==
    /\ Identity \subseteq [key : Key \cup {None}, machine : Machine]
    /\ Stored \subseteq RemoteConfig /\ Records \subseteq Seq(Addr)
    /\ None \notin RemoteConfig

VARIABLES remote,        \* the host's entry of cfg.Remotes, or None
          att            \* attempt -> what it is and where

vars == <<cur, conns, conn, racer, race, remote, att>>

NoAttempt == [kind |-> None, pc |-> "idle", snap |-> None, stream |-> "none", addrs |-> <<>>]
Begun(kind, snap) == [NoAttempt EXCEPT !.kind = kind, !.pc = "open", !.snap = snap]
Ended(stream) == [NoAttempt EXCEPT !.pc = "done", !.stream = stream]

Init == QuicInit /\ remote \in Stored \cup {None} /\ att = [t \in Attempt |-> NoAttempt]

Running(t) == att[t].pc \notin {"idle", "done"}
Fresh(t) == att[t].pc = "idle" /\ \A u \in Attempt : u < t => att[u].pc # "idle"

(* A reauthentication copies the stored record; a peer that has none gets  *)
(* an empty one.                                                           *)
ConnectByURL(t) ==
    /\ Fresh(t) /\ att' = [att EXCEPT ![t] = Begun("invite", None)]
    /\ UNCHANGED <<cur, conns, conn, racer, race, remote>>
ReauthPairedWithBackend(t) ==
    /\ Fresh(t) /\ att' = [att EXCEPT ![t] = Begun("reauth", remote)]
    /\ UNCHANGED <<cur, conns, conn, racer, race, remote>>

-----------------------------------------------------------------------------
(* OpenPairingSession *)
KnowsKey(t) == att[t].kind = "invite" \/ (att[t].snap # None /\ att[t].snap.key # None)
KnowsAddrs(t) == att[t].snap # None /\ att[t].snap.addrs # <<>>

(* The key of the link is the node key; the stored one is the identity's. *)
KeyOf(t) == IF att[t].kind = "invite" THEN NodeKey ELSE att[t].snap.key
Races(t, list) ==
    LET addrs == orderDirectQUICAddrs(list) IN
    /\ addrs # <<>> /\ StartRace(t, KeyOf(t), addrs)
    /\ att' = [att EXCEPT ![t] = [@ EXCEPT !.pc = "race", !.addrs = addrs]]
    /\ UNCHANGED remote
(* Stored addresses are used as they are, without a lookup. *)
OpenStored(t) == /\ att[t].pc = "open" /\ KnowsAddrs(t) /\ KnowsKey(t)
                 /\ Races(t, att[t].snap.addrs)
OpenFound(t, list) == /\ att[t].pc = "open" /\ ~KnowsAddrs(t) /\ KnowsKey(t)
                      /\ Races(t, list)
(* Another backend. *)
OpenOne(t) == /\ att[t].pc = "open"
              /\ att' = [att EXCEPT ![t] = [@ EXCEPT !.pc = "write", !.stream = "open"]]
              /\ UNCHANGED <<cur, conns, conn, racer, race, remote>>
OpenFails(t) == /\ att[t].pc = "open" /\ att' = [att EXCEPT ![t] = Ended("none")]
                /\ UNCHANGED <<cur, conns, conn, racer, race, remote>>

(* The loop of openFirstPairingStream over the results. *)
RaceWon(s) == /\ att[s[1]].pc = "race" /\ Take(s)
              /\ att' = [att EXCEPT ![s[1]] = [@ EXCEPT !.pc = "write", !.stream = "open"]]
              /\ UNCHANGED remote
RaceFails(t) == /\ att[t].pc = "race" /\ NoneLeft(t) /\ EndContext(t)
                /\ att' = [att EXCEPT ![t] = Ended("none")] /\ UNCHANGED remote
LeftBehind(s) == att[s[1]].pc # "race" /\ Buffered(s) /\ UNCHANGED <<remote, att>>
(* The user cancels, or the connect operation times out. *)
Cancel(t) == /\ att[t].pc = "race" /\ race[t].alive /\ EndContext(t)
             /\ UNCHANGED <<remote, att>>

-----------------------------------------------------------------------------
(* The exchange over the stream *)
Uses(t) == {racer[s].on : s \in {s \in Racer : s[1] = t /\ racer[s].pc = "won"}}
Cut(t) == \E c \in Uses(t) : conn[c] = "dead"
Finish(t) == CloseWinner(t) /\ att' = [att EXCEPT ![t] = Ended("closed")]

WriteRequest(t) == /\ att[t].pc = "write" /\ ~Cut(t)
                   /\ att' = [att EXCEPT ![t].pc = "read"]
                   /\ UNCHANGED <<cur, conns, conn, racer, race, remote>>
WriteFails_KeepsStream(t) ==
    /\ att[t].pc = "write" /\ att' = [att EXCEPT ![t] = Ended("open")]
    /\ UNCHANGED <<cur, conns, conn, racer, race, remote>>
WriteFails(t) == att[t].pc = "write" /\ Finish(t) /\ UNCHANGED remote
(* Timeout, cancellation, a refusal, a proof that does not verify; or a    *)
(* link of another mode, which stores nothing.                             *)
NothingStored(t) == att[t].pc = "read" /\ Finish(t) /\ UNCHANGED remote

(* verifyStoredIdentity, and the one error that can be repaired. *)
KeyMismatch(snap, id) == snap.key # None /\ id.key # None /\ snap.key # id.key
verifyStoredIdentity_Empty(snap, id) ==
    snap # None => snap.machine = id.machine /\ ~KeyMismatch(snap, id)
verifyStoredIdentity(snap, id) ==
    snap # None /\ snap.machine = id.machine /\ ~KeyMismatch(snap, id)
canRepairStoredSoftwarePublicKey(snap, id) ==
    snap # None /\ KeyMismatch(snap, id) /\ snap.machine = id.machine

(* AddRemote: what is empty does not replace. *)
AddRemote(id, addrs) ==
    IF remote = None THEN [key |-> id.key, machine |-> id.machine, addrs |-> addrs]
    ELSE [key |-> IF id.key = None THEN remote.key ELSE id.key,
          machine |-> id.machine,
          addrs |-> IF addrs = <<>> THEN remote.addrs ELSE addrs]

AnswerAccepted(t, id) ==
    /\ att[t].pc = "read" /\ ~Cut(t)
    /\ \/ att[t].kind = "invite"
       \/ verifyStoredIdentity(att[t].snap, id)
       \/ canRepairStoredSoftwarePublicKey(att[t].snap, id)
    /\ remote' = AddRemote(id, att[t].addrs) /\ Finish(t)

(* The user removes the machine from the list. *)
RemoveRemote == /\ remote # None /\ remote' = None
                /\ UNCHANGED <<cur, conns, conn, racer, race, att>>

-----------------------------------------------------------------------------
OpenStep(t) == OpenStored(t) \/ (\E r \in Records : OpenFound(t, r)) \/ OpenOne(t) \/ OpenFails(t)
StreamStep(t) == \/ WriteRequest(t) \/ WriteFails(t) \/ NothingStored(t)
                 \/ \E id \in Identity : AnswerAccepted(t, id)
AttemptStep(t) == OpenStep(t) \/ RaceFails(t) \/ StreamStep(t)
Transport == Replace \/ \E c \in Racer : ConnDies(c)
Next == \/ (\E t \in Attempt : ConnectByURL(t) \/ ReauthPairedWithBackend(t)
                               \/ AttemptStep(t) \/ Cancel(t))
        \/ (\E s \in Racer : RaceWon(s) \/ LeftBehind(s))
        \/ ((\E s \in Racer : RacerStep(s)) \/ Transport) /\ UNCHANGED <<remote, att>>
        \/ RemoveRemote

(* Goroutines are scheduled; dialling, opening and reading end by their    *)
(* contexts and deadlines; writing the small request does not block.       *)
Progress(t) == \/ AttemptStep(t)
               \/ \E s \in Racer : s[1] = t /\ (RaceWon(s) \/ (RacerStep(s) /\ UNCHANGED <<remote, att>>))
FairSpec == Init /\ [][Next]_vars /\ \A t \in Attempt : WF_vars(Progress(t))
-----------------------------------------------------------------------------
(* Properties *)

(* An attempt holds an open stream exactly while it writes its request or  *)
(* reads the answer: every path of ConnectByURL and reauthOverStream that  *)
(* ends closes the stream it was given.                                    *)
StreamIsClosed ==
    \A t \in Attempt : att[t].stream = "open" <=> att[t].pc \in {"write", "read"}

(* A live connection leaves the cache only closed, or because another      *)
(* goroutine dialled the same address at the same time (cachedConn).       *)
CachedIsClosed ==
    [][\A o \in Object, e \in Endpoint :
         LET c == conns[o][e] IN
         c # None /\ conns'[o][e] # c
         => conn'[c] = "dead" \/ (conns'[o][e] # None /\ conn[conns'[o][e]] = "free")]_vars

(* A direct QUIC stream always leads to the holder of the key the caller   *)
(* asked for, on a new connection and on a cached one; so an attempt that  *)
(* uses a stored identity key, which is not the node key, never gets one.  *)
PeerIsVerified == \A s \in Racer : racer[s].pc \in {"open", "ok", "won"} => verifyPeer(s)

(* The racers that lose cancel and drop connections (openStream), but      *)
(* never the one that carries the stream of the winner of their race: its  *)
(* addresses are all different.                                            *)
LosersSpareWinner ==
    [][\A s \in Racer : racer[s].pc = "open" /\ racer'[s].pc = "over"
         => \A c \in Uses(s[1]) : conn[c] = "live" => conn'[c] = "live"]_vars

(* A reauthentication writes to the list only the machine it had read from *)
(* it before: it never brings in a machine that was not paired, nor takes  *)
(* another machine's identity for the paired one (reauthOverStream).       *)
ReauthIsPinned ==
    [][\A t \in Attempt :
         att[t].kind = "reauth" /\ att[t].pc = "read" /\ att'[t].pc = "done" /\ remote' # remote
         => /\ att[t].snap # None
            /\ remote' # None /\ remote'.machine = att[t].snap.machine]_vars

(* Every attempt ends: a race ends when all its racers have, whatever the  *)
(* cache held and whoever replaced the backend meanwhile.                  *)
AttemptsEnd == []<>(\A t \in Attempt : ~Running(t))
=============================================================================
