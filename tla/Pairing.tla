------------------------------- MODULE Pairing -------------------------------
(***************************************************************************)
(* The host side of pairing (internal/pairing, Manager): invite links and  *)
(* their two indexes, the stream handlers that verify and consume them,    *)
(* the trusted list the handlers extend, the session tokens they issue,    *)
(* and the calls of the web UI that generate, revoke and clean up links.   *)
(*                                                                         *)
(* Grain.  Code between Lock and Unlock of Manager.mu is one action.  The  *)
(* trusted list is not protected by any lock, so a call that changes it is *)
(* two actions: one scans the slice, one writes the slice, and what others *)
(* did to the slice in between may be seen, half seen or overwritten.      *)
(* RevokeInvite makes such a call while it holds mu.  The fields of one    *)
(* entry are read and written in one go.                                   *)
(***************************************************************************)
EXTENDS TrustedPeers, SessionStore

CONSTANTS InviteID,          \* the values 16 random bytes can take
          Conn,              \* pairing streams, one handler goroutine each
          Call,              \* goroutines that serve UI and IPC requests
          Backend,           \* values of Config.ActiveNetworkBackend
          Identity,          \* what a client proves: node key, certificate, root
          RequestedPort,     \* ports the UI asks links for
          DefaultPort,       \* Protocol.DefaultPort of the links' protocol
          ConfiguredPort,    \* Manager.configuredTargetPort
          OneTimeTTL,        \* life of a one-time link, in ticks
          TimeWindowTicks,   \* rendezvous.TimeWindowSecs, in ticks
          MaxStoredInvites,
          InitialRemotes     \* node ids of Config.Remotes, one per service

ASSUME PairingAssumption ==
    /\ OneTimeTTL \in Nat /\ TimeWindowTicks \in Nat \ {0}
    /\ MaxStoredInvites \in Nat
    /\ RequestedPort \subseteq Nat \ {0}
    /\ NoID \notin InviteID \cup Token
ASSUME GrantAssumption ==
    /\ {id.NodeID : id \in Identity} \subseteq Peer
    /\ DefaultPort \in 1..MaxPort /\ ConfiguredPort \in 1..MaxPort
    /\ RequestedPort \cup 1..MaxPort \subseteq Port /\ Port \subseteq Nat

VARIABLES inv,          \* the invite objects created so far, by InviteID
          invites,      \* Manager.invites: the links the UI lists
          byInviteID,   \* Manager.byInviteID: the links a request can name
          trusted,      \* Config.Trusted
          remotes,      \* Config.Remotes, the node id of each entry
          backend,      \* Config.ActiveNetworkBackend()
          conn,         \* the pairing handlers
          call,         \* the UI's calls of generateURL and of handleConfig
          edit,         \* RevokeInvite and handleDeleteAllowed, mid-way
          accepts,      \* history: how often verifyAndConsume accepted a link
          paired,       \* history: <<node, link>> accepted in mode pairing
          revoked       \* history: links RevokeInvite was called for

inviteVars == <<inv, invites, byInviteID>>
historyVars == <<accepts, paired, revoked>>
vars == <<inviteVars, trusted, remotes, backend, conn, call, edit, historyVars, storeVars>>

Nodes == {id.NodeID : id \in Identity}
NoExpiry == MaxTime + OneTimeTTL + 1     \* the far-future sentinel

-----------------------------------------------------------------------------
(* Invites *)

(* uint16(targetPort) at creation, effectiveTargetPort at use. *)
StoredPort_Wide(q) == q
StoredPort(q) == q % (MaxPort + 1)
effectiveTargetPort(v) == IF v.TargetPort # 0 THEN v.TargetPort ELSE DefaultPort

Expired(v) == v.ExpiresAt # NoExpiry /\ now > v.ExpiresAt

active(v) == /\ ~(v.Mode = "onetime" /\ v.Used)
             /\ v.ExpiresAt = NoExpiry \/ now < v.ExpiresAt

(* mu is free unless RevokeInvite is between its two halves. *)
NoEdit == [node |-> NoID, invite |-> NoID, snap |-> <<>>]
MuFree == edit["revoke"] = NoEdit

(* DeletePendingPairingInvitesExceptBackend: Used is never set on a        *)
(* pairing link, so "pending" does not exclude links that were used.       *)
StalePairing(b) == {i \in invites : /\ inv[i].Mode = "pairing" /\ ~inv[i].Used
                                    /\ active(inv[i]) /\ inv[i].Backend # b}
DeletePendingExcept_ListOnly(b) ==
    /\ invites' = invites \ StalePairing(b)
    /\ UNCHANGED byInviteID
DeletePendingExcept(b) ==
    /\ invites' = invites \ StalePairing(b)
    /\ byInviteID' = byInviteID \ StalePairing(b)

-----------------------------------------------------------------------------
(* Unlocked calls on Config.Trusted *)

(* The slices a call can work on after it scanned the slice old: the slice *)
(* of now, if the field is read again; the old one, if another call moved  *)
(* to a new array; or the old length over an array others changed in place.*)
Overlay(old) == [k \in DOMAIN old |-> IF k \in DOMAIN trusted THEN trusted[k] ELSE old[k]]
Seen(old) == {trusted, old, Overlay(old)}

-----------------------------------------------------------------------------
(* generateURL, for the two kinds of call the UI and the IPC server make:  *)
(* a one-time link with a fixed life, a pairing link without expiry.       *)

NoCall == [pc |-> "idle", mode |-> NoID, port |-> 0, backend |-> NoID, expiresAt |-> 0]

GenerateOneTime(g, q) ==
    /\ call[g].pc = "idle"
    /\ call' = [call EXCEPT ![g] = [pc |-> "insert", mode |-> "onetime", port |-> q,
                                    backend |-> backend, expiresAt |-> now + OneTimeTTL]]
    /\ UNCHANGED <<inviteVars, trusted, remotes, backend, conn, edit, historyVars, storeVars>>

GeneratePairing(g, q) ==
    /\ call[g].pc = "idle"
    /\ call' = [call EXCEPT ![g] = [pc |-> "delete", mode |-> "pairing", port |-> q,
                                    backend |-> backend, expiresAt |-> NoExpiry]]
    /\ UNCHANGED <<inviteVars, trusted, remotes, backend, conn, edit, historyVars, storeVars>>

GenerateDeletesStale(g) ==
    /\ call[g].pc = "delete" /\ MuFree
    /\ DeletePendingExcept(call[g].backend)
    /\ call' = [call EXCEPT ![g].pc = "find"]
    /\ UNCHANGED <<inv, trusted, remotes, backend, conn, edit, historyVars, storeVars>>

(* findActivePairingInvite: return the link there is, or go on to mint one.*)
ActivePairing(b) ==
    {i \in invites : inv[i].Mode = "pairing" /\ active(inv[i]) /\ inv[i].Backend = b}
GenerateFinds(g) ==
    /\ call[g].pc = "find" /\ MuFree
    /\ call' = [call EXCEPT ![g] = IF ActivePairing(call[g].backend) # {}
                                   THEN NoCall ELSE [@ EXCEPT !.pc = "insert"]]
    /\ UNCHANGED <<inviteVars, trusted, remotes, backend, conn, edit, historyVars, storeVars>>

(* No relay reservation, no iroh ticket within 25 s, no key: an error. *)
GenerateFails(g) ==
    /\ call[g].pc = "insert"
    /\ call' = [call EXCEPT ![g] = NoCall]
    /\ UNCHANGED <<inviteVars, trusted, remotes, backend, conn, edit, historyVars, storeVars>>

NewInvite(r) == [Mode |-> r.mode, TargetPort |-> StoredPort(r.port), Backend |-> r.backend,
                 CreatedAt |-> now, ExpiresAt |-> r.expiresAt,
                 Used |-> FALSE, UsedByID |-> NoID]
GenerateInserts(g, i) ==
    /\ call[g].pc = "insert" /\ MuFree /\ i \notin DOMAIN inv
    /\ inv' = Put(inv, i, NewInvite(call[g]))
    /\ invites' = invites \cup {i}
    /\ byInviteID' = byInviteID \cup {i}
    /\ accepts' = Put(accepts, i, 0)
    /\ call' = [call EXCEPT ![g] = NoCall]
    /\ UNCHANGED <<trusted, remotes, backend, conn, edit, paired, revoked, storeVars>>

(* handleConfig: the new backend is in force at once; the clean-up follows *)
(* when the file was saved and the networks restarted, or not at all.      *)
ChangeBackend(g, b) ==
    /\ call[g].pc = "idle" /\ b # backend
    /\ backend' = b
    /\ call' = [call EXCEPT ![g] = [@ EXCEPT !.pc = "cleanup", !.backend = backend]]
    /\ UNCHANGED <<inviteVars, trusted, remotes, conn, edit, historyVars, storeVars>>

ChangeCleansUp(g) ==
    /\ call[g].pc = "cleanup" /\ MuFree
    /\ IF call[g].backend # backend THEN DeletePendingExcept(backend)
                                    ELSE UNCHANGED <<invites, byInviteID>>
    /\ call' = [call EXCEPT ![g] = NoCall]
    /\ UNCHANGED <<inv, trusted, remotes, backend, conn, edit, historyVars, storeVars>>

ChangeFails(g) ==
    /\ call[g].pc = "cleanup"
    /\ call' = [call EXCEPT ![g] = NoCall]
    /\ UNCHANGED <<inviteVars, trusted, remotes, backend, conn, edit, historyVars, storeVars>>

(* RevokeInvite: the link goes from both indexes; if a peer was recorded   *)
(* on a pairing link, its trust goes too, mu being held until it is gone.  *)
RevokeInvite(i) ==
    /\ MuFree /\ i \in invites
    /\ invites' = invites \ {i}
    /\ byInviteID' = byInviteID \ {i}
    /\ revoked' = revoked \cup {i}
    /\ edit' = IF inv[i].Mode = "pairing" /\ inv[i].UsedByID # NoID
               THEN [edit EXCEPT !["revoke"] =
                       [node |-> inv[i].UsedByID, invite |-> i, snap |-> trusted]]
               ELSE edit
    /\ UNCHANGED <<inv, trusted, remotes, backend, conn, call, accepts, paired, storeVars>>

RevokeIndex == TrustedPeer(edit["revoke"].snap, edit["revoke"].node)
RevokeFinishes ==
    /\ ~MuFree
    /\ IF RevokeIndex = 0 THEN UNCHANGED trusted
       ELSE \E list \in Seen(edit["revoke"].snap) :
              RevokeIndex <= Len(list) /\ trusted' = Without(list, RevokeIndex)
    /\ remotes' = Without(remotes, First({i \in DOMAIN remotes : remotes[i] = edit["revoke"].node}))
    /\ edit' = [edit EXCEPT !["revoke"] = NoEdit]
    /\ UNCHANGED <<inviteVars, backend, conn, call, historyVars, storeVars>>

(* The position is out of range by now: a panic, which unlocks mu and ends *)
(* in the HTTP server.                                                     *)
RevokePanics ==
    /\ ~MuFree /\ RevokeIndex > Len(trusted)
    /\ edit' = [edit EXCEPT !["revoke"] = NoEdit]
    /\ UNCHANGED <<inviteVars, trusted, remotes, backend, conn, call, historyVars, storeVars>>

(* handleDeleteAllowed takes no lock at all. *)
DeleteAllowed(n) ==
    /\ edit["delete"] = NoEdit /\ IsTrusted(trusted, n)
    /\ edit' = [edit EXCEPT !["delete"] = [node |-> n, invite |-> NoID, snap |-> trusted]]
    /\ UNCHANGED <<inviteVars, trusted, remotes, backend, conn, call, historyVars, storeVars>>

DeleteFinishes ==
    /\ edit["delete"] # NoEdit
    /\ \E list \in Seen(edit["delete"].snap) :
         trusted' = IF IsTrusted(list, edit["delete"].node)
                    THEN WithoutNode(list, edit["delete"].node) ELSE trusted
    /\ edit' = [edit EXCEPT !["delete"] = NoEdit]
    /\ UNCHANGED <<inviteVars, remotes, backend, conn, call, historyVars, storeVars>>

(* One round of sweepLoop: expired links stop working but stay listed, and *)
(* the oldest links beyond the limit are dropped altogether.               *)
Oldest(S) == \A i \in S, j \in invites \ S : inv[i].CreatedAt <= inv[j].CreatedAt
Sweep_KeepsListed ==
    /\ MuFree
    /\ \E S \in SUBSET invites :
         /\ Cardinality(S) = IF Cardinality(invites) > MaxStoredInvites
                             THEN Cardinality(invites) - MaxStoredInvites ELSE 0
         /\ Oldest(S)
         /\ byInviteID' = byInviteID \ (S \cup {i \in invites : Expired(inv[i])})
    /\ UNCHANGED <<inv, invites, trusted, remotes, backend, conn, call, edit, historyVars,
                   storeVars>>
Sweep ==
    /\ MuFree
    /\ \E S \in SUBSET invites :
         /\ Cardinality(S) = IF Cardinality(invites) > MaxStoredInvites
                             THEN Cardinality(invites) - MaxStoredInvites ELSE 0
         /\ Oldest(S)
         /\ invites' = invites \ S
         /\ byInviteID' = byInviteID \ (S \cup {i \in invites : Expired(inv[i])})
    /\ UNCHANGED <<inv, trusted, remotes, backend, conn, call, edit, historyVars, storeVars>>

-----------------------------------------------------------------------------
(* handleIncomingConn: the handler of one pairing stream. *)

NoIdentity == [NodeID |-> NoID, MachineID |-> NoID, TPMRootThumbprint |-> NoID]
NewConn == [pc |-> "reading", who |-> NoIdentity, mode |-> NoID, invite |-> NoID,
            window |-> 0, knows |-> FALSE, port |-> 0, snap |-> <<>>, token |-> NoID]

TimeWindow(t) == t \div TimeWindowTicks
(* A proof is good for the window it was made in and one on either side. *)
Fresh(w) == w <= TimeWindow(now) + 1 /\ TimeWindow(now) <= w + 1

Goto(c, pc) == conn' = [conn EXCEPT ![c].pc = pc]
(* A handler that returns before it issued a token forgets its request. *)
Abandon(c) == conn' = [conn EXCEPT ![c] = [NewConn EXCEPT !.pc = "closed"]]

(* No frame within 30 s, a frame of another type or version, a node id or  *)
(* an identity proof that does not verify: answered or not, it ends here.  *)
RequestRejected(c) ==
    /\ conn[c].pc = "reading"
    /\ Abandon(c)
    /\ UNCHANGED <<inviteVars, trusted, remotes, backend, call, edit, historyVars, storeVars>>

(* A request with a verified identity proof.  k says whether its invite    *)
(* proof was computed with the secret of link i, for this node and mode.   *)
ReceiveInviteRequest(c, id, m, i, w, k) ==
    /\ conn[c].pc = "reading" /\ Fresh(w)
    /\ k => i \in DOMAIN inv          \* a secret is drawn when the link is made
    /\ conn' = [conn EXCEPT ![c] = [@ EXCEPT !.pc = "verify", !.who = id, !.mode = m,
                                             !.invite = i, !.window = w, !.knows = k]]
    /\ UNCHANGED <<inviteVars, trusted, remotes, backend, call, edit, historyVars, storeVars>>

(* A reauthentication; port 0 leaves the port to the host. *)
ReceiveTrustedRequest(c, id, q) ==
    /\ conn[c].pc = "reading"
    /\ conn' = [conn EXCEPT ![c] = [@ EXCEPT !.pc = "lookup", !.who = id,
                                             !.mode = "trusted", !.port = q]]
    /\ UNCHANGED <<inviteVars, trusted, remotes, backend, call, edit, historyVars, storeVars>>

(* TrustedPeer and verifyStoredIdentity. *)
Recognised(who) ==
    LET k == TrustedPeer(trusted, who.NodeID)
    IN  k # 0 /\ trusted[k].MachineID # NoID /\ trusted[k].MachineID = who.MachineID

TrustedPort(r) ==
    LET stored == trusted[TrustedPeer(trusted, r.who.NodeID)].TargetPort
    IN  IF r.port > 0 THEN r.port ELSE IF stored > 0 THEN stored ELSE ConfiguredPort

TrustedAccepted(c) ==
    /\ conn[c].pc = "lookup" /\ Recognised(conn[c].who)
    /\ conn' = [conn EXCEPT ![c] = [@ EXCEPT !.pc = "load", !.port = TrustedPort(conn[c])]]
    /\ UNCHANGED <<inviteVars, trusted, remotes, backend, call, edit, historyVars, storeVars>>

TrustedRejected(c) ==
    /\ conn[c].pc = "lookup" /\ ~Recognised(conn[c].who)
    /\ Abandon(c)
    /\ UNCHANGED <<inviteVars, trusted, remotes, backend, call, edit, historyVars, storeVars>>

(* verifyAndConsume, in the order of its checks; an expired one-time link  *)
(* that was not used yet leaves the index when it is asked for.            *)
UsedUp(v) == v.Mode = "onetime" /\ v.Used
PastExpiry(v) == v.Mode # "pairing" /\ Expired(v)
Consumable_Reuse(r) ==
    /\ r.invite \in byInviteID
    /\ ~PastExpiry(inv[r.invite])
    /\ r.mode = inv[r.invite].Mode /\ r.knows /\ Fresh(r.window)
Consumable_AnyTime(r) ==
    /\ r.invite \in byInviteID
    /\ ~UsedUp(inv[r.invite])
    /\ r.mode = inv[r.invite].Mode /\ r.knows /\ Fresh(r.window)
Consumable(r) ==
    /\ r.invite \in byInviteID
    /\ ~UsedUp(inv[r.invite])
    /\ ~PastExpiry(inv[r.invite])
    /\ r.mode = inv[r.invite].Mode /\ r.knows /\ Fresh(r.window)

VerifyAccepts(c) ==
    LET i == conn[c].invite IN
    /\ conn[c].pc = "verify" /\ MuFree /\ Consumable(conn[c])
    /\ inv' = [inv EXCEPT ![i].Used = @ \/ inv[i].Mode = "onetime"]
    /\ accepts' = [accepts EXCEPT ![i] = @ + 1]
    /\ paired' = IF inv[i].Mode = "pairing"
                 THEN paired \cup {<<conn[c].who.NodeID, i>>} ELSE paired
    /\ conn' = [conn EXCEPT ![c] = [@ EXCEPT !.pc = "record", !.window = 0, !.knows = FALSE,
                                             !.port = effectiveTargetPort(inv[i])]]
    /\ UNCHANGED <<invites, byInviteID, trusted, remotes, backend, call, edit,
                   revoked, storeVars>>

VerifyRejects_Silent(c) ==
    /\ conn[c].pc = "verify" /\ MuFree /\ ~Consumable(conn[c])
    /\ UNCHANGED vars
VerifyRejects(c) ==
    LET i == conn[c].invite IN
    /\ conn[c].pc = "verify" /\ MuFree /\ ~Consumable(conn[c])
    /\ byInviteID' = IF i \in byInviteID /\ ~UsedUp(inv[i]) /\ PastExpiry(inv[i])
                     THEN byInviteID \ {i} ELSE byInviteID
    /\ Abandon(c)
    /\ UNCHANGED <<inv, invites, trusted, remotes, backend, call, edit, historyVars, storeVars>>

(* mu is taken again to record who used the link; only then, and only for  *)
(* a pairing link, the peer is trusted.                                    *)
AfterRecord_Always(c) == "load"
AfterRecord(c) == IF conn[c].mode = "pairing" THEN "load" ELSE "issue"
RecordUse(c) ==
    /\ conn[c].pc = "record" /\ MuFree
    /\ inv' = [inv EXCEPT ![conn[c].invite].UsedByID = conn[c].who.NodeID]
    /\ Goto(c, AfterRecord(c))
    /\ UNCHANGED <<invites, byInviteID, trusted, remotes, backend, call, edit,
                   historyVars, storeVars>>

(* AddTrustedPeer, unlocked: the scan, and the append or merge after it. *)
LoadTrusted(c) ==
    /\ conn[c].pc = "load"
    /\ conn' = [conn EXCEPT ![c] = [@ EXCEPT !.pc = "store", !.snap = trusted]]
    /\ UNCHANGED <<inviteVars, trusted, remotes, backend, call, edit, historyVars, storeVars>>

EntryOf(r) == [NodeID |-> r.who.NodeID, MachineID |-> r.who.MachineID,
               TPMRootThumbprint |-> r.who.TPMRootThumbprint, TargetPort |-> r.port]
FoundAt(c) == trustedIndex(conn[c].snap, EntryOf(conn[c]))
StoreTrusted(c) ==
    /\ conn[c].pc = "store"
    /\ \E list \in Seen(conn[c].snap) :
         FoundAt(c) <= Len(list) /\ trusted' = AddAt(list, FoundAt(c), EntryOf(conn[c]))
    /\ conn' = [conn EXCEPT ![c] = [@ EXCEPT !.pc = "issue", !.snap = <<>>]]
    /\ UNCHANGED <<inviteVars, remotes, backend, call, edit, historyVars, storeVars>>

(* The entry to merge with is out of range by now; the handler recovers. *)
StorePanics(c) ==
    /\ conn[c].pc = "store" /\ FoundAt(c) > Len(trusted)
    /\ Abandon(c)
    /\ UNCHANGED <<inviteVars, trusted, remotes, backend, call, edit, historyVars, storeVars>>

GrantedPort_Configured(r) == ConfiguredPort
GrantedPort(r) == r.port
IssueToken(c, t) ==
    /\ conn[c].pc = "issue" /\ MuFree
    /\ Issue(t, conn[c].who.NodeID, GrantedPort(conn[c]))
    /\ conn' = [conn EXCEPT ![c] = [@ EXCEPT !.pc = "respond", !.token = t]]
    /\ UNCHANGED <<inviteVars, trusted, remotes, backend, call, edit, historyVars>>

IssueFails(c) ==
    /\ conn[c].pc = "issue" /\ MuFree
    /\ Abandon(c)
    /\ UNCHANGED <<inviteVars, trusted, remotes, backend, call, edit, historyVars, storeVars>>

(* The response, delivered, refused by localProof or lost: the deferred    *)
(* Close runs in every case and nothing of the above is undone.            *)
Respond(c) ==
    /\ conn[c].pc = "respond"
    /\ Goto(c, "closed")
    /\ UNCHANGED <<inviteVars, trusted, remotes, backend, call, edit, historyVars, storeVars>>

-----------------------------------------------------------------------------

Init == /\ inv = [i \in {} |-> {}] /\ invites = {} /\ byInviteID = {}
        /\ trusted = <<>> /\ remotes = InitialRemotes /\ backend \in Backend
        /\ conn = [c \in Conn |-> NewConn]
        /\ call = [g \in Call |-> NoCall]
        /\ edit = [e \in {"revoke", "delete"} |-> NoEdit]
        /\ accepts = [i \in {} |-> 0] /\ paired = {} /\ revoked = {}
        /\ StoreInit

Receive(c) ==
    \/ \E id \in Identity, m \in {"onetime", "pairing"}, i \in InviteID,
          w \in 0..TimeWindow(MaxTime), k \in BOOLEAN : ReceiveInviteRequest(c, id, m, i, w, k)
    \/ \E id \in Identity, q \in RequestedPort \cup {0} : ReceiveTrustedRequest(c, id, q)

(* What a handler does by itself once its read returned or timed out. *)
Handle(c) ==
    \/ RequestRejected(c)
    \/ TrustedAccepted(c) \/ TrustedRejected(c)
    \/ VerifyAccepts(c) \/ VerifyRejects(c)
    \/ RecordUse(c) \/ LoadTrusted(c) \/ StoreTrusted(c) \/ StorePanics(c)
    \/ \E t \in Token : IssueToken(c, t)
    \/ IssueFails(c)
    \/ Respond(c)

Generate(g) ==
    \/ \E q \in RequestedPort : GenerateOneTime(g, q) \/ GeneratePairing(g, q)
    \/ GenerateDeletesStale(g) \/ GenerateFinds(g) \/ GenerateFails(g)
    \/ \E i \in InviteID : GenerateInserts(g, i)

Change(g) == (\E b \in Backend : ChangeBackend(g, b)) \/ ChangeCleansUp(g) \/ ChangeFails(g)

Time == Tick /\ UNCHANGED <<inviteVars, trusted, remotes, backend, conn, call, edit, historyVars>>

Next == \/ \E c \in Conn : Receive(c) \/ Handle(c)
        \/ \E g \in Call : Generate(g) \/ Change(g)
        \/ \E i \in InviteID : RevokeInvite(i)
        \/ RevokeFinishes \/ RevokePanics
        \/ \E n \in Nodes : DeleteAllowed(n)
        \/ DeleteFinishes
        \/ Sweep
        \/ Time

Spec == Init /\ [][Next]_vars

(* Goroutines that can run do run: a read ends by its deadline, mu is      *)
(* handed over, and no handler waits for anything else.  Clients, the UI   *)
(* and the clock owe nothing.                                              *)
FairSpec == /\ Spec
            /\ \A c \in Conn : WF_vars(Handle(c))
            /\ WF_vars(RevokeFinishes \/ RevokePanics) /\ WF_vars(DeleteFinishes)

-----------------------------------------------------------------------------

Invite == [Mode : {"onetime", "pairing"}, TargetPort : 0..MaxPort, Backend : Backend,
           CreatedAt : Nat, ExpiresAt : Nat, Used : BOOLEAN, UsedByID : Nodes \cup {NoID}]

(* Every variable has its shape, and the indexes name created links only.  *)
TypeOK ==
    /\ DOMAIN inv \subseteq InviteID /\ \A i \in DOMAIN inv : inv[i] \in Invite
    /\ invites \subseteq DOMAIN inv /\ byInviteID \subseteq DOMAIN inv
    /\ DOMAIN accepts = DOMAIN inv /\ \A i \in DOMAIN inv : accepts[i] \in Nat
    /\ paired \subseteq Nodes \X InviteID /\ revoked \subseteq DOMAIN inv
    /\ \A i \in DOMAIN trusted : trusted[i].NodeID \in Nodes /\ trusted[i].TargetPort \in Port
    /\ backend \in Backend
    /\ \A c \in Conn : conn[c].pc \in {"reading", "lookup", "verify", "record", "load",
                                       "store", "issue", "respond", "closed"}
    /\ \A g \in Call : call[g].pc \in {"idle", "delete", "find", "insert", "cleanup"}
    /\ StoreTypeOK

(* A one-time link lets one request through, however many handlers hold a  *)
(* copy of a valid proof for it at the same time.                          *)
OneTimeUse == \A i \in DOMAIN inv : inv[i].Mode = "onetime" => accepts[i] <= 1

(* A link that verifyAndConsume would still find is one the UI lists, so   *)
(* that RevokeInvite can reach it: no code path drops a link from invites  *)
(* and leaves it in byInviteID.                                            *)
UsableIsListed == byInviteID \subseteq invites

(* A link the UI lists as active can be used: sweepLoop, the clean-up of   *)
(* other backends' links and verifyAndConsume's own deletion never take    *)
(* an active link out of byInviteID and leave it listed.                   *)
ListedWorks == \A i \in invites : active(inv[i]) => i \in byInviteID

(* Between any two steps of the program its two indexes of the links agree *)
(* on what can be used.                                                    *)
IndexesAgree == UsableIsListed /\ ListedWorks

(* verifyAndConsume accepts only links that are listed, not revoked and,   *)
(* if one-time, not past their expiry, whenever the request was received.  *)
AcceptsOnlyLive ==
    [][\A i \in DOMAIN accepts : accepts'[i] # accepts[i] =>
         /\ i \in invites /\ i \notin revoked
         /\ inv[i].Mode = "onetime" => now <= inv[i].ExpiresAt]_vars

(* "targetPort binds the token to the selected app port from the invite":  *)
(* every token was issued by a handler that authenticated the peer it is   *)
(* for, to the port of the link consumed, and no two handlers share one.   *)
TokensAreEarned ==
    \A t \in DOMAIN issued : \E c \in Conn :
        /\ conn[c].token = t
        /\ \A d \in Conn \ {c} : conn[d].token # t
        /\ issued[t].grant.PeerID = conn[c].who.NodeID
        /\ conn[c].mode # "trusted" =>
             /\ accepts[conn[c].invite] >= 1
             /\ conn[c].mode = inv[conn[c].invite].Mode
             /\ issued[t].grant.TargetPort = effectiveTargetPort(inv[conn[c].invite])

(* The trusted list holds only nodes that once consumed a pairing link:    *)
(* neither one-time links nor reauthentication nor the races between the   *)
(* unlocked readers and writers of the list let another node in.           *)
TrustIsEarned ==
    \A k \in DOMAIN trusted : \E i \in InviteID : <<trusted[k].NodeID, i>> \in paired

(* What pairing hands out goes back to a handler that authenticated the    *)
(* peer and to a link the peer consumed: session tokens and lasting trust. *)
AccessIsEarned == TokensAreEarned /\ TrustIsEarned

(* Every handler that received a request ends by closing its stream. *)
HandlersFinish ==
    \A c \in Conn : conn[c].pc \notin {"reading", "closed"} ~> conn[c].pc = "closed"

-----------------------------------------------------------------------------
(* What a comment of pairing.go says and the code does not do.             *)

(* "RevokeInvite [...] removes any peer trust metadata that was created by *)
(* a used pairing invite": when it is done, a node that paired with this   *)
(* link and with no other is not trusted; said for the simplest case, with *)
(* no handler or other call under way and one list entry per machine.      *)
RevokeRemovesTrust ==
    [][\A n \in Nodes :
         (/\ RevokeFinishes /\ edit["delete"] = NoEdit /\ Distinct(trusted)
          /\ \A c \in Conn : conn[c].pc \in {"reading", "closed"}
          /\ \A i \in InviteID : <<n, i>> \in paired <=> i = edit["revoke"].invite)
         => ~IsTrusted(trusted', n)]_vars
=============================================================================
