----------------------------- MODULE ConfigStore -----------------------------
(***************************************************************************)
(* The configuration in memory and on disk (internal/config), with the     *)
(* handlers that change it and save it: pairing, reauthentication and      *)
(* revocation, the web UI's edits, and the presence manager, which saves   *)
(* in a goroutine of its own.  Save marshals the configuration and then    *)
(* truncates and writes the file; nothing keeps two Saves apart, and the   *)
(* process may end between the two.  A handler's edit and the marshalling  *)
(* of its Save are one step here.  Labels are left out.                    *)
(***************************************************************************)
EXTENDS TrustedPeers, Integers

CONSTANTS Candidate,     \* the entries pairing may add to Config.Trusted
          Saver,         \* goroutines that may be saving at a time
          Remote,        \* what AddRemote may be given
          Addr,          \* relay addresses a machine may announce
          Setting,       \* network settings handleConfig may be given
          MaxEdits       \* edits in one run of TLC

VARIABLES list,          \* Config.Trusted
          remotes,       \* Config.Remotes
          net,           \* Config.Network and the backends' modes
          key,           \* Config.Node.PrivateKey; 0 is the empty string
          running,       \* the process is up
          saver,         \* goroutine -> what it is about to write
          disk,          \* the file
          clean,         \* history: every Save completed, none overlapped
          edits          \* edits so far

Nodes == {p.NodeID : p \in Candidate} \cup {r.NodeID : r \in Remote}

(* TrustedPeer, RemoteConfig and NetworkConfig as records.  Pairing adds    *)
(* only entries with a node key; handleAddRemote takes what it is sent.    *)
Entry == [NodeID            : {p.NodeID : p \in Candidate},
          MachineID         : {p.MachineID : p \in Candidate},
          TPMRootThumbprint : {p.TPMRootThumbprint : p \in Candidate},
          TargetPort        : Int]
RemoteConfig == [NodeID     : {r.NodeID : r \in Remote},
                 Protocol   : {r.Protocol : r \in Remote},
                 TargetPort : Int,
                 RelayAddrs : SUBSET (Addr \cup UNION {r.RelayAddrs : r \in Remote})]
Backends == {"iroh", "libp2p_dht"}
Modes == {"", "public", "disabled"} \cup {n.mode[c] : n \in Setting, c \in Backends}
NetworkConfig == [ShareBackend : {""} \cup Backends \cup {n.ShareBackend : n \in Setting},
                  mode : [Backends -> Modes]]
ASSUME ConfigAssumption ==
    /\ Candidate \subseteq Entry /\ Remote \subseteq RemoteConfig
    /\ Setting \subseteq NetworkConfig
    /\ \A p \in Candidate : p.NodeID # NoID

configVars == <<list, remotes, net, key, running, saver, disk, clean, edits>>

-----------------------------------------------------------------------------
(* Remotes *)

protocolDefaultPort(p) == CASE p = "ssh" -> 22 [] p = "vnc" -> 5900 [] OTHER -> 3389
lowered(p) == IF p = "RDP" THEN "rdp" ELSE p
RemoteServiceKey(r) ==
    LET p == IF r.Protocol = "" THEN "rdp" ELSE lowered(r.Protocol)
    IN  <<r.NodeID, p, IF r.TargetPort <= 0 THEN protocolDefaultPort(p) ELSE r.TargetPort>>
SameRemoteService(a, b) ==
    a.NodeID # "" /\ b.NodeID # "" /\ RemoteServiceKey(a) = RemoteServiceKey(b)

mergeRemote(old, new) ==
    [NodeID     |-> old.NodeID,
     Protocol   |-> IF new.Protocol # "" THEN new.Protocol ELSE old.Protocol,
     TargetPort |-> IF new.TargetPort > 0 THEN new.TargetPort ELSE old.TargetPort,
     RelayAddrs |-> IF new.RelayAddrs # {} THEN new.RelayAddrs ELSE old.RelayAddrs]
AddRemote_ByField(rs, r) ==
    LET k == First({i \in DOMAIN rs : rs[i].NodeID = r.NodeID /\ rs[i].Protocol = r.Protocol
                                      /\ rs[i].TargetPort = r.TargetPort})
    IN  IF k = 0 THEN Append(rs, r) ELSE [rs EXCEPT ![k] = mergeRemote(@, r)]
AddRemote(rs, r) ==
    LET k == First({i \in DOMAIN rs : SameRemoteService(rs[i], r)})
    IN  IF k = 0 THEN Append(rs, r) ELSE [rs EXCEPT ![k] = mergeRemote(@, r)]

RemoveRemote(rs, node) == Without(rs, First({i \in DOMAIN rs : rs[i].NodeID = node}))
RemoveRemoteService(rs, k) ==
    Without(rs, First({i \in DOMAIN rs : RemoteServiceKey(rs[i]) = k}))

-----------------------------------------------------------------------------
(* Network settings: the backend for new links and each backend's mode.    *)

NormalizeNetworkBackend_Keeps(n) ==
    LET b == IF n.ShareBackend \in DOMAIN n.mode THEN n.ShareBackend ELSE "iroh"
    IN  [n EXCEPT !.ShareBackend = b]
NormalizeNetworkBackend(n) ==
    LET b == IF n.ShareBackend \in DOMAIN n.mode THEN n.ShareBackend ELSE "iroh"
        set == [c \in DOMAIN n.mode |->
                  IF n.mode[c] # "" THEN n.mode[c]
                  ELSE IF c = "iroh" THEN "public" ELSE "disabled"]
    IN  [ShareBackend |-> b,
         mode |-> [set EXCEPT ![b] = IF @ = "disabled" THEN "public" ELSE @]]

defaultConfig == [ShareBackend |-> "",
                  mode |-> [c \in Backends |->
                              IF c = "iroh" THEN "public" ELSE "disabled"]]

-----------------------------------------------------------------------------
(* The file *)

Missing == [kind |-> "missing"]
Empty == [kind |-> "empty"]
Mixed == [kind |-> "mixed"]
File(t, r, n, k) == [kind |-> "file", list |-> t, remotes |-> r, net |-> n, key |-> k]
Torn(f) == [f EXCEPT !.kind = "torn"]
Size(f) == IF f.kind \in {"file", "torn"} THEN Len(f.list) + Len(f.remotes) ELSE 0

InFlight == {s \in Saver : saver[s].pc # "idle"}
NoSave == [pc |-> "idle", file |-> Missing]

ConfigInit ==
    /\ list = <<>> /\ remotes = <<>> /\ net = defaultConfig /\ key = 0
    /\ running = FALSE /\ saver = [s \in Saver |-> NoSave]
    /\ disk = Missing /\ clean = TRUE /\ edits = 0

(* An edit, then Save up to the marshalled bytes. *)
EditAndSave(t, r, n) ==
    /\ running /\ edits < MaxEdits
    /\ list' = t /\ remotes' = r /\ net' = NormalizeNetworkBackend(n)
    /\ \E s \in Saver \ InFlight :
         saver' = [saver EXCEPT ![s] = [pc |-> "open", file |-> File(t, r, net', key)]]
    /\ clean' = (clean /\ InFlight = {})
    /\ edits' = edits + 1
    /\ UNCHANGED <<key, running, disk>>

PairingAdds(p) == EditAndSave(AddTrustedPeer(list, p), remotes, net)
RevokeCleansUp(n) == EditAndSave(RemoveTrustedPeer(list, n), RemoveRemote(remotes, n), net)
handleDeleteAllowed(n) == IsTrusted(list, n) /\ EditAndSave(WithoutNode(list, n), remotes, net)
handleAddRemote(r) == EditAndSave(list, AddRemote(remotes, r), net)
handleDeleteRemote(k) ==
    /\ \E i \in DOMAIN remotes : RemoteServiceKey(remotes[i]) = k
    /\ EditAndSave(list, RemoveRemoteService(remotes, k), net)
updateRemoteAddrs(n, a) ==
    LET k == First({i \in DOMAIN remotes : remotes[i].NodeID = n})
    IN  k # 0 /\ EditAndSave(list, [remotes EXCEPT ![k].RelayAddrs = {a}], net)
handleConfig(n) == EditAndSave(list, remotes, n)
Rename == EditAndSave(list, remotes, net)

(* os.WriteFile truncates, then writes from the start of the file: what a  *)
(* longer file of another Save left behind stays behind.                   *)
SaveTruncates(s) ==
    /\ saver[s].pc = "open"
    /\ saver' = [saver EXCEPT ![s] = [pc |-> "write", file |-> saver[s].file]]
    /\ disk' = Empty
    /\ UNCHANGED <<list, remotes, net, key, running, clean, edits>>
SaveWrites_Short(s) ==
    /\ saver[s].pc = "write" /\ saver' = [saver EXCEPT ![s] = NoSave]
    /\ disk' = Torn(saver[s].file)
    /\ UNCHANGED <<list, remotes, net, key, running, clean, edits>>
SaveWrites(s) ==
    /\ saver[s].pc = "write" /\ saver' = [saver EXCEPT ![s] = NoSave]
    /\ disk' = IF Size(saver[s].file) < Size(disk) THEN Mixed ELSE saver[s].file
    /\ UNCHANGED <<list, remotes, net, key, running, clean, edits>>
SaveFails(s) ==
    /\ saver[s].pc # "idle" /\ saver' = [saver EXCEPT ![s] = NoSave]
    /\ disk' = IF saver[s].pc = "write" THEN Torn(saver[s].file) ELSE disk
    /\ clean' = FALSE
    /\ UNCHANGED <<list, remotes, net, key, running, edits>>

(* The process ends; a Save in flight ends with it. *)
Crash ==
    /\ running /\ running' = FALSE
    /\ saver' = [s \in Saver |-> NoSave]
    /\ list' = <<>> /\ remotes' = <<>> /\ net' = defaultConfig /\ key' = 0
    /\ clean' = (clean /\ InFlight = {})
    /\ UNCHANGED <<disk, edits>>

(* Load, initNew and the start of the node, which needs the key. *)
initNew ==
    /\ ~running /\ disk = Missing /\ running' = TRUE
    /\ key' = 1 /\ disk' = File(<<>>, <<>>, defaultConfig, 1)
    /\ UNCHANGED <<list, remotes, net, saver, clean, edits>>
initNewFails ==
    /\ ~running /\ disk = Missing /\ disk' = Empty /\ clean' = FALSE
    /\ UNCHANGED <<list, remotes, net, key, running, saver, edits>>

Load_NewKey ==
    /\ ~running /\ disk # Missing
    /\ IF disk = Empty
       THEN list' = <<>> /\ remotes' = <<>> /\ key' = 2 /\ net' = defaultConfig
       ELSE /\ disk.kind \in {"file", "torn"} /\ key' = disk.key
            /\ net' = NormalizeNetworkBackend(disk.net)
            /\ list' = disk.list /\ remotes' = disk.remotes
    /\ running' = TRUE
    /\ UNCHANGED <<saver, disk, clean, edits>>
Load ==
    /\ ~running /\ disk.kind \in {"file", "torn"}
    /\ running' = TRUE /\ key' = disk.key
    /\ net' = NormalizeNetworkBackend(disk.net)
    /\ \E i \in 0..Len(disk.list), j \in 0..Len(disk.remotes) :
         /\ disk.kind = "file" => i = Len(disk.list) /\ j = Len(disk.remotes)
         /\ j < Len(disk.remotes) => i = 0             \* remotes come first
         /\ list' = SubSeq(disk.list, 1, i) /\ remotes' = SubSeq(disk.remotes, 1, j)
    /\ UNCHANGED <<saver, disk, clean, edits>>

Start == initNew \/ initNewFails \/ Load
Keys == {RemoteServiceKey(r) : r \in Remote}

ConfigNext ==
    \/ \E p \in Candidate : PairingAdds(p)
    \/ \E n \in Nodes : RevokeCleansUp(n) \/ handleDeleteAllowed(n)
    \/ \E r \in Remote : handleAddRemote(r)
    \/ \E k \in Keys : handleDeleteRemote(k)
    \/ \E n \in Nodes, a \in Addr : updateRemoteAddrs(n, a)
    \/ \E n \in Setting : handleConfig(n)
    \/ Rename
    \/ \E s \in Saver : SaveTruncates(s) \/ SaveWrites(s) \/ SaveFails(s)
    \/ Crash \/ Start

ConfigSpec == ConfigInit /\ [][ConfigNext]_configVars

-----------------------------------------------------------------------------

(* What Load returns and the edits keep is a configuration: the entries of *)
(* the two lists name machines that were added, AddTrustedPeer lists no    *)
(* machine twice, even when a newcomer matches one entry by its node key   *)
(* and another by its machine certificate, AddRemote lists no service      *)
(* twice, however its protocol and port were written, and the backend for  *)
(* new links is enabled ("NormalizeNetworkBackend keeps mode defaults      *)
(* valid").  Restarts from a torn file keep all of it.                     *)
ConfigIsSound ==
    /\ running \in BOOLEAN /\ key \in 0..2
    /\ \A i \in DOMAIN list :
         \E p \in Candidate : list[i].MachineID = p.MachineID /\ list[i].NodeID \in Nodes
    /\ \A i \in DOMAIN remotes : remotes[i].NodeID \in {r.NodeID : r \in Remote}
    /\ Distinct(list)
    /\ \A i, j \in DOMAIN remotes : i # j => ~SameRemoteService(remotes[i], remotes[j])
    /\ net.ShareBackend = "" \/ net.mode[net.ShareBackend] # "disabled"

TrustedNow == {n \in Nodes : IsTrusted(list, n)}

(* AddTrustedPeer trusts the newcomer, and the only nodes that lose their  *)
(* trust are those sameTrustedMachine takes for the newcomer.              *)
ReplacesOnlyItself(p) ==
    /\ p.NodeID \in TrustedNow'
    /\ \A i \in DOMAIN list : ~sameTrustedMachine(list[i], p) => list[i].NodeID \in TrustedNow'

(* Pairing trusts the newcomer and replaces only its own machine, and      *)
(* revoking or deleting untrusts one node and leaves every other as it     *)
(* was, although RemoveTrustedPeer stops at its first match.               *)
EditsAreExact ==
    [][/\ \A p \in Candidate : PairingAdds(p) => ReplacesOnlyItself(p)
       /\ \A n \in Nodes : RevokeCleansUp(n) \/ handleDeleteAllowed(n) =>
                           TrustedNow' = TrustedNow \ {n}]_configVars

(* When Saves have neither failed nor overlapped, and the process never    *)
(* ended during one, the file holds the configuration in memory: a         *)
(* restart neither loses an edit nor brings a removed machine back.        *)
SavesLand ==
    (clean /\ running /\ InFlight = {}) =>
        /\ disk.kind = "file" /\ disk.list = list /\ disk.remotes = remotes
        /\ NormalizeNetworkBackend(disk.net) = NormalizeNetworkBackend(net)

(* The node's key is its identity to every paired machine.  Load makes a   *)
(* new one only for a missing file, so that whatever Saves and crashes     *)
(* leave in the file, a machine starts with its key or not at all.         *)
KeyNeverChanges == running => key = 1
=============================================================================
