---------------------------- MODULE TrustedPeers ----------------------------
(***************************************************************************)
(* The list of machines a host trusts (internal/config, Config.Trusted).   *)
(* An entry is identified three ways: by the node key, by the machine      *)
(* certificate and by the thumbprint of the TPM root.  The operators are   *)
(* functions from the list the code reads to the list it writes.  Labels,  *)
(* vendor strings and time stamps are left out.                            *)
(***************************************************************************)
EXTENDS Lists

CONSTANT NoID   \* the empty string

IdentityFields == {"NodeID", "MachineID", "TPMRootThumbprint"}

(* sameTrustedMachine: some identifier is present in both and equal. *)
sameTrustedMachine(a, b) ==
    \E f \in IdentityFields : a[f] # NoID /\ b[f] # NoID /\ a[f] = b[f]

(* mergeTrustedPeer: what the newcomer states replaces what is stored. *)
Stated_Stored(new, old) == IF old # NoID THEN old ELSE new
Stated(new, old) == IF new # NoID THEN new ELSE old
mergeTrustedPeer(dst, src) ==
    [NodeID            |-> Stated(src.NodeID, dst.NodeID),
     MachineID         |-> Stated(src.MachineID, dst.MachineID),
     TPMRootThumbprint |-> Stated(src.TPMRootThumbprint, dst.TPMRootThumbprint),
     TargetPort        |-> IF src.TargetPort > 0 THEN src.TargetPort
                                                 ELSE dst.TargetPort]

(* removeDuplicateTrustedPeers: every other entry of the kept machine goes,*)
(* whether it stands before or after the kept one.                         *)
removeDuplicateTrustedPeers_NotLast(list, keep) ==
    Kept(list, {i \in DOMAIN list : \/ i \in {keep, Len(list)}
                                    \/ ~sameTrustedMachine(list[keep], list[i])})
removeDuplicateTrustedPeers(list, keep) ==
    Kept(list, {i \in DOMAIN list : \/ i = keep
                                    \/ ~sameTrustedMachine(list[keep], list[i])})

(* AddTrustedPeer: the scan for an entry of the machine, and what is done  *)
(* with the position it found, 0 for none.                                 *)
trustedIndex(list, p) == First({i \in DOMAIN list : sameTrustedMachine(list[i], p)})
AddAt(list, k, p) ==
    IF k = 0 THEN Append(list, p)
    ELSE removeDuplicateTrustedPeers([list EXCEPT ![k] = mergeTrustedPeer(@, p)], k)
AddTrustedPeer(list, p) == AddAt(list, trustedIndex(list, p), p)

(* TrustedPeer: the position of the first entry of a node, 0 for none. *)
TrustedPeer(list, node) == First({i \in DOMAIN list : list[i].NodeID = node})
IsTrusted(list, node) == \E i \in DOMAIN list : list[i].NodeID = node

RemoveTrustedPeer_Next(list, node) ==
    LET k == TrustedPeer(list, node) IN IF k = 0 THEN list ELSE Without(list, k + 1)
RemoveTrustedPeer(list, node) ==
    LET k == TrustedPeer(list, node) IN IF k = 0 THEN list ELSE Without(list, k)

(* The filter loop of handleDeleteAllowed: all entries of the node go. *)
WithoutNode(list, node) == Kept(list, {i \in DOMAIN list : list[i].NodeID # node})

-----------------------------------------------------------------------------

(* No machine is listed twice under any of its three identifiers. *)
Distinct(list) ==
    \A i, j \in DOMAIN list : i # j => ~sameTrustedMachine(list[i], list[j])
=============================================================================
