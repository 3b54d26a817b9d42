---------------------------- MODULE MCConfigStore ----------------------------
(* Installations: b is a reinstalled on the same machine (same machine      *)
(* certificate, new node key), a moves to a TPM, d shares a certificate or  *)
(* a TPM root with that later a, and c is on its own.                       *)
EXTENDS ConfigStore, TLC

Peer(n, m, r, q) == [NodeID |-> n, MachineID |-> m, TPMRootThumbprint |-> r,
                     TargetPort |-> q]
MCCandidate == {Peer("a", "ma", NoID, 3389), Peer("b", "ma", NoID, 22),
                Peer("a", "mt", "root1", 3389), Peer("d", "mt", NoID, 3389),
                Peer("d", "md", "root1", 22), Peer("c", "mc", NoID, 5900)}

Svc(n, p, q, a) == [NodeID |-> n, Protocol |-> p, TargetPort |-> q, RelayAddrs |-> a]
MCRemote == {Svc("a", "", 0, {}), Svc("a", "RDP", 3389, {"r0"}), Svc("a", "ssh", 0, {})}

Net(b, i, d) == [ShareBackend |-> b, mode |-> [c \in {"iroh", "libp2p_dht"} |->
                                                 IF c = "iroh" THEN i ELSE d]]
MCSetting == {Net("iroh", "disabled", "disabled"), Net("libp2p_dht", "public", "disabled")}

Symmetry == Permutations(Saver)
=============================================================================
