-------------------------------- MODULE Host --------------------------------
(***************************************************************************)
(* The pairing handlers and the tunnel handlers of one host, which share   *)
(* the session token table and nothing else: service.go and main.go create *)
(* the tunnel manager with the SessionStore of the pairing manager.  A     *)
(* hello can name any token, whether the pairing side has issued it or not.*)
(***************************************************************************)
EXTENDS Pairing, TunnelHost

ASSUME HostAssumption == TargetPort = ConfiguredPort   \* both read RDP.TargetAddr

pairingOwn == <<inviteVars, trusted, remotes, backend, conn, call, edit, historyVars>>
hostVars == <<vars, stream>>

HostInit == Init /\ TunnelInit
HostNext == \/ Next /\ UNCHANGED stream
            \/ (\E s \in Stream : TunnelStep(s)) /\ UNCHANGED pairingOwn

HostSpec == HostInit /\ [][HostNext]_hostVars

-----------------------------------------------------------------------------

(* "Only the selected service is available through the invite": a stream   *)
(* that reaches a local service belongs to a peer that a pairing handler   *)
(* authenticated, and goes to the port of the link that handler consumed;  *)
(* without a link, the peer was trusted, hence had consumed a pairing link.*)
ChannelsAreAuthorised ==
    \A s \in Stream : stream[s].pc \in {"dial", "bridged"} =>
        \E c \in Conn :
            /\ conn[c].token = stream[s].hello.token
            /\ conn[c].who.NodeID = stream[s].hello.peer
            /\ conn[c].mode = "trusted" =>
                 \E i \in InviteID : <<stream[s].hello.peer, i>> \in paired
            /\ conn[c].mode # "trusted" =>
                 /\ accepts[conn[c].invite] >= 1
                 /\ stream[s].target = effectiveTargetPort(inv[conn[c].invite])
=============================================================================
