----------------------------- MODULE LocalProxy -----------------------------
(***************************************************************************)
(* The client's local proxy (internal/tunnel): its listener, the goroutine *)
(* of one accepted connection with the stream it opens, and the calls that *)
(* run beside them, SetOnClose and Close.  LocalProxy.mu guards closed,    *)
(* conns, streams and onClose; a step is one critical section or one call  *)
(* outside it.  The bridge of the connection is module Bridge.             *)
(***************************************************************************)
EXTENDS Bridge

VARIABLES pc,            \* goroutine of the connection
          host,          \* the host's handler of its stream
          conns,         \* the connection is in conns
          streams,       \* its stream is in streams
          closed,        \* LocalProxy.closed
          listener,      \* "open", "closed", or "broken"
          closer,        \* the goroutine in LocalProxy.Close
          snapshot,      \* what it took out of the maps
          once,          \* closeOnce has run
          hooked,        \* the session's callback is part of onClose
          ran            \* history: that callback was called

proxyOnly == <<conns, streams, closed, listener, closer, snapshot,
               once, hooked, ran>>
proxyVars == <<pc, host, proxyOnly, bridgeVars>>

Init == /\ BridgeInit
        /\ pc = "idle" /\ host = "off"
        /\ conns = FALSE /\ streams = FALSE /\ closed = FALSE
        /\ listener = "open"
        /\ closer = "idle" /\ snapshot = {} /\ once = FALSE
        /\ hooked = FALSE /\ ran = FALSE

(* Close on the ends S, outside a bridge. *)
Closes(S) == /\ end' = CloseAll(end, S) /\ calm' = (calm /\ end' = end)
             /\ UNCHANGED <<kind, copier, torn>>

-----------------------------------------------------------------------------
(* connectStream: the accept loop and the goroutine of a connection. *)

Accept ==
    /\ listener = "open" /\ pc = "idle"
    /\ pc' = "accepted"
    /\ end' = [end EXCEPT !["app"] = NewEnd]
    /\ UNCHANGED <<kind, copier, torn, calm, host, proxyOnly>>

track_Unchecked ==
    /\ pc = "accepted" /\ pc' = "opening" /\ conns' = TRUE
    /\ UNCHANGED <<bridgeVars, host, streams, closed, listener, closer,
                   snapshot, once, hooked, ran>>
track ==
    /\ pc = "accepted" /\ pc' = "opening"
    /\ IF closed THEN Closes({"app"}) /\ UNCHANGED conns
       ELSE conns' = TRUE /\ UNCHANGED bridgeVars
    /\ UNCHANGED <<host, streams, closed, listener, closer, snapshot,
                   once, hooked, ran>>

(* openDataStream: a stream, then the hello and the host's answer. *)
OpenStream ==
    /\ pc = "opening" /\ pc' = "hello"
    /\ end' = [end EXCEPT !["sc"] = NewEnd, !["sh"] = NewEnd]
    /\ UNCHANGED <<kind, copier, torn, calm, host, proxyOnly>>

OpenFails ==
    /\ pc = "opening" /\ pc' = "untrack" /\ Closes({"app"})
    /\ UNCHANGED <<host, proxyOnly>>

HelloReady ==
    /\ pc = "hello" /\ host = "ready" /\ pc' = "opened"
    /\ UNCHANGED <<bridgeVars, host, proxyOnly>>

(* The hello cannot be sent, the host refuses it, or its answer is late:   *)
(* the host may be on its way to the service.                              *)
HelloFails ==
    /\ pc = "hello" /\ pc' = "untrack" /\ Closes({"sc", "app"})
    /\ UNCHANGED <<host, proxyOnly>>

trackStream ==
    /\ pc = "opened"
    /\ IF closed
       THEN pc' = "untrack" /\ Closes({"app", "sc"}) /\ UNCHANGED <<conns, streams>>
       ELSE /\ pc' = "bridge" /\ conns' = TRUE /\ streams' = TRUE
            /\ copier' = [d \in Copier |-> IF d \in Client THEN "run" ELSE copier[d]]
            /\ UNCHANGED <<kind, end, torn, calm>>
    /\ UNCHANGED <<host, closed, listener, closer, snapshot, once,
                   hooked, ran>>

BridgeReturns ==
    /\ pc = "bridge" /\ Teardown(Client)
    /\ pc' = IF Failed(Client) THEN "closeStream" ELSE "untrackStream"
    /\ UNCHANGED <<host, proxyOnly>>

(* The lock is given up before the sockets are closed; the bridge that     *)
(* failed has closed both by then.                                         *)
CloseStream ==
    /\ pc = "closeStream" /\ pc' = "untrackStream"
    /\ IF streams THEN conns' = FALSE /\ streams' = FALSE /\ Closes({"app", "sc"})
       ELSE UNCHANGED <<conns, streams, bridgeVars>>
    /\ UNCHANGED <<host, closed, listener, closer, snapshot, once,
                   hooked, ran>>

untrackStream_Skipped ==
    /\ pc = "untrackStream" /\ pc' = "untrack"
    /\ UNCHANGED <<bridgeVars, host, proxyOnly>>
untrackStream ==
    /\ pc = "untrackStream" /\ pc' = "untrack"
    /\ streams' = FALSE /\ conns' = FALSE
    /\ UNCHANGED <<bridgeVars, host, closed, listener, closer, snapshot,
                   once, hooked, ran>>

untrack ==
    /\ pc = "untrack" /\ pc' = "done" /\ conns' = FALSE
    /\ UNCHANGED <<bridgeVars, host, streams, closed, listener, closer,
                   snapshot, once, hooked, ran>>

Connection == \/ track \/ OpenStream \/ OpenFails \/ HelloReady \/ HelloFails
              \/ trackStream \/ BridgeReturns \/ CloseStream
              \/ untrackStream \/ untrack

-----------------------------------------------------------------------------
(* The host's handler: it answers Ready, then proxyToService dials.        *)

HostAnswers ==
    /\ host = "off" /\ end["sh"].open /\ pc = "hello" /\ host' = "ready"
    /\ UNCHANGED <<bridgeVars, pc, proxyOnly>>

HostDials ==
    /\ host = "ready" /\ host' = "bridge"
    /\ end' = [end EXCEPT !["svc"] = NewEnd]
    /\ copier' = [d \in Copier |-> IF d \in HostSide THEN "run" ELSE copier[d]]
    /\ UNCHANGED <<kind, torn, calm, pc, proxyOnly>>

HostDialFails ==
    /\ host = "ready" /\ host' = "done" /\ Closes({"sh"})
    /\ UNCHANGED <<pc, proxyOnly>>

HostReturns ==
    /\ host = "bridge" /\ Teardown(HostSide) /\ host' = "done"
    /\ UNCHANGED <<pc, proxyOnly>>

HostHandler == HostDials \/ HostDialFails \/ HostReturns

-----------------------------------------------------------------------------
(* LocalProxy.Close, notifyClosed and SetOnClose *)

CloseMarks ==
    /\ closer = "idle" /\ closed' = TRUE /\ closer' = "close"
    /\ snapshot' = (IF conns THEN {"app"} ELSE {}) \cup (IF streams THEN {"sc"} ELSE {})
    /\ conns' = FALSE /\ streams' = FALSE
    /\ UNCHANGED <<bridgeVars, pc, host, listener, once, hooked, ran>>

(* closeOnce.Do: the backend's tunnels to the peer, then the session's     *)
(* callback.  Only iroh keeps tunnels to close.                            *)
closeBackendTunnel(es) ==
    IF kind # "iroh" THEN es
    ELSE [e \in End |-> IF e \in Application \/ ~es[e].open THEN es[e]
          ELSE [es[e] EXCEPT !.eof = TRUE, !.gone = TRUE, !.cut = TRUE]]

notifyClosed(es) ==
    /\ end' = IF once THEN es ELSE closeBackendTunnel(es)
    /\ once' = TRUE /\ ran' = (ran \/ (hooked /\ ~once))
    /\ calm' = (calm /\ end' = end)
    /\ UNCHANGED <<kind, copier, torn, hooked>>

CloseCloses ==
    /\ closer = "close" /\ closer' = "done"
    /\ listener' = IF listener = "broken" THEN "broken" ELSE "closed"
    /\ notifyClosed(CloseAll(end, snapshot)) /\ snapshot' = {}
    /\ UNCHANGED <<pc, host, conns, streams, closed>>

AcceptLoopEnds ==
    /\ listener # "open" /\ ~once /\ notifyClosed(end)
    /\ UNCHANGED <<pc, host, conns, streams, closed, listener, closer, snapshot>>

ListenerBreaks ==
    /\ listener = "open" /\ listener' = "broken"
    /\ UNCHANGED <<bridgeVars, pc, host, conns, streams, closed, closer,
                   snapshot, once, hooked, ran>>

SetOnClose_NoCall ==
    /\ ~hooked /\ hooked' = TRUE
    /\ UNCHANGED <<bridgeVars, pc, host, conns, streams, closed, listener,
                   closer, snapshot, once, ran>>
SetOnClose ==
    /\ ~hooked /\ hooked' = TRUE
    /\ ran' = (ran \/ closed)
    /\ UNCHANGED <<bridgeVars, pc, host, conns, streams, closed, listener,
                   closer, snapshot, once>>

Closing == CloseCloses \/ AcceptLoopEnds

Bridging == /\ (\E d \in Copier : CopyChunk(d) \/ CopyEnds(d) \/ CopyFails(d)) \/ Applications
            /\ UNCHANGED <<pc, host, proxyOnly>>

Next == \/ Accept \/ Connection \/ HostAnswers \/ HostHandler
        \/ CloseMarks \/ Closing \/ ListenerBreaks \/ SetOnClose \/ Bridging

Spec == Init /\ [][Next]_proxyVars

(* Goroutines that can run do; opening a stream, the answer to the hello   *)
(* and the dial have timeouts.  Nothing is assumed of the applications, of *)
(* the user, or of how often a copy fails.                                 *)
FairSpec ==
    /\ Spec
    /\ WF_proxyVars(Connection) /\ WF_proxyVars(HostHandler) /\ WF_proxyVars(Closing)
    /\ \A d \in Copier : WF_proxyVars(Copy(d) /\ UNCHANGED <<pc, host, proxyOnly>>)

-----------------------------------------------------------------------------

(* "Close stops accepting new clients and closes any client sockets        *)
(* currently bridged through the proxy": when it has returned, only a      *)
(* connection that was accepted and not yet tracked has an open socket.    *)
(* And when a connection's goroutine is done, nothing of it is left in the *)
(* maps or open, whatever closed it first.                                 *)
NothingLeftOpen ==
    /\ closer = "done" /\ pc # "accepted" => listener # "open" /\ ~end["app"].open
    /\ pc = "done" => ~conns /\ ~streams /\ ~end["app"].open /\ ~end["sc"].wr
    /\ streams => pc \in {"bridge", "closeStream", "untrackStream"}

(* A callback set before or after Close has run when both are done, unless *)
(* the listener failed by itself before it was set.                        *)
CallbackRuns == closer = "done" /\ hooked /\ listener # "broken" => ran

Told(a) == copier[IF a = "app" THEN <<"sc", "app">> ELSE <<"sh", "svc">>] = "ok"

(* An application is told the end of the stream only when the other one    *)
(* ended it and every chunk has arrived, as long as nothing was closed,    *)
(* reset or failed: a half-close never cuts the other direction.           *)
OrderlyEndIsComplete ==
    calm => \A a, b \in Application : a # b /\ Told(a) => OnTheirWay(b) = 0 /\ end[b].eof

Gone(a) == end[a].gone
Unwound == pc \in {"idle", "done"} /\ host \in {"off", "done"}

(* Once both applications have gone away, both bridges end and release     *)
(* what they hold, whichever copier notices first.  Over quic this is only *)
(* so after Close, because an end of stream is not passed on.              *)
BridgesUnwind ==
    Gone("app") /\ Gone("svc") /\ (kind # "quic" \/ closer = "done") ~> Unwound
=============================================================================
