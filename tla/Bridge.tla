------------------------------- MODULE Bridge -------------------------------
(***************************************************************************)
(* One application stream through the tunnel (internal/tunnel): the client *)
(* bridge joins the application's socket "app" and its end "sc" of the     *)
(* tunnel stream, the host bridge joins "sh" and the service's socket      *)
(* "svc".  Each bridge is two copier goroutines and a teardown that runs   *)
(* once.  What closing an end does depends on the transport:               *)
(*   libp2p  CloseWrite and Close do what they say;                        *)
(*   iroh    the client's end is a TCP socket; the host's end hides        *)
(*           CloseWrite behind bufferedConn, so streamConn closes it;      *)
(*   quic    has no CloseWrite, and Close ends the writing half only.      *)
(***************************************************************************)
EXTENDS Naturals, FiniteSets

CONSTANTS MaxChunks,     \* application -> chunks it may have on their way
          MaxFailures    \* copy errors, other than those a closed end causes

VARIABLES kind,          \* transport of the stream
          end,           \* the four socket ends the bridges hold
          copier,        \* <<source end, destination end>> -> goroutine
          torn,          \* teardownOnce of each bridge
          calm           \* history: nothing but orderly half-closes so far

bridgeVars == <<kind, end, copier, torn, calm>>

Kind == {"libp2p", "iroh", "quic"}
End == {"app", "sc", "sh", "svc"}
Application == {"app", "svc"}
Client == {<<"app", "sc">>, <<"sc", "app">>}
HostSide == {<<"sh", "svc">>, <<"svc", "sh">>}
Copier == Client \cup HostSide
Side(d) == IF d \in Client THEN Client ELSE HostSide
Ends(side) == IF side = Client THEN {"app", "sc"} ELSE {"sh", "svc"}
Peer(e) == IF e = "sc" THEN "sh" ELSE "sc"

(* open: we may read; wr: we may write; in: unread chunks; eof: the far    *)
(* side has finished writing; gone: it no longer reads; cut: it was reset, *)
(* unread chunks may be lost.                                              *)
NoEnd == [open |-> FALSE, wr |-> FALSE, in |-> 0, eof |-> FALSE,
          gone |-> FALSE, cut |-> FALSE]
NewEnd == [NoEnd EXCEPT !.open = TRUE, !.wr = TRUE]

BridgeInit ==
    /\ kind \in Kind
    /\ end = [e \in End |-> NoEnd]
    /\ copier = [d \in Copier |-> "off"]
    /\ torn = [s \in {Client, HostSide} |-> FALSE]
    /\ calm = TRUE

-----------------------------------------------------------------------------
(* What closing does; each operator maps the ends to the ends after it.    *)

closeGraceful(es, e) ==
    IF ~es[e].open \/ (kind = "quic" /\ e \notin Application /\ ~es[e].wr) THEN es
    ELSE IF e \in Application THEN [es EXCEPT ![e].open = FALSE, ![e].wr = FALSE]
    ELSE IF kind = "quic"
         THEN [es EXCEPT ![e].wr = FALSE, ![Peer(e)].eof = TRUE]
         ELSE [es EXCEPT ![e].open = FALSE, ![e].wr = FALSE,
                         ![Peer(e)].eof = TRUE, ![Peer(e)].gone = TRUE,
                         ![Peer(e)].cut = @ \/ es[e].in > 0]

closeWrite(es, e) ==
    IF ~es[e].wr THEN es
    ELSE IF e \in Application THEN [es EXCEPT ![e].wr = FALSE]
    ELSE CASE kind = "libp2p" \/ (kind = "iroh" /\ e = "sc") ->
                  [es EXCEPT ![e].wr = FALSE, ![Peer(e)].eof = TRUE]
           [] kind = "iroh" /\ e = "sh" -> closeGraceful(es, e)
           [] kind = "quic" -> es

CloseAll(es, S) ==
    LET first == IF S \cap {"sc", "sh"} = {} THEN es
                 ELSE closeGraceful(es, CHOOSE e \in S : e \in {"sc", "sh"})
    IN IF S \cap Application = {} THEN first
       ELSE closeGraceful(first, CHOOSE e \in S : e \in Application)

-----------------------------------------------------------------------------
(* copyWithProgress, writeFullWithDeadline and the two goroutines of       *)
(* bridgeLogged.                                                           *)

Running(d) == copier[d] = "run"

Deliver(es, s, t) ==
    IF t \in Application \/ es[t].gone THEN [es EXCEPT ![s].in = @ - 1]
    ELSE [es EXCEPT ![s].in = @ - 1, ![Peer(t)].in = @ + 1]

CopyChunk(d) ==
    LET s == d[1]  t == d[2] IN
    /\ Running(d) /\ end[s].open /\ end[s].in > 0
    /\ end[t].open /\ end[t].wr
    /\ end' = Deliver(end, s, t)
    /\ UNCHANGED <<kind, copier, torn, calm>>

(* EOF, a reset, or an end that was closed under the copier: not an error  *)
(* to bridgeCopyFailed, and passed on as an orderly end.                   *)
EndsQuietly(d) ==
    LET s == d[1]  t == d[2] IN
    \/ ~end[s].open \/ end[s].cut
    \/ end[s].in = 0 /\ end[s].eof
    \/ end[s].in > 0 /\ (~end[t].open \/ end[t].gone)

(* Over iroh the host cannot half-close: ending one direction ends both. *)
CutsOther(d) == kind = "iroh" /\ d = <<"svc", "sh">> /\ copier[<<"sh", "svc">>] = "run"

CopyEnds_NoCloseWrite(d) ==
    /\ Running(d) /\ EndsQuietly(d)
    /\ copier' = [copier EXCEPT ![d] = "ok"]
    /\ calm' = (calm /\ ~CutsOther(d))
    /\ UNCHANGED <<kind, end, torn>>
CopyEnds(d) ==
    /\ Running(d) /\ EndsQuietly(d)
    /\ copier' = [copier EXCEPT ![d] = "ok"]
    /\ end' = closeWrite(end, d[2])
    /\ calm' = (calm /\ ~CutsOther(d))
    /\ UNCHANGED <<kind, torn>>

(* A quic stream refuses writes after its Close. *)
Refused(d) == end[d[1]].in > 0 /\ end[d[2]].open /\ ~end[d[2]].wr

(* Any other error, the write deadline among them.  closeAbortive of every *)
(* transport here is Close.                                                *)
CopyFails(d) ==
    /\ Running(d)
    /\ Refused(d) \/ Cardinality({c \in Copier : copier[c] = "failed"}) < MaxFailures
    /\ copier' = [copier EXCEPT ![d] = "failed"]
    /\ torn' = [torn EXCEPT ![Side(d)] = TRUE]
    /\ end' = IF torn[Side(d)] THEN end ELSE CloseAll(end, Ends(Side(d)))
    /\ calm' = FALSE
    /\ UNCHANGED <<kind>>

Finished(side) == \A d \in side : copier[d] \in {"ok", "failed"}
Failed(side) == \E d \in side : copier[d] = "failed"

(* bridgeLogged after both results, up to its return. *)
Teardown_First(side) ==
    /\ \E d \in side : copier[d] \in {"ok", "failed"}
    /\ torn' = [torn EXCEPT ![side] = TRUE]
    /\ end' = IF torn[side] THEN end ELSE CloseAll(end, Ends(side))
    /\ UNCHANGED <<kind, copier, calm>>
Teardown(side) ==
    /\ Finished(side)
    /\ torn' = [torn EXCEPT ![side] = TRUE]
    /\ end' = IF torn[side] THEN end ELSE CloseAll(end, Ends(side))
    /\ UNCHANGED <<kind, copier, calm>>

Copy(d) == CopyChunk(d) \/ CopyEnds(d) \/ (Refused(d) /\ CopyFails(d))

-----------------------------------------------------------------------------
(* The two applications, outside the program. *)

(* Chunks of an application that the other one has not been given. *)
OnTheirWay(a) == end[a].in + end[IF a = "app" THEN "sh" ELSE "sc"].in

Here(a) == end[a].open \/ end[a].wr

AppSends(a) ==
    /\ Here(a) /\ ~end[a].eof /\ OnTheirWay(a) < MaxChunks[a]
    /\ end' = [end EXCEPT ![a].in = @ + 1]
    /\ UNCHANGED <<kind, copier, torn, calm>>

AppEnds(a) ==
    /\ Here(a) /\ ~end[a].eof
    /\ end' = [end EXCEPT ![a].eof = TRUE]
    /\ UNCHANGED <<kind, copier, torn, calm>>

AppGoes(a) ==
    /\ Here(a) /\ ~end[a].gone
    /\ end' = [end EXCEPT ![a].eof = TRUE, ![a].gone = TRUE]
    /\ calm' = FALSE
    /\ UNCHANGED <<kind, copier, torn>>

Applications == \E a \in Application : AppSends(a) \/ AppEnds(a) \/ AppGoes(a)
=============================================================================
