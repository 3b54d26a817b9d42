-------------------------- MODULE ConnectSessions --------------------------
(***************************************************************************)
(* The connect sessions of the web UI (internal/webui): one goroutine per  *)
(* POST /api/connect, and the disconnect, cancel, launch and remove calls  *)
(* that run beside it.  connectMu guards the three maps; a step below is   *)
(* one critical section of connectMu or of the service's networkMu, or one *)
(* call that holds neither.  A session is named by the request that opened *)
(* it, and so is its local proxy.                                          *)
(***************************************************************************)
EXTENDS BackendRefs

CONSTANTS Request,     \* handleConnect goroutines
          Call,        \* the other calls of the UI
          Key,         \* connect keys
          Service,     \* key -> the keys a session under it may have as alias
          None

VARIABLES req,         \* request -> its goroutine and its proxy
          call,        \* call -> its goroutine
          attempt,     \* activeConnects
          session,     \* activeSessions
          status,      \* connectStatus: the stage of each key
          shared       \* history: keys that a second actor has worked on

connectVars == <<req, call, attempt, session, status, shared, backendVars>>

Idle == [pc |-> "idle", key |-> None, alias |-> None, done |-> FALSE,
         old |-> {}, last |-> None, proxy |-> "none", hooked |-> FALSE, cb |-> "idle"]
NoCall == [pc |-> "idle", kind |-> "none", key |-> None, session |-> None, cancel |-> None]

Init == /\ req = [r \in Request |-> Idle]
        /\ call = [c \in Call |-> NoCall]
        /\ attempt = [k \in Key |-> None]
        /\ session = [k \in Key |-> None]
        /\ status = [k \in Key |-> "none"]
        /\ shared = {} /\ refs = {} /\ sidecar = "none"

At(r, pc) == req[r].pc = pc
Goto(r, pc) == req' = [req EXCEPT ![r].pc = pc]
Keys(r) == {req[r].key, req[r].alias}            \* uniqueConnectKeys, sessionKeys
InFlight(r) == req[r].pc \notin {"idle", "begin", "done"}
AttemptRef(r) == <<"attempt", req[r].key>>
SessionRef(r) == <<"connect", req[r].key>>
Done(stage) == stage \in {"ready", "failed", "canceled", "disconnected"}

(* setConnectStatus: a canceled key stays so until the next attempt. *)
setConnectStatus(k, stage) ==
    status' = IF status[k] = "canceled" /\ stage # "starting" THEN status
              ELSE [status EXCEPT ![k] = stage]

(* LocalProxy.Close, and its callback if it has one and has not run it.    *)
Closed(q) == IF q.proxy \notin {"open", "dead"} THEN q
             ELSE [q EXCEPT !.proxy = "closed",
                            !.cb = IF q.hooked /\ q.proxy = "open" THEN "mark" ELSE @]
CallbackDone(s) == \A r \in Request : r = s => req[r].cb = "idle"

-----------------------------------------------------------------------------
(* handleConnect *)

(* A key with a session is answered at once, without a step. *)
handleConnect(r, k, a) ==
    /\ At(r, "idle") /\ session[k] = None
    /\ req' = [req EXCEPT ![r].pc = "begin", ![r].key = k, ![r].alias = a]
    /\ UNCHANGED <<call, attempt, session, status, shared, backendVars>>

(* beginConnect, which replaces an attempt older than connectStaleAfter:   *)
(* 90 s, so that the 75 s of its owner's context are over.                 *)
Closing(c, s) == call[c].session = s /\ call[c].pc \notin {"idle", "done"}
Overlapping(r) == {s \in Request \ {r} :
                      /\ Keys(s) \cap Keys(r) # {}
                      /\ InFlight(s) \/ req[s].cb # "idle" \/ \E c \in Call : Closing(c, s)}
Begin(r, k) ==
    /\ attempt' = [attempt EXCEPT ![k] = [owner |-> r, cancel |-> None]]
    /\ shared' = shared \cup UNION {Keys(s) \cup Keys(r) : s \in Overlapping(r)}
                       \cup (IF session[k] = None THEN {} ELSE Keys(r))
beginConnect(r) ==
    LET k == req[r].key IN
    /\ At(r, "begin") /\ attempt[k] = None
    /\ Begin(r, k) /\ Goto(r, "context")
    /\ UNCHANGED <<call, session, status, backendVars>>
beginConnectStale(r) ==
    LET k == req[r].key IN
    /\ At(r, "begin") /\ attempt[k] # None /\ req[attempt[k].owner].done
    /\ req' = [s \in Request |->
                 IF s = r THEN [req[s] EXCEPT !.pc = "context"]
                 ELSE IF s = attempt[k].cancel THEN [req[s] EXCEPT !.done = TRUE]
                 ELSE req[s]]
    /\ status' = IF Done(status[k]) THEN status ELSE [status EXCEPT ![k] = "failed"]
    /\ Begin(r, k)
    /\ UNCHANGED <<call, session, backendVars>>
beginConnectRefused(r) ==
    LET k == req[r].key IN
    /\ At(r, "begin") /\ attempt[k] # None
    /\ Goto(r, "done")
    /\ UNCHANGED <<call, attempt, session, status, shared, backendVars>>

(* The attempt under the key may by now be gone, or be another request's.  *)
setConnectCancel(r) ==
    LET k == req[r].key IN
    /\ At(r, "context")
    /\ attempt' = IF attempt[k] = None THEN attempt
                  ELSE [attempt EXCEPT ![k].cancel = r]
    /\ Goto(r, "starting")
    /\ UNCHANGED <<call, session, status, shared, backendVars>>

Starting(r) ==
    /\ At(r, "starting") /\ setConnectStatus(req[r].key, "starting")
    /\ Goto(r, "retain")
    /\ UNCHANGED <<call, attempt, session, shared, backendVars>>

(* Any later error: the deferred calls come next. *)
Fails_Silent(r, pc) == Goto(r, pc) /\ UNCHANGED status
Fails(r, pc) ==
    /\ setConnectStatus(req[r].key, IF req[r].done THEN "canceled" ELSE "failed")
    /\ Goto(r, pc)

NotPaired(r) ==
    /\ At(r, "retain")
    /\ setConnectStatus(req[r].key, "failed") /\ Goto(r, "end")
    /\ UNCHANGED <<call, attempt, session, shared, backendVars>>

(* retainConnectAttemptBackend ignores the error. *)
RetainAttempt(r) ==
    /\ At(r, "retain")
    /\ setConnectStatus(req[r].key, "progress")
    /\ \E o \in retainNetworkBackend(AttemptRef(r), ~req[r].done) : Apply(o)
    /\ Goto(r, "ensure")
    /\ UNCHANGED <<call, attempt, session, shared>>

ensureNetworkBackend_Returns(r) ==
    /\ At(r, "ensure")
    /\ \E o \in startIrohSidecarLocked(~req[r].done) :
         /\ sidecar' = o.sidecar
         /\ \/ o.ok /\ setConnectStatus(req[r].key, "progress") /\ Goto(r, "pair")
            \/ ~o.ok /\ Fails(r, "end")
    /\ UNCHANGED <<call, attempt, session, shared, refs>>
ensureNetworkBackend(r) ==
    /\ At(r, "ensure")
    /\ \E o \in startIrohSidecarLocked(~req[r].done) :
         /\ sidecar' = o.sidecar
         /\ \/ o.ok /\ setConnectStatus(req[r].key, "progress") /\ Goto(r, "pair")
            \/ ~o.ok /\ Fails(r, "release")
    /\ UNCHANGED <<call, attempt, session, shared, refs>>

(* ConnectByURL, with the fallback to ReauthPairedWithBackend, or          *)
(* ReauthRemoteWithBackend, which stop at the end of the context; then     *)
(* connectStream, which only opens a listener.                             *)
Pair(r) ==
    /\ At(r, "pair")
    /\ \/ /\ ~req[r].done /\ setConnectStatus(req[r].key, "progress")
          /\ req' = [req EXCEPT ![r].pc = "hold", ![r].proxy = "open"]
       \/ Fails(r, "release")
    /\ UNCHANGED <<call, attempt, session, shared, backendVars>>

retainSessionBackend(r) ==
    /\ At(r, "hold")
    /\ \E o \in retainNetworkBackend(SessionRef(r), ~req[r].done) :
         /\ Apply(o)
         /\ \/ o.ok /\ Goto(r, "register") /\ UNCHANGED status
            \/ /\ ~o.ok
               /\ setConnectStatus(req[r].key, IF req[r].done THEN "canceled" ELSE "failed")
               /\ req' = [req EXCEPT ![r] = [Closed(@) EXCEPT !.pc = "release"]]
    /\ UNCHANGED <<call, attempt, session, shared>>

(* registerConnectSession: the maps, then the sessions it replaced, then   *)
(* the callback of the new proxy.                                          *)
registerConnectSession(r) ==
    /\ At(r, "register")
    /\ session' = [k \in Key |-> IF k \in Keys(r) THEN r ELSE session[k]]
    /\ req' = [req EXCEPT ![r].pc = "replace",
                          ![r].old = {session[k] : k \in Keys(r)} \ {None}]
    /\ UNCHANGED <<call, attempt, status, shared, backendVars>>
ReplaceReleases(r, o) ==
    /\ At(r, "replace") /\ CallbackDone(req[r].last) /\ o \in req[r].old
    /\ \E x \in releaseNetworkBackend(SessionRef(o)) : Apply(x)
    /\ req' = [req EXCEPT ![r].pc = "close", ![r].old = @ \ {o}, ![r].last = o]
    /\ UNCHANGED <<call, attempt, session, status, shared>>
ReplaceCloses(r) ==
    /\ At(r, "close")
    /\ req' = [req EXCEPT ![r].pc = "replace", ![req[r].last] = Closed(@)]
    /\ UNCHANGED <<call, attempt, session, status, shared, backendVars>>
SetOnClose(r) ==
    /\ At(r, "replace") /\ CallbackDone(req[r].last) /\ req[r].old = {}
    /\ req' = [req EXCEPT ![r].pc = "ready", ![r].hooked = TRUE, ![r].last = None,
                          ![r].cb = IF req[r].proxy = "closed" THEN "mark" ELSE @]
    /\ UNCHANGED <<call, attempt, session, status, shared, backendVars>>
Ready(r) ==
    /\ At(r, "ready") /\ CallbackDone(r)
    /\ setConnectStatus(req[r].key, "ready") /\ Goto(r, "release")
    /\ UNCHANGED <<call, attempt, session, shared, backendVars>>

(* The deferred calls. *)
releaseConnectAttemptBackend(r) ==
    /\ At(r, "release") /\ Goto(r, "end")
    /\ \E o \in releaseNetworkBackend(AttemptRef(r)) : Apply(o)
    /\ UNCHANGED <<call, attempt, session, status, shared>>
endConnect_Leaves(r) ==
    /\ At(r, "end")
    /\ req' = [req EXCEPT ![r].pc = "done", ![r].done = TRUE]
    /\ UNCHANGED <<call, attempt, session, status, shared, backendVars>>
endConnect(r) ==
    /\ At(r, "end")
    /\ attempt' = [attempt EXCEPT ![req[r].key] = None]
    /\ req' = [req EXCEPT ![r].pc = "done", ![r].done = TRUE]
    /\ UNCHANGED <<call, session, status, shared, backendVars>>

-----------------------------------------------------------------------------
(* The callback of a proxy, run by whoever closed it: markSessionClosed. *)

MarkClosed_KeepsAlias(r) ==
    /\ req[r].cb = "mark"
    /\ IF session[req[r].key] # r
       THEN req' = [req EXCEPT ![r].cb = "idle"] /\ UNCHANGED <<session, status>>
       ELSE /\ req' = [req EXCEPT ![r].cb = "release"]
            /\ session' = [session EXCEPT ![req[r].key] = None]
            /\ status' = [status EXCEPT ![req[r].key] = "disconnected"]
    /\ UNCHANGED <<call, attempt, shared, backendVars>>
MarkClosed(r) ==
    /\ req[r].cb = "mark"
    /\ IF session[req[r].key] # r
       THEN req' = [req EXCEPT ![r].cb = "idle"] /\ UNCHANGED <<session, status>>
       ELSE /\ req' = [req EXCEPT ![r].cb = "release"]
            /\ session' = [k \in Key |-> IF k \in Keys(r) THEN None ELSE session[k]]
            /\ status' = [k \in Key |-> IF k \in Keys(r) THEN "disconnected" ELSE status[k]]
    /\ UNCHANGED <<call, attempt, shared, backendVars>>
MarkReleases(r) ==
    /\ req[r].cb = "release"
    /\ \E o \in releaseNetworkBackend(SessionRef(r)) : Apply(o)
    /\ req' = [req EXCEPT ![r].cb = "idle"]
    /\ UNCHANGED <<call, attempt, session, status, shared>>

(* The accept loop ends on an error: the callback runs, but the proxy is   *)
(* not marked closed, so a callback set later never runs.                  *)
ProxyDies(r) ==
    /\ req[r].proxy = "open"
    /\ req' = [req EXCEPT ![r].proxy = "dead",
                          ![r].cb = IF req[r].hooked THEN "mark" ELSE @]
    /\ shared' = IF req[r].hooked THEN shared ELSE shared \cup Keys(r)
    /\ UNCHANGED <<call, attempt, session, status, backendVars>>

(* The 75 s of connectOperationTimeout are over, or the browser left. *)
ContextEnds(r) ==
    /\ InFlight(r) /\ req[r].pc # "context" /\ ~req[r].done
    /\ req' = [req EXCEPT ![r].done = TRUE]
    /\ UNCHANGED <<call, attempt, session, status, shared, backendVars>>

-----------------------------------------------------------------------------
(* The other calls *)

(* disconnectSession, for handleDisconnect and handleDeleteRemote. *)
disconnectSession(c, k, kind) ==
    LET s == session[k]
        gone == IF s = None THEN {k} ELSE Keys(s) IN
    /\ call[c].pc = "idle" /\ (kind = "remove" => k \in Service[k])
    /\ session' = [x \in Key |-> IF s # None /\ x \in gone THEN None ELSE session[x]]
    /\ status' = [x \in Key |-> IF x \in gone THEN "disconnected" ELSE status[x]]
    /\ call' = [call EXCEPT ![c] = [NoCall EXCEPT !.pc = "close", !.kind = kind,
                                                 !.key = k, !.session = s]]
    /\ UNCHANGED <<req, attempt, shared, backendVars>>
DisconnectCloses(c) ==
    /\ call[c].pc = "close"
    /\ req' = [r \in Request |-> IF r = call[c].session THEN Closed(req[r]) ELSE req[r]]
    /\ call' = [call EXCEPT ![c].pc = "release"]
    /\ UNCHANGED <<attempt, session, status, shared, backendVars>>
DisconnectReleases(c) ==
    LET s == call[c].session IN
    /\ call[c].pc = "release" /\ CallbackDone(s)
    /\ IF s = None THEN UNCHANGED backendVars
       ELSE \E o \in releaseNetworkBackend(SessionRef(s)) : Apply(o)
    /\ call' = [call EXCEPT ![c] = IF @.kind = "remove" THEN [@ EXCEPT !.pc = "forget"]
                                    ELSE [NoCall EXCEPT !.pc = "done"]]
    /\ UNCHANGED <<req, attempt, session, status, shared>>

(* The rest of removeRemoteConnectState. *)
removeRemoteConnectState(c) ==
    LET gone == IF call[c].session = None THEN {call[c].key} ELSE Keys(call[c].session)
        tried == {k \in gone : attempt[k] # None} IN
    /\ call[c].pc = "forget"
    /\ req' = [r \in Request |-> IF \E k \in tried : attempt[k].cancel = r
                                THEN [req[r] EXCEPT !.done = TRUE] ELSE req[r]]
    /\ attempt' = [k \in Key |-> IF k \in gone THEN None ELSE attempt[k]]
    /\ status' = [k \in Key |-> IF k \in gone THEN "none" ELSE status[k]]
    /\ shared' = shared \cup tried
    /\ call' = [call EXCEPT ![c] = [NoCall EXCEPT !.pc = "done"]]
    /\ UNCHANGED <<session, backendVars>>

cancelConnect(c, k) ==
    /\ call[c].pc = "idle" /\ attempt[k] # None
    /\ call' = [call EXCEPT ![c] = [NoCall EXCEPT !.pc = "cancel", !.session = session[k],
                                                 !.cancel = attempt[k].cancel]]
    /\ attempt' = [attempt EXCEPT ![k] = None]
    /\ session' = [session EXCEPT ![k] = None]
    /\ status' = [status EXCEPT ![k] = "canceled"]
    /\ shared' = shared \cup {k}
    /\ UNCHANGED <<req, backendVars>>
CancelFinishes(c) ==
    /\ call[c].pc = "cancel"
    /\ req' = [r \in Request |->
                 LET q == IF r = call[c].cancel THEN [req[r] EXCEPT !.done = TRUE] ELSE req[r]
                 IN IF r = call[c].session THEN Closed(q) ELSE q]
    /\ call' = [call EXCEPT ![c] = [NoCall EXCEPT !.pc = "done"]]
    /\ UNCHANGED <<attempt, session, status, shared, backendVars>>

(* handleLaunch finds the session, then reports it ready. *)
handleLaunch(c, k) ==
    /\ call[c].pc = "idle" /\ session[k] # None
    /\ call' = [call EXCEPT ![c] = [NoCall EXCEPT !.pc = "launch", !.key = k]]
    /\ UNCHANGED <<req, attempt, session, status, shared, backendVars>>
LaunchReports(c) ==
    /\ call[c].pc = "launch"
    /\ setConnectStatus(call[c].key, "ready")
    /\ call' = [call EXCEPT ![c] = [NoCall EXCEPT !.pc = "done"]]
    /\ UNCHANGED <<req, attempt, session, shared, backendVars>>

-----------------------------------------------------------------------------

Step(r) == \/ beginConnect(r) \/ beginConnectStale(r) \/ beginConnectRefused(r)
           \/ setConnectCancel(r) \/ Starting(r)
           \/ NotPaired(r) \/ RetainAttempt(r)
           \/ ensureNetworkBackend(r) \/ Pair(r)
           \/ retainSessionBackend(r) \/ registerConnectSession(r)
           \/ \E o \in Request : ReplaceReleases(r, o)
           \/ ReplaceCloses(r) \/ SetOnClose(r) \/ Ready(r)
           \/ releaseConnectAttemptBackend(r) \/ endConnect(r)
Callback(r) == MarkClosed(r) \/ MarkReleases(r)
CallStep(c) == \/ DisconnectCloses(c) \/ DisconnectReleases(c)
               \/ removeRemoteConnectState(c) \/ CancelFinishes(c) \/ LaunchReports(c)
CallStarts(c, k) == \/ \E kind \in {"disconnect", "remove"} : disconnectSession(c, k, kind)
                    \/ cancelConnect(c, k) \/ handleLaunch(c, k)
Dies == SidecarDies /\ UNCHANGED <<req, call, attempt, session, status, shared>>

Next == \/ \E r \in Request : \/ \E k \in Key : \E a \in Service[k] : handleConnect(r, k, a)
                             \/ Step(r) \/ Callback(r)
                             \/ ProxyDies(r) \/ ContextEnds(r)
        \/ \E c \in Call : CallStep(c) \/ \E k \in Key : CallStarts(c, k)
        \/ Dies

Spec == Init /\ [][Next]_connectVars

-----------------------------------------------------------------------------

(* No key stays locked: whatever attempt activeConnects holds, the request *)
(* that began it is still on its way to endConnect, also when the attempt  *)
(* was canceled, replaced or ended by another request of the same key.  A  *)
(* backend reference of an attempt outlives no request either: every error *)
(* path, and every mixture of two requests of one key, drops it.           *)
AttemptsAreOwned ==
    \A k \in Key :
      /\ attempt[k] # None => InFlight(attempt[k].owner) /\ req[attempt[k].owner].key = k
      /\ <<"attempt", k>> \in refs => \E r \in Request :
            req[r].key = k /\ InFlight(r) /\ req[r].pc \notin {"context", "starting", "retain", "end"}

Quiet(k) == /\ \A r \in Request : InFlight(r) => k \notin Keys(r)
            /\ \A r \in Request : req[r].cb # "idle" => k \notin Keys(r)
            /\ \A c \in Call : call[c].pc \in {"idle", "done"}

(* The UI never shows a connection under way when no request is at work on *)
(* the key: the last word on a key is a final stage.                       *)
NoStuckProgress == \A k \in Key : Quiet(k) => status[k] \notin {"starting", "progress"}

(* "Online only means an active tunnel is open" (webui.go:587): so it is   *)
(* when no second actor has worked on the keys of the session while it was *)
(* being made.  Then it is online exactly as long as its tunnel is open,   *)
(* and it holds its reference for as long.  A session is never listed      *)
(* under a key that is not its own or before it has a proxy.               *)
Alone(r) == Keys(r) \cap shared = {}
SessionsAreSound ==
    /\ \A k \in Key : session[k] # None =>
         req[session[k]].proxy # "none" /\ k \in Keys(session[k])
    /\ \A r \in Request : (Alone(r) /\ req[r].pc = "done" /\ req[r].proxy # "none"
                            /\ \A k \in Keys(r) : Quiet(k)) =>
         /\ (\E k \in Keys(r) : session[k] = r) <=> req[r].proxy = "open"
         /\ session[req[r].key] = r => SessionRef(r) \in refs

(* Without such a second actor the sidecar runs only for a reference: the *)
(* last session or attempt to end stops it.                                *)
NoIdleSidecar == shared = {} /\ refs = {} => sidecar = "none"
=============================================================================
