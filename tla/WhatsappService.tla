-------------------------- MODULE WhatsappService --------------------------
(***************************************************************************)
(* The life of the WhatsApp clients: startClient, resetAndRestartClient,   *)
(* destroyClient, the reconnection timers, the health check, logout of all *)
(* sessions, and the events of the clients, all on one event loop.  An     *)
(* action is the code between two awaits.  Calls of queueOperation follow  *)
(* module OperationQueue, which this module implements; here the operation *)
(* a call runs has a body.                                                 *)
(*                                                                         *)
(* Calls are numbered in the order of arrival.  A startClient call creates *)
(* at most one client, so a client is named by the call that created it.   *)
(***************************************************************************)
EXTENDS Naturals, FiniteSets

CONSTANTS
  Users,
  NoUser,
  MaxCalls,               \* bound: calls of queueOperation in the life of a process
  MaxReconnectAttempts,   \* MAX_RECONNECT_ATTEMPTS
  MaxTimers               \* bound: pending reconnection timers of a user

ASSUME NullAssumption == NoUser \notin Users
ASSUME BoundAssumption ==
  /\ MaxCalls \in Nat /\ MaxReconnectAttempts \in Nat \ {0} /\ MaxTimers \in Nat \ {0}

Calls == 1..MaxCalls
NoCall == 0

VARIABLES
  process,            \* "up", "stopped" (by its operator) or "crashed"
  \* the queue and its calls
  processingQueue, kind, owner, awaited, parent, arrivals,
  pc,                 \* [Calls -> Places], where the call is in its method
  victim,             \* [Calls -> client captured by destroyClient, or NoCall]
  answer,             \* [Calls -> Answers], result of startClient on its way to the caller
  \* the maps of the service
  clients,            \* [Users -> registered client, or NoCall]
  clientStatus,       \* [Users -> Statuses]
  reconnectAttempts,  \* [Users -> Nat]
  reconnectTimers,    \* [Users -> Nat], timers set by handleReconnect
  cooldownTimers,     \* SUBSET Users
  lastRequested,      \* SUBSET Users: requested less than cooldownMs ago
  \* the clients
  phase,              \* [Calls -> Phases]
  listening,          \* SUBSET Calls: clients with their listeners attached
  readyOnce,          \* SUBSET Calls: clients with startClient's once('ready') attached
  qrPromise,          \* [Calls -> Promises], the promise of the first QR code
  \* logOutAllSession
  loggingOut,         \* SUBSET Calls: clients it is logging out
  clearPending        \* it has not reached clients.clear() yet

queueVars   == <<processingQueue, kind, owner, awaited, parent, arrivals>>
callVars    == <<queueVars, pc, victim, answer>>
serviceVars == <<clients, clientStatus, reconnectAttempts, reconnectTimers,
                 cooldownTimers, lastRequested>>
clientVars  == <<phase, listening, readyOnce, qrPromise>>
logoutVars  == <<loggingOut, clearPending>>
vars == <<process, callVars, serviceVars, clientVars, logoutVars>>

\* Where a call is: not made, awaiting the entry, in the body of its operation
\* ("restarting": a reset at its call of startClient), finished, settled.
\* A QR promise is resolved with a code that went to the browser ("shown") or
\* that the cooldown kept from it ("hidden").
Bodies   == {"destroying", "scrubbing", "cleaning", "initializing", "awaitingQr", "restarting"}
Places   == {"idle", "waiting", "finished", "settled"} \cup Bodies
Answers  == {"none", "qr", "authenticated", "failed"}
Promises == {"none", "pending", "shown", "hidden", "rejected"}
Statuses == {"absent", "initializing", "ready", "authenticated", "disconnected", "error"}
BadStatuses == {"error", "disconnected"}

Init ==
  /\ process = "up"
  /\ processingQueue = [u \in Users |-> NoCall]
  /\ kind    = [c \in Calls |-> "start"]
  /\ owner   = [c \in Calls |-> NoUser]
  /\ awaited = [c \in Calls |-> NoCall]
  /\ parent  = [c \in Calls |-> NoCall]
  /\ arrivals = 0
  /\ pc      = [c \in Calls |-> "idle"]
  /\ victim  = [c \in Calls |-> NoCall]
  /\ answer  = [c \in Calls |-> "none"]
  /\ clients = [u \in Users |-> NoCall]
  /\ clientStatus = [u \in Users |-> "absent"]
  /\ reconnectAttempts = [u \in Users |-> 0]
  /\ reconnectTimers   = [u \in Users |-> 0]
  /\ cooldownTimers = {} /\ lastRequested = {}
  /\ phase = [c \in Calls |-> "unused"]
  /\ qrPromise = [c \in Calls |-> "none"]
  /\ listening = {} /\ readyOnce = {} 
  /\ loggingOut = {} /\ clearPending = FALSE

-----------------------------------------------------------------------------
(* The event loop. *)

Ready(c) == pc[c] = "waiting" /\ pc[awaited[c]] = "settled"

\* The nested startClient of a reset, when it has made it.
Nested(p) == {d \in Calls : parent[d] = p}

\* Mutant of BodyDone: the reset returns without awaiting startClient.
BodyDoneUnawaited(c) == pc[c] = "finished" \/ (pc[c] = "restarting" /\ Nested(c) # {})

\* A call whose body has nothing left to await.
BodyDone(c) ==
  \/ pc[c] = "finished"
  \/ pc[c] = "restarting" /\ Nested(c) # {} /\ \A d \in Nested(c) : pc[d] = "settled"

\* A reset at its call of startClient.
AtNestedCall(c) == pc[c] = "restarting" /\ Nested(c) = {}

\* Microtasks run to the end before the event loop takes another callback.
EventLoop ==
  /\ process = "up"
  /\ \A c \in Calls : ~Ready(c) /\ ~BodyDone(c) /\ ~AtNestedCall(c)
  /\ clearPending => loggingOut # {}

\* Bound: calls are finitely many, so a request is made only if a call is left
\* for it and for the nested call of every reset.
Owed == {p \in Calls : kind[p] = "reset" /\ Nested(p) = {}}
RoomFor(k) ==
  arrivals + Cardinality(Owed) + (IF k = "reset" THEN 2 ELSE 1) <= MaxCalls

\* The call that is made next.
NewCall == arrivals + 1

-----------------------------------------------------------------------------
(* queueOperation and the synchronous beginning of the two operations. *)

Registered(u) == clients[u] # NoCall

\* startClient: nothing to do for a client that is authenticated.
AlreadyThere(u, k) ==
  k = "start" /\ Registered(u) /\ clientStatus[u] = "authenticated"

\* startClient destroys a client in a bad state, a reset destroys any client.
MustDestroy(u, k) ==
  Registered(u) /\ (k = "reset" \/ clientStatus[u] \in BadStatuses)

\* operation() up to its first await.  destroyClient captures the client and
\* removes its listeners; without a client the session files come next.
Begin(c, u, k) ==
  /\ processingQueue' = [processingQueue EXCEPT ![u] = c]
  /\ \/ /\ AlreadyThere(u, k)
        /\ pc' = [pc EXCEPT ![c] = "finished"]
        /\ answer' = [answer EXCEPT ![c] = "authenticated"]
        /\ UNCHANGED <<victim, listening, readyOnce>>
     \/ /\ MustDestroy(u, k)
        /\ pc' = [pc EXCEPT ![c] = "destroying"]
        /\ victim' = [victim EXCEPT ![c] = clients[u]]
        /\ listening' = listening \ {clients[u]}
        /\ readyOnce' = readyOnce \ {clients[u]}
        /\ UNCHANGED answer
     \/ /\ ~AlreadyThere(u, k) /\ ~MustDestroy(u, k)
        /\ pc' = [pc EXCEPT ![c] = "cleaning"]
        /\ UNCHANGED <<victim, answer, listening, readyOnce>>

\* Mutant of Enter: the call does not wait for the operation in the map.
EnterUnqueued(c, u, k, p) ==
  /\ c = NewCall
  /\ kind'   = [kind   EXCEPT ![c] = k]
  /\ owner'  = [owner  EXCEPT ![c] = u]
  /\ parent' = [parent EXCEPT ![c] = p]
  /\ arrivals' = c
  /\ Begin(c, u, k)
  /\ UNCHANGED <<process, awaited, phase, qrPromise, logoutVars>>

\* queueOperation up to its await, or into the operation when there is no entry.
Enter(c, u, k, p) ==
  /\ c = NewCall
  /\ kind'   = [kind   EXCEPT ![c] = k]
  /\ owner'  = [owner  EXCEPT ![c] = u]
  /\ parent' = [parent EXCEPT ![c] = p]
  /\ arrivals' = c
  /\ \/ /\ processingQueue[u] = NoCall
        /\ Begin(c, u, k)
        /\ UNCHANGED awaited
     \/ /\ processingQueue[u] # NoCall
        /\ pc' = [pc EXCEPT ![c] = "waiting"]
        /\ awaited' = [awaited EXCEPT ![c] = processingQueue[u]]
        /\ UNCHANGED <<processingQueue, victim, answer, listening, readyOnce>>
  /\ UNCHANGED <<process, phase, qrPromise, logoutVars>>

\* The continuation of `await existingOperation`: the map is not read again.
Resume(c) ==
  /\ process = "up"
  /\ Ready(c)
  /\ \A d \in Calls : Ready(d) /\ awaited[d] = awaited[c] => c <= d
  /\ Begin(c, owner[c], kind[c])
  /\ UNCHANGED <<process, kind, owner, awaited, parent, arrivals,
                 serviceVars, phase, qrPromise, logoutVars>>

\* The reset calls startClient, which goes through queueOperation again.
CallNested(p) ==
  /\ process = "up"
  /\ \A d \in Calls : ~Ready(d)
  /\ AtNestedCall(p)
  /\ Enter(NewCall, owner[p], "start", p)
  /\ UNCHANGED serviceVars

\* The operation's promise settles and `finally` removes its own entry.  Nobody
\* holds the answer or a settled QR promise after that.
Settle(c) ==
  /\ process = "up"
  /\ \A d \in Calls : ~Ready(d)
  /\ BodyDone(c)
  /\ pc' = [pc EXCEPT ![c] = "settled"]
  /\ answer' = [answer EXCEPT ![c] = "none"]
  /\ qrPromise' = [qrPromise EXCEPT ![c] = IF @ = "pending" THEN @ ELSE "none"]
  /\ processingQueue' = [processingQueue EXCEPT ![owner[c]] = IF @ = c THEN NoCall ELSE @]
  /\ UNCHANGED <<process, kind, owner, awaited, parent, arrivals, victim,
                 serviceVars, phase, listening, readyOnce, logoutVars>>

-----------------------------------------------------------------------------
(* Who calls the service. *)

\* The gateway's start-client, unless QrThrottleService refuses it.
RequestStart(u) ==
  /\ u \notin lastRequested
  /\ RoomFor("start") /\ EventLoop
  /\ lastRequested' = lastRequested \cup {u}
  /\ Enter(NewCall, u, "start", NoCall)
  /\ UNCHANGED <<clients, clientStatus, reconnectAttempts, reconnectTimers, cooldownTimers>>

\* cooldownMs have passed since the last accepted request.
ThrottleExpires(u) ==
  /\ u \in lastRequested
  /\ EventLoop
  /\ lastRequested' = lastRequested \ {u}
  /\ UNCHANGED <<process, callVars, clients, clientStatus, reconnectAttempts,
                 reconnectTimers, cooldownTimers, clientVars, logoutVars>>

\* The gateway's reset-client, which is not throttled.
RequestReset(u) ==
  /\ RoomFor("reset") /\ EventLoop
  /\ Enter(NewCall, u, "reset", NoCall)
  /\ UNCHANGED serviceVars

\* A timer set by handleReconnect fires.
ReconnectFires(u) ==
  /\ reconnectTimers[u] > 0
  /\ RoomFor("reset") /\ EventLoop
  /\ reconnectTimers' = [reconnectTimers EXCEPT ![u] = @ - 1]
  /\ Enter(NewCall, u, "reset", NoCall)
  /\ UNCHANGED <<clients, clientStatus, reconnectAttempts, cooldownTimers, lastRequested>>

\* One iteration of healthCheck, of any of the instances setInterval started.
HealthCheck(u) ==
  /\ clientStatus[u] \in BadStatuses
  /\ reconnectAttempts[u] < MaxReconnectAttempts
  /\ RoomFor("reset") /\ EventLoop
  /\ Enter(NewCall, u, "reset", NoCall)
  /\ UNCHANGED serviceVars

-----------------------------------------------------------------------------
(* The bodies of the operations. *)

\* client.logout() and client.destroy() are over: destroyClient removes the
\* entry of the USER, whatever client it names by now.
Destroyed(c) ==
  /\ pc[c] = "destroying"
  /\ EventLoop
  /\ phase' = [phase EXCEPT ![victim[c]] = "destroyed"]
  /\ clients' = [clients EXCEPT ![owner[c]] = NoCall]
  /\ pc' = [pc EXCEPT ![c] = "scrubbing"]
  /\ victim' = [victim EXCEPT ![c] = NoCall]
  /\ UNCHANGED <<process, queueVars, answer, clientStatus, reconnectAttempts,
                 reconnectTimers, cooldownTimers, lastRequested,
                 listening, readyOnce, qrPromise, logoutVars>>

\* destroyClient's own cleanupSessionFiles, then resetCooldown.
Scrubbed(c) ==
  /\ pc[c] = "scrubbing"
  /\ EventLoop
  /\ pc' = [pc EXCEPT ![c] = "cleaning"]
  /\ lastRequested' = lastRequested \ {owner[c]}
  /\ UNCHANGED <<process, queueVars, victim, answer, clients, clientStatus,
                 reconnectAttempts, reconnectTimers, cooldownTimers, clientVars, logoutVars>>

\* cleanupSessionFiles of startClient is over (it resets the throttle only if it
\* found and removed the directory); the new client replaces the entry.
CreateClient(c) ==
  LET u == owner[c] IN
  /\ pc[c] = "cleaning" /\ kind[c] = "start"
  /\ EventLoop
  /\ lastRequested' \in {lastRequested, lastRequested \ {u}}
  /\ clients' = [clients EXCEPT ![u] = c]
  /\ clientStatus' = [clientStatus EXCEPT ![u] = "initializing"]
  /\ reconnectAttempts' = [reconnectAttempts EXCEPT ![u] = 0]
  /\ phase' = [phase EXCEPT ![c] = "live"]
  /\ listening' = listening \cup {c}
  /\ readyOnce' = readyOnce \cup {c}
  /\ qrPromise' = [qrPromise EXCEPT ![c] = "pending"]
  /\ pc' = [pc EXCEPT ![c] = "initializing"]
  /\ UNCHANGED <<process, queueVars, victim, answer, reconnectTimers, cooldownTimers,
                 logoutVars>>

\* cleanupSessionFiles of resetAndRestartClient is over, then resetCooldown.
ReadyToRestart(c) ==
  /\ pc[c] = "cleaning" /\ kind[c] = "reset"
  /\ EventLoop
  /\ lastRequested' = lastRequested \ {owner[c]}
  /\ pc' = [pc EXCEPT ![c] = "restarting"]
  /\ UNCHANGED <<process, queueVars, victim, answer, clients, clientStatus,
                 reconnectAttempts, reconnectTimers, cooldownTimers, clientVars, logoutVars>>

Finish(c, result) ==
  /\ pc' = [pc EXCEPT ![c] = "finished"]
  /\ answer' = [answer EXCEPT ![c] = result]

\* client.initialize() resolves; the QR promise is awaited from now on.
Initialized(c) ==
  /\ pc[c] = "initializing"
  /\ EventLoop
  /\ \/ /\ qrPromise[c] \in {"shown", "hidden"}
        /\ Finish(c, "qr")
     \/ /\ qrPromise[c] = "pending"
        /\ pc' = [pc EXCEPT ![c] = "awaitingQr"]
        /\ UNCHANGED answer
  /\ UNCHANGED <<process, queueVars, victim, serviceVars, clientVars, logoutVars>>

\* client.initialize() rejects: status error, the QR timer stays armed.
InitializeFails(c) ==
  /\ pc[c] = "initializing"
  /\ EventLoop
  /\ clientStatus' = [clientStatus EXCEPT ![owner[c]] = "error"]
  /\ Finish(c, "failed")
  /\ UNCHANGED <<process, queueVars, victim, clients, reconnectAttempts, reconnectTimers,
                 cooldownTimers, lastRequested, clientVars, logoutVars>>

\* Mutant of QrTimeout: the timer goes with the listeners of the client.
QrTimeoutIfListening(c) ==
  /\ pc[c] = "awaitingQr" /\ qrPromise[c] = "pending" /\ c \in listening
  /\ EventLoop
  /\ qrPromise' = [qrPromise EXCEPT ![c] = "rejected"]
  /\ Finish(c, "failed")
  /\ UNCHANGED <<process, queueVars, victim, serviceVars,
                 phase, listening, readyOnce, logoutVars>>

\* The 60 s timer rejects the QR promise that startClient awaits.
QrTimeout(c) ==
  /\ pc[c] = "awaitingQr" /\ qrPromise[c] = "pending"
  /\ EventLoop
  /\ qrPromise' = [qrPromise EXCEPT ![c] = "rejected"]
  /\ Finish(c, "failed")
  /\ UNCHANGED <<process, queueVars, victim, serviceVars,
                 phase, listening, readyOnce, logoutVars>>

-----------------------------------------------------------------------------
(* The events of a client that still has its listeners. *)

Emits(k) == k \in listening /\ phase[k] = "live" /\ EventLoop

\* Rejected now, the QR promise of the client would have no handler.
Unawaited(k) == qrPromise[k] = "pending" /\ pc[k] # "awaitingQr"

\* A once-listener rejects the QR promise, which startClient awaits.
RejectQr(k, result) ==
  \/ /\ qrPromise[k] = "pending"
     /\ qrPromise' = [qrPromise EXCEPT ![k] = "rejected"]
     /\ Finish(k, result)
  \/ /\ qrPromise[k] # "pending"
     /\ UNCHANGED <<qrPromise, pc, answer>>

\* 'qr': shown unless the cooldown of the user runs; the first one resolves the
\* QR promise.
Qr(k) ==
  LET u == owner[k] IN
  /\ Emits(k)
  /\ cooldownTimers' = cooldownTimers \cup {u}
  /\ qrPromise' = [qrPromise EXCEPT ![k] =
       IF @ # "pending" THEN @ ELSE IF u \in cooldownTimers THEN "hidden" ELSE "shown"]
  /\ IF pc[k] = "awaitingQr" THEN Finish(k, "qr") ELSE UNCHANGED <<pc, answer>>
  /\ UNCHANGED <<process, queueVars, victim, clients, clientStatus, reconnectAttempts,
                 reconnectTimers, lastRequested, phase, listening, readyOnce, logoutVars>>

\* QR_COOLDOWN has passed.
CooldownExpires(u) ==
  /\ u \in cooldownTimers
  /\ EventLoop
  /\ cooldownTimers' = cooldownTimers \ {u}
  /\ UNCHANGED <<process, callVars, clients, clientStatus, reconnectAttempts,
                 reconnectTimers, lastRequested, clientVars, logoutVars>>

\* 'ready': the permanent listener sets 'ready', then, the first time, the
\* once-listener of startClient sets 'authenticated'.
ClientReady(k) ==
  LET u == owner[k] IN
  /\ Emits(k) /\ ~Unawaited(k)
  /\ clientStatus' =
       [clientStatus EXCEPT ![u] = IF k \in readyOnce THEN "authenticated" ELSE "ready"]
  /\ reconnectAttempts' = [reconnectAttempts EXCEPT ![u] = 0]
  /\ readyOnce' = readyOnce \ {k}
  /\ RejectQr(k, "authenticated")
  /\ UNCHANGED <<process, queueVars, victim, clients, reconnectTimers, cooldownTimers,
                 lastRequested, phase, listening, logoutVars>>

\* 'authenticated'
Authenticated(k) ==
  LET u == owner[k] IN
  /\ Emits(k)
  /\ clientStatus' = [clientStatus EXCEPT ![u] = "authenticated"]
  /\ reconnectAttempts' = [reconnectAttempts EXCEPT ![u] = 0]
  /\ UNCHANGED <<process, callVars, clients, reconnectTimers, cooldownTimers,
                 lastRequested, clientVars, logoutVars>>

\* Mutant of HandleReconnect: the last attempt sets no timer.
HandleReconnectOneLess(u) ==
  LET attempts == reconnectAttempts[u] + 1 IN
  /\ attempts <= MaxReconnectAttempts + 1 /\ reconnectTimers[u] < MaxTimers
  /\ reconnectAttempts' = [reconnectAttempts EXCEPT ![u] = attempts]
  /\ reconnectTimers' =
       [reconnectTimers EXCEPT ![u] = IF attempts < MaxReconnectAttempts THEN @ + 1 ELSE @]

\* handleReconnect: one more attempt, and a timer unless there were too many.
\* Bounds: one attempt past the maximum is counted, MaxTimers timers are set.
HandleReconnect(u) ==
  LET attempts == reconnectAttempts[u] + 1 IN
  /\ attempts <= MaxReconnectAttempts + 1 /\ reconnectTimers[u] < MaxTimers
  /\ reconnectAttempts' = [reconnectAttempts EXCEPT ![u] = attempts]
  /\ reconnectTimers' =
       [reconnectTimers EXCEPT ![u] = IF attempts <= MaxReconnectAttempts THEN @ + 1 ELSE @]

\* 'auth_failure'
AuthFailure(k) ==
  LET u == owner[k] IN
  /\ Emits(k) /\ ~Unawaited(k)
  /\ clientStatus' = [clientStatus EXCEPT ![u] = "error"]
  /\ HandleReconnect(u)
  /\ RejectQr(k, "failed")
  /\ UNCHANGED <<process, queueVars, victim, clients, cooldownTimers, lastRequested,
                 phase, listening, readyOnce, logoutVars>>

\* 'disconnected'
Disconnected(k) ==
  LET u == owner[k] IN
  /\ Emits(k)
  /\ clientStatus' = [clientStatus EXCEPT ![u] = "disconnected"]
  /\ HandleReconnect(u)
  /\ UNCHANGED <<process, callVars, clients, cooldownTimers, lastRequested,
                 clientVars, logoutVars>>

-----------------------------------------------------------------------------
(* logOutAllSession does not go through queueOperation. *)

\* Mutant of LogOutAll: only the permanent listeners are removed.
LogOutAllKeepingOnce ==
  LET all == {clients[u] : u \in {v \in Users : Registered(v)}} IN
  /\ ~clearPending /\ all # {} /\ EventLoop
  /\ loggingOut' = all
  /\ clearPending' = TRUE
  /\ listening' = listening \ all
  /\ UNCHANGED <<process, callVars, serviceVars, phase, readyOnce, qrPromise>>

\* Every registered client loses its listeners and is told to log out.
\* Bound: one logOutAllSession at a time, and only with clients to log out.
LogOutAll ==
  LET all == {clients[u] : u \in {v \in Users : Registered(v)}} IN
  /\ ~clearPending /\ all # {} /\ EventLoop
  /\ loggingOut' = all
  /\ clearPending' = TRUE
  /\ listening' = listening \ all
  /\ readyOnce' = readyOnce \ all
  /\ UNCHANGED <<process, callVars, serviceVars, phase, qrPromise>>

\* Mutant of LoggedOut: the entry is left to clients.clear().
LoggedOutStillRegistered(k) ==
  /\ k \in loggingOut
  /\ EventLoop
  /\ loggingOut' = loggingOut \ {k}
  /\ phase' = [phase EXCEPT ![k] = "destroyed"]
  /\ UNCHANGED <<process, callVars, serviceVars, listening, readyOnce, qrPromise,
                 clearPending>>

\* client.logout() and client.destroy() are over, the entry of the user goes.
LoggedOut(k) ==
  /\ k \in loggingOut
  /\ EventLoop
  /\ loggingOut' = loggingOut \ {k}
  /\ phase' = [phase EXCEPT ![k] = "destroyed"]
  /\ clients' = [clients EXCEPT ![owner[k]] = NoCall]
  /\ UNCHANGED <<process, callVars, clientStatus, reconnectAttempts, reconnectTimers,
                 cooldownTimers, lastRequested, listening, readyOnce, qrPromise,
                 clearPending>>

\* After Promise.allSettled: clients.clear().
ClearClients ==
  /\ process = "up"
  /\ clearPending /\ loggingOut = {}
  /\ clients' = [u \in Users |-> NoCall]
  /\ clearPending' = FALSE
  /\ UNCHANGED <<process, callVars, clientStatus, reconnectAttempts, reconnectTimers,
                 cooldownTimers, lastRequested, clientVars, loggingOut>>

-----------------------------------------------------------------------------
(* The process. *)

\* The memory of the process is lost.
Lose(how) ==
  /\ process' = how
  /\ processingQueue' = [u \in Users |-> NoCall]
  /\ kind'    = [c \in Calls |-> "start"]
  /\ owner'   = [c \in Calls |-> NoUser]
  /\ awaited' = [c \in Calls |-> NoCall]
  /\ parent'  = [c \in Calls |-> NoCall]
  /\ arrivals' = 0
  /\ pc'      = [c \in Calls |-> "idle"]
  /\ victim'  = [c \in Calls |-> NoCall]
  /\ answer'  = [c \in Calls |-> "none"]
  /\ clients' = [u \in Users |-> NoCall]
  /\ clientStatus' = [u \in Users |-> "absent"]
  /\ reconnectAttempts' = [u \in Users |-> 0]
  /\ reconnectTimers'   = [u \in Users |-> 0]
  /\ cooldownTimers' = {} /\ lastRequested' = {}
  /\ phase' = [c \in Calls |-> "unused"]
  /\ qrPromise' = [c \in Calls |-> "none"]
  /\ listening' = {} /\ readyOnce' = {} 
  /\ loggingOut' = {} /\ clearPending' = FALSE

\* The QR promise is rejected (its timer, 'ready' or 'auth_failure') while
\* startClient does not await it: Node ends a process on a rejection that
\* nothing handles, and the repository installs no handler.
UnhandledRejection ==
  /\ EventLoop
  /\ \E c \in Calls : Unawaited(c)
  /\ Lose("crashed")

\* The operator stops the process; onModuleDestroy closes no client.
Stop == process = "up" /\ Lose("stopped")

Restart == process # "up" /\ Lose("up")

Request ==
  \E u \in Users :
    \/ RequestStart(u)
    \/ RequestReset(u)
    \/ ReconnectFires(u)
    \/ HealthCheck(u)

Operation(c) ==
  \/ Resume(c) \/ CallNested(c) \/ Settle(c)
  \/ Destroyed(c) \/ Scrubbed(c) \/ CreateClient(c) \/ ReadyToRestart(c)
  \/ Initialized(c) \/ InitializeFails(c) \/ QrTimeout(c)

ClientEvent(k) ==
  Qr(k) \/ ClientReady(k) \/ Authenticated(k) \/ AuthFailure(k) \/ Disconnected(k)

Next ==
  \/ Request
  \/ \E c \in Calls : Operation(c) \/ ClientEvent(c)
  \/ \E u \in Users : ThrottleExpires(u) \/ CooldownExpires(u)
  \/ LogOutAll \/ (\E k \in Calls : LoggedOut(k)) \/ ClearClients
  \/ UnhandledRejection \/ Stop \/ Restart

Spec == Init /\ [][Next]_vars

\* Microtasks run; logout, destroy, file removal and initialize() end one way or
\* the other; an armed timer fires.
Fairness ==
  /\ \A c \in Calls :
       /\ WF_vars(Resume(c)) /\ WF_vars(Settle(c))
       /\ WF_vars(CallNested(c))
       /\ WF_vars(Destroyed(c)) /\ WF_vars(Scrubbed(c))
       /\ WF_vars(CreateClient(c)) /\ WF_vars(ReadyToRestart(c))
       /\ WF_vars(Initialized(c) \/ InitializeFails(c))
       /\ WF_vars(QrTimeout(c))
       /\ WF_vars(LoggedOut(c))
  /\ WF_vars(ClearClients)

FairSpec == Spec /\ Fairness

-----------------------------------------------------------------------------
(* Properties. *)

\* The calls follow queueOperation: a call whose operation has begun and not
\* settled is running there.
StageOf(place) == IF place \in {"idle", "waiting", "settled"} THEN place ELSE "running"

Queue == INSTANCE OperationQueue WITH
  stage  <- [c \in Calls |-> StageOf(pc[c])],
  ticket <- [c \in Calls |-> IF pc[c] = "idle" THEN 0 ELSE c - 1]

\* The service, with its timers, events and crashes, implements the queue: what
\* is proved of OperationQueue holds of it.
ImplementsQueue == Queue!Spec

\* The variables have their types, and what names a client names one that exists.
TypeOK ==
  /\ process \in {"up", "stopped", "crashed"}
  /\ Queue!TypeOK
  /\ pc \in [Calls -> Places]
  /\ victim \in [Calls -> Calls \cup {NoCall}]
  /\ answer \in [Calls -> Answers]
  /\ clients \in [Users -> Calls \cup {NoCall}]
  /\ clientStatus \in [Users -> Statuses]
  /\ reconnectAttempts \in [Users -> 0..(MaxReconnectAttempts + 1)]
  /\ reconnectTimers \in [Users -> 0..MaxTimers]
  /\ cooldownTimers \subseteq Users /\ lastRequested \subseteq Users
  /\ phase \in [Calls -> {"unused", "live", "destroyed"}]
  /\ qrPromise \in [Calls -> Promises]
  /\ listening \subseteq Calls /\ readyOnce \subseteq listening
  /\ loggingOut \subseteq Calls
  /\ clearPending \in BOOLEAN
  /\ \A u \in Users : Registered(u) => owner[clients[u]] = u

\* A registered client is alive, and deaf only while an operation or
\* logOutAllSession is about to destroy it: no user is left with a client whose
\* events nobody hears.
RegisteredClientIsSound ==
  \A u \in Users : Registered(u) =>
    LET k == clients[u] IN
    /\ phase[k] = "live"
    /\ k \in listening \/ k \in loggingOut
         \/ \E c \in Calls : pc[c] = "destroying" /\ victim[c] = k

\* A reset that has not got its user a new client, or found it connected, yet.
Recovering(c) ==
  /\ kind[c] = "reset" /\ pc[c] \notin {"idle", "settled"}
  /\ \A d \in Nested(c) : pc[d] \in {"waiting", "destroying", "scrubbing", "cleaning"}

\* A timer or a reset that is not through is on its way to the user.
Followed(u) ==
  reconnectTimers[u] > 0 \/ \E c \in Calls : owner[c] = u /\ Recovering(c)

\* Line 188 sets a timer up to the maximum of attempts, line 146 stops the health
\* check at it: a user in a bad state at exactly the maximum, whom the check passes
\* over, has a timer or a reset that is not through, as long as no reset of the
\* user awaits itself.  One that does stops the queue of the user for good, and the
\* user IS forgotten (OperationQueue!SelfAwaitNeverResolves); otherwise the reset
\* goes on (OperationQueue!CallsAnsweredUnlessSelfAwaited).
PassedOverIsRecovering ==
  \A u \in Users :
    /\ clientStatus[u] \in BadStatuses
    /\ reconnectAttempts[u] = MaxReconnectAttempts
    /\ ~Queue!SelfAwaited(u)
    => Followed(u)

\* destroyClient removes the entry by user id: it can only remove a client it
\* did not destroy when two operations of the user overlapped.
DestroysWhatIsRegistered ==
  \A c \in Calls : pc[c] = "destroying" =>
    clients[owner[c]] \in {victim[c], NoCall} \/ Queue!Shared(owner[c])

\* Every startClient of a process in which no reset is asked for is answered,
\* whatever the clients do.
StartsAnswered ==
  \A c \in Calls :
    pc[c] # "idle"
      ~> (pc[c] \in {"settled", "idle"} \/ \E r \in Calls : kind[r] = "reset")

-----------------------------------------------------------------------------
(* The strengthening that makes the safety properties inductive. *)

\* Calls are numbered as they arrive, and one that was not made has no attributes.
CallsAreNumbered ==
  /\ arrivals <= MaxCalls
  /\ \A c \in Calls :
       /\ pc[c] = "idle" <=> c > arrivals
       /\ c > arrivals => /\ kind[c] = "start" /\ owner[c] = NoUser
                         /\ awaited[c] = NoCall /\ parent[c] = NoCall

\* The bound on calls leaves every reset the call of startClient it has to make.
RoomIsKept == arrivals + Cardinality(Owed) <= MaxCalls

\* Where a call is fits what it is: who waits awaits a call, only startClient
\* gets to a client and only a reset to its nested call, which is a call of the
\* same user; destroyClient has captured a client of its user.
PlaceFits(c) ==
  /\ pc[c] = "waiting" => awaited[c] \in Calls
  /\ pc[c] \in {"initializing", "awaitingQr", "finished"} => kind[c] = "start"
  /\ pc[c] = "restarting" => kind[c] = "reset"
  /\ pc[c] = "destroying" => victim[c] \in Calls /\ owner[victim[c]] = owner[c]
  /\ parent[c] # NoCall =>
       LET p == parent[c] IN
       /\ kind[c] = "start"
       /\ kind[p] = "reset" /\ owner[p] = owner[c] /\ pc[p] \in {"restarting", "settled"}

PlacesFit == \A c \in Calls : PlaceFits(c)

\* What is alive or being logged out was created by a call that was made.
ClientsWereCreated ==
  \A k \in Calls : phase[k] = "live" \/ k \in loggingOut => k <= arrivals

\* While attempts are counted, and until they are exhausted, something is on its
\* way to the user; a user whose client is connected has none.
AttemptsFit(u) ==
  /\ reconnectAttempts[u] \in 1..MaxReconnectAttempts => Followed(u)
  /\ clientStatus[u] \in {"ready", "authenticated"} => reconnectAttempts[u] = 0

AttemptsAreFollowed == \A u \in Users : AttemptsFit(u)

\* The inductive invariant of the service: its types, the facts above and the
\* soundness of the registered clients.
IInv ==
  /\ TypeOK
  /\ CallsAreNumbered
  /\ RoomIsKept
  /\ PlacesFit
  /\ ClientsWereCreated
  /\ RegisteredClientIsSound
  /\ AttemptsAreFollowed

-----------------------------------------------------------------------------
(* What the comments of the code say, and the code does not do. *)

\* "Set a timeout in case QR event never fires" (line 272), to answer
\* { success: false }: the timer does not take the process down.
NoUnhandledRejection == process # "crashed"
=============================================================================
