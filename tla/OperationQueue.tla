--------------------------- MODULE OperationQueue ---------------------------
(***************************************************************************)
(* WhatsappService.queueOperation: the map processingQueue from a user to  *)
(* the promise of the operation that was stored last, and the calls that   *)
(* wait on it.  A call that finds a promise in the map awaits it ONCE and  *)
(* then runs without looking at the map again; its own promise replaces    *)
(* the entry.  An operation of kind "reset" (resetAndRestartClient) calls  *)
(* startClient, and through it queueOperation, from inside its own body.   *)
(*                                                                         *)
(* Node runs every reaction of a settled promise before it takes the next  *)
(* callback from the event loop, in the order in which the awaits were     *)
(* registered.  So while a call is Ready no other code of the process      *)
(* runs, and the calls that await the same promise resume in arrival       *)
(* order.                                                                  *)
(***************************************************************************)
EXTENDS Naturals

CONSTANTS
  Users,    \* user ids, the keys of processingQueue
  Calls,    \* invocations of queueOperation in the life of a process
  NoUser,   \* owner of a call that was not made
  NoCall    \* no entry in the map, no promise awaited, no calling operation

ASSUME NullAssumption == NoUser \notin Users /\ NoCall \notin Calls

VARIABLES
  processingQueue,  \* [Users -> Calls \cup {NoCall}], the map of the service
  stage,            \* [Calls -> Stages], progress of each call
  kind,             \* [Calls -> Kinds], which method made the call
  owner,            \* [Calls -> Users \cup {NoUser}], argument userId
  awaited,          \* [Calls -> Calls \cup {NoCall}], existingOperation
  parent,           \* [Calls -> Calls \cup {NoCall}], the operation that made the call
  ticket,           \* [Calls -> Nat], position in the order of arrival
  arrivals          \* number of calls made so far

vars == <<processingQueue, stage, kind, owner, awaited, parent, ticket, arrivals>>
callVars == <<kind, owner, parent, ticket, arrivals>>

Stages == {"idle", "waiting", "running", "settled"}
Kinds  == {"start", "reset"}

Init ==
  /\ processingQueue = [u \in Users |-> NoCall]
  /\ stage    = [c \in Calls |-> "idle"]
  /\ kind     = [c \in Calls |-> "start"]
  /\ owner    = [c \in Calls |-> NoUser]
  /\ awaited  = [c \in Calls |-> NoCall]
  /\ parent   = [c \in Calls |-> NoCall]
  /\ ticket   = [c \in Calls |-> 0]
  /\ arrivals = 0

-----------------------------------------------------------------------------
\* The awaited promise has settled and the continuation is a pending microtask.
Ready(c) == stage[c] = "waiting" /\ stage[awaited[c]] = "settled"

\* No microtask is pending: the event loop may take another callback.
Quiescent == \A c \in Calls : ~Ready(c)

\* Mutant of Begin: the new promise is not stored.
BeginUnstored(c, u) ==
  /\ stage' = [stage EXCEPT ![c] = "running"]
  /\ UNCHANGED processingQueue

\* `operation()` up to its first await, then processingQueue.set.
Begin(c, u) ==
  /\ stage' = [stage EXCEPT ![c] = "running"]
  /\ processingQueue' = [processingQueue EXCEPT ![u] = c]

\* The arguments of the call and the place it takes in the order of arrival.
Register(c, u, k, p) ==
  /\ stage[c] = "idle"
  /\ kind'     = [kind   EXCEPT ![c] = k]
  /\ owner'    = [owner  EXCEPT ![c] = u]
  /\ parent'   = [parent EXCEPT ![c] = p]
  /\ ticket'   = [ticket EXCEPT ![c] = arrivals]
  /\ arrivals' = arrivals + 1

\* Mutant of Enter: a waiting call stores its promise before it awaits.
EnterChained(c, u, k, p) ==
  /\ Register(c, u, k, p)
  /\ processingQueue' = [processingQueue EXCEPT ![u] = c]
  /\ \/ /\ processingQueue[u] = NoCall
        /\ stage' = [stage EXCEPT ![c] = "running"]
        /\ UNCHANGED awaited
     \/ /\ processingQueue[u] # NoCall
        /\ stage'   = [stage EXCEPT ![c] = "waiting"]
        /\ awaited' = [awaited EXCEPT ![c] = processingQueue[u]]

\* The synchronous part of queueOperation, up to its await.
Enter(c, u, k, p) ==
  /\ Register(c, u, k, p)
  /\ \/ /\ processingQueue[u] = NoCall
        /\ Begin(c, u)
        /\ UNCHANGED awaited
     \/ /\ processingQueue[u] # NoCall
        /\ stage'   = [stage EXCEPT ![c] = "waiting"]
        /\ awaited' = [awaited EXCEPT ![c] = processingQueue[u]]
        /\ UNCHANGED processingQueue

\* A request, a reconnection timer or the health check calls the service.
Invoke(c, u, k) == Quiescent /\ Enter(c, u, k, NoCall)

\* Mutant of InvokeNested: the operation releases its entry before it calls.
InvokeNestedReleased(p, c) ==
  /\ Quiescent
  /\ stage[p] = "running" /\ kind[p] = "reset"
  /\ \A d \in Calls : parent[d] # p
  /\ Register(c, owner[p], "start", p)
  /\ Begin(c, owner[p])
  /\ UNCHANGED awaited

\* resetAndRestartClient awaits startClient of the same user from its body.
InvokeNested(p, c) ==
  /\ Quiescent
  /\ stage[p] = "running" /\ kind[p] = "reset"
  /\ \A d \in Calls : parent[d] # p
  /\ Enter(c, owner[p], "start", p)

\* Mutant of Resume: the waiters of a promise resume in any order.
ResumeUnordered(c) ==
  /\ Ready(c)
  /\ Begin(c, owner[c])
  /\ UNCHANGED <<awaited, callVars>>

\* Mutant of Resume: a waiter whose entry is gone is dropped.
ResumeIfEntry(c) ==
  /\ Ready(c)
  /\ processingQueue[owner[c]] = awaited[c]
  /\ Begin(c, owner[c])
  /\ UNCHANGED <<awaited, callVars>>

\* The await returns (or throws into the empty catch) and the operation runs.
Resume(c) ==
  /\ Ready(c)
  /\ \A d \in Calls : Ready(d) /\ awaited[d] = awaited[c] => ticket[c] <= ticket[d]
  /\ Begin(c, owner[c])
  /\ UNCHANGED <<awaited, callVars>>

\* Mutant of MayFinish: the reset does not await the nested call.
MayFinishEarly(c) == c \in Calls

\* An operation that awaits a nested call has not finished before that call
\* has.  One that fails before the nested call finishes without it.
MayFinish(c) == \A d \in Calls : parent[d] = c => stage[d] = "settled"

\* Mutant of Settle: `finally` deletes the entry whoever stored it.
SettleAnyEntry(c) ==
  /\ Quiescent
  /\ stage[c] = "running" /\ MayFinish(c)
  /\ stage' = [stage EXCEPT ![c] = "settled"]
  /\ processingQueue' = [processingQueue EXCEPT ![owner[c]] = NoCall]
  /\ UNCHANGED <<awaited, callVars>>

\* operation() fulfils or rejects and `finally` removes the entry if it is its own.
Settle(c) ==
  /\ Quiescent
  /\ stage[c] = "running" /\ MayFinish(c)
  /\ stage' = [stage EXCEPT ![c] = "settled"]
  /\ processingQueue' =
       [processingQueue EXCEPT ![owner[c]] = IF @ = c THEN NoCall ELSE @]
  /\ UNCHANGED <<awaited, callVars>>

\* The process stops and is started again: the map and every call are lost.
ProcessExit ==
  /\ processingQueue' = [u \in Users |-> NoCall]
  /\ stage'    = [c \in Calls |-> "idle"]
  /\ kind'     = [c \in Calls |-> "start"]
  /\ owner'    = [c \in Calls |-> NoUser]
  /\ awaited'  = [c \in Calls |-> NoCall]
  /\ parent'   = [c \in Calls |-> NoCall]
  /\ ticket'   = [c \in Calls |-> 0]
  /\ arrivals' = 0

Next ==
  \/ \E c \in Calls, u \in Users, k \in Kinds : Invoke(c, u, k)
  \/ \E p, c \in Calls : InvokeNested(p, c)
  \/ \E c \in Calls : Resume(c)
  \/ \E c \in Calls : Settle(c)
  \/ ProcessExit

Spec == Init /\ [][Next]_vars

\* Promise reactions always run; an operation that can finish does (its I/O
\* completes and the QR wait has a timeout); a reset goes on to its nested call.
Fairness ==
  \A c \in Calls :
    /\ WF_vars(Resume(c))
    /\ WF_vars(Settle(c))
    /\ WF_vars(\E d \in Calls : InvokeNested(c, d))

FairSpec == Spec /\ Fairness

-----------------------------------------------------------------------------
Nullable(S, null) == S \cup {null}

Made(c) == stage[c] # "idle"
RunningFor(u) == {c \in Calls : owner[c] = u /\ stage[c] = "running"}

\* Two calls of the user have awaited the same promise.
Shared(u) ==
  \E c, d \in Calls :
    /\ c # d
    /\ owner[c] = u /\ owner[d] = u
    /\ awaited[c] # NoCall /\ awaited[c] = awaited[d]

\* The variables have their types, and a call that was made names its user.
TypeOK ==
  /\ processingQueue \in [Users -> Nullable(Calls, NoCall)]
  /\ stage    \in [Calls -> Stages]
  /\ kind     \in [Calls -> Kinds]
  /\ owner    \in [Calls -> Nullable(Users, NoUser)]
  /\ awaited  \in [Calls -> Nullable(Calls, NoCall)]
  /\ parent   \in [Calls -> Nullable(Calls, NoCall)]
  /\ ticket   \in [Calls -> Nat]
  /\ arrivals \in Nat
  /\ \A c \in Calls : Made(c) => owner[c] \in Users

\* No wakeup is lost: what a waiting call awaits is the entry of its user, so
\* still running, or has settled.  In particular no call waits for a call that
\* itself only waits, although waiters overwrite the entry without looking.
WaitersAwaitTheEntry ==
  \A c \in Calls : stage[c] = "waiting" =>
    \/ stage[awaited[c]] = "settled"
    \/ awaited[c] = processingQueue[owner[c]] /\ stage[awaited[c]] = "running"

\* First come, first served: an operation of a user begins only after every
\* operation of the user that was requested before it has begun.
BeginsInArrivalOrder ==
  \A c, d \in Calls :
    /\ stage[c] = "waiting"
    /\ owner[d] = owner[c] /\ ticket[c] < ticket[d]
    => stage[d] = "waiting"

\* What the queue does guarantee of "sequential processing of requests per
\* client": as long as no two calls of the user ever awaited the same promise,
\* the only operation of the user that runs is the entry of the map.
SequentialUnlessShared ==
  \A u \in Users : ~Shared(u) => RunningFor(u) \subseteq {processingQueue[u]}

\* A nested call that awaits the very operation that made it leaves both
\* unfinished: the nested call waits and the operation runs until the process
\* exits.
SelfAwaitNeverResolves ==
  \A c \in Calls :
    parent[c] # NoCall /\ awaited[c] = parent[c]
      => stage[c] = "waiting" /\ stage[parent[c]] = "running"

\* What a reset comes to when the queue works as intended (no promise of the
\* user awaited twice): the startClient it makes awaits the reset itself, so by
\* SelfAwaitNeverResolves neither of them ever finishes.
LoneResetAwaitsItself ==
  \A c \in Calls :
    parent[c] # NoCall /\ ~Shared(owner[c]) => awaited[c] = parent[c]

\* A reset of the user has made its call of startClient, which awaits the reset.
SelfAwaited(u) ==
  \E d \in Calls : owner[d] = u /\ parent[d] # NoCall /\ awaited[d] = parent[d]

\* Every call is answered, resets among them, unless a reset of its user awaits
\* itself: no other circle of waiting calls comes about, however their promises
\* are shared.
CallsAnsweredUnlessSelfAwaited ==
  \A c \in Calls :
    stage[c] \in {"waiting", "running"}
      ~> (stage[c] \in {"settled", "idle"} \/ SelfAwaited(owner[c]))

-----------------------------------------------------------------------------
(* The strengthening that makes the safety properties inductive. *)

\* The entry of a user is an operation of that user, and it runs.
EntryRuns ==
  \A u \in Users : processingQueue[u] # NoCall =>
    owner[processingQueue[u]] = u /\ stage[processingQueue[u]] = "running"

\* A call that was not made has no attributes, a call that waits awaits a call,
\* a nested call belongs to the user of the operation that made it.
CallShape ==
  \A c \in Calls :
    /\ stage[c] = "idle" => owner[c] = NoUser /\ awaited[c] = NoCall /\ parent[c] = NoCall
    /\ stage[c] = "waiting" => awaited[c] \in Calls
    /\ stage[c] # "idle" => ticket[c] < arrivals

\* All the waiting calls of a user await the same promise.
WaitersShareThePromise ==
  \A c, d \in Calls :
    stage[c] = "waiting" /\ stage[d] = "waiting" /\ owner[c] = owner[d]
      => awaited[c] = awaited[d]

\* When the promise of a waiter has settled the entry of its user is gone.
ReadyMeansNoEntry ==
  \A c \in Calls :
    Ready(c) /\ ~Shared(owner[c]) => processingQueue[owner[c]] = NoCall

\* The inductive invariant of the queue: the safety properties above and the
\* four facts they rest on (queueOperation, lines 213-237).
IInv ==
  /\ TypeOK
  /\ EntryRuns
  /\ CallShape
  /\ WaitersShareThePromise
  /\ ReadyMeansNoEntry
  /\ WaitersAwaitTheEntry
  /\ BeginsInArrivalOrder
  /\ SequentialUnlessShared
  /\ SelfAwaitNeverResolves
=============================================================================
