------------------------ MODULE WhatsappService_proofs ------------------------
(***************************************************************************)
(* The safety properties of WhatsappService, and that it implements        *)
(* OperationQueue, for any users, calls, attempts and timers.              *)
(***************************************************************************)
EXTENDS WhatsappService, FiniteSetTheorems, TLAPS

\* The vocabulary of the queue the service implements, spelled out.
LEMMA QueueTypes ==
  Queue!TypeOK <=>
    /\ processingQueue \in [Users -> Calls \cup {NoCall}]
    /\ kind     \in [Calls -> {"start", "reset"}]
    /\ owner    \in [Calls -> Users \cup {NoUser}]
    /\ awaited  \in [Calls -> Calls \cup {NoCall}]
    /\ parent   \in [Calls -> Calls \cup {NoCall}]
    /\ arrivals \in Nat
    /\ \A c \in Calls : StageOf(pc[c]) # "idle" => owner[c] \in Users
<1>1. [c \in Calls |-> StageOf(pc[c])] \in [Calls -> {"idle", "waiting", "running", "settled"}]
  BY DEF StageOf
<1>2. [c \in Calls |-> IF pc[c] = "idle" THEN 0 ELSE c - 1] \in [Calls -> Nat]
  BY BoundAssumption DEF Calls
<1>3. QED
  BY <1>1, <1>2 DEF Queue!TypeOK, Queue!Nullable, Queue!Made, Queue!Stages, Queue!Kinds

LEMMA QueueTypesAfter == QueueTypes' 
  BY QueueTypes, PTL

-----------------------------------------------------------------------------
(* Types. *)

\* The operation of a call that begins.
LEMMA BeginTypes ==
  ASSUME TypeOK, NEW c \in Calls, NEW u \in Users, NEW k \in {"start", "reset"}, Begin(c, u, k)
  PROVE  /\ processingQueue' \in [Users -> Calls \cup {NoCall}]
         /\ pc' \in [Calls -> Places]
         /\ \A d \in Calls : d # c => pc'[d] = pc[d]
         /\ pc'[c] \in {"destroying", "cleaning", "finished"}
         /\ victim' \in [Calls -> Calls \cup {NoCall}]
         /\ answer' \in [Calls -> Answers]
         /\ listening' \subseteq Calls /\ readyOnce' \subseteq listening'
  BY QueueTypes DEF Begin, TypeOK, Places, Bodies, Answers, MustDestroy, AlreadyThere, Registered

\* A call that enters queueOperation: what it does to the variables of the calls.
LEMMA EnterTypes ==
  ASSUME TypeOK, CallsAreNumbered,
         NEW c \in Calls, NEW u \in Users, NEW k \in {"start", "reset"},
         NEW p \in Calls \cup {NoCall}, Enter(c, u, k, p),
         clientStatus' \in [Users -> Statuses],
         reconnectAttempts' \in [Users -> 0..(MaxReconnectAttempts + 1)],
         reconnectTimers' \in [Users -> 0..MaxTimers],
         cooldownTimers' \subseteq Users, lastRequested' \subseteq Users,
         clients' = clients
  PROVE  TypeOK'
<1>1. c = arrivals + 1 /\ c > arrivals /\ arrivals \in Nat
  BY QueueTypes DEF Enter, NewCall, TypeOK
<1>2. pc[c] = "idle" /\ owner[c] = NoUser
  BY <1>1 DEF CallsAreNumbered
<1>3. /\ processingQueue' \in [Users -> Calls \cup {NoCall}]
      /\ pc' \in [Calls -> Places]
      /\ \A d \in Calls : d # c => pc'[d] = pc[d]
      /\ victim' \in [Calls -> Calls \cup {NoCall}]
      /\ answer' \in [Calls -> Answers]
      /\ listening' \subseteq Calls /\ readyOnce' \subseteq listening'
      /\ awaited' \in [Calls -> Calls \cup {NoCall}]
  <2>1. CASE processingQueue[u] = NoCall
    BY <2>1, BeginTypes, QueueTypes DEF Enter, TypeOK
  <2>2. CASE processingQueue[u] # NoCall
    BY <2>2, QueueTypes DEF Enter, TypeOK, Places
  <2>3. QED
    BY <2>1, <2>2
<1>4. /\ kind' \in [Calls -> {"start", "reset"}]
      /\ owner' \in [Calls -> Users \cup {NoUser}]
      /\ parent' \in [Calls -> Calls \cup {NoCall}]
      /\ arrivals' \in Nat
      /\ owner'[c] = u /\ \A d \in Calls : d # c => owner'[d] = owner[d]
  BY <1>1, QueueTypes DEF Enter, TypeOK
<1>5. \A d \in Calls : StageOf(pc'[d]) # "idle" => owner'[d] \in Users
  BY <1>3, <1>4, QueueTypes DEF TypeOK
<1>6. Queue!TypeOK'
  BY <1>3, <1>4, <1>5, QueueTypesAfter
<1>7. \A v \in Users : Registered(v)' => owner'[clients'[v]] = v
  BY <1>2, <1>4, NullAssumption DEF Registered, TypeOK
<1>8. QED
  BY <1>3, <1>6, <1>7 DEF Enter, TypeOK, logoutVars

\* A step that leaves the calls where they are, and their users, keeps the types
\* of the queue.
LEMMA QueueTypesKept ==
  ASSUME TypeOK, UNCHANGED queueVars,
         NEW c \in Calls, NEW x \in Places, pc[c] # "idle" \/ x = "idle",
         pc' = [pc EXCEPT ![c] = x] \/ pc' = pc
  PROVE  Queue!TypeOK' /\ pc' \in [Calls -> Places]
<1>1. pc' \in [Calls -> Places] /\ \A d \in Calls : pc'[d] # "idle" => pc[d] # "idle"
  BY DEF TypeOK
<1>2. \A d \in Calls : StageOf(pc'[d]) # "idle" => StageOf(pc[d]) # "idle"
  BY <1>1 DEF StageOf
<1>3. QED
  BY <1>1, <1>2, QueueTypes, QueueTypesAfter DEF queueVars, TypeOK

\* The initial values have their types ...
LEMMA InitialTypes == Init => TypeOK
<1> SUFFICES ASSUME Init PROVE TypeOK
  OBVIOUS
<1>1. Queue!TypeOK
  BY QueueTypes DEF Init, StageOf
<1>2. /\ reconnectAttempts \in [Users -> 0..(MaxReconnectAttempts + 1)]
      /\ reconnectTimers \in [Users -> 0..MaxTimers]
  BY BoundAssumption DEF Init
<1>3. pc \in [Calls -> Places] /\ qrPromise \in [Calls -> Promises]
  BY DEF Init, Places, Promises
<1>4. answer \in [Calls -> Answers] /\ clientStatus \in [Users -> Statuses]
  BY DEF Init, Answers, Statuses
<1>5. QED
  BY <1>1, <1>2, <1>3, <1>4 DEF Init, TypeOK, Registered

\* ... and they are those of a process that has lost its memory.
LEMMA LostTypes ==
  ASSUME NEW how \in {"up", "stopped", "crashed"}, Lose(how)
  PROVE  TypeOK'
<1>1. Queue!TypeOK'
  BY QueueTypesAfter DEF Lose, StageOf
<1>2. /\ reconnectAttempts' \in [Users -> 0..(MaxReconnectAttempts + 1)]
      /\ reconnectTimers' \in [Users -> 0..MaxTimers]
  BY BoundAssumption DEF Lose
<1>3. pc' \in [Calls -> Places] /\ qrPromise' \in [Calls -> Promises]
  BY DEF Lose, Places, Promises
<1>4. answer' \in [Calls -> Answers] /\ clientStatus' \in [Users -> Statuses]
  BY DEF Lose, Answers, Statuses
<1>5. QED
  BY <1>1, <1>2, <1>3, <1>4 DEF Lose, TypeOK, Registered

\* Nobody makes a call there is no number for.
LEMMA RoomForOne ==
  ASSUME TypeOK, NEW k \in {"start", "reset"}, RoomFor(k)
  PROVE  NewCall \in Calls
<1>1. IsFiniteSet(Calls)
  BY BoundAssumption, FS_Interval DEF Calls
<1>2. Owed \in SUBSET Calls
  BY DEF Owed
<1>3. Cardinality(Owed) \in Nat
  BY <1>1, <1>2, FS_Subset, FS_CardinalityType
<1>4. QED
  BY <1>3, BoundAssumption, QueueTypes DEF RoomFor, NewCall, Calls, TypeOK

\* ... and the call of startClient a reset owes has one, too.
LEMMA RoomForNested ==
  ASSUME TypeOK, RoomIsKept, NEW p \in Calls, kind[p] = "reset", Nested(p) = {}
  PROVE  NewCall \in Calls
<1>1. IsFiniteSet(Calls)
  BY BoundAssumption, FS_Interval DEF Calls
<1>2. Owed \in SUBSET Calls /\ p \in Owed
  BY DEF Owed
<1>3. IsFiniteSet(Owed)
  BY <1>1, <1>2, FS_Subset
<1>4. Cardinality(Owed) \in Nat /\ Cardinality(Owed) # 0
  BY <1>2, <1>3, FS_CardinalityType, FS_EmptySet
<1>5. QED
  BY <1>4, BoundAssumption, QueueTypes DEF RoomIsKept, NewCall, Calls, TypeOK

\* The client an event comes from belongs to a user.
LEMMA OwnerOfLive ==
  ASSUME TypeOK, CallsAreNumbered, ClientsWereCreated, NEW k \in Calls,
         phase[k] = "live" \/ k \in loggingOut
  PROVE  owner[k] \in Users /\ pc[k] # "idle"
<1>1. k <= arrivals /\ arrivals \in Nat
  BY QueueTypes DEF ClientsWereCreated, TypeOK
<1>2. pc[k] # "idle"
  BY <1>1, BoundAssumption DEF CallsAreNumbered, Calls
<1>3. QED
  BY <1>2, QueueTypes DEF TypeOK, StageOf

\* A call that is in the body of its operation, or waits, belongs to a user.
LEMMA OwnerOfMade ==
  ASSUME TypeOK, NEW c \in Calls, pc[c] # "idle"
  PROVE  owner[c] \in Users
  BY QueueTypes DEF TypeOK, StageOf

\* No attempts is a number of attempts.
LEMMA AttemptsReset ==
  ASSUME TypeOK, NEW u \in Users, reconnectAttempts' = [reconnectAttempts EXCEPT ![u] = 0]
  PROVE  reconnectAttempts' \in [Users -> 0..(MaxReconnectAttempts + 1)]
<1>1. 0 \in 0..(MaxReconnectAttempts + 1)
  BY BoundAssumption
<1>2. QED
  BY <1>1 DEF TypeOK

\* Every step keeps the types of the variables.
LEMMA TypesKept ==
  ASSUME IInv, [Next]_vars
  PROVE  TypeOK'
<1> USE DEF IInv
<1> DEFINE QueueKept == UNCHANGED queueVars /\ pc' = pc
<1>a. ASSUME QueueKept PROVE Queue!TypeOK'
  BY <1>a, QueueTypes, QueueTypesAfter DEF queueVars, TypeOK
<1>b. ASSUME NEW c \in Calls, NEW x \in Places, pc[c] # "idle", UNCHANGED queueVars,
             pc' = [pc EXCEPT ![c] = x]
      PROVE  Queue!TypeOK' /\ pc' \in [Calls -> Places]
  BY <1>b, QueueTypesKept
<1>1. ASSUME NEW u \in Users, RequestStart(u) PROVE TypeOK'
  BY <1>1, RoomForOne, EnterTypes DEF RequestStart, TypeOK
<1>2. ASSUME NEW u \in Users, RequestReset(u) PROVE TypeOK'
  BY <1>2, RoomForOne, EnterTypes DEF RequestReset, TypeOK, serviceVars
<1>3. ASSUME NEW u \in Users, ReconnectFires(u) PROVE TypeOK'
  <2>1. reconnectTimers' \in [Users -> 0..MaxTimers]
    BY <1>3, BoundAssumption DEF ReconnectFires, TypeOK
  <2>2. QED
    BY <1>3, <2>1, RoomForOne, EnterTypes DEF ReconnectFires, TypeOK
<1>4. ASSUME NEW u \in Users, HealthCheck(u) PROVE TypeOK'
  BY <1>4, RoomForOne, EnterTypes DEF HealthCheck, TypeOK, serviceVars
<1>5. ASSUME NEW c \in Calls, Resume(c) PROVE TypeOK'
  <2>1. pc[c] = "waiting" /\ owner[c] \in Users /\ kind[c] \in {"start", "reset"}
    BY <1>5, OwnerOfMade, QueueTypes DEF Resume, Ready, TypeOK
  <2>2. /\ processingQueue' \in [Users -> Calls \cup {NoCall}]
        /\ pc' \in [Calls -> Places]
        /\ \A d \in Calls : d # c => pc'[d] = pc[d]
        /\ victim' \in [Calls -> Calls \cup {NoCall}]
        /\ answer' \in [Calls -> Answers]
        /\ listening' \subseteq Calls /\ readyOnce' \subseteq listening'
    BY <1>5, <2>1, BeginTypes DEF Resume
  <2>3. \A d \in Calls : StageOf(pc'[d]) # "idle" => owner[d] \in Users
    BY <2>1, <2>2, QueueTypes DEF TypeOK
  <2>4. Queue!TypeOK'
    BY <1>5, <2>2, <2>3, QueueTypes, QueueTypesAfter DEF Resume, TypeOK
  <2>5. QED
    BY <1>5, <2>2, <2>4 DEF Resume, TypeOK, serviceVars, logoutVars, Registered
<1>6. ASSUME NEW c \in Calls, CallNested(c) PROVE TypeOK'
  <2>1. NewCall \in Calls
    BY <1>6, RoomForNested DEF CallNested, AtNestedCall, PlacesFit, PlaceFits
  <2>2. owner[c] \in Users
    BY <1>6, OwnerOfMade DEF CallNested, AtNestedCall
  <2>3. QED
    BY <1>6, <2>1, <2>2, EnterTypes DEF CallNested, TypeOK, serviceVars
<1>7. ASSUME NEW c \in Calls, Settle(c) PROVE TypeOK'
  <2>1. pc[c] # "idle" /\ owner[c] \in Users
    BY <1>7, OwnerOfMade DEF Settle, BodyDone
  <2>2. /\ processingQueue' \in [Users -> Calls \cup {NoCall}]
        /\ pc' \in [Calls -> Places]
        /\ \A d \in Calls : StageOf(pc'[d]) # "idle" => StageOf(pc[d]) # "idle"
    BY <1>7, <2>1, QueueTypes DEF Settle, TypeOK, Places, StageOf
  <2>3. Queue!TypeOK'
    BY <1>7, <2>2, QueueTypes, QueueTypesAfter DEF Settle, TypeOK
  <2>4. answer' \in [Calls -> Answers] /\ qrPromise' \in [Calls -> Promises]
    BY <1>7 DEF Settle, TypeOK, Answers, Promises
  <2>5. QED
    BY <1>7, <2>2, <2>3, <2>4 DEF Settle, TypeOK, serviceVars, logoutVars, Registered
<1>8. ASSUME NEW c \in Calls, Destroyed(c) PROVE TypeOK'
  <2>1. victim[c] \in Calls /\ owner[c] \in Users
    BY <1>8, OwnerOfMade DEF Destroyed, PlacesFit, PlaceFits
  <2>2. Queue!TypeOK' /\ pc' \in [Calls -> Places]
    BY <1>8, <1>b DEF Destroyed, Places, Bodies
  <2>3. QED
    BY <1>8, <2>1, <2>2 DEF Destroyed, TypeOK, queueVars, logoutVars, Registered
<1>9. ASSUME NEW c \in Calls, Scrubbed(c) PROVE TypeOK'
  <2>1. Queue!TypeOK' /\ pc' \in [Calls -> Places]
    BY <1>9, <1>b DEF Scrubbed, Places, Bodies
  <2>2. QED
    BY <1>9, <2>1 DEF Scrubbed, TypeOK, queueVars, clientVars, logoutVars, Registered
<1>10. ASSUME NEW c \in Calls, CreateClient(c) PROVE TypeOK'
  <2>1. owner[c] \in Users
    BY <1>10, OwnerOfMade DEF CreateClient
  <2>2. Queue!TypeOK' /\ pc' \in [Calls -> Places]
    BY <1>10, <1>b DEF CreateClient, Places, Bodies
  <2>3. /\ clientStatus' \in [Users -> Statuses]
        /\ reconnectAttempts' \in [Users -> 0..(MaxReconnectAttempts + 1)]
        /\ qrPromise' \in [Calls -> Promises]
    <3>1. clientStatus' \in [Users -> Statuses]
      BY <1>10 DEF CreateClient, TypeOK, Statuses
    <3>2. reconnectAttempts' \in [Users -> 0..(MaxReconnectAttempts + 1)]
      BY <1>10, <2>1, AttemptsReset DEF CreateClient
    <3>3. qrPromise' \in [Calls -> Promises]
      BY <1>10 DEF CreateClient, TypeOK, Promises
    <3>4. QED
      BY <3>1, <3>2, <3>3
  <2>4. clients' \in [Users -> Calls \cup {NoCall}]
        /\ \A u \in Users : Registered(u)' => owner'[clients'[u]] = u
    BY <1>10, <2>1 DEF CreateClient, TypeOK, queueVars, Registered
  <2>5. QED
    BY <1>10, <2>2, <2>3, <2>4 DEF CreateClient, TypeOK, logoutVars
<1>11. ASSUME NEW c \in Calls, ReadyToRestart(c) PROVE TypeOK'
  <2>1. Queue!TypeOK' /\ pc' \in [Calls -> Places]
    BY <1>11, <1>b DEF ReadyToRestart, Places, Bodies
  <2>2. QED
    BY <1>11, <2>1 DEF ReadyToRestart, TypeOK, queueVars, clientVars, logoutVars, Registered
<1>12. ASSUME NEW c \in Calls, Initialized(c) PROVE TypeOK'
  <2>1. Queue!TypeOK' /\ pc' \in [Calls -> Places] /\ answer' \in [Calls -> Answers]
    BY <1>12, <1>b DEF Initialized, Finish, Places, Bodies, Answers, TypeOK
  <2>2. QED
    BY <1>12, <2>1 DEF Initialized, TypeOK, queueVars, clientVars, serviceVars, logoutVars, Registered
<1>13. ASSUME NEW c \in Calls, InitializeFails(c) PROVE TypeOK'
  <2>1. Queue!TypeOK' /\ pc' \in [Calls -> Places] /\ answer' \in [Calls -> Answers]
    BY <1>13, <1>b DEF InitializeFails, Finish, Places, Bodies, Answers, TypeOK
  <2>2. clientStatus' \in [Users -> Statuses]
    BY <1>13 DEF InitializeFails, TypeOK, Statuses
  <2>3. QED
    BY <1>13, <2>1, <2>2 DEF InitializeFails, TypeOK, queueVars, clientVars, logoutVars, Registered
<1>14. ASSUME NEW c \in Calls, QrTimeout(c) PROVE TypeOK'
  <2>1. Queue!TypeOK' /\ pc' \in [Calls -> Places] /\ answer' \in [Calls -> Answers]
    BY <1>14, <1>b DEF QrTimeout, Finish, Places, Bodies, Answers, TypeOK
  <2>2. qrPromise' \in [Calls -> Promises]
    BY <1>14 DEF QrTimeout, TypeOK, Promises
  <2>3. QED
    BY <1>14, <2>1, <2>2 DEF QrTimeout, TypeOK, queueVars, serviceVars, logoutVars, Registered
<1>15. ASSUME NEW c \in Calls, Qr(c) PROVE TypeOK'
  <2>1. owner[c] \in Users
    BY <1>15, OwnerOfLive DEF Qr, Emits
  <2>2. Queue!TypeOK' /\ pc' \in [Calls -> Places] /\ answer' \in [Calls -> Answers]
    <3>1. CASE pc[c] = "awaitingQr"
      BY <1>15, <3>1, <1>b DEF Qr, Finish, Places, Bodies, Answers, TypeOK
    <3>2. CASE pc[c] # "awaitingQr"
      BY <1>15, <3>2, <1>a DEF Qr, TypeOK
    <3>3. QED
      BY <3>1, <3>2
  <2>3. qrPromise' \in [Calls -> Promises]
    BY <1>15 DEF Qr, TypeOK, Promises
  <2>4. QED
    BY <1>15, <2>1, <2>2, <2>3 DEF Qr, TypeOK, queueVars, logoutVars, Registered
<1>c. ASSUME NEW k \in Calls, NEW result \in Answers, RejectQr(k, result), ~Unawaited(k),
             UNCHANGED queueVars
      PROVE  /\ Queue!TypeOK' /\ pc' \in [Calls -> Places]
             /\ answer' \in [Calls -> Answers] /\ qrPromise' \in [Calls -> Promises]
  <2>1. CASE qrPromise[k] = "pending"
    <3>1. Queue!TypeOK' /\ pc' \in [Calls -> Places]
      BY <1>c, <2>1, <1>b DEF RejectQr, Unawaited, Finish, Places, Bodies
    <3>2. QED
      BY <1>c, <2>1, <3>1 DEF RejectQr, Finish, TypeOK, Promises
  <2>2. CASE qrPromise[k] # "pending"
    BY <1>c, <2>2, <1>a DEF RejectQr, TypeOK
  <2>3. QED
    BY <2>1, <2>2
<1>d. ASSUME NEW u \in Users, HandleReconnect(u)
      PROVE  /\ reconnectAttempts' \in [Users -> 0..(MaxReconnectAttempts + 1)]
             /\ reconnectTimers' \in [Users -> 0..MaxTimers]
  BY <1>d, BoundAssumption DEF HandleReconnect, TypeOK
<1>16. ASSUME NEW c \in Calls, ClientReady(c) PROVE TypeOK'
  <2>1. owner[c] \in Users
    BY <1>16, OwnerOfLive DEF ClientReady, Emits
  <2>2. /\ Queue!TypeOK' /\ pc' \in [Calls -> Places]
        /\ answer' \in [Calls -> Answers] /\ qrPromise' \in [Calls -> Promises]
    BY <1>16, <1>c DEF ClientReady, Answers
  <2>3. /\ clientStatus' \in [Users -> Statuses]
        /\ reconnectAttempts' \in [Users -> 0..(MaxReconnectAttempts + 1)]
    <3>1. clientStatus' \in [Users -> Statuses]
      BY <1>16 DEF ClientReady, TypeOK, Statuses
    <3>2. reconnectAttempts' \in [Users -> 0..(MaxReconnectAttempts + 1)]
      BY <1>16, <2>1, AttemptsReset DEF ClientReady
    <3>3. QED
      BY <3>1, <3>2
  <2>4. QED
    BY <1>16, <2>2, <2>3 DEF ClientReady, TypeOK, queueVars, logoutVars, Registered
<1>17. ASSUME NEW c \in Calls, Authenticated(c) PROVE TypeOK'
  <2>1. /\ clientStatus' \in [Users -> Statuses]
        /\ reconnectAttempts' \in [Users -> 0..(MaxReconnectAttempts + 1)]
    <3>1. clientStatus' \in [Users -> Statuses]
      BY <1>17 DEF Authenticated, TypeOK, Statuses
    <3>2. reconnectAttempts' \in [Users -> 0..(MaxReconnectAttempts + 1)]
      BY <1>17, OwnerOfLive, AttemptsReset DEF Authenticated, Emits
    <3>3. QED
      BY <3>1, <3>2
  <2>2. QED
    BY <1>17, <1>a, <2>1
    DEF Authenticated, TypeOK, callVars, queueVars, clientVars, logoutVars, Registered
<1>18. ASSUME NEW c \in Calls, AuthFailure(c) PROVE TypeOK'
  <2>1. owner[c] \in Users
    BY <1>18, OwnerOfLive DEF AuthFailure, Emits
  <2>2. /\ Queue!TypeOK' /\ pc' \in [Calls -> Places]
        /\ answer' \in [Calls -> Answers] /\ qrPromise' \in [Calls -> Promises]
    BY <1>18, <1>c DEF AuthFailure, Answers
  <2>3. clientStatus' \in [Users -> Statuses]
    BY <1>18 DEF AuthFailure, TypeOK, Statuses
  <2>4. QED
    BY <1>18, <2>1, <2>2, <2>3, <1>d DEF AuthFailure, TypeOK, queueVars, logoutVars, Registered
<1>19. ASSUME NEW c \in Calls, Disconnected(c) PROVE TypeOK'
  <2>1. owner[c] \in Users
    BY <1>19, OwnerOfLive DEF Disconnected, Emits
  <2>2. clientStatus' \in [Users -> Statuses]
    BY <1>19 DEF Disconnected, TypeOK, Statuses
  <2>3. QED
    BY <1>19, <1>a, <1>d, <2>1, <2>2
    DEF Disconnected, TypeOK, callVars, queueVars, clientVars, logoutVars, Registered
<1>20. ASSUME NEW u \in Users, ThrottleExpires(u) \/ CooldownExpires(u) PROVE TypeOK'
  BY <1>20, <1>a DEF ThrottleExpires, CooldownExpires, TypeOK, callVars, queueVars,
                     clientVars, logoutVars, Registered
<1>21. CASE LogOutAll
  BY <1>21, <1>a DEF LogOutAll, TypeOK, callVars, queueVars, serviceVars, Registered
<1>22. ASSUME NEW k \in Calls, LoggedOut(k) PROVE TypeOK'
  <2>1. owner[k] \in Users
    BY <1>22, OwnerOfLive DEF LoggedOut
  <2>2. QED
    BY <1>22, <2>1, <1>a DEF LoggedOut, TypeOK, callVars, queueVars, Registered
<1>23. CASE ClearClients
  BY <1>23, <1>a DEF ClearClients, TypeOK, callVars, queueVars, clientVars, Registered
<1>24. CASE UnhandledRejection \/ Stop \/ Restart
  BY <1>24, LostTypes DEF UnhandledRejection, Stop, Restart
<1>25. CASE UNCHANGED vars
  BY <1>25, <1>a DEF vars, TypeOK, callVars, queueVars, serviceVars, clientVars, logoutVars, Registered
<1>26. QED
  BY <1>1, <1>2, <1>3, <1>4, <1>5, <1>6, <1>7, <1>8, <1>9, <1>10, <1>11, <1>12, <1>13, <1>14,
     <1>15, <1>16, <1>17, <1>18, <1>19, <1>20, <1>21, <1>22, <1>23, <1>24, <1>25
  DEF Next, Request, Operation, ClientEvent

-----------------------------------------------------------------------------
(* What a step is to the queue. *)

\* The body of call c goes on to x.
GoesOn(c, x) ==
  \/ pc[c] = "destroying" /\ x = "scrubbing"
  \/ pc[c] = "scrubbing" /\ x = "cleaning"
  \/ pc[c] = "cleaning" /\ kind[c] = "start" /\ x = "initializing"
  \/ pc[c] = "cleaning" /\ kind[c] = "reset" /\ x = "restarting"
  \/ pc[c] = "initializing" /\ x = "awaitingQr"
  \/ pc[c] \in {"initializing", "awaitingQr"} /\ x = "finished"

\* The queue is left alone: at most one call goes on in its body.
BodyStep ==
  /\ UNCHANGED queueVars
  /\ pc' = pc \/ \E c \in Calls, x \in Bodies \cup {"finished"} :
                    GoesOn(c, x) /\ pc' = [pc EXCEPT ![c] = x]
  /\ \A c \in Calls : pc'[c] = "destroying" => victim'[c] = victim[c]

\* A call comes in from outside.
Arrival ==
  \E u \in Users, k \in {"start", "reset"} :
    RoomFor(k) /\ EventLoop /\ Enter(NewCall, u, k, NoCall)

\* Six kinds of steps.
QueueStep ==
  \/ Arrival
  \/ \E p \in Calls : CallNested(p)
  \/ \E c \in Calls : Resume(c)
  \/ \E c \in Calls : Settle(c)
  \/ BodyStep
  \/ \E how \in {"up", "stopped", "crashed"} : Lose(how)

\* A step of a body, and an event, leave the queue alone.
LEMMA BodySteps ==
  ASSUME TypeOK, NEW c \in Calls,
         \/ Destroyed(c) \/ Scrubbed(c) \/ CreateClient(c) \/ ReadyToRestart(c)
         \/ Initialized(c) \/ InitializeFails(c) \/ QrTimeout(c) \/ ClientEvent(c)
  PROVE  BodyStep
<1>1. ASSUME NEW x \in Bodies \cup {"finished"}, UNCHANGED queueVars,
             GoesOn(c, x), pc' = [pc EXCEPT ![c] = x],
             \A d \in Calls : d # c => victim'[d] = victim[d],
             x = "scrubbing" \/ victim' = victim
      PROVE  BodyStep
  <2>1. \A d \in Calls : pc'[d] = "destroying" => victim'[d] = victim[d]
    BY <1>1 DEF TypeOK, GoesOn
  <2>2. QED
    BY <1>1, <2>1 DEF BodyStep
<1>2. ASSUME UNCHANGED queueVars, pc' = pc, victim' = victim
      PROVE  BodyStep
  BY <1>2 DEF BodyStep
<1>3. CASE Destroyed(c)
  BY <1>3, <1>1 DEF Destroyed, GoesOn, Bodies, TypeOK
<1>4. CASE Scrubbed(c) \/ CreateClient(c) \/ ReadyToRestart(c)
  BY <1>4, <1>1 DEF Scrubbed, CreateClient, ReadyToRestart, GoesOn, Bodies
<1>5. CASE Initialized(c) \/ InitializeFails(c) \/ QrTimeout(c)
  BY <1>5, <1>1 DEF Initialized, InitializeFails, QrTimeout, Finish, GoesOn, Bodies
<1>6. CASE Qr(c)
  <2>1. CASE pc[c] = "awaitingQr"
    BY <1>6, <2>1, <1>1 DEF Qr, Finish, GoesOn
  <2>2. CASE pc[c] # "awaitingQr"
    BY <1>6, <2>2, <1>2 DEF Qr
  <2>3. QED
    BY <2>1, <2>2
<1>7. CASE ClientReady(c) \/ AuthFailure(c)
  <2>1. PICK result : RejectQr(c, result) /\ ~Unawaited(c) /\ UNCHANGED <<queueVars, victim>>
    BY <1>7 DEF ClientReady, AuthFailure
  <2>2. CASE pc' = pc
    BY <2>1, <2>2, <1>2
  <2>3. CASE pc' # pc
    BY <2>1, <2>3, <1>1 DEF RejectQr, Unawaited, Finish, GoesOn
  <2>4. QED
    BY <2>2, <2>3
<1>8. CASE Authenticated(c) \/ Disconnected(c)
  BY <1>8, <1>2 DEF Authenticated, Disconnected, callVars
<1>9. QED
  BY <1>3, <1>4, <1>5, <1>6, <1>7, <1>8 DEF ClientEvent

\* Every step of the service is of one of these kinds.
LEMMA StepKinds ==
  ASSUME TypeOK, [Next]_vars
  PROVE  QueueStep
<1>1. CASE Request
  BY <1>1 DEF Request, RequestStart, RequestReset, ReconnectFires, HealthCheck, QueueStep, Arrival
<1>2. ASSUME NEW c \in Calls, Operation(c) \/ ClientEvent(c) PROVE QueueStep
  BY <1>2, BodySteps DEF Operation, QueueStep
<1>3. ASSUME UNCHANGED callVars PROVE QueueStep
  BY <1>3 DEF callVars, BodyStep, QueueStep
<1>4. ASSUME NEW u \in Users, ThrottleExpires(u) \/ CooldownExpires(u) PROVE QueueStep
  BY <1>3, <1>4 DEF ThrottleExpires, CooldownExpires
<1>5. CASE LogOutAll \/ (\E k \in Calls : LoggedOut(k)) \/ ClearClients \/ UNCHANGED vars
  BY <1>3, <1>5 DEF LogOutAll, LoggedOut, ClearClients, vars
<1>6. CASE UnhandledRejection \/ Stop \/ Restart
  BY <1>6 DEF UnhandledRejection, Stop, Restart, QueueStep
<1>7. QED
  BY <1>1, <1>2, <1>4, <1>5, <1>6 DEF Next

-----------------------------------------------------------------------------
(* The numbers of the calls, the room for nested ones, the places. *)

LEMMA CallsAreNumbers == NoCall \notin Calls /\ IsFiniteSet(Calls) /\ Calls \subseteq Nat
  BY BoundAssumption, FS_Interval DEF NoCall, Calls

\* The operation of a call begins at one of three places.
LEMMA BeginEffect ==
  ASSUME TypeOK, NEW c \in Calls, NEW u \in Users, NEW k \in {"start", "reset"}, Begin(c, u, k)
  PROVE  /\ processingQueue' = [processingQueue EXCEPT ![u] = c]
         /\ \A d \in Calls : d # c => pc'[d] = pc[d] /\ victim'[d] = victim[d]
         /\ \/ pc'[c] = "finished" /\ AlreadyThere(u, k)
            \/ pc'[c] = "destroying" /\ MustDestroy(u, k) /\ victim'[c] = clients[u]
            \/ pc'[c] = "cleaning"
  BY DEF Begin, TypeOK

\* What a call that comes in changes, and what not.
LEMMA EnterEffect ==
  ASSUME TypeOK, CallsAreNumbered,
         NEW c \in Calls, NEW u \in Users, NEW k \in {"start", "reset"},
         NEW p \in Calls \cup {NoCall}, Enter(c, u, k, p)
  PROVE  /\ c = arrivals + 1 /\ arrivals' = c
         /\ pc[c] = "idle" /\ kind[c] = "start" /\ owner[c] = NoUser
         /\ parent[c] = NoCall /\ awaited[c] = NoCall
         /\ kind'[c] = k /\ owner'[c] = u /\ parent'[c] = p
         /\ \A d \in Calls : d # c =>
              /\ kind'[d] = kind[d] /\ owner'[d] = owner[d] /\ parent'[d] = parent[d]
              /\ awaited'[d] = awaited[d] /\ pc'[d] = pc[d] /\ victim'[d] = victim[d]
         /\ \/ /\ pc'[c] = "waiting" /\ awaited'[c] = processingQueue[u]
               /\ processingQueue[u] \in Calls /\ processingQueue' = processingQueue
            \/ /\ awaited' = awaited /\ processingQueue[u] = NoCall
               /\ processingQueue' = [processingQueue EXCEPT ![u] = c]
               /\ \/ pc'[c] = "finished" /\ AlreadyThere(u, k)
                  \/ pc'[c] = "destroying" /\ MustDestroy(u, k) /\ victim'[c] = clients[u]
                  \/ pc'[c] = "cleaning"
<1>1. c = arrivals + 1 /\ c > arrivals
  BY QueueTypes DEF Enter, NewCall, TypeOK
<1>2. /\ pc[c] = "idle" /\ kind[c] = "start" /\ owner[c] = NoUser
      /\ parent[c] = NoCall /\ awaited[c] = NoCall
  BY <1>1 DEF CallsAreNumbered
<1>3. /\ arrivals' = c /\ kind'[c] = k /\ owner'[c] = u /\ parent'[c] = p
      /\ \A d \in Calls : d # c =>
           kind'[d] = kind[d] /\ owner'[d] = owner[d] /\ parent'[d] = parent[d]
  BY QueueTypes DEF Enter, TypeOK
<1>4. CASE processingQueue[u] = NoCall
  <2>1. Begin(c, u, k) /\ awaited' = awaited
    BY <1>4 DEF Enter
  <2>2. QED
    BY <1>1, <1>2, <1>3, <1>4, <2>1, BeginEffect
<1>5. CASE processingQueue[u] # NoCall
  BY <1>1, <1>2, <1>3, <1>5, QueueTypes DEF Enter, TypeOK
<1>6. QED
  BY <1>4, <1>5

\* A reset owes its nested call until it has made it.
LEMMA OwedAfterEnter ==
  ASSUME TypeOK, CallsAreNumbered,
         NEW c \in Calls, NEW u \in Users, NEW k \in {"start", "reset"},
         NEW p \in Calls \cup {NoCall}, p # c, Enter(c, u, k, p),
         \A d \in Calls : parent[d] # c
  PROVE  /\ Owed' = (IF k = "reset" THEN Owed \cup {c} ELSE Owed) \ {p}
         /\ c \notin Owed
<1>1. Nested(c)' = {} /\ \A d \in Calls : d # p => Nested(d)' = Nested(d)
  <2>1. \A d, e \in Calls : d # p => (parent'[e] = d <=> parent[e] = d)
    BY EnterEffect, CallsAreNumbers
  <2>2. QED
    BY <2>1 DEF Nested
<1>2. p \in Calls => Nested(p)' # {}
  BY EnterEffect DEF Nested
<1>3. Owed' = {d \in Calls : kind'[d] = "reset" /\ Nested(d)' = {}}
  BY DEF Owed
<1>4. ASSUME NEW d \in Calls PROVE d \in Owed' <=> d \in (IF k = "reset" THEN Owed \cup {c} ELSE Owed) \ {p}
  BY <1>1, <1>2, <1>3, EnterEffect DEF Owed
<1>5. QED
  BY <1>3, <1>4, EnterEffect, CallsAreNumbers DEF Owed

\* A call with a number comes in, from outside (p is no call) or from reset p.
Incoming(u, k, p) ==
  /\ NewCall \in Calls /\ p # NewCall /\ Enter(NewCall, u, k, p)
  /\ \/ p = NoCall /\ RoomFor(k) /\ EventLoop
     \/ /\ p \in Calls /\ CallNested(p) /\ k = "start" /\ owner[p] = u
        /\ pc[p] = "restarting" /\ kind[p] = "reset" /\ Nested(p) = {}

\* Whoever calls, there is a number left.
LEMMA ComesIn ==
  ASSUME IInv, Arrival \/ \E p \in Calls : CallNested(p)
  PROVE  \E u \in Users, k \in {"start", "reset"}, p \in Calls \cup {NoCall} : Incoming(u, k, p)
<1>1. CASE Arrival
  <2>1. PICK u \in Users, k \in {"start", "reset"} :
          RoomFor(k) /\ EventLoop /\ Enter(NewCall, u, k, NoCall)
    BY <1>1 DEF Arrival
  <2>2. NewCall \in Calls /\ NewCall # NoCall
    BY <2>1, RoomForOne, CallsAreNumbers DEF IInv
  <2>3. Incoming(u, k, NoCall)
    BY <2>1, <2>2 DEF Incoming
  <2>4. QED
    BY <2>3
<1>2. ASSUME NEW p \in Calls, CallNested(p)
      PROVE  Incoming(owner[p], "start", p) /\ owner[p] \in Users
  <2>1. pc[p] = "restarting" /\ Nested(p) = {} /\ Enter(NewCall, owner[p], "start", p)
    BY <1>2 DEF CallNested, AtNestedCall
  <2>2. kind[p] = "reset" /\ owner[p] \in Users
    BY <2>1, OwnerOfMade DEF IInv, PlacesFit, PlaceFits
  <2>3. NewCall \in Calls
    BY <2>1, <2>2, RoomForNested DEF IInv
  <2>4. p # NewCall
    <3>1. pc[NewCall] = "idle"
      BY <2>1, <2>2, <2>3, EnterEffect DEF IInv
    <3>2. QED
      BY <2>1, <3>1
  <2>5. QED
    BY <1>2, <2>1, <2>2, <2>3, <2>4 DEF Incoming
<1>3. QED
  BY <1>1, <1>2

\* How a call leaves the place it was at, in the steps where none comes in.
LEMMA StayEffect ==
  ASSUME TypeOK, (\E c \in Calls : Resume(c) \/ Settle(c)) \/ BodyStep, NEW d \in Calls
  PROVE  /\ UNCHANGED <<kind, owner, awaited, parent, arrivals>>
         /\ \/ pc'[d] = pc[d] /\ (pc[d] = "destroying" => victim'[d] = victim[d])
            \/ /\ Resume(d) /\ pc[d] = "waiting"
               /\ \/ pc'[d] = "finished" /\ AlreadyThere(owner[d], kind[d])
                  \/ pc'[d] = "destroying" /\ MustDestroy(owner[d], kind[d])
                     /\ victim'[d] = clients[owner[d]]
                  \/ pc'[d] = "cleaning"
            \/ Settle(d) /\ BodyDone(d) /\ pc'[d] = "settled"
            \/ BodyStep /\ GoesOn(d, pc'[d]) /\ pc'[d] # "destroying"
<1>1. ASSUME NEW c \in Calls, Resume(c)
      PROVE  /\ UNCHANGED <<kind, owner, awaited, parent, arrivals>>
             /\ IF d # c THEN pc'[d] = pc[d] /\ victim'[d] = victim[d]
                ELSE /\ pc[d] = "waiting"
                     /\ \/ pc'[d] = "finished" /\ AlreadyThere(owner[d], kind[d])
                        \/ pc'[d] = "destroying" /\ MustDestroy(owner[d], kind[d])
                           /\ victim'[d] = clients[owner[d]]
                        \/ pc'[d] = "cleaning"
  <2>1. pc[c] = "waiting" /\ Begin(c, owner[c], kind[c])
    BY <1>1 DEF Resume, Ready
  <2>2. owner[c] \in Users /\ kind[c] \in {"start", "reset"}
    BY <2>1, OwnerOfMade, QueueTypes DEF TypeOK
  <2>3. QED
    BY <1>1, <2>1, <2>2, BeginEffect DEF Resume
<1>2. ASSUME NEW c \in Calls, Settle(c)
      PROVE  /\ UNCHANGED <<kind, owner, awaited, parent, arrivals, victim>>
             /\ BodyDone(c) /\ pc'[d] = IF d = c THEN "settled" ELSE pc[d]
  BY <1>2 DEF Settle, TypeOK
<1>3. ASSUME BodyStep
      PROVE  /\ UNCHANGED <<kind, owner, awaited, parent, arrivals>>
             /\ \/ pc'[d] = pc[d] /\ (pc[d] = "destroying" => victim'[d] = victim[d])
                \/ GoesOn(d, pc'[d]) /\ pc'[d] # "destroying"
  BY <1>3 DEF BodyStep, queueVars, GoesOn, TypeOK
<1>4. QED
  BY <1>1, <1>2, <1>3

\* The order of arrival is kept, and every call has one number.
LEMMA NumberingKept ==
  ASSUME IInv, [Next]_vars
  PROVE  CallsAreNumbered'
<1> USE DEF IInv
<1>1. CASE Arrival \/ \E p \in Calls : CallNested(p)
  <2>1. PICK u \in Users, k \in {"start", "reset"}, p \in Calls \cup {NoCall} : Incoming(u, k, p)
    BY <1>1, ComesIn
  <2> DEFINE c == NewCall
  <2>2. c \in Calls /\ Enter(c, u, k, p)
    BY <2>1 DEF Incoming
  <2> HIDE DEF c
  <2>3. /\ c = arrivals + 1 /\ arrivals' = c /\ pc'[c] # "idle"
        /\ \A d \in Calls : d # c =>
              /\ kind'[d] = kind[d] /\ owner'[d] = owner[d] /\ parent'[d] = parent[d]
              /\ awaited'[d] = awaited[d] /\ pc'[d] = pc[d]
    BY <2>2, EnterEffect
  <2>4. arrivals \in Nat /\ c <= MaxCalls
    BY <2>2, QueueTypes, BoundAssumption DEF TypeOK, Calls
  <2>5. QED
    BY <2>3, <2>4, CallsAreNumbers, BoundAssumption DEF CallsAreNumbered
<1>2. CASE (\E c \in Calls : Resume(c) \/ Settle(c)) \/ BodyStep
  <2>1. \A d \in Calls : pc'[d] = "idle" <=> pc[d] = "idle"
    BY <1>2, StayEffect DEF BodyDone, GoesOn
  <2>2. UNCHANGED <<kind, owner, awaited, parent, arrivals>>
    BY <1>2 DEF Resume, Settle, BodyStep, queueVars
  <2>3. QED
    BY <2>1, <2>2 DEF CallsAreNumbered
<1>3. ASSUME NEW how, Lose(how) PROVE CallsAreNumbered'
  BY <1>3, BoundAssumption DEF Lose, CallsAreNumbered, Calls
<1>4. QED
  BY <1>1, <1>2, <1>3, StepKinds DEF QueueStep

\* No step uses up the room for a nested call.
LEMMA RoomKept ==
  ASSUME IInv, [Next]_vars
  PROVE  RoomIsKept'
<1> USE DEF IInv
<1>0. IsFiniteSet(Owed) /\ Cardinality(Owed) \in Nat /\ arrivals \in Nat
  BY CallsAreNumbers, FS_Subset, FS_CardinalityType, QueueTypes DEF Owed, TypeOK
<1>1. CASE Arrival \/ \E p \in Calls : CallNested(p)
  <2>1. PICK u \in Users, k \in {"start", "reset"}, p \in Calls \cup {NoCall} : Incoming(u, k, p)
    BY <1>1, ComesIn
  <2> DEFINE c == NewCall
  <2>2. c \in Calls /\ Enter(c, u, k, p) /\ p # c
    BY <2>1 DEF Incoming
  <2> HIDE DEF c
  <2>3. arrivals' = arrivals + 1 /\ pc[c] = "idle"
    BY <2>2, EnterEffect
  <2>4. \A d \in Calls : parent[d] # c
    BY <2>2, <2>3, CallsAreNumbers DEF PlacesFit, PlaceFits
  <2>5. Owed' = (IF k = "reset" THEN Owed \cup {c} ELSE Owed) \ {p} /\ c \notin Owed
    BY <2>2, <2>4, OwedAfterEnter
  <2>6. CASE p = NoCall
    <3>1. Owed' = IF k = "reset" THEN Owed \cup {c} ELSE Owed
      BY <2>5, <2>6, <2>2, CallsAreNumbers DEF Owed
    <3>2. Cardinality(Owed \cup {c}) = Cardinality(Owed) + 1
      BY <1>0, <2>5, FS_AddElement
    <3>3. RoomFor(k)
      BY <2>1, <2>6, CallsAreNumbers DEF Incoming
    <3>4. QED
      BY <1>0, <2>3, <3>1, <3>2, <3>3, BoundAssumption DEF RoomFor, RoomIsKept
  <2>7. CASE p # NoCall
    <3>1. p \in Owed /\ k = "start"
      BY <2>1, <2>7 DEF Incoming, Owed
    <3>2. Owed' = Owed \ {p}
      BY <2>5, <3>1
    <3>3. Cardinality(Owed \ {p}) = Cardinality(Owed) - 1
      BY <1>0, <3>1, FS_RemoveElement
    <3>4. QED
      BY <1>0, <2>3, <3>2, <3>3, BoundAssumption DEF RoomIsKept
  <2>8. QED
    BY <2>6, <2>7
<1>2. CASE (\E c \in Calls : Resume(c) \/ Settle(c)) \/ BodyStep
  <2>1. UNCHANGED <<kind, parent, arrivals>>
    BY <1>2 DEF Resume, Settle, BodyStep, queueVars
  <2>2. QED
    BY <2>1 DEF RoomIsKept, Owed, Nested
<1>3. ASSUME NEW how, Lose(how) PROVE RoomIsKept'
  <2>1. arrivals' = 0 /\ Owed' = {}
    BY <1>3 DEF Lose, Owed
  <2>2. QED
    BY <2>1, FS_EmptySet, BoundAssumption DEF RoomIsKept
<1>4. QED
  BY <1>1, <1>2, <1>3, StepKinds DEF QueueStep

\* Calls stay where they fit.
LEMMA PlacesKept ==
  ASSUME IInv, [Next]_vars
  PROVE  PlacesFit'
<1> USE DEF IInv
<1>1. CASE Arrival \/ \E p \in Calls : CallNested(p)
  <2>1. PICK u \in Users, k \in {"start", "reset"}, p \in Calls \cup {NoCall} : Incoming(u, k, p)
    BY <1>1, ComesIn
  <2> DEFINE c == NewCall
  <2>2. c \in Calls /\ Enter(c, u, k, p) /\ p # c
        /\ (p # NoCall => p \in Calls /\ k = "start" /\ kind[p] = "reset" /\ owner[p] = u
                         /\ pc[p] = "restarting")
    BY <2>1 DEF Incoming
  <2> HIDE DEF c
  <2>3. pc[c] = "idle" /\ owner[c] = NoUser
    BY <2>2, EnterEffect
  <2>4. \A d \in Calls : parent[d] # c /\ (parent[d] # NoCall => parent[d] \in Calls)
    BY <2>2, <2>3, CallsAreNumbers, QueueTypes DEF PlacesFit, PlaceFits, TypeOK
  <2>5. \A d \in Calls : pc[d] = "destroying" => victim[d] # c
    BY <2>3, QueueTypes, OwnerOfMade, NullAssumption DEF PlacesFit, PlaceFits, TypeOK
  <2>6. ASSUME NEW d \in Calls PROVE PlaceFits(d)'
    <3>1. CASE d = c
      <4>1. Registered(u) => clients[u] \in Calls /\ clients[u] # c /\ owner[clients[u]] = u
        BY <2>3, NullAssumption DEF Registered, TypeOK
      <4>2. QED
        BY <3>1, <4>1, <2>2, EnterEffect DEF PlaceFits, AlreadyThere, MustDestroy
    <3>2. CASE d # c
      BY <3>2, <2>2, <2>4, <2>5, EnterEffect DEF PlaceFits, PlacesFit
    <3>3. QED
      BY <3>1, <3>2
  <2>7. QED
    BY <2>6 DEF PlacesFit
<1>2. CASE (\E c \in Calls : Resume(c) \/ Settle(c)) \/ BodyStep
  <2>1. ASSUME NEW d \in Calls PROVE PlaceFits(d)'
    <3>1. PlaceFits(d)
      BY DEF PlacesFit
    <3>2. UNCHANGED <<kind, owner, awaited, parent>>
      BY <1>2, StayEffect
    <3>3. pc'[d] = "destroying" => victim'[d] \in Calls /\ owner'[victim'[d]] = owner'[d]
      <4>1. CASE Resume(d)
        BY <1>2, <3>1, <3>2, <4>1, StayEffect, OwnerOfMade DEF PlaceFits, GoesOn, MustDestroy, Registered, TypeOK
      <4>2. CASE ~Resume(d)
        BY <1>2, <3>1, <3>2, <4>2, StayEffect DEF PlaceFits, GoesOn
      <4>3. QED
        BY <4>1, <4>2
    <3>4. parent'[d] # NoCall => pc'[parent'[d]] \in {"restarting", "settled"}
      <4>1. parent[d] # NoCall => parent[d] \in Calls /\ pc[parent[d]] \in {"restarting", "settled"}
        BY <3>1, QueueTypes DEF PlaceFits, TypeOK
      <4>2. QED
        BY <1>2, <3>2, <4>1, StayEffect DEF GoesOn
    <3>5. QED
      BY <1>2, <3>1, <3>2, <3>3, <3>4, StayEffect
      DEF PlaceFits, GoesOn, AlreadyThere, BodyDone
  <2>2. QED
    BY <2>1 DEF PlacesFit
<1>3. ASSUME NEW how, Lose(how) PROVE PlacesFit'
  BY <1>3 DEF Lose, PlacesFit, PlaceFits
<1>4. QED
  BY <1>1, <1>2, <1>3, StepKinds DEF QueueStep

-----------------------------------------------------------------------------
(* The clients. *)

\* A call with a user has arrived.
LEMMA MadeArrived ==
  ASSUME TypeOK, CallsAreNumbered, NEW k \in Calls, owner[k] # NoUser
  PROVE  k <= arrivals
<1>1. ~(k > arrivals)
  BY DEF CallsAreNumbered
<1>2. k \in Nat /\ arrivals \in Nat
  BY CallsAreNumbers, QueueTypes DEF TypeOK
<1>3. QED
  BY <1>1, <1>2

\* Every live client and every client that is logged out was created.
LEMMA CreationKept ==
  ASSUME IInv, [Next]_vars
  PROVE  ClientsWereCreated'
<1> USE DEF IInv
<1>0. arrivals \in Nat /\ arrivals + 1 \in Nat
  BY QueueTypes DEF TypeOK
<1>1. CASE Arrival \/ \E p \in Calls : CallNested(p)
  <2>1. PICK u \in Users, k \in {"start", "reset"}, p \in Calls \cup {NoCall} : Incoming(u, k, p)
    BY <1>1, ComesIn
  <2>2. /\ Enter(NewCall, u, k, p)
        /\ arrivals' = arrivals + 1
        /\ UNCHANGED <<phase, loggingOut>>
    BY <2>1 DEF Incoming, Enter, logoutVars, NewCall
  <2>3. QED
    BY <1>0, <2>2, CallsAreNumbers DEF ClientsWereCreated
<1>2. ASSUME UNCHANGED <<arrivals, phase, loggingOut>> PROVE ClientsWereCreated'
  BY <1>2 DEF ClientsWereCreated
<1>3. CASE \E c \in Calls : Resume(c) \/ Settle(c)
  BY <1>2, <1>3 DEF Resume, Settle, logoutVars
<1>4. ASSUME NEW c \in Calls, CreateClient(c) PROVE ClientsWereCreated'
  <2>1. c <= arrivals
    BY <1>0, <1>4, CallsAreNumbers DEF CallsAreNumbered, CreateClient
  <2>2. QED
    BY <1>4, <2>1 DEF CreateClient, ClientsWereCreated, TypeOK, queueVars, logoutVars
<1>5. ASSUME NEW c \in Calls, Destroyed(c) \/ LoggedOut(c) PROVE ClientsWereCreated'
  BY <1>5 DEF Destroyed, LoggedOut, ClientsWereCreated, TypeOK, callVars, queueVars, logoutVars
<1>6. CASE LogOutAll
  <2>1. ASSUME NEW u \in Users, Registered(u) PROVE clients[u] <= arrivals
    <3>1. clients[u] \in Calls /\ owner[clients[u]] # NoUser
      BY <2>1, NullAssumption DEF TypeOK, Registered
    <3>2. QED
      BY <3>1, MadeArrived
  <2>2. QED
    BY <1>6, <2>1 DEF LogOutAll, ClientsWereCreated, callVars, queueVars
<1>7. ASSUME NEW c \in Calls,
             \/ Scrubbed(c) \/ ReadyToRestart(c)
             \/ Initialized(c) \/ InitializeFails(c) \/ QrTimeout(c)
             \/ ClientEvent(c)
      PROVE  ClientsWereCreated'
  BY <1>2, <1>7 DEF Scrubbed, ReadyToRestart, Initialized, InitializeFails, QrTimeout,
    ClientEvent, Qr, ClientReady, Authenticated, AuthFailure, Disconnected,
    callVars, queueVars, clientVars, logoutVars
<1>8. CASE ClearClients \/ UNCHANGED vars \/ \E u \in Users : ThrottleExpires(u) \/ CooldownExpires(u)
  BY <1>2, <1>8 DEF ThrottleExpires, CooldownExpires, ClearClients, vars,
    callVars, queueVars, clientVars, logoutVars
<1>9. ASSUME NEW how, Lose(how) PROVE ClientsWereCreated'
  BY <1>9 DEF Lose, ClientsWereCreated
<1>10. CASE Request
  BY <1>1, <1>10 DEF Request, RequestStart, RequestReset, ReconnectFires, HealthCheck, Arrival
<1>11. QED
  BY <1>1, <1>3, <1>4, <1>5, <1>6, <1>7, <1>8, <1>9, <1>10
  DEF Next, Operation, UnhandledRejection, Stop, Restart

\* A call whose body begins turns a client deaf only to destroy it.
LEMMA BeginSilences ==
  ASSUME TypeOK, NEW c \in Calls, NEW u \in Users, NEW k \in {"start", "reset"}, Begin(c, u, k)
  PROVE  \/ listening' = listening
         \/ /\ listening' = listening \ {clients[u]}
            /\ pc'[c] = "destroying" /\ victim'[c] = clients[u]
  BY DEF Begin, TypeOK

\* Client k has an ear, or somebody is about to destroy it.
Heard(k) ==
  k \in listening \/ k \in loggingOut \/ \E c \in Calls : pc[c] = "destroying" /\ victim[c] = k

\* A registered client stays alive, and heard or about to be destroyed.
LEMMA SoundnessKept ==
  ASSUME IInv, [Next]_vars
  PROVE  RegisteredClientIsSound'
<1> USE DEF IInv
<1>0. \A u \in Users : Registered(u) =>
        /\ clients[u] \in Calls /\ owner[clients[u]] = u
        /\ phase[clients[u]] = "live" /\ Heard(clients[u])
  BY DEF RegisteredClientIsSound, Registered, Heard, TypeOK
<1>1. ASSUME UNCHANGED clients,
             \A u \in Users : Registered(u) => phase'[clients[u]] = "live" /\ Heard(clients[u])'
      PROVE  RegisteredClientIsSound'
  BY <1>1 DEF RegisteredClientIsSound, Registered, Heard
<1>2. ASSUME UNCHANGED <<clients, phase, listening, loggingOut>>,
             \A d \in Calls : pc[d] = "destroying" => pc'[d] = "destroying" /\ victim'[d] = victim[d]
      PROVE  RegisteredClientIsSound'
  BY <1>0, <1>1, <1>2 DEF Heard
<1>3. ASSUME NEW c \in Calls, NEW u \in Users, NEW k \in {"start", "reset"}, Begin(c, u, k),
             pc[c] # "destroying", UNCHANGED <<clients, phase, loggingOut>>
      PROVE  RegisteredClientIsSound'
  <2>1. \A d \in Calls : pc[d] = "destroying" => pc'[d] = "destroying" /\ victim'[d] = victim[d]
    BY <1>3, BeginEffect
  <2>2. ASSUME NEW v \in Users, Registered(v) PROVE Heard(clients[v])'
    BY <1>0, <1>3, <2>1, <2>2, BeginSilences DEF Heard
  <2>3. QED
    BY <1>0, <1>1, <1>3, <2>2
<1>4. CASE \E u \in Users, k \in {"start", "reset"}, p \in Calls \cup {NoCall} :
             Incoming(u, k, p) /\ UNCHANGED clients
  <2>1. PICK u \in Users, k \in {"start", "reset"}, p \in Calls \cup {NoCall} :
          Incoming(u, k, p) /\ UNCHANGED clients
    BY <1>4
  <2> DEFINE c == NewCall
  <2>2. c \in Calls /\ Enter(c, u, k, p)
    BY <2>1 DEF Incoming
  <2> HIDE DEF c
  <2>3. pc[c] = "idle" /\ UNCHANGED <<clients, phase, loggingOut>>
    BY <2>1, <2>2, EnterEffect DEF Enter, logoutVars
  <2>4. CASE processingQueue[u] = NoCall
    BY <1>3, <2>2, <2>3, <2>4 DEF Enter
  <2>5. CASE processingQueue[u] # NoCall
    <3>1. \A d \in Calls : pc[d] = "destroying" => pc'[d] = "destroying" /\ victim'[d] = victim[d]
      BY <2>2, <2>3, EnterEffect
    <3>2. QED
      BY <1>2, <2>2, <2>3, <2>5, <3>1 DEF Enter
  <2>6. QED
    BY <2>4, <2>5
<1>5. CASE Request
  <2>1. Arrival /\ UNCHANGED clients
    BY <1>5 DEF Request, RequestStart, RequestReset, ReconnectFires, HealthCheck, Arrival, serviceVars
  <2>2. QED
    BY <1>4, <2>1, ComesIn
<1>6. ASSUME NEW p \in Calls, CallNested(p) PROVE RegisteredClientIsSound'
  BY <1>4, <1>6, ComesIn DEF CallNested, serviceVars
<1>7. ASSUME NEW c \in Calls, Resume(c) PROVE RegisteredClientIsSound'
  <2>1. pc[c] = "waiting" /\ owner[c] \in Users /\ kind[c] \in {"start", "reset"}
    BY <1>7, OwnerOfMade, QueueTypes DEF Resume, Ready, TypeOK
  <2>2. QED
    BY <1>3, <1>7, <2>1 DEF Resume, serviceVars, logoutVars
<1>8. ASSUME NEW c \in Calls, Settle(c) PROVE RegisteredClientIsSound'
  BY <1>2, <1>8, StayEffect DEF Settle, BodyDone, serviceVars, logoutVars
<1>9. ASSUME NEW c \in Calls, Destroyed(c) PROVE RegisteredClientIsSound'
  <2>1. owner[c] \in Users /\ victim[c] \in Calls /\ owner[victim[c]] = owner[c]
    BY <1>9, OwnerOfMade DEF Destroyed, PlacesFit, PlaceFits
  <2>2. /\ clients'[owner[c]] = NoCall
        /\ \A v \in Users : v # owner[c] => clients'[v] = clients[v]
        /\ \A k \in Calls : k # victim[c] => phase'[k] = phase[k]
        /\ \A d \in Calls : d # c => pc'[d] = pc[d] /\ victim'[d] = victim[d]
        /\ UNCHANGED <<listening, loggingOut>>
    BY <1>9, <2>1 DEF Destroyed, TypeOK, logoutVars
  <2>3. ASSUME NEW v \in Users, Registered(v)'
        PROVE  phase'[clients'[v]] = "live" /\ Heard(clients[v])'
    <3>1. v # owner[c] /\ Registered(v) /\ clients[v] # victim[c] /\ clients'[v] = clients[v]
      BY <1>0, <2>1, <2>2, <2>3 DEF Registered
    <3>2. QED
      BY <1>0, <2>2, <3>1 DEF Heard
  <2>4. QED
    BY <2>3 DEF RegisteredClientIsSound, Heard
<1>10. ASSUME NEW c \in Calls, CreateClient(c) PROVE RegisteredClientIsSound'
  <2>1. owner[c] \in Users
    BY <1>10, OwnerOfMade DEF CreateClient
  <2>2. /\ clients'[owner[c]] = c /\ phase'[c] = "live" /\ c \in listening'
        /\ \A v \in Users : v # owner[c] => clients'[v] = clients[v]
        /\ \A k \in Calls : k # c => phase'[k] = phase[k]
        /\ \A d \in Calls : d # c => pc'[d] = pc[d]
        /\ pc[c] = "cleaning" /\ listening \subseteq listening'
        /\ UNCHANGED <<loggingOut, victim>>
    BY <1>10, <2>1 DEF CreateClient, TypeOK, logoutVars
  <2>3. ASSUME NEW v \in Users, Registered(v)'
        PROVE  phase'[clients'[v]] = "live" /\ Heard(clients[v])'
    <3>1. CASE v = owner[c]
      BY <2>2, <3>1 DEF Heard
    <3>2. CASE v # owner[c]
      <4>1. Registered(v) /\ clients[v] # c /\ clients'[v] = clients[v]
        BY <1>0, <2>2, <2>3, <3>2 DEF Registered
      <4>2. QED
        BY <1>0, <2>2, <4>1 DEF Heard
    <3>3. QED
      BY <3>1, <3>2
  <2>4. QED
    BY <2>3 DEF RegisteredClientIsSound, Heard
<1>11. ASSUME NEW k \in Calls, LoggedOut(k) PROVE RegisteredClientIsSound'
  <2>1. owner[k] \in Users
    BY <1>11, OwnerOfLive DEF LoggedOut
  <2>2. /\ clients'[owner[k]] = NoCall
        /\ \A v \in Users : v # owner[k] => clients'[v] = clients[v]
        /\ \A j \in Calls : j # k => phase'[j] = phase[j]
        /\ loggingOut' = loggingOut \ {k}
        /\ UNCHANGED <<listening, pc, victim>>
    BY <1>11, <2>1 DEF LoggedOut, TypeOK, callVars
  <2>3. ASSUME NEW v \in Users, Registered(v)'
        PROVE  phase'[clients'[v]] = "live" /\ Heard(clients[v])'
    <3>1. v # owner[k] /\ Registered(v) /\ clients[v] # k /\ clients'[v] = clients[v]
      BY <1>0, <2>2, <2>3 DEF Registered
    <3>2. QED
      BY <1>0, <2>2, <3>1 DEF Heard
  <2>4. QED
    BY <2>3 DEF RegisteredClientIsSound, Heard
<1>12. CASE LogOutAll
  <2>1. ASSUME NEW v \in Users, Registered(v) PROVE clients[v] \in loggingOut'
    BY <1>12, <2>1 DEF LogOutAll
  <2>2. QED
    BY <1>0, <1>1, <1>12, <2>1 DEF LogOutAll, serviceVars, Heard
<1>13. CASE ClearClients \/ UnhandledRejection \/ Stop \/ Restart
  BY <1>13 DEF ClearClients, UnhandledRejection, Stop, Restart, Lose,
    RegisteredClientIsSound, Registered
<1>14. ASSUME NEW c \in Calls,
              \/ Scrubbed(c) \/ ReadyToRestart(c)
              \/ Initialized(c) \/ InitializeFails(c) \/ QrTimeout(c)
       PROVE  RegisteredClientIsSound'
  BY <1>2, <1>14 DEF Scrubbed, ReadyToRestart, Initialized, InitializeFails, QrTimeout, Finish,
    serviceVars, clientVars, logoutVars, TypeOK
<1>15. ASSUME NEW k \in Calls, ClientEvent(k) PROVE RegisteredClientIsSound'
  <2>1. UNCHANGED <<clients, phase, listening, loggingOut, victim>>
    BY <1>15 DEF ClientEvent, Qr, ClientReady, Authenticated, AuthFailure, Disconnected,
      callVars, clientVars, logoutVars
  <2>2. \A d \in Calls : pc[d] = "destroying" => pc'[d] = "destroying"
    BY <1>15 DEF ClientEvent, Qr, ClientReady, Authenticated, AuthFailure, Disconnected,
      RejectQr, Finish, Unawaited, callVars, TypeOK
  <2>3. QED
    BY <1>2, <2>1, <2>2
<1>16. CASE UNCHANGED vars \/ \E u \in Users : ThrottleExpires(u) \/ CooldownExpires(u)
  BY <1>2, <1>16 DEF ThrottleExpires, CooldownExpires, vars, callVars, serviceVars, clientVars, logoutVars
<1>17. QED
  BY <1>5, <1>6, <1>7, <1>8, <1>9, <1>10, <1>11, <1>12, <1>13, <1>14, <1>15, <1>16
  DEF Next, Operation

-----------------------------------------------------------------------------
(* The reconnections. *)

\* While no call comes in and the process lives, a reset stays on its way until
\* its nested call finds the user connected or creates a client.
LEMMA RecoveringStays ==
  ASSUME IInv, (\E c \in Calls : Resume(c) \/ Settle(c)) \/ BodyStep,
         NEW r \in Calls, Recovering(r)
  PROVE  \/ Recovering(r)'
         \/ reconnectAttempts[owner[r]] = 0
         \/ \E d \in Calls : owner[d] = owner[r] /\ pc[d] = "cleaning" /\ pc'[d] = "initializing"
<1> USE DEF IInv
<1> SUFFICES ASSUME reconnectAttempts[owner[r]] # 0,
                    ~ \E d \in Calls : /\ owner[d] = owner[r]
                                       /\ pc[d] = "cleaning" /\ pc'[d] = "initializing"
             PROVE  Recovering(r)'
  OBVIOUS
<1>1. UNCHANGED <<kind, owner, parent>> /\ Nested(r)' = Nested(r)
  BY StayEffect DEF Nested
<1>2. owner[r] \in Users
  BY OwnerOfMade DEF Recovering
<1>3. ASSUME NEW d \in Nested(r)
      PROVE  pc'[d] \in {"waiting", "destroying", "scrubbing", "cleaning"}
  <2>1. /\ d \in Calls /\ owner[d] = owner[r] /\ parent[d] = r
        /\ pc[d] \in {"waiting", "destroying", "scrubbing", "cleaning"}
    BY <1>3, CallsAreNumbers DEF Recovering, Nested, PlacesFit, PlaceFits
  <2>2. ~AlreadyThere(owner[d], kind[d])
    BY <1>2, <2>1 DEF AlreadyThere, AttemptsAreFollowed, AttemptsFit
  <2>3. kind[d] = "start"
    BY <2>1, CallsAreNumbers DEF PlacesFit, PlaceFits
  <2>4. QED
    BY <2>1, <2>2, <2>3, StayEffect DEF GoesOn, BodyDone
<1>4. pc'[r] \notin {"idle", "settled"}
  <2>1. kind[r] = "reset" /\ pc[r] \notin {"idle", "settled", "finished"}
    BY DEF Recovering, PlacesFit, PlaceFits
  <2>2. ~BodyDone(r)
    BY <2>1 DEF Recovering, BodyDone
  <2>3. QED
    BY <2>1, <2>2, StayEffect DEF GoesOn
<1>5. QED
  BY <1>1, <1>3, <1>4 DEF Recovering

\* A reset that comes in is on its way; the others stay so, unless the new call is
\* the nested call of one and finds the user connected.
LEMMA IncomingRecovers ==
  ASSUME IInv, NEW u \in Users, NEW k \in {"start", "reset"}, NEW p \in Calls \cup {NoCall},
         Incoming(u, k, p)
  PROVE  /\ \A r \in Calls : Recovering(r) =>
              owner'[r] = owner[r] /\ (Recovering(r)' \/ reconnectAttempts[owner[r]] = 0)
         /\ k = "reset" => \E c \in Calls : owner'[c] = u /\ Recovering(c)'
<1> USE DEF IInv
<1>1. PICK c \in Calls :
        /\ Enter(c, u, k, p) /\ p # c
        /\ p # NoCall => p \in Calls /\ owner[p] = u /\ k = "start"
  BY DEF Incoming
<1>2. pc[c] = "idle"
  BY <1>1, EnterEffect
<1>3. pc'[c] \in {"waiting", "destroying", "cleaning"} \/ AlreadyThere(u, k)
  BY <1>1, EnterEffect
<1>4. AlreadyThere(u, k) => reconnectAttempts[u] = 0 /\ k = "start"
  BY DEF AlreadyThere, AttemptsAreFollowed, AttemptsFit
<1>5. ASSUME NEW r \in Calls, Recovering(r)
      PROVE  owner'[r] = owner[r] /\ (Recovering(r)' \/ reconnectAttempts[owner[r]] = 0)
  <2>1. r # c
    BY <1>2, <1>5 DEF Recovering
  <2>2. kind'[r] = kind[r] /\ owner'[r] = owner[r] /\ pc'[r] = pc[r]
    BY <1>1, <2>1, EnterEffect
  <2>3. \A d \in Calls : d # c /\ parent'[d] = r =>
           pc'[d] \in {"waiting", "destroying", "scrubbing", "cleaning"}
    BY <1>1, <1>5, EnterEffect DEF Recovering, Nested
  <2>4. CASE parent'[c] # r
    BY <1>5, <2>2, <2>3, <2>4 DEF Recovering, Nested
  <2>5. CASE parent'[c] = r
    <3>1. owner[r] = u
      BY <1>1, <2>5, EnterEffect, CallsAreNumbers
    <3>2. QED
      BY <1>3, <1>4, <1>5, <2>2, <2>3, <3>1 DEF Recovering, Nested
  <2>6. QED
    BY <2>4, <2>5
<1>6. ASSUME k = "reset" PROVE owner'[c] = u /\ Recovering(c)'
  <2>1. \A d \in Calls : parent[d] # c
    BY <1>2, CallsAreNumbers, QueueTypes DEF PlacesFit, PlaceFits, TypeOK
  <2>2. \A d \in Calls : parent'[d] # c
    BY <1>1, <2>1, EnterEffect
  <2>3. kind'[c] = "reset" /\ owner'[c] = u /\ pc'[c] \notin {"idle", "settled"}
    BY <1>1, <1>6, EnterEffect
  <2>4. QED
    BY <2>2, <2>3 DEF Recovering, Nested
<1>7. QED
  BY <1>5, <1>6

\* Whoever is followed stays followed when a call comes in and no timer fires.
LEMMA IncomingFollowed ==
  ASSUME IInv, Arrival \/ \E p \in Calls : CallNested(p), NEW v \in Users,
         UNCHANGED <<reconnectAttempts, reconnectTimers, clientStatus>>
  PROVE  AttemptsFit(v)'
<1>1. PICK u \in Users, k \in {"start", "reset"}, p \in Calls \cup {NoCall} : Incoming(u, k, p)
  BY ComesIn
<1>2. \A r \in Calls : Recovering(r) =>
        owner'[r] = owner[r] /\ (Recovering(r)' \/ reconnectAttempts[owner[r]] = 0)
  BY <1>1, IncomingRecovers
<1>3. AttemptsFit(v)
  BY DEF IInv, AttemptsAreFollowed
<1>4. reconnectAttempts[v] # 0 /\ Followed(v) => Followed(v)'
  BY <1>2 DEF Followed
<1>5. QED
  BY <1>3, <1>4, BoundAssumption DEF AttemptsFit

\* Whoever is followed stays followed while the process lives and no call comes
\* in, as long as no client is created for him and nothing is counted anew.
LEMMA StaysFollowed ==
  ASSUME IInv, (\E c \in Calls : Resume(c) \/ Settle(c)) \/ BodyStep, NEW v \in Users,
         reconnectAttempts'[v] = reconnectAttempts[v],
         reconnectTimers'[v] = reconnectTimers[v],
         clientStatus'[v] \in {"ready", "authenticated"} => clientStatus[v] \in {"ready", "authenticated"},
         \A d \in Calls : owner[d] = v /\ pc[d] = "cleaning" => pc'[d] # "initializing"
  PROVE  AttemptsFit(v)'
<1>1. AttemptsFit(v)
  BY DEF IInv, AttemptsAreFollowed
<1>2. \A r \in Calls : owner'[r] = owner[r]
  BY StayEffect DEF IInv
<1>3. reconnectAttempts[v] # 0 /\ Followed(v) => Followed(v)'
  BY <1>2, RecoveringStays DEF Followed
<1>4. QED
  BY <1>1, <1>3, BoundAssumption DEF AttemptsFit

\* No step leaves a counted attempt with nothing on its way to the user.
LEMMA AttemptsKept ==
  ASSUME IInv, [Next]_vars
  PROVE  AttemptsAreFollowed'
<1> USE DEF IInv
<1>1. ASSUME NEW u \in Users, RequestStart(u) \/ RequestReset(u) \/ HealthCheck(u)
      PROVE  AttemptsAreFollowed'
  <2>1. Arrival /\ UNCHANGED <<reconnectAttempts, reconnectTimers, clientStatus>>
    BY <1>1 DEF RequestStart, RequestReset, HealthCheck, Arrival, serviceVars
  <2>2. QED
    BY <2>1, IncomingFollowed DEF AttemptsAreFollowed
<1>2. ASSUME NEW p \in Calls, CallNested(p) PROVE AttemptsAreFollowed'
  <2>1. UNCHANGED <<reconnectAttempts, reconnectTimers, clientStatus>>
    BY <1>2 DEF CallNested, serviceVars
  <2>2. QED
    BY <1>2, <2>1, IncomingFollowed DEF AttemptsAreFollowed
<1>3. ASSUME NEW u \in Users, ReconnectFires(u) PROVE AttemptsAreFollowed'
  <2>1. NewCall \in Calls /\ NewCall # NoCall
    BY <1>3, RoomForOne, CallsAreNumbers DEF ReconnectFires
  <2>2. Incoming(u, "reset", NoCall)
    BY <1>3, <2>1 DEF Incoming, ReconnectFires
  <2>3. \A r \in Calls : Recovering(r) =>
          owner'[r] = owner[r] /\ (Recovering(r)' \/ reconnectAttempts[owner[r]] = 0)
    BY <2>2, IncomingRecovers
  <2>4. \E c \in Calls : owner'[c] = u /\ Recovering(c)'
    BY <2>2, IncomingRecovers
  <2>5. /\ UNCHANGED <<reconnectAttempts, clientStatus>>
        /\ \A v \in Users : v # u => reconnectTimers'[v] = reconnectTimers[v]
    BY <1>3 DEF ReconnectFires, TypeOK
  <2>6. ASSUME NEW v \in Users, reconnectAttempts[v] # 0, Followed(v) PROVE Followed(v)'
    BY <2>3, <2>4, <2>5, <2>6 DEF Followed
  <2>7. QED
    BY <2>5, <2>6, BoundAssumption DEF AttemptsAreFollowed, AttemptsFit
<1>4. ASSUME (\E c \in Calls : Resume(c) \/ Settle(c)) \/ BodyStep,
             UNCHANGED <<reconnectAttempts, reconnectTimers>>,
             \A v \in Users : clientStatus'[v] # clientStatus[v] => clientStatus'[v] \in BadStatuses,
             \A d \in Calls : pc[d] = "cleaning" => pc'[d] # "initializing"
      PROVE  AttemptsAreFollowed'
  BY <1>4, StaysFollowed DEF AttemptsAreFollowed, BadStatuses
<1>5. ASSUME NEW c \in Calls, Resume(c) \/ Settle(c) PROVE AttemptsAreFollowed'
  <2>1. \A d \in Calls : pc[d] = "cleaning" => pc'[d] # "initializing"
    <3>1. CASE Resume(c)
      <4>1. pc[c] = "waiting" /\ owner[c] \in Users /\ kind[c] \in {"start", "reset"}
        BY <3>1, OwnerOfMade, QueueTypes DEF Resume, Ready, TypeOK
      <4>2. QED
        BY <3>1, <4>1, BeginEffect DEF Resume
    <3>2. CASE Settle(c)
      BY <3>2 DEF Settle, TypeOK
    <3>3. QED
      BY <1>5, <3>1, <3>2
  <2>2. QED
    BY <1>4, <1>5, <2>1 DEF Resume, Settle, serviceVars
<1>6. ASSUME NEW c \in Calls,
             \/ Destroyed(c) \/ Scrubbed(c) \/ ReadyToRestart(c)
             \/ Initialized(c) \/ InitializeFails(c) \/ QrTimeout(c)
      PROVE  AttemptsAreFollowed'
  <2>1. BodyStep
    BY <1>6, BodySteps
  <2>2. UNCHANGED <<reconnectAttempts, reconnectTimers>>
    BY <1>6 DEF Destroyed, Scrubbed, ReadyToRestart, Initialized, InitializeFails, QrTimeout,
      serviceVars
  <2>3. \A v \in Users : clientStatus'[v] # clientStatus[v] => clientStatus'[v] \in BadStatuses
    BY <1>6 DEF Destroyed, Scrubbed, ReadyToRestart, Initialized, InitializeFails, QrTimeout,
      serviceVars, TypeOK, BadStatuses
  <2>4. \A d \in Calls : pc[d] = "cleaning" => pc'[d] # "initializing"
    BY <1>6 DEF Destroyed, Scrubbed, ReadyToRestart, Initialized, InitializeFails, QrTimeout,
      Finish, TypeOK
  <2>5. QED
    BY <1>4, <2>1, <2>2, <2>3, <2>4
<1>7. ASSUME NEW c \in Calls, CreateClient(c) PROVE AttemptsAreFollowed'
  <2>1. PICK u \in Users : BodyStep /\ u = owner[c]
    BY <1>7, BodySteps, OwnerOfMade DEF CreateClient
  <2>2. /\ reconnectAttempts'[u] = 0
        /\ \A v \in Users : v # u => /\ reconnectAttempts'[v] = reconnectAttempts[v]
                                    /\ clientStatus'[v] = clientStatus[v]
        /\ UNCHANGED reconnectTimers
        /\ \A d \in Calls : d # c => pc'[d] = pc[d]
    BY <1>7, <2>1 DEF CreateClient, TypeOK
  <2>3. AttemptsFit(u)'
    BY <2>2 DEF AttemptsFit
  <2>4. ASSUME NEW v \in Users, v # u PROVE AttemptsFit(v)'
    BY <2>1, <2>2, <2>4, StaysFollowed
  <2>5. QED
    BY <2>3, <2>4 DEF AttemptsAreFollowed
<1>8. ASSUME NEW k \in Calls, ClientEvent(k) PROVE AttemptsAreFollowed'
  <2>1. PICK u \in Users : BodyStep /\ u = owner[k]
    BY <1>8, BodySteps, OwnerOfLive
    DEF ClientEvent, Qr, ClientReady, Authenticated, AuthFailure, Disconnected, Emits
  <2>2. \A d \in Calls : pc[d] = "cleaning" => pc'[d] # "initializing"
    BY <1>8 DEF ClientEvent, Qr, ClientReady, Authenticated, AuthFailure, Disconnected,
      RejectQr, Finish, Unawaited, callVars, TypeOK
  <2>3. CASE Qr(k)
    BY <1>4, <2>1, <2>2, <2>3 DEF Qr
  <2>4. ASSUME \A v \in Users : v # u =>
                 /\ reconnectAttempts'[v] = reconnectAttempts[v]
                 /\ reconnectTimers'[v] = reconnectTimers[v]
                 /\ clientStatus'[v] = clientStatus[v],
               AttemptsFit(u)'
        PROVE  AttemptsAreFollowed'
    BY <2>1, <2>2, <2>4, StaysFollowed DEF AttemptsAreFollowed
  <2>5. CASE ClientReady(k) \/ Authenticated(k)
    <3>1. /\ reconnectAttempts'[u] = 0 /\ UNCHANGED reconnectTimers
          /\ \A v \in Users : v # u => /\ reconnectAttempts'[v] = reconnectAttempts[v]
                                      /\ clientStatus'[v] = clientStatus[v]
      BY <2>1, <2>5 DEF ClientReady, Authenticated, TypeOK
    <3>2. AttemptsFit(u)'
      BY <3>1 DEF AttemptsFit
    <3>3. QED
      BY <2>4, <3>1, <3>2
  <2>6. CASE AuthFailure(k) \/ Disconnected(k)
    <3>1. clientStatus'[u] \notin {"ready", "authenticated"} /\ HandleReconnect(u)
      BY <2>1, <2>6 DEF AuthFailure, Disconnected, TypeOK
    <3>2. reconnectAttempts'[u] \in 1..MaxReconnectAttempts => reconnectTimers'[u] > 0
      BY <3>1, BoundAssumption DEF HandleReconnect, TypeOK
    <3>3. AttemptsFit(u)'
      BY <3>1, <3>2 DEF AttemptsFit, Followed
    <3>4. QED
      BY <2>1, <2>4, <2>6, <3>3 DEF AuthFailure, Disconnected, HandleReconnect, TypeOK
  <2>7. QED
    BY <1>8, <2>3, <2>5, <2>6 DEF ClientEvent
<1>9. CASE LogOutAll \/ ClearClients \/ UNCHANGED vars
           \/ (\E k \in Calls : LoggedOut(k)) \/ \E u \in Users : ThrottleExpires(u) \/ CooldownExpires(u)
  <2>1. UNCHANGED <<callVars, reconnectAttempts, reconnectTimers, clientStatus>>
    BY <1>9 DEF LogOutAll, ClearClients, LoggedOut, ThrottleExpires, CooldownExpires, vars,
      serviceVars
  <2>2. QED
    BY <1>4, <2>1 DEF BodyStep, callVars
<1>10. ASSUME NEW how, Lose(how) PROVE AttemptsAreFollowed'
  BY <1>10 DEF Lose, AttemptsAreFollowed, AttemptsFit
<1>11. QED
  BY <1>1, <1>2, <1>3, <1>5, <1>6, <1>7, <1>8, <1>9, <1>10
  DEF Next, Request, Operation, UnhandledRejection, Stop, Restart

-----------------------------------------------------------------------------
(* The theorems. *)

\* The inductive invariant holds in every state of the service, for any users,
\* number of calls, attempts and timers.
THEOREM Invariance == Spec => []IInv
<1>1. Init => IInv
  <2> SUFFICES ASSUME Init PROVE IInv
    OBVIOUS
  <2>1. Owed = {} /\ arrivals = 0
    BY DEF Init, Owed
  <2>2. RoomIsKept
    BY <2>1, FS_EmptySet, BoundAssumption DEF RoomIsKept
  <2>3. CallsAreNumbered
    BY BoundAssumption DEF Init, CallsAreNumbered, Calls
  <2>4. PlacesFit /\ ClientsWereCreated /\ RegisteredClientIsSound /\ AttemptsAreFollowed
    BY DEF Init, PlacesFit, PlaceFits, ClientsWereCreated, RegisteredClientIsSound, Registered,
      AttemptsAreFollowed, AttemptsFit
  <2>5. QED
    BY <2>2, <2>3, <2>4, InitialTypes DEF IInv
<1>2. IInv /\ [Next]_vars => IInv'
  BY TypesKept, NumberingKept, RoomKept, PlacesKept, CreationKept, SoundnessKept, AttemptsKept DEF IInv
<1>3. QED
  BY <1>1, <1>2, PTL DEF Spec

\* The variables have their types, and what names a client names one of the user.
THEOREM TypeCorrect == Spec => []TypeOK
  BY Invariance, PTL DEF IInv

\* A registered client is alive and heard, or about to be destroyed.
THEOREM RegisteredIsSound == Spec => []RegisteredClientIsSound
  BY Invariance, PTL DEF IInv

\* A user whom the health check passes over has a timer or a reset on its way, as
\* long as no reset of the user awaits itself.
THEOREM PassedOverIsFollowed == Spec => []PassedOverIsRecovering
<1>1. IInv => PassedOverIsRecovering
  BY BoundAssumption DEF IInv, PassedOverIsRecovering, AttemptsAreFollowed, AttemptsFit
<1>2. QED
  BY <1>1, Invariance, PTL

-----------------------------------------------------------------------------
(* The service implements the queue. *)

\* What the queue sees of a state: the stage and the ticket of every call.
Stage  == [c \in Calls |-> StageOf(pc[c])]
Ticket == [c \in Calls |-> IF pc[c] = "idle" THEN 0 ELSE c - 1]

\* Ready is the same here and there.
LEMMA ReadyIsReady ==
  ASSUME IInv, NEW c \in Calls
  PROVE  Queue!Ready(c) <=> Ready(c)
<1>1. pc[c] = "waiting" => awaited[c] \in Calls
  BY DEF IInv, PlacesFit, PlaceFits
<1>2. QED
  BY <1>1 DEF Queue!Ready, Ready, StageOf

LEMMA QuietIsQuiescent ==
  ASSUME IInv, \A c \in Calls : ~Ready(c)
  PROVE  Queue!Quiescent
  BY ReadyIsReady DEF Queue!Quiescent

\* A call that comes in here comes in there.
LEMMA EnterEnters ==
  ASSUME IInv, NEW c \in Calls, NEW u \in Users, NEW k \in {"start", "reset"},
         NEW p \in Calls \cup {NoCall}, Enter(c, u, k, p)
  PROVE  Queue!Enter(c, u, k, p)
<1> USE DEF IInv
<1>1. /\ c = arrivals + 1 /\ arrivals' = c /\ pc[c] = "idle" /\ pc'[c] # "idle"
      /\ \A d \in Calls : d # c => pc'[d] = pc[d]
  BY EnterEffect
<1>2. arrivals \in Nat
  BY QueueTypes DEF TypeOK
<1>3. Stage' = [Stage EXCEPT ![c] = StageOf(pc'[c])]
  BY <1>1 DEF Stage
<1>4. Ticket' = [Ticket EXCEPT ![c] = arrivals]
  <2>1. c - 1 = arrivals
    BY <1>1, <1>2
  <2>2. QED
    BY <1>1, <2>1 DEF Ticket
<1>5. Stage[c] = "idle"
  BY <1>1 DEF Stage, StageOf
<1>6. Queue!Register(c, u, k, p)
  BY <1>1, <1>4, <1>5 DEF Queue!Register, Enter, Stage, Ticket
<1>7. CASE processingQueue[u] = NoCall
  <2>1. StageOf(pc'[c]) = "running"
    BY <1>7, EnterEffect, CallsAreNumbers DEF StageOf
  <2>2. UNCHANGED awaited /\ processingQueue' = [processingQueue EXCEPT ![u] = c]
    BY <1>7 DEF Enter, Begin
  <2>3. QED
    BY <1>3, <1>6, <1>7, <2>1, <2>2 DEF Queue!Enter, Queue!Begin, Stage
<1>8. CASE processingQueue[u] # NoCall
  <2>1. StageOf(pc'[c]) = "waiting"
    BY <1>8, EnterEffect, CallsAreNumbers DEF StageOf
  <2>2. UNCHANGED processingQueue /\ awaited' = [awaited EXCEPT ![c] = processingQueue[u]]
    BY <1>8 DEF Enter
  <2>3. QED
    BY <1>3, <1>6, <1>8, <2>1, <2>2 DEF Queue!Enter, Stage
<1>9. QED
  BY <1>7, <1>8

\* What the body of a call does, and a step of it, is nothing to the queue.
LEMMA BodyStutters ==
  ASSUME IInv, BodyStep
  PROVE  UNCHANGED Queue!vars
<1>1. \A d \in Calls : StageOf(pc'[d]) = StageOf(pc[d]) /\ (pc'[d] = "idle" <=> pc[d] = "idle")
  BY DEF BodyStep, GoesOn, StageOf, IInv, TypeOK
<1>2. Stage' = Stage /\ Ticket' = Ticket
  BY <1>1 DEF Stage, Ticket
<1>3. UNCHANGED queueVars
  BY DEF BodyStep
<1>4. QED
  BY <1>2, <1>3 DEF Queue!vars, Stage, Ticket, queueVars

\* A continuation that runs here runs there, in the order of the tickets.
LEMMA ResumeResumes ==
  ASSUME IInv, NEW c \in Calls, Resume(c)
  PROVE  Queue!Resume(c)
<1> USE DEF IInv
<1>1. pc[c] = "waiting" /\ owner[c] \in Users /\ kind[c] \in {"start", "reset"}
  BY OwnerOfMade, QueueTypes DEF Resume, Ready, TypeOK
<1>2. /\ processingQueue' = [processingQueue EXCEPT ![owner[c]] = c]
      /\ \A d \in Calls : d # c => pc'[d] = pc[d]
      /\ pc'[c] \in {"finished", "destroying", "cleaning"}
  BY <1>1, BeginEffect DEF Resume
<1>3. Stage' = [Stage EXCEPT ![c] = "running"] /\ Ticket' = Ticket
  BY <1>1, <1>2 DEF Stage, Ticket, StageOf
<1>4. \A d \in Calls : Queue!Ready(d) /\ awaited[d] = awaited[c] => Ticket[c] <= Ticket[d]
  <2> SUFFICES ASSUME NEW d \in Calls, Ready(d), awaited[d] = awaited[c]
               PROVE  Ticket[c] <= Ticket[d]
    BY ReadyIsReady
  <2>1. c <= d /\ pc[d] = "waiting"
    BY DEF Resume, Ready
  <2>2. Ticket[c] = c - 1 /\ Ticket[d] = d - 1
    BY <1>1, <2>1 DEF Ticket
  <2>3. QED
    BY <2>1, <2>2, CallsAreNumbers
<1>5. Queue!Ready(c)
  BY ReadyIsReady DEF Resume
<1>6. UNCHANGED <<awaited, kind, owner, parent, arrivals>>
  BY DEF Resume
<1>7. QED
  BY <1>2, <1>3, <1>4, <1>5, <1>6 DEF Queue!Resume, Queue!Begin, Queue!callVars, Stage, Ticket

\* An operation that settles here may finish there: its nested call has settled.
LEMMA SettleSettles ==
  ASSUME IInv, NEW c \in Calls, Settle(c)
  PROVE  Queue!Settle(c)
<1> USE DEF IInv
<1>1. BodyDone(c) /\ pc[c] \in {"finished", "restarting"}
  BY DEF Settle, BodyDone
<1>2. \A d \in Calls : parent[d] = c => pc[d] = "settled"
  BY <1>1, CallsAreNumbers DEF BodyDone, Nested, PlacesFit, PlaceFits
<1>3. Queue!MayFinish(c) /\ Stage[c] = "running"
  BY <1>1, <1>2 DEF Queue!MayFinish, Stage, StageOf
<1>4. Stage' = [Stage EXCEPT ![c] = "settled"] /\ Ticket' = Ticket
  BY <1>1 DEF Settle, Stage, Ticket, StageOf, TypeOK
<1>5. Queue!Quiescent
  BY QuietIsQuiescent DEF Settle
<1>6. /\ UNCHANGED <<awaited, kind, owner, parent, arrivals>>
      /\ processingQueue' = [processingQueue EXCEPT ![owner[c]] = IF @ = c THEN NoCall ELSE @]
  BY DEF Settle
<1>7. QED
  BY <1>3, <1>4, <1>5, <1>6 DEF Queue!Settle, Queue!callVars, Stage, Ticket

\* The end of a process here is its end there.
LEMMA LossExits ==
  ASSUME NEW how, Lose(how)
  PROVE  Queue!ProcessExit
<1>1. Stage' = [c \in Calls |-> "idle"] /\ Ticket' = [c \in Calls |-> 0]
  BY DEF Lose, Stage, Ticket, StageOf
<1>2. QED
  BY <1>1 DEF Lose, Queue!ProcessExit, Stage, Ticket

\* Every step of the service is one of the queue, or nothing to it.
LEMMA StepsOfQueue ==
  ASSUME IInv, [Next]_vars
  PROVE  [Queue!Next]_(Queue!vars)
<1>1. CASE Arrival \/ \E p \in Calls : CallNested(p)
  <2>1. PICK u \in Users, k \in {"start", "reset"}, p \in Calls \cup {NoCall}, c \in Calls :
          c = NewCall /\ Incoming(u, k, p)
    BY <1>1, ComesIn DEF Incoming
  <2>2. Queue!Enter(c, u, k, p)
    BY <2>1, EnterEnters DEF Incoming
  <2>3. Queue!Quiescent
    BY <2>1, QuietIsQuiescent DEF Incoming, EventLoop, CallNested
  <2>4. CASE p = NoCall
    BY <2>2, <2>3, <2>4 DEF Queue!Invoke, Queue!Next, Queue!Kinds
  <2>5. CASE p # NoCall
    <3>1. /\ p \in Calls /\ pc[p] = "restarting" /\ kind[p] = "reset"
          /\ k = "start" /\ owner[p] = u /\ \A d \in Calls : parent[d] # p
      BY <2>1, <2>5 DEF Incoming, Nested
    <3>2. Stage[p] = "running"
      BY <3>1 DEF Stage, StageOf
    <3>3. Queue!InvokeNested(p, c)
      BY <2>2, <2>3, <3>1, <3>2 DEF Queue!InvokeNested, Stage
    <3>4. QED
      BY <3>1, <3>3 DEF Queue!Next
  <2>6. QED
    BY <2>4, <2>5
<1>2. QED
  BY <1>1, StepKinds, ResumeResumes, SettleSettles, BodyStutters, LossExits
  DEF IInv, QueueStep, Queue!Next

\* WhatsappService, with its clients, timers, events and crashes, implements the
\* queue of operations.
THEOREM QueueImplemented == Spec => ImplementsQueue
<1>1. Init => Queue!Init
  <2> SUFFICES ASSUME Init PROVE Queue!Init
    OBVIOUS
  <2>1. Stage = [c \in Calls |-> "idle"] /\ Ticket = [c \in Calls |-> 0]
    BY DEF Init, Stage, Ticket, StageOf
  <2>2. QED
    BY <2>1 DEF Init, Queue!Init, Stage, Ticket
<1>2. IInv /\ [Next]_vars => [Queue!Next]_(Queue!vars)
  BY StepsOfQueue
<1>3. QED
  BY <1>1, <1>2, Invariance, PTL DEF Spec, ImplementsQueue, Queue!Spec

-----------------------------------------------------------------------------
(* What is proved of the queue holds of the service. *)

QueueProofs == INSTANCE OperationQueue_proofs WITH stage <- Stage, ticket <- Ticket

\* The queue of the proofs is the queue the service implements.
LEMMA SameQueue ==
  /\ Queue!Init => QueueProofs!Init
  /\ [Queue!Next]_(Queue!vars) => [QueueProofs!Next]_(QueueProofs!vars)
  /\ QueueProofs!IInv => Queue!IInv
<1>1. Queue!Init => QueueProofs!Init
  BY DEF QueueProofs!Init, Queue!Init, Stage, Ticket
<1>2. [Queue!Next]_(Queue!vars) => [QueueProofs!Next]_(QueueProofs!vars)
  BY Zenon DEF Stage, Ticket,
    Queue!Next, Queue!vars, Queue!Invoke, Queue!InvokeNested, Queue!Resume, Queue!Settle,
    Queue!ProcessExit, Queue!Kinds, Queue!Quiescent, Queue!Ready, Queue!Enter, Queue!Register,
    Queue!Begin, Queue!MayFinish, Queue!callVars,
    QueueProofs!Next, QueueProofs!vars, QueueProofs!Invoke, QueueProofs!InvokeNested,
    QueueProofs!Resume, QueueProofs!Settle, QueueProofs!ProcessExit, QueueProofs!Kinds,
    QueueProofs!Quiescent, QueueProofs!Ready, QueueProofs!Enter, QueueProofs!Register,
    QueueProofs!Begin, QueueProofs!MayFinish, QueueProofs!callVars
<1>3. QueueProofs!IInv => Queue!IInv
  BY Zenon DEF Stage, Ticket,
    Queue!IInv, Queue!TypeOK, Queue!EntryRuns, Queue!CallShape, Queue!WaitersShareThePromise,
    Queue!ReadyMeansNoEntry, Queue!WaitersAwaitTheEntry, Queue!BeginsInArrivalOrder,
    Queue!SequentialUnlessShared, Queue!SelfAwaitNeverResolves, Queue!Ready, Queue!Shared,
    Queue!RunningFor, Queue!Nullable, Queue!Stages, Queue!Kinds, Queue!Made,
    QueueProofs!IInv, QueueProofs!TypeOK, QueueProofs!EntryRuns, QueueProofs!CallShape,
    QueueProofs!WaitersShareThePromise, QueueProofs!ReadyMeansNoEntry,
    QueueProofs!WaitersAwaitTheEntry, QueueProofs!BeginsInArrivalOrder,
    QueueProofs!SequentialUnlessShared, QueueProofs!SelfAwaitNeverResolves, QueueProofs!Ready,
    QueueProofs!Shared, QueueProofs!RunningFor, QueueProofs!Nullable, QueueProofs!Stages,
    QueueProofs!Kinds, QueueProofs!Made
<1>4. QED
  BY <1>1, <1>2, <1>3

\* The inductive invariant of the queue, and with it every property proved of the
\* queue, holds of the service.
THEOREM QueueInvariant == Spec => []Queue!IInv
<1>1. NoUser \notin Users /\ NoCall \notin Calls
  BY NullAssumption, CallsAreNumbers
<1>2. QueueProofs!Spec => []QueueProofs!IInv
  BY <1>1, QueueProofs!Invariance
<1>3. Queue!Spec => QueueProofs!Spec
  BY SameQueue, PTL DEF Queue!Spec, QueueProofs!Spec
<1>4. QED
  BY <1>2, <1>3, QueueImplemented, SameQueue, PTL DEF ImplementsQueue

-----------------------------------------------------------------------------
(* What destroyClient removes. *)

\* While the process lives, two calls that awaited one promise have awaited it.
LEMMA SharedStays ==
  ASSUME IInv, NEW u \in Users, Queue!Shared(u),
         \/ Arrival \/ \E p \in Calls : CallNested(p)
         \/ \E c \in Calls : Resume(c) \/ Settle(c)
         \/ BodyStep
  PROVE  Queue!Shared(u)'
<1>1. CASE Arrival \/ \E p \in Calls : CallNested(p)
  <2>1. PICK v \in Users, k \in {"start", "reset"}, p \in Calls \cup {NoCall} : Incoming(v, k, p)
    BY <1>1, ComesIn
  <2>2. PICK n \in Calls : n = NewCall /\ Enter(n, v, k, p)
    BY <2>1 DEF Incoming
  <2>3. \A d \in Calls : awaited[d] # NoCall => awaited'[d] = awaited[d] /\ owner'[d] = owner[d]
    BY <2>2, EnterEffect DEF IInv
  <2>4. QED
    BY <2>3 DEF Queue!Shared
<1>2. CASE (\E c \in Calls : Resume(c) \/ Settle(c)) \/ BodyStep
  BY <1>2 DEF Resume, Settle, BodyStep, queueVars, Queue!Shared
<1>3. QED
  BY <1>1, <1>2

\* What a call destroys in the next state it was destroying already, or it is
\* what is registered for its user.
LEMMA BeginsWithRegistered ==
  ASSUME IInv, NEW c \in Calls, pc'[c] = "destroying",
         \/ Arrival \/ \E p \in Calls : CallNested(p)
         \/ \E d \in Calls : Resume(d) \/ Settle(d)
         \/ BodyStep
  PROVE  \/ victim'[c] = clients[owner'[c]] /\ ~BodyStep
         \/ pc[c] = "destroying" /\ owner'[c] = owner[c] /\ victim'[c] = victim[c]
<1> USE DEF IInv
<1>1. CASE BodyStep
  BY <1>1, StayEffect DEF BodyStep, GoesOn, queueVars, TypeOK
<1>2. CASE ~BodyStep /\ (Arrival \/ \E p \in Calls : CallNested(p))
  <2>1. PICK v \in Users, k \in {"start", "reset"}, p \in Calls \cup {NoCall} : Incoming(v, k, p)
    BY <1>2, ComesIn
  <2>2. PICK n \in Calls : n = NewCall /\ Enter(n, v, k, p)
    BY <2>1 DEF Incoming
  <2>3. QED
    BY <1>2, <2>2, EnterEffect
<1>3. CASE ~BodyStep /\ \E d \in Calls : Resume(d) \/ Settle(d)
  BY <1>3, StayEffect
<1>4. QED
  BY <1>1, <1>2, <1>3

\* The property survives the steps that register no client ...
LEMMA RemovalsFit ==
  ASSUME IInv, DestroysWhatIsRegistered,
         \/ Arrival \/ \E p \in Calls : CallNested(p)
         \/ \E d \in Calls : Resume(d) \/ Settle(d)
         \/ BodyStep,
         clients' = clients \/ (BodyStep /\ \A v \in Users : clients'[v] \in {clients[v], NoCall})
  PROVE  DestroysWhatIsRegistered'
<1>1. ASSUME NEW c \in Calls, pc'[c] = "destroying", NEW u, u = owner'[c]
      PROVE  clients'[u] \in {victim'[c], NoCall} \/ Queue!Shared(u)'
  <2>1. CASE victim'[c] = clients[u] /\ ~BodyStep
    BY <1>1, <2>1
  <2>2. CASE pc[c] = "destroying" /\ owner[c] = u /\ victim'[c] = victim[c]
    <3>1. u \in Users
      BY <2>2, OwnerOfMade DEF IInv
    <3>2. clients[u] \in {victim[c], NoCall} \/ Queue!Shared(u)
      BY <2>2 DEF DestroysWhatIsRegistered
    <3>3. QED
      BY <2>2, <3>1, <3>2, SharedStays
  <2>3. QED
    BY <1>1, <2>1, <2>2, BeginsWithRegistered
<1>2. \A c \in Calls : pc'[c] = "destroying" =>
        clients'[owner'[c]] \in {victim'[c], NoCall} \/ Queue!Shared(owner[c])'
  BY <1>1 DEF Queue!Shared
<1>3. QED
  BY <1>2 DEF DestroysWhatIsRegistered

\* ... and the creation of a client, because a call of the user that destroys
\* one meanwhile runs beside the call that creates it.
LEMMA CreationFits ==
  ASSUME IInv, Queue!IInv', DestroysWhatIsRegistered, NEW c \in Calls, CreateClient(c)
  PROVE  DestroysWhatIsRegistered'
<1> USE DEF IInv
<1>1. BodyStep /\ owner[c] \in Users
  BY BodySteps, OwnerOfMade DEF CreateClient
<1>2. /\ pc' = [pc EXCEPT ![c] = "initializing"] /\ pc \in [Calls -> Places]
      /\ UNCHANGED <<owner, victim, processingQueue, awaited>>
      /\ \A v \in Users : v # owner[c] => clients'[v] = clients[v]
  BY <1>1 DEF CreateClient, TypeOK, queueVars
<1>3. ASSUME NEW d \in Calls, pc'[d] = "destroying", NEW u \in Users, u = owner[d]
      PROVE  clients'[u] \in {victim'[d], NoCall} \/ Queue!Shared(u)'
  <2>1. d # c /\ pc[d] = "destroying"
    BY <1>2, <1>3
  <2>2. CASE u = owner[c]
    <3>1. StageOf(pc'[c]) = "running" /\ StageOf(pc'[d]) = "running"
      BY <1>2, <1>3 DEF StageOf
    <3>2. ~Queue!Shared(u)' => \A x \in Calls :
            owner'[x] = u /\ StageOf(pc'[x]) = "running" => x = processingQueue'[u]
      BY DEF Queue!IInv, Queue!SequentialUnlessShared, Queue!RunningFor
    <3>3. owner'[c] = u /\ owner'[d] = u
      BY <1>2, <1>3, <2>2
    <3>4. QED
      BY <2>1, <3>1, <3>2, <3>3
  <2>3. CASE u # owner[c]
    <3>1. clients[u] \in {victim[d], NoCall} \/ Queue!Shared(u)
      BY <1>3, <2>1 DEF DestroysWhatIsRegistered
    <3>2. QED
      BY <1>1, <1>2, <1>3, <2>3, <3>1, SharedStays
  <2>4. QED
    BY <2>2, <2>3
<1>4. \A d \in Calls : pc'[d] = "destroying" => owner[d] \in Users
  BY <1>2, OwnerOfMade
<1>5. \A d \in Calls : pc'[d] = "destroying" =>
        clients'[owner'[d]] \in {victim'[d], NoCall} \/ Queue!Shared(owner[d])'
  BY <1>2, <1>3, <1>4 DEF Queue!Shared
<1>6. QED
  BY <1>5 DEF DestroysWhatIsRegistered

\* Every step keeps the property.
LEMMA DestructionFits ==
  ASSUME IInv, Queue!IInv', DestroysWhatIsRegistered, [Next]_vars
  PROVE  DestroysWhatIsRegistered'
<1> USE DEF IInv
<1>1. CASE \E c \in Calls : CreateClient(c)
  BY <1>1, CreationFits
<1>2. CASE \E c \in Calls : Destroyed(c)
  <2>1. PICK c \in Calls : Destroyed(c)
    BY <1>2
  <2>2. BodyStep /\ owner[c] \in Users
    BY <2>1, BodySteps, OwnerOfMade DEF Destroyed
  <2>3. \A v \in Users : clients'[v] \in {clients[v], NoCall}
    BY <2>1, <2>2 DEF Destroyed, TypeOK
  <2>4. QED
    BY <2>2, <2>3, RemovalsFit
<1>3. CASE (\E k \in Calls : LoggedOut(k)) \/ ClearClients
  <2>1. BodyStep
    BY <1>3 DEF LoggedOut, ClearClients, BodyStep, callVars
  <2>2. \A v \in Users : clients'[v] \in {clients[v], NoCall}
    BY <1>3 DEF LoggedOut, ClearClients, TypeOK
  <2>3. QED
    BY <2>1, <2>2, RemovalsFit
<1>4. CASE \E how \in {"up", "stopped", "crashed"} : Lose(how)
  BY <1>4 DEF Lose, DestroysWhatIsRegistered
<1>5. CASE clients' = clients
  BY <1>4, <1>5, StepKinds, RemovalsFit DEF QueueStep
<1>6. \/ clients' = clients \/ (\E c \in Calls : CreateClient(c) \/ Destroyed(c))
      \/ (\E k \in Calls : LoggedOut(k)) \/ ClearClients
      \/ \E how \in {"up", "stopped", "crashed"} : Lose(how)
  <2>1. CASE Request
    BY <2>1 DEF Request, RequestStart, RequestReset, ReconnectFires, HealthCheck, serviceVars
  <2>2. CASE \E c \in Calls : Operation(c) \/ ClientEvent(c)
    BY <2>2 DEF Operation, ClientEvent, Resume, CallNested, Settle, Scrubbed, ReadyToRestart,
       Initialized, InitializeFails, QrTimeout, Qr, ClientReady, Authenticated, AuthFailure,
       Disconnected, serviceVars
  <2>3. CASE \E u \in Users : ThrottleExpires(u) \/ CooldownExpires(u)
    BY <2>3 DEF ThrottleExpires, CooldownExpires
  <2>4. CASE LogOutAll \/ UNCHANGED vars
    BY <2>4 DEF LogOutAll, vars, serviceVars
  <2>5. CASE UnhandledRejection \/ Stop \/ Restart
    BY <2>5 DEF UnhandledRejection, Stop, Restart
  <2>6. QED
    BY <2>1, <2>2, <2>3, <2>4, <2>5 DEF Next
<1>7. QED
  BY <1>1, <1>2, <1>3, <1>4, <1>5, <1>6

\* destroyClient removes, by user id, only the client it destroyed, unless two
\* calls of the user awaited one promise and overlapped (destroyClient, line 1207).
THEOREM DestroysRegistered == Spec => []DestroysWhatIsRegistered
<1>1. Init => DestroysWhatIsRegistered
  BY DEF Init, DestroysWhatIsRegistered
<1>2. QED
  BY <1>1, DestructionFits, Invariance, QueueInvariant, PTL DEF Spec
=============================================================================
