------------------------ MODULE OperationQueue_proofs ------------------------
(***************************************************************************)
(* The safety properties of OperationQueue, for any sets of users and      *)
(* calls.                                                                  *)
(***************************************************************************)
EXTENDS OperationQueue, TLAPS

\* The types of the variables are preserved by every step of the queue.
THEOREM TypeCorrect == Spec => []TypeOK
<1>1. Init => TypeOK
  BY DEF Init, TypeOK, Nullable, Stages, Kinds, Made
<1>2. TypeOK /\ [Next]_vars => TypeOK'
  <2> SUFFICES ASSUME TypeOK, [Next]_vars PROVE TypeOK'
    OBVIOUS
  <2> USE DEF TypeOK, Nullable, Stages, Kinds, callVars, Made
  <2>1. ASSUME NEW c \in Calls, NEW u \in Users, NEW k \in Kinds, Invoke(c, u, k)
        PROVE  TypeOK'
    BY <2>1 DEF Invoke, Enter, Register, Begin
  <2>2. ASSUME NEW p \in Calls, NEW c \in Calls, InvokeNested(p, c)
        PROVE  TypeOK'
    BY <2>2 DEF InvokeNested, Enter, Register, Begin
  <2>3. ASSUME NEW c \in Calls, Resume(c)
        PROVE  TypeOK'
    BY <2>3 DEF Resume, Begin, Ready
  <2>4. ASSUME NEW c \in Calls, Settle(c)
        PROVE  TypeOK'
    BY <2>4 DEF Settle
  <2>5. CASE ProcessExit
    BY <2>5 DEF ProcessExit
  <2>6. CASE UNCHANGED vars
    BY <2>6 DEF vars
  <2>7. QED
    BY <2>1, <2>2, <2>3, <2>4, <2>5, <2>6 DEF Next
<1>3. QED
  BY <1>1, <1>2, PTL DEF Spec

-----------------------------------------------------------------------------
(* Steps that do not stop the process. *)

\* A call that enters queueOperation while no reaction is pending preserves the
\* invariant, whether a client of the service makes it (p = NoCall) or a reset
\* does from its body.
LEMMA EnterPreserves ==
  ASSUME IInv, TypeOK', Quiescent,
         NEW c \in Calls, NEW u \in Users, NEW k \in Kinds,
         NEW p \in Nullable(Calls, NoCall),
         p # NoCall => stage[p] = "running" /\ owner[p] = u,
         Enter(c, u, k, p)
  PROVE  IInv'
<1> USE NullAssumption DEF Enter, Register, Begin
<1> DEFINE e == processingQueue[u]
<1>1. /\ \A d \in Calls : d # c => /\ stage'[d] = stage[d]
                                  /\ owner'[d] = owner[d]
                                  /\ awaited'[d] = awaited[d]
                                  /\ parent'[d] = parent[d]
                                  /\ ticket'[d] = ticket[d]
      /\ stage[c] = "idle" /\ owner[c] = NoUser /\ awaited[c] = NoCall
      /\ owner'[c] = u /\ parent'[c] = p /\ ticket'[c] = arrivals
      /\ arrivals' = arrivals + 1
  BY DEF IInv, TypeOK, CallShape
<1>2. \/ /\ e = NoCall /\ stage'[c] = "running" /\ awaited'[c] = NoCall
         /\ processingQueue'[u] = c
         /\ \A v \in Users : v # u => processingQueue'[v] = processingQueue[v]
      \/ /\ e # NoCall /\ stage'[c] = "waiting" /\ awaited'[c] = e
         /\ processingQueue' = processingQueue
  BY <1>1 DEF IInv, TypeOK
<1>3. e \in Nullable(Calls, NoCall) /\ (e # NoCall => e # c /\ owner[e] = u /\ stage[e] = "running")
  BY <1>1 DEF IInv, TypeOK, EntryRuns, Nullable
<1>4. \A d \in Calls : stage[d] = "waiting" =>
        /\ d # c /\ awaited[d] \in Calls /\ awaited[d] # c
        /\ awaited[d] = processingQueue[owner[d]] /\ stage[awaited[d]] = "running"
        /\ owner[d] \in Users
  BY <1>1 DEF IInv, TypeOK, CallShape, WaitersAwaitTheEntry, Quiescent, Ready, Made
<1>5. EntryRuns'
  BY <1>1, <1>2, <1>3 DEF IInv, TypeOK, EntryRuns, Nullable
<1>6. CallShape'
  BY <1>1, <1>2, <1>3 DEF IInv, TypeOK, CallShape, Nullable
<1>7. WaitersShareThePromise'
  BY <1>1, <1>2, <1>4 DEF IInv, WaitersShareThePromise
<1>8. WaitersAwaitTheEntry'
  BY <1>1, <1>2, <1>3, <1>4 DEF WaitersAwaitTheEntry, Nullable
<1>9. ReadyMeansNoEntry'
  <2> SUFFICES ASSUME NEW d \in Calls, Ready(d)' PROVE FALSE
    BY DEF ReadyMeansNoEntry
  <2>1. CASE d = c
    BY <2>1, <1>1, <1>2, <1>3 DEF Ready, Nullable
  <2>2. CASE d # c
    BY <2>2, <1>1, <1>4 DEF Ready
  <2>3. QED
    BY <2>1, <2>2
<1>10. BeginsInArrivalOrder'
  <2> SUFFICES ASSUME NEW d1 \in Calls, NEW d2 \in Calls,
                      stage'[d1] = "waiting", owner'[d2] = owner'[d1],
                      ticket'[d1] < ticket'[d2]
               PROVE  stage'[d2] = "waiting"
    BY DEF BeginsInArrivalOrder
  <2>1. d1 # c
    <3> SUFFICES ASSUME d1 = c PROVE FALSE
      OBVIOUS
    <3>1. d2 # c /\ owner[d2] = u /\ ticket[d2] > arrivals
      BY <1>1 DEF IInv, TypeOK
    <3>2. QED
      BY <3>1 DEF IInv, TypeOK, CallShape
  <2>2. CASE d2 = c
    BY <2>1, <2>2, <1>1, <1>2, <1>4
  <2>3. CASE d2 # c
    BY <2>1, <2>3, <1>1 DEF IInv, BeginsInArrivalOrder
  <2>4. QED
    BY <2>2, <2>3
<1>11. SequentialUnlessShared'
  <2> SUFFICES ASSUME NEW v \in Users, ~Shared(v)',
                      NEW d \in Calls, owner'[d] = v, stage'[d] = "running"
               PROVE  d = processingQueue'[v]
    BY DEF SequentialUnlessShared, RunningFor
  <2>1. ~Shared(v)
    BY <1>1 DEF Shared
  <2>2. \A x \in Calls : owner[x] = v /\ stage[x] = "running" => x = processingQueue[v]
    BY <2>1 DEF IInv, SequentialUnlessShared, RunningFor
  <2>3. CASE d = c
    BY <2>3, <1>1, <1>2
  <2>4. CASE d # c
    BY <2>2, <2>4, <1>1, <1>2
  <2>5. QED
    BY <2>3, <2>4
<1>12. SelfAwaitNeverResolves'
  <2> SUFFICES ASSUME NEW d \in Calls, parent'[d] # NoCall, awaited'[d] = parent'[d]
               PROVE  stage'[d] = "waiting" /\ stage'[parent'[d]] = "running"
    BY DEF SelfAwaitNeverResolves
  <2>1. CASE d = c
    BY <2>1, <1>1, <1>2, <1>3 DEF Nullable
  <2>2. CASE d # c
    BY <2>2, <1>1 DEF IInv, SelfAwaitNeverResolves, TypeOK, Nullable
  <2>3. QED
    BY <2>1, <2>2
<1>13. QED
  BY <1>5, <1>6, <1>7, <1>8, <1>9, <1>10, <1>11, <1>12 DEF IInv

\* A continuation that runs preserves the invariant: the other ready calls of
\* its user await the same promise and came later.
LEMMA ResumePreserves ==
  ASSUME IInv, TypeOK', NEW c \in Calls, Resume(c)
  PROVE  IInv'
<1> USE NullAssumption DEF Resume, Begin, callVars
<1> DEFINE u == owner[c]
<1>1. /\ stage[c] = "waiting" /\ stage[awaited[c]] = "settled"
      /\ u \in Users /\ awaited[c] \in Calls /\ awaited[c] # c
  BY DEF Ready, IInv, TypeOK, CallShape, Made
<1>2. /\ stage'[c] = "running"
      /\ \A d \in Calls : d # c => stage'[d] = stage[d]
      /\ processingQueue'[u] = c
      /\ \A v \in Users : v # u => processingQueue'[v] = processingQueue[v]
      /\ owner' = owner /\ awaited' = awaited /\ parent' = parent
      /\ ticket' = ticket /\ arrivals' = arrivals
  BY <1>1 DEF IInv, TypeOK
<1>3. \A d \in Calls : stage[d] = "waiting" /\ owner[d] = u =>
        awaited[d] = awaited[c] /\ stage[awaited[d]] = "settled"
  BY <1>1 DEF IInv, WaitersShareThePromise
<1>4. EntryRuns'
  BY <1>1, <1>2 DEF IInv, TypeOK, EntryRuns, Nullable
<1>5. CallShape'
  BY <1>1, <1>2 DEF IInv, TypeOK, CallShape
<1>6. WaitersShareThePromise'
  BY <1>2 DEF IInv, WaitersShareThePromise
<1>7. WaitersAwaitTheEntry'
  <2> SUFFICES ASSUME NEW d \in Calls, stage'[d] = "waiting"
               PROVE  \/ stage'[awaited[d]] = "settled"
                      \/ /\ awaited[d] = processingQueue'[owner[d]]
                         /\ stage'[awaited[d]] = "running"
    BY <1>2 DEF WaitersAwaitTheEntry
  <2>1. d # c /\ stage[d] = "waiting" /\ awaited[d] \in Calls /\ owner[d] \in Users
    BY <1>2 DEF IInv, TypeOK, CallShape, Made
  <2>2. CASE owner[d] = u
    BY <2>1, <2>2, <1>1, <1>2, <1>3
  <2>3. CASE owner[d] # u
    BY <2>1, <2>3, <1>1, <1>2 DEF IInv, WaitersAwaitTheEntry
  <2>4. QED
    BY <2>2, <2>3
<1>8. ReadyMeansNoEntry'
  <2> SUFFICES ASSUME NEW d \in Calls, Ready(d)', ~Shared(owner[d])'
               PROVE  processingQueue'[owner[d]] = NoCall
    BY <1>2 DEF ReadyMeansNoEntry
  <2>1. /\ d # c /\ stage[d] = "waiting" /\ awaited[d] \in Calls
        /\ owner[d] \in Users /\ ~Shared(owner[d])
    BY <1>2 DEF Ready, Shared, IInv, TypeOK, CallShape, Made
  <2>2. owner[d] # u
    BY <2>1, <1>1, <1>3 DEF Shared
  <2>3. stage[awaited[d]] = "settled"
    BY <1>1, <1>2, <2>1 DEF Ready
  <2>4. QED
    BY <2>1, <2>2, <2>3, <1>2 DEF IInv, ReadyMeansNoEntry, Ready
<1>9. BeginsInArrivalOrder'
  <2> SUFFICES ASSUME NEW d1 \in Calls, NEW d2 \in Calls,
                      stage'[d1] = "waiting", owner[d2] = owner[d1],
                      ticket[d1] < ticket[d2]
               PROVE  stage'[d2] = "waiting"
    BY <1>2 DEF BeginsInArrivalOrder
  <2>1. d1 # c /\ stage[d1] = "waiting" /\ stage[d2] = "waiting"
    BY <1>2 DEF IInv, BeginsInArrivalOrder
  <2>2. d2 # c
    <3> SUFFICES ASSUME d2 = c PROVE FALSE
      OBVIOUS
    <3>1. Ready(d1) /\ awaited[d1] = awaited[c]
      BY <2>1, <1>3 DEF Ready
    <3>2. QED
      BY <3>1 DEF IInv, TypeOK
  <2>3. QED
    BY <2>1, <2>2, <1>2
<1>10. SequentialUnlessShared'
  <2> SUFFICES ASSUME NEW v \in Users, ~Shared(v)',
                      NEW d \in Calls, owner[d] = v, stage'[d] = "running"
               PROVE  d = processingQueue'[v]
    BY <1>2 DEF SequentialUnlessShared, RunningFor
  <2>1. ~Shared(v)
    BY <1>2 DEF Shared
  <2>2. \A x \in Calls : owner[x] = v /\ stage[x] = "running" => x = processingQueue[v]
    BY <2>1 DEF IInv, SequentialUnlessShared, RunningFor
  <2>3. CASE v = u
    <3>1. processingQueue[u] = NoCall
      BY <2>1, <2>3, <1>1 DEF IInv, ReadyMeansNoEntry, Ready
    <3>2. QED
      BY <3>1, <2>2, <2>3, <1>2
  <2>4. CASE v # u
    BY <2>2, <2>4, <1>2
  <2>5. QED
    BY <2>3, <2>4
<1>11. SelfAwaitNeverResolves'
  BY <1>1, <1>2 DEF IInv, SelfAwaitNeverResolves, TypeOK, Nullable
<1>12. QED
  BY <1>4, <1>5, <1>6, <1>7, <1>8, <1>9, <1>10, <1>11 DEF IInv

\* An operation that finishes preserves the invariant: no reaction was pending,
\* so the calls that become ready are those that await this operation, and then
\* it is the entry that `finally` removes.
LEMMA SettlePreserves ==
  ASSUME IInv, TypeOK', NEW c \in Calls, Settle(c)
  PROVE  IInv'
<1> USE NullAssumption DEF Settle, callVars
<1> DEFINE u == owner[c]
<1>1. stage[c] = "running" /\ u \in Users
  BY DEF IInv, TypeOK, Made
<1>2. /\ stage'[c] = "settled"
      /\ \A d \in Calls : d # c => stage'[d] = stage[d]
      /\ processingQueue'[u] = IF processingQueue[u] = c THEN NoCall ELSE processingQueue[u]
      /\ \A v \in Users : v # u => processingQueue'[v] = processingQueue[v]
      /\ owner' = owner /\ awaited' = awaited /\ parent' = parent
      /\ ticket' = ticket /\ arrivals' = arrivals
  BY <1>1 DEF IInv, TypeOK
<1>3. \A d \in Calls : stage[d] = "waiting" =>
        /\ d # c /\ awaited[d] \in Calls /\ owner[d] \in Users
        /\ awaited[d] = processingQueue[owner[d]]
        /\ stage[awaited[d]] = "running" /\ owner[awaited[d]] = owner[d]
  BY <1>1 DEF IInv, TypeOK, CallShape, WaitersAwaitTheEntry, EntryRuns, Quiescent, Ready, Made
<1>4. EntryRuns'
  BY <1>1, <1>2 DEF IInv, TypeOK, EntryRuns, Nullable
<1>5. CallShape'
  BY <1>1, <1>2 DEF IInv, TypeOK, CallShape
<1>6. WaitersShareThePromise'
  BY <1>1, <1>2 DEF IInv, WaitersShareThePromise
<1>7. WaitersAwaitTheEntry'
  BY <1>1, <1>2, <1>3 DEF WaitersAwaitTheEntry
<1>8. ReadyMeansNoEntry'
  BY <1>1, <1>2, <1>3 DEF ReadyMeansNoEntry, Ready
<1>9. BeginsInArrivalOrder'
  BY <1>1, <1>2 DEF IInv, BeginsInArrivalOrder
<1>10. SequentialUnlessShared'
  <2> SUFFICES ASSUME NEW v \in Users, ~Shared(v)',
                      NEW d \in Calls, owner[d] = v, stage'[d] = "running"
               PROVE  d = processingQueue'[v]
    BY <1>2 DEF SequentialUnlessShared, RunningFor
  <2>1. ~Shared(v)
    BY <1>2 DEF Shared
  <2>2. d # c /\ d = processingQueue[v]
    BY <2>1, <1>2 DEF IInv, SequentialUnlessShared, RunningFor
  <2>3. QED
    BY <2>2, <1>1, <1>2
<1>11. SelfAwaitNeverResolves'
  <2> SUFFICES ASSUME NEW d \in Calls, parent[d] # NoCall, awaited[d] = parent[d]
               PROVE  stage'[d] = "waiting" /\ stage'[parent[d]] = "running"
    BY <1>2 DEF SelfAwaitNeverResolves
  <2>1. stage[d] = "waiting" /\ stage[parent[d]] = "running" /\ parent[d] \in Calls
    BY DEF IInv, SelfAwaitNeverResolves, TypeOK, Nullable
  <2>2. d # c /\ parent[d] # c
    BY <2>1, <1>1 DEF MayFinish
  <2>3. QED
    BY <2>1, <2>2, <1>2
<1>12. QED
  BY <1>4, <1>5, <1>6, <1>7, <1>8, <1>9, <1>10, <1>11 DEF IInv

-----------------------------------------------------------------------------
(* The theorems about the queue. *)

\* The initial state, and with it the state after a restart, has no call.
LEMMA InitEstablishes == Init => IInv
<1> SUFFICES ASSUME Init PROVE IInv
  OBVIOUS
<1>1. TypeOK
  BY DEF Init, TypeOK, Nullable, Stages, Kinds, Made
<1>2. QED
  BY <1>1, NullAssumption
  DEF Init, IInv, EntryRuns, CallShape, WaitersShareThePromise, ReadyMeansNoEntry, Ready,
      WaitersAwaitTheEntry, BeginsInArrivalOrder, SequentialUnlessShared, RunningFor,
      SelfAwaitNeverResolves

\* IInv is an inductive invariant of the queue.
THEOREM Invariance == Spec => []IInv
<1>1. IInv /\ TypeOK' /\ [Next]_vars => IInv'
  <2> SUFFICES ASSUME IInv, TypeOK', [Next]_vars PROVE IInv'
    OBVIOUS
  <2>1. ASSUME NEW c \in Calls, NEW u \in Users, NEW k \in Kinds, Invoke(c, u, k)
        PROVE  IInv'
    BY <2>1, EnterPreserves DEF Invoke, Nullable
  <2>2. ASSUME NEW p \in Calls, NEW c \in Calls, InvokeNested(p, c)
        PROVE  IInv'
    <3>1. owner[p] \in Users
      BY <2>2 DEF InvokeNested, IInv, TypeOK, Made
    <3>2. QED
      BY <2>2, <3>1, EnterPreserves DEF InvokeNested, Nullable, Kinds
  <2>3. ASSUME NEW c \in Calls, Resume(c) PROVE IInv'
    BY <2>3, ResumePreserves
  <2>4. ASSUME NEW c \in Calls, Settle(c) PROVE IInv'
    BY <2>4, SettlePreserves
  <2>5. CASE ProcessExit
    <3>1. Init'
      BY <2>5 DEF ProcessExit, Init
    <3>2. QED
      BY <3>1, InitEstablishes, PTL
  <2>6. CASE UNCHANGED vars
    BY <2>6 DEF vars, IInv, TypeOK, EntryRuns, CallShape, WaitersShareThePromise,
                ReadyMeansNoEntry, Ready, WaitersAwaitTheEntry, BeginsInArrivalOrder,
                SequentialUnlessShared, RunningFor, Shared, SelfAwaitNeverResolves, Made
  <2>7. QED
    BY <2>1, <2>2, <2>3, <2>4, <2>5, <2>6 DEF Next
<1>2. QED
  BY <1>1, InitEstablishes, TypeCorrect, PTL DEF Spec

\* Until two calls await the same promise, a user has one operation at a time
\* and it is the one the map names.
THEOREM Sequential == Spec => []SequentialUnlessShared
<1>1. IInv => SequentialUnlessShared
  BY DEF IInv
<1>2. QED
  BY <1>1, Invariance, PTL

\* The operations of a user begin in the order in which they were requested,
\* overlapping or not.
THEOREM ArrivalOrder == Spec => []BeginsInArrivalOrder
<1>1. IInv => BeginsInArrivalOrder
  BY DEF IInv
<1>2. QED
  BY <1>1, Invariance, PTL

\* A waiting call awaits a running operation or has been woken up.
THEOREM NoLostWakeup == Spec => []WaitersAwaitTheEntry
<1>1. IInv => WaitersAwaitTheEntry
  BY DEF IInv
<1>2. QED
  BY <1>1, Invariance, PTL

\* A nested call that awaits its own caller waits as long as the process lives.
THEOREM SelfAwait == Spec => []SelfAwaitNeverResolves
<1>1. IInv => SelfAwaitNeverResolves
  BY DEF IInv
<1>2. QED
  BY <1>1, Invariance, PTL

\* A reset of a user whose calls never piled up awaits itself: with SelfAwait,
\* resetAndRestartClient deadlocks whenever the queue was used sequentially.
THEOREM LoneReset == Spec => []LoneResetAwaitsItself
<1> USE NullAssumption
<1>1. Init => LoneResetAwaitsItself
  BY DEF Init, LoneResetAwaitsItself
<1>2. IInv /\ LoneResetAwaitsItself /\ [Next]_vars => LoneResetAwaitsItself'
  <2> SUFFICES ASSUME IInv, LoneResetAwaitsItself, [Next]_vars
               PROVE  LoneResetAwaitsItself'
    OBVIOUS
  <2>1. ASSUME NEW c \in Calls, NEW u \in Users, NEW k \in Kinds, Invoke(c, u, k)
        PROVE  LoneResetAwaitsItself'
    BY <2>1 DEF Invoke, Enter, Register, Begin, LoneResetAwaitsItself, Shared,
                IInv, TypeOK, CallShape
  <2>2. ASSUME NEW p \in Calls, NEW c \in Calls, InvokeNested(p, c)
        PROVE  LoneResetAwaitsItself'
    <3> USE <2>2 DEF InvokeNested, Enter, Register, Begin
    <3> SUFFICES ASSUME NEW d \in Calls, parent'[d] # NoCall, ~Shared(owner[d])'
                 PROVE  awaited'[d] = parent'[d]
      BY DEF LoneResetAwaitsItself
    <3>1. CASE d = c
      <4>1. owner[p] \in Users /\ owner'[c] = owner[p] /\ parent'[c] = p
        BY DEF IInv, TypeOK, Made
      <4>2. \A x \in Calls : x # c =>
              awaited'[x] = awaited[x] /\ owner'[x] = owner[x]
        BY DEF IInv, TypeOK
      <4>3. stage[c] = "idle" /\ owner[c] = NoUser
        BY DEF IInv, CallShape
      <4>4. ~Shared(owner[p])
        BY <3>1, <4>1, <4>2, <4>3 DEF Shared
      <4>5. processingQueue[owner[p]] = p
        BY <4>1, <4>4 DEF IInv, SequentialUnlessShared, RunningFor
      <4>6. QED
        BY <3>1, <4>1, <4>5 DEF IInv, TypeOK
    <3>2. CASE d # c
      BY <3>2 DEF LoneResetAwaitsItself, Shared, IInv, TypeOK, CallShape
    <3>3. QED
      BY <3>1, <3>2
  <2>3. ASSUME NEW c \in Calls, Resume(c) PROVE LoneResetAwaitsItself'
    BY <2>3 DEF Resume, callVars, LoneResetAwaitsItself, Shared
  <2>4. ASSUME NEW c \in Calls, Settle(c) PROVE LoneResetAwaitsItself'
    BY <2>4 DEF Settle, callVars, LoneResetAwaitsItself, Shared
  <2>5. CASE ProcessExit
    BY <2>5 DEF ProcessExit, LoneResetAwaitsItself
  <2>6. CASE UNCHANGED vars
    BY <2>6 DEF vars, LoneResetAwaitsItself, Shared
  <2>7. QED
    BY <2>1, <2>2, <2>3, <2>4, <2>5, <2>6 DEF Next
<1>3. QED
  BY <1>1, <1>2, Invariance, PTL DEF Spec
=============================================================================
