-------------------------- MODULE Integrations_proofs ------------------------
(***************************************************************************)
(* What connects the employees with the outside: the events that announce  *)
(* them over the broker, and the salaries that are fetched for them.       *)
(***************************************************************************)
EXTENDS EmployeeEvents, PayrollSync, TLAPS

-----------------------------------------------------------------------------
(***************************************************************************)
(* EmployeeEvents, for any number of employees: an event is welcomed at    *)
(* most once, is never forgotten while everything runs, and publisher,     *)
(* broker and consumer together implement EventDelivery.  The invariant    *)
(* says in which one place an event is, and that its e-mail was sent       *)
(* exactly when the handler is past that step or the event is nowhere any  *)
(* more.                                                                   *)
(***************************************************************************)

\* An event that waits anywhere was announced, has not been welcomed and is
\* in that place only; one past its e-mail was welcomed once.
Placed ==
  \A e \in Events :
    /\ e \in unsent \cup queue \cup dropped => emails[e] = 0 /\ e \in published
    /\ e \in unsent => e \notin queue \cup dropped /\ step[e] = "none"
    /\ e \in queue => e \notin dropped /\ step[e] = "none"
    /\ step[e] = "email" => emails[e] = 0 /\ e \notin dropped
    /\ step[e] \in {"payroll", "ack"} => emails[e] = 1
    /\ step[e] # "none" => e \in published
    /\ e \notin published => emails[e] = 0
    /\ emails[e] \in {0, 1}

\* An announced event waits somewhere, was welcomed or was dropped.
Somewhere ==
  \A e \in published :
    e \in unsent \/ e \in queue \/ step[e] = "email" \/ emails[e] = 1 \/ e \in dropped

Inv == TypeOK /\ Placed /\ Somewhere

\* No event is anywhere at the start.
LEMMA InitInv == Init => Inv
BY DEF Init, Inv, TypeOK, Placed, Somewhere, Steps, Handled

\* Every step moves an event from one place to one other.
LEMMA NextInv == Inv /\ [Next]_vars => Inv'
<1> SUFFICES ASSUME Inv, [Next]_vars PROVE Inv'
  OBVIOUS
<1> USE DEF Inv, TypeOK, Placed, Somewhere, Steps, Handled, handlers, history
<1>1. ASSUME NEW e \in Events, Publish(e) PROVE Inv'
  BY <1>1 DEF Publish
<1>2. ASSUME NEW e \in Events, Emit(e) PROVE Inv'
  BY <1>2 DEF Emit
<1>3. ASSUME NEW e \in Events, Deliver(e) PROVE Inv'
  BY <1>3 DEF Deliver
<1>4. ASSUME NEW e \in Events, SendWelcomeEmail(e) PROVE Inv'
  BY <1>4 DEF SendWelcomeEmail
<1>5. ASSUME NEW e \in Events, SyncWithPayroll(e) PROVE Inv'
  BY <1>5 DEF SyncWithPayroll
<1>6. ASSUME NEW e \in Events, Ack(e) PROVE Inv'
  BY <1>6 DEF Ack
<1>7. CASE Reconnect
  BY <1>7 DEF Reconnect, OnTheirWay
<1>8. CASE Crash
  BY <1>8 DEF Crash, OnTheirWay
<1>9. CASE BrokerRestart
  BY <1>9 DEF BrokerRestart
<1>10. CASE UNCHANGED vars
  BY <1>10 DEF vars
<1> QED BY <1>1, <1>2, <1>3, <1>4, <1>5, <1>6, <1>7, <1>8, <1>9, <1>10 DEF Next, Work

\* The invariant holds of every state, for any set of events.
THEOREM Invariance == Spec => []Inv
BY InitInv, NextInv, PTL DEF Spec

\* The variables keep their types.
THEOREM TypeCorrect == Spec => []TypeOK
<1>1. Inv => TypeOK
  BY DEF Inv
<1> QED BY <1>1, Invariance, PTL

\* No employee is welcomed twice, through crashes and broker restarts.
THEOREM AtMostOnce == Spec => []WelcomedAtMostOnce
<1>1. ASSUME Placed, NEW e \in Events PROVE emails[e] <= 1
  <2>1. emails[e] = 0 \/ emails[e] = 1
    BY <1>1 DEF Placed
  <2> QED BY <2>1
<1>2. Inv => WelcomedAtMostOnce
  BY <1>1 DEF Inv, WelcomedAtMostOnce
<1> QED BY <1>2, Invariance, PTL

\* An announced event is in one place and in one only, the places welcomed and
\* dropped among them.
THEOREM NoneForgotten == Spec => []Accounted
<1>1. ASSUME Inv, NEW e \in published
      PROVE  \E place \in DOMAIN Whereabouts :
               /\ e \in Whereabouts[place]
               /\ \A other \in DOMAIN Whereabouts \ {place} : e \notin Whereabouts[other]
  <2>1. DOMAIN Whereabouts = {"publisher", "broker", "handler", "welcomed", "dropped"}
    BY DEF Whereabouts
  <2>2. /\ Whereabouts["publisher"] = unsent /\ Whereabouts["broker"] = queue
        /\ Whereabouts["handler"] = {d \in Events : step[d] = "email"}
        /\ Whereabouts["welcomed"] = {d \in Events : emails[d] > 0}
        /\ Whereabouts["dropped"] = dropped
    BY DEF Whereabouts
  <2>3. e \in Events /\ emails[e] \in {0, 1} /\ (emails[e] > 0 <=> emails[e] = 1)
    BY <1>1 DEF Inv, TypeOK, Placed
  <2>4. \/ e \in unsent /\ e \notin queue \cup dropped /\ step[e] # "email" /\ emails[e] = 0
        \/ e \in queue /\ e \notin unsent \cup dropped /\ step[e] # "email" /\ emails[e] = 0
        \/ step[e] = "email" /\ e \notin unsent \cup queue \cup dropped /\ emails[e] = 0
        \/ emails[e] = 1 /\ e \notin unsent \cup queue \cup dropped /\ step[e] # "email"
        \/ e \in dropped /\ e \notin unsent \cup queue /\ step[e] # "email" /\ emails[e] = 0
    BY <1>1, <2>3 DEF Inv, Placed, Somewhere
  <2> QED BY <2>1, <2>2, <2>3, <2>4
<1>2. Inv => Accounted
  BY <1>1 DEF Accounted
<1> QED BY <1>2, Invariance, PTL

\* At the start nothing is due.
LEMMA InitRefines == Init => Delivery!Init
BY DEF Init, Due, Delivery!Init

\* Publishing makes an event due, the e-mail welcomes it, a failed emit, a
\* crash and a broker restart lose what is due; other steps change nothing.
LEMMA NextRefines == Inv /\ [Next]_vars => [Delivery!Next]_<<Due, emails, dropped>>
<1> SUFFICES ASSUME Inv, [Next]_vars PROVE [Delivery!Next]_<<Due, emails, dropped>>
  OBVIOUS
<1> USE DEF Inv, TypeOK, Placed, Steps, Due, handlers, history
<1>1. ASSUME NEW e \in Events, Publish(e) PROVE Delivery!Announce(e)
  BY <1>1 DEF Publish, Delivery!Announce
<1>2. ASSUME NEW e \in Events, Emit(e) PROVE Delivery!Lose({e}) \/ UNCHANGED <<Due, emails, dropped>>
  BY <1>2 DEF Emit, Delivery!Lose
<1>3. ASSUME NEW e \in Events, Deliver(e) PROVE UNCHANGED <<Due, emails, dropped>>
  BY <1>3 DEF Deliver
<1>4. ASSUME NEW e \in Events, SendWelcomeEmail(e) PROVE Delivery!Welcome(e)
  <2>1. emails[e] = 0 /\ e \in Due /\ e \notin unsent \cup queue /\ dropped' = dropped
    BY <1>4 DEF SendWelcomeEmail
  <2>2. emails' = [emails EXCEPT ![e] = 1]
    BY <1>4, <2>1 DEF SendWelcomeEmail
  <2>3. Due' = Due \ {e}
    BY <1>4, <2>1 DEF SendWelcomeEmail
  <2> QED BY <2>1, <2>2, <2>3 DEF Delivery!Welcome
<1>5. ASSUME NEW e \in Events, SyncWithPayroll(e) \/ Ack(e) PROVE UNCHANGED <<Due, emails, dropped>>
  BY <1>5 DEF SyncWithPayroll, Ack
<1>6. CASE Crash
  <2>1. PICK es \in SUBSET OnTheirWay :
          /\ queue' = queue \ es
          /\ dropped' = dropped \cup es \cup unsent \cup {e \in Handled : emails[e] = 0}
    BY <1>6 DEF Crash
  <2> DEFINE gone == es \cup unsent \cup {e \in Events : step[e] = "email"}
  <2>2. es \subseteq queue
    BY DEF OnTheirWay
  <2>3. Delivery!Lose(gone)
    BY <1>6, <2>1, <2>2 DEF Crash, Handled, Delivery!Lose
  <2> QED BY <2>3 DEF Delivery!Next, Delivery!Lose
<1>7. CASE BrokerRestart
  <2>1. Delivery!Lose(queue)
    BY <1>7 DEF BrokerRestart, Delivery!Lose
  <2> QED BY <2>1 DEF Delivery!Next, Delivery!Lose
<1>8. CASE Reconnect
  <2>1. PICK es \in SUBSET OnTheirWay : queue' = queue \ es /\ dropped' = dropped \cup es
    BY <1>8 DEF Reconnect
  <2>2. es \subseteq queue
    BY DEF OnTheirWay
  <2>3. Delivery!Lose(es)
    BY <1>8, <2>1, <2>2 DEF Reconnect, Delivery!Lose
  <2> QED BY <2>3 DEF Delivery!Next, Delivery!Lose
<1>11. CASE UNCHANGED vars
  BY <1>11 DEF vars
<1>9. ASSUME NEW e \in Events, Delivery!Lose({e}) PROVE Delivery!Next
  BY <1>9 DEF Delivery!Next, Delivery!Lose
<1>10. ASSUME NEW e \in Events, Delivery!Announce(e) \/ Delivery!Welcome(e) PROVE Delivery!Next
  BY <1>10 DEF Delivery!Next
<1> QED BY <1>1, <1>2, <1>3, <1>4, <1>5, <1>6, <1>7, <1>8, <1>9, <1>10, <1>11 DEF Next, Work

\* Publisher, broker and consumer implement the abstract delivery.
THEOREM Implementation == Spec => ImplementsDelivery
BY InitRefines, NextRefines, Invariance, PTL
   DEF Spec, ImplementsDelivery, Delivery!Spec, Delivery!vars

-----------------------------------------------------------------------------
(***************************************************************************)
(* PayrollSync, for any employees, salaries and requests: what a           *)
(* synchronisation stores is what it was asked for.  The invariant speaks  *)
(* of the batch from the answer on, whether it is still being saved or     *)
(* already stored: once it is stored no save of the request is under way   *)
(* any more.                                                               *)
(***************************************************************************)

\* At most one salary of each employee.
OnePerEmployee(items) == \A i, j \in items : i.employeeId = j.employeeId => i = j

\* A batch belongs to a request answered with success, holds what it asked
\* for, and is either being saved or stored.
Batches ==
  \A q \in Requests :
    /\ request[q].pc # "synced" => saving[q] = {} /\ RowsOf(q) = {}
    /\ saving[q] # {} => RowsOf(q) = {}
    /\ \A i \in saving[q] \cup RowsOf(q) : i.employeeId \in request[q].ids
    /\ OnePerEmployee(saving[q]) /\ OnePerEmployee(RowsOf(q))

PSInv == PSTypeOK /\ Batches

\* The filter keeps wanted items, and no more of an employee than there were.
LEMMA FilteredItems ==
  ASSUME NEW data, NEW ids, FakeSalaries(data)
  PROVE  /\ Filtered(data, ids) \subseteq Item
         /\ \A i \in Filtered(data, ids) : i.employeeId \in ids
         /\ OnePerEmployee(Filtered(data, ids))
BY DEF Filtered, FakeSalaries, OnePerEmployee

\* A save adds its batch to the rows of its own request and to no others.
LEMMA SavedRows ==
  ASSUME NEW q \in Requests, NEW p \in Requests,
         table' = table \cup {[by |-> q, item |-> i] : i \in saving[q]}
  PROVE  RowsOf(p)' = IF p = q THEN RowsOf(q) \cup saving[q] ELSE RowsOf(p)
<1> DEFINE new == {[by |-> q, item |-> i] : i \in saving[q]}
<1>1. \A r \in new : r.by = q /\ r.item \in saving[q]
  OBVIOUS
<1>2. ASSUME NEW i \in saving[q] PROVE \E r \in new : r.by = q /\ r.item = i
  <2>1. [by |-> q, item |-> i] \in new
    OBVIOUS
  <2> QED BY <2>1
<1> QED BY <1>1, <1>2 DEF RowsOf

\* An answer changes one request's step and nobody's ids or rows.
LEMMA Answered ==
  ASSUME PSTypeOK, NEW q \in Requests, NEW a \in Answers, Answer(q, a), UNCHANGED table
  PROVE  \A p \in Requests :
           /\ request'[p].pc = IF p = q THEN a ELSE request[p].pc
           /\ request'[p].ids = request[p].ids
           /\ RowsOf(p)' = RowsOf(p)
BY DEF PSTypeOK, Answer, RowsOf

\* Nothing is asked for or stored at the start.
LEMMA PSInitInv == PSInit => PSInv
BY DEF PSInit, PSInv, PSTypeOK, Batches, OnePerEmployee, RowsOf, Answers

\* The invariant is inductive.
LEMMA PSNextInv == PSInv /\ [PSNext]_psVars => PSInv'
<1> SUFFICES ASSUME PSInv, [PSNext]_psVars PROVE PSInv'
  OBVIOUS
<1> USE DEF PSInv, PSTypeOK, Answers
<1>1. ASSUME NEW q \in Requests, NEW ids \in SUBSET Employees, Sync(q, ids) PROVE PSInv'
  BY <1>1 DEF Sync, Batches, OnePerEmployee, RowsOf
<1>2. ASSUME NEW q \in Requests, NEW data \in SUBSET Item, Fetched(q, data) PROVE PSInv'
  <2> DEFINE batch == Filtered(data, request[q].ids)
  <2>1. /\ batch \subseteq Item
        /\ \A i \in batch : i.employeeId \in request[q].ids
        /\ OnePerEmployee(batch)
    BY <1>2, FilteredItems DEF Fetched
  <2> HIDE DEF batch
  <2>2. request[q].pc = "fetch" /\ UNCHANGED table
    BY <1>2 DEF Fetched
  <2>3. CASE batch = {}
    <3>1. Answer(q, "noData") /\ UNCHANGED saving
      BY <1>2, <2>3 DEF Fetched, batch
    <3>2. PSTypeOK'
      BY <2>2, <3>1 DEF Answer
    <3>3. Batches'
      BY <2>2, <3>1, Answered DEF Batches, OnePerEmployee
    <3> QED BY <3>2, <3>3
  <2>4. CASE batch # {}
    <3>1. Answer(q, "synced") /\ saving' = [saving EXCEPT ![q] = batch]
      BY <1>2, <2>4 DEF Fetched, batch
    <3>2. PSTypeOK'
      BY <2>1, <2>2, <3>1 DEF Answer
    <3>3. Batches'
      BY <2>1, <2>2, <3>1, Answered DEF Batches, OnePerEmployee
    <3> QED BY <3>2, <3>3
  <2> QED BY <2>3, <2>4
<1>3. ASSUME NEW q \in Requests, FetchFails(q) PROVE PSInv'
  <2>1. PSTypeOK'
    BY <1>3 DEF FetchFails, Answer
  <2>2. Batches'
    BY <1>3, Answered DEF FetchFails, Batches, OnePerEmployee
  <2> QED BY <2>1, <2>2
<1>4. ASSUME NEW q \in Requests, Save(q) PROVE PSInv'
  <2>1. PSTypeOK'
    BY <1>4 DEF Save
  <2>2. ASSUME NEW p \in Requests
        PROVE  RowsOf(p)' = IF p = q THEN RowsOf(q) \cup saving[q] ELSE RowsOf(p)
    BY <1>4, SavedRows DEF Save
  <2>3. RowsOf(q) = {} /\ request[q].pc = "synced" /\ saving[q] # {}
    BY <1>4 DEF Save, Batches
  <2>4. Batches'
    BY <1>4, <2>2, <2>3 DEF Save, Batches, OnePerEmployee
  <2> QED BY <2>1, <2>4
<1>5. CASE ProcessEnds
  <2>1. PSTypeOK'
    BY <1>5 DEF ProcessEnds
  <2>2. Batches'
    BY <1>5 DEF ProcessEnds, Batches, OnePerEmployee, RowsOf
  <2> QED BY <2>1, <2>2
<1>6. CASE UNCHANGED psVars
  BY <1>6 DEF psVars, Batches, OnePerEmployee, RowsOf
<1> QED BY <1>1, <1>2, <1>3, <1>4, <1>5, <1>6 DEF PSNext

\* The invariant holds for any employees, salaries and requests.
THEOREM PSInvariance == PSSpec => []PSInv
BY PSInitInv, PSNextInv, PTL DEF PSSpec

\* The variables of the synchronisation keep their types.
THEOREM PSTypeCorrect == PSSpec => []PSTypeOK
<1>1. PSInv => PSTypeOK
  BY DEF PSInv
<1> QED BY <1>1, PSInvariance, PTL

\* A synchronisation stores at most one salary of an employee it asked for.
THEOREM Selected == PSSpec => []StoresWhatWasSelected
<1>1. PSInv => StoresWhatWasSelected
  BY DEF PSInv, Batches, OnePerEmployee, StoresWhatWasSelected
<1> QED BY <1>1, PSInvariance, PTL

\* A failed synchronisation has stored nothing, nor will it.
THEOREM FailedStoredNothing == PSSpec => []FailureStoresNothing
<1>1. PSInv => FailureStoresNothing
  BY DEF PSInv, Batches, FailureStoresNothing
<1> QED BY <1>1, PSInvariance, PTL
=============================================================================
