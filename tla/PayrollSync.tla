------------------------------ MODULE PayrollSync -----------------------------
(***************************************************************************)
(* POST payroll/sync-selected: syncSelectedSalaries fetches a batch of     *)
(* salaries from mock-fake-payroll, keeps those of the employees asked for *)
(* and starts to save them.  The save is not awaited: it ends, or fails,   *)
(* after the answer, and a rejection nobody handles ends the process.      *)
(***************************************************************************)
EXTENDS FiniteSets

CONSTANTS Employees, Salaries,
          Requests   \* bound: synchronisations asked for

VARIABLES request, \* the synchronisations: step, ids asked for, answer
          saving,  \* batches whose save is under way, by request
          table    \* synced_salaries, with the request that stored a row

psVars == <<request, saving, table>>

Item    == [employeeId : Employees, salary : Salaries]
Answers == {"synced", "noData", "failed", "dropped"}

PSTypeOK ==
  /\ request \in [Requests -> [pc : {"unsent", "fetch"} \cup Answers, ids : SUBSET Employees]]
  /\ saving \in [Requests -> SUBSET Item]
  /\ table \subseteq [by : Requests, item : Item]

PSInit ==
  /\ request = [q \in Requests |-> [pc |-> "unsent", ids |-> {}]]
  /\ saving = [q \in Requests |-> {}]
  /\ table = {}

\* Mutant of FakeSalaries: every item drawn is kept.
FakeSalariesDrawn(data) == data \subseteq Item

\* generateFakeSalaries: of the items drawn for an employee the last is kept.
FakeSalaries(data) ==
  /\ data \subseteq Item
  /\ \A i, j \in data : i.employeeId = j.employeeId => i = j

Filtered(data, ids) == {i \in data : i.employeeId \in ids}

Answer(q, a) == request' = [request EXCEPT ![q].pc = a]

Sync(q, ids) ==
  /\ request[q].pc = "unsent"
  /\ request' = [request EXCEPT ![q] = [pc |-> "fetch", ids |-> ids]]
  /\ UNCHANGED <<saving, table>>

\* Mutant of Fetched: the whole batch is saved before the filter is looked at.
FetchedSavingAll(q, data) ==
  /\ request[q].pc = "fetch" /\ FakeSalaries(data)
  /\ Answer(q, IF Filtered(data, request[q].ids) = {} THEN "noData" ELSE "synced")
  /\ saving' = [saving EXCEPT ![q] = data]
  /\ UNCHANGED table

\* The answer does not wait for the save it starts.
Fetched(q, data) ==
  /\ request[q].pc = "fetch" /\ FakeSalaries(data)
  /\ LET filtered == Filtered(data, request[q].ids) IN
     IF filtered = {} THEN Answer(q, "noData") /\ UNCHANGED saving
     ELSE Answer(q, "synced") /\ saving' = [saving EXCEPT ![q] = filtered]
  /\ UNCHANGED table

\* Mutant of FetchFails: the error is thrown on instead of answered.
FetchFailsThrowing(q) ==
  /\ request[q].pc = "fetch"
  /\ Answer(q, "error")
  /\ UNCHANGED <<saving, table>>

\* The own rate limit, a restart of the other end, a body without ids.
FetchFails(q) ==
  /\ request[q].pc = "fetch"
  /\ Answer(q, "failed")
  /\ UNCHANGED <<saving, table>>

\* Repository.save of an array is one transaction; the items have no id, so
\* they are inserted anew whenever they are synchronised again.
Save(q) ==
  /\ saving[q] # {}
  /\ table' = table \cup {[by |-> q, item |-> i] : i \in saving[q]}
  /\ saving' = [saving EXCEPT ![q] = {}]
  /\ UNCHANGED request

\* The process ends, by a save that fails or otherwise, and is started again.
ProcessEnds ==
  /\ saving' = [q \in Requests |-> {}]
  /\ request' = [q \in Requests |-> IF request[q].pc = "fetch"
                                    THEN [request[q] EXCEPT !.pc = "dropped"] ELSE request[q]]
  /\ UNCHANGED table

PSNext ==
  \/ \E q \in Requests :
       \/ \E ids \in SUBSET Employees : Sync(q, ids)
       \/ \E data \in SUBSET Item : Fetched(q, data)
       \/ FetchFails(q) \/ Save(q)
  \/ ProcessEnds

PSSpec == PSInit /\ [][PSNext]_psVars

(* ------------------------------- Properties ---------------------------- *)

RowsOf(q) == {r.item : r \in {r \in table : r.by = q}}

\* A synchronisation stores at most one salary of an employee, and only of
\* employees it was asked for, however several of them overlap.
StoresWhatWasSelected ==
  \A q \in Requests :
    /\ \A i \in RowsOf(q) : i.employeeId \in request[q].ids
    /\ \A i, j \in RowsOf(q) : i.employeeId = j.employeeId => i = j

\* Who is answered that nothing was found, or that the fetch failed, may ask
\* again without a salary being stored twice.
FailureStoresNothing ==
  \A q \in Requests :
    request[q].pc \in {"noData", "failed", "dropped"} => RowsOf(q) = {} /\ saving[q] = {}
=============================================================================
