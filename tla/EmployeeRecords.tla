-------------------------- MODULE EmployeeRecords --------------------------
(***************************************************************************)
(* EmployeesService over its table and the Redis cache.  A request runs    *)
(* from await to await; between two of its steps other requests run.       *)
(* Reads go through the cache, an update writes the table only, and a      *)
(* termination saves the copy it has read, which may come from the cache.  *)
(* A creation is one transaction that publishes before it commits.         *)
(***************************************************************************)
EXTENDS FiniteSets

CONSTANTS
  Employees,   \* ids of the sequence; bound: how many are ever drawn
  Requests,    \* bound: the requests that are under way at a time
  Columns,     \* the columns a CreateEmployeeDto has
  Values,
  NoRow, NoEmployee, NoValue

Data == [Columns -> Values]
Rows == [data : Data, isActive : BOOLEAN]

\* What a request asks to write; NoValue where it does not name the column.  No
\* ValidationPipe strips the columns that are not in CreateEmployeeDto.
Dtos == [data : [Columns -> Values \cup {NoValue}], isActive : BOOLEAN \cup {NoValue}]
EmptyDto == [data |-> [c \in Columns |-> NoValue], isActive |-> NoValue]

ASSUME NullAssumption ==
  /\ NoRow \notin Rows /\ NoEmployee \notin Employees
  /\ NoValue \notin Values /\ NoValue \notin BOOLEAN

VARIABLES
  table,      \* [Employees -> committed row, or NoRow]
  cache,      \* [Employees -> the entry employee:<id> of Redis, or NoRow]
  event,      \* [Employees -> Events], the publication of employee.created
  committed,  \* history: [Employees -> the rows the table has held]
  drawn,      \* SUBSET Employees, also by transactions that were rolled back
  at,         \* [Requests -> Places], the await a request stands at, or "idle"
  kind, target, dto,
  copy,       \* [Requests -> the employee object it holds, or NoRow]
  base        \* [Requests -> the row save() compares the object with, or NoRow]

tableVars   == <<table, committed>>
requestVars == <<kind, target, dto>>
vars == <<tableVars, cache, event, drawn, at, requestVars, copy, base>>

Kinds    == {"none", "create", "get", "update", "terminate"}
Holding  == {"filling", "comparing", "saving"}
Running  == {"inserting", "addingPayroll", "committing", "updating", "lookingUp", "loading"}
              \cup Holding
Places   == {"idle"} \cup Running
Creating == {"addingPayroll", "committing"}
Events   == {"none", "sending", "sent", "lost"}

Init ==
  /\ table     = [e \in Employees |-> NoRow]
  /\ cache     = [e \in Employees |-> NoRow]
  /\ event     = [e \in Employees |-> "none"]
  /\ committed = [e \in Employees |-> {}]
  /\ drawn = {}
  /\ at     = [r \in Requests |-> "idle"]
  /\ kind   = [r \in Requests |-> "none"]
  /\ target = [r \in Requests |-> NoEmployee]
  /\ dto    = [r \in Requests |-> EmptyDto]
  /\ copy   = [r \in Requests |-> NoRow]
  /\ base   = [r \in Requests |-> NoRow]

-----------------------------------------------------------------------------
(* A request comes in and makes its first call. *)

Accept(r, k, e, d, place) ==
  /\ at[r] = "idle"
  /\ at'     = [at     EXCEPT ![r] = place]
  /\ kind'   = [kind   EXCEPT ![r] = k]
  /\ target' = [target EXCEPT ![r] = e]
  /\ dto'    = [dto    EXCEPT ![r] = d]
  /\ UNCHANGED <<tableVars, cache, event, drawn, copy, base>>

\* A creation that leaves a column out is refused by the table, which is Fail of a
\* complete one.  The body may name an id: the target, before there is a row.
RequestCreate(r) ==
  \E e \in Employees \cup {NoEmployee}, d \in Dtos :
    d.data \in Data /\ Accept(r, "create", e, d, "inserting")

RequestGet(r)          == \E e \in Employees : Accept(r, "get", e, EmptyDto, "lookingUp")
RequestTerminate(r)    == \E e \in Employees : Accept(r, "terminate", e, EmptyDto, "lookingUp")

\* TypeORM refuses an update without columns.  A body with another id is refused
\* by the payroll that refers to the old one, which is Fail.
RequestUpdate(r) ==
  \E e \in Employees, d \in Dtos \ {EmptyDto} : Accept(r, "update", e, d, "updating")

\* The request is answered; nobody holds its objects any more.
End(r) ==
  /\ at'     = [at     EXCEPT ![r] = "idle"]
  /\ kind'   = [kind   EXCEPT ![r] = "none"]
  /\ target' = [target EXCEPT ![r] = NoEmployee]
  /\ dto'    = [dto    EXCEPT ![r] = EmptyDto]
  /\ copy'   = [copy   EXCEPT ![r] = NoRow]
  /\ base'   = [base   EXCEPT ![r] = NoRow]

\* The call a request awaits rejects (database, Redis, a duplicate email or id): so
\* does the request, and the transaction of a creation is rolled back.  An insert
\* that is refused has drawn its id.  A creation that names the id of a row saves
\* over it, finds no createdAt to publish, and is rolled back.
Fail(r) ==
  /\ at[r] \in Running
  /\ \/ UNCHANGED drawn
     \/ /\ at[r] = "inserting" /\ target[r] = NoEmployee
        /\ \E e \in Employees \ drawn : drawn' = drawn \cup {e}
  /\ End(r)
  /\ UNCHANGED <<tableVars, cache, event>>

-----------------------------------------------------------------------------
(* create *)

\* The id the body names, or else the next one of the sequence.
Ids(r) == IF target[r] = NoEmployee THEN Employees \ drawn ELSE {target[r]}

InsertUnder(r, e) ==
  /\ drawn' = IF target[r] = NoEmployee THEN drawn \cup {e} ELSE drawn
  /\ target' = [target EXCEPT ![r] = e]
  /\ at' = [at EXCEPT ![r] = "addingPayroll"]
  /\ UNCHANGED <<tableVars, cache, event, kind, dto, copy, base>>

\* Mutant of Insert: the id is no key, another transaction may insert it as well.
InsertNoKey(r) ==
  /\ at[r] = "inserting"
  /\ \E e \in Ids(r) : table[e] = NoRow /\ InsertUnder(r, e)

\* The row is inserted, not committed.  The primary key makes an insert wait for
\* the transaction that holds the same id.
Insert(r) ==
  /\ at[r] = "inserting"
  /\ \E e \in Ids(r) :
       /\ table[e] = NoRow
       /\ \A q \in Requests : at[q] \in Creating => target[q] # e
       /\ InsertUnder(r, e)

\* Mutant of AddPayroll: no publication.
AddPayrollSilently(r) ==
  /\ at[r] = "addingPayroll"
  /\ at' = [at EXCEPT ![r] = "committing"]
  /\ UNCHANGED <<tableVars, cache, event, drawn, requestVars, copy, base>>

\* The payroll is stored; publishMessage is called and not awaited.
AddPayroll(r) ==
  /\ at[r] = "addingPayroll"
  /\ event' = [event EXCEPT ![target[r]] = "sending"]
  /\ at' = [at EXCEPT ![r] = "committing"]
  /\ UNCHANGED <<tableVars, cache, drawn, requestVars, copy, base>>

Write(e, row) ==
  /\ table'     = [table     EXCEPT ![e] = row]
  /\ committed' = [committed EXCEPT ![e] = @ \cup {row}]

\* The column isActive has the default TRUE.
Created(d) ==
  [data |-> d.data, isActive |-> IF d.isActive = NoValue THEN TRUE ELSE d.isActive]

Commit(r) ==
  /\ at[r] = "committing"
  /\ Write(target[r], Created(dto[r]))
  /\ End(r)
  /\ UNCHANGED <<cache, event, drawn>>

\* The broker takes the message, or publishMessage logs the error.
EmitEnds(e) ==
  /\ event[e] = "sending"
  /\ \E result \in {"sent", "lost"} : event' = [event EXCEPT ![e] = result]
  /\ UNCHANGED <<tableVars, cache, drawn, at, requestVars, copy, base>>

-----------------------------------------------------------------------------
(* getEmployeeById and what follows it in each of its callers. *)

\* The employee is at hand: a termination marks its copy and calls save().
Proceed(r, row) ==
  \/ /\ kind[r] # "terminate"
     /\ End(r)
  \/ /\ kind[r] = "terminate"
     /\ copy' = [copy EXCEPT ![r] = [row EXCEPT !.isActive = FALSE]]
     /\ at' = [at EXCEPT ![r] = "comparing"]
     /\ UNCHANGED <<requestVars, base>>

CacheHit(r) ==
  /\ at[r] = "lookingUp" /\ cache[target[r]] # NoRow
  /\ Proceed(r, cache[target[r]])
  /\ UNCHANGED <<tableVars, cache, event, drawn>>

CacheMiss(r) ==
  /\ at[r] = "lookingUp" /\ cache[target[r]] = NoRow
  /\ at' = [at EXCEPT ![r] = "loading"]
  /\ UNCHANGED <<tableVars, cache, event, drawn, requestVars, copy, base>>

NotFound(r) ==
  /\ at[r] = "loading" /\ table[target[r]] = NoRow
  /\ End(r)
  /\ UNCHANGED <<tableVars, cache, event, drawn>>

\* Mutant of Load: the object is marked before it is cached.
LoadMarked(r) ==
  /\ at[r] = "loading" /\ table[target[r]] # NoRow
  /\ copy' = [copy EXCEPT ![r] =
       IF kind[r] = "terminate" THEN [table[target[r]] EXCEPT !.isActive = FALSE]
                                ELSE table[target[r]]]
  /\ at' = [at EXCEPT ![r] = "filling"]
  /\ UNCHANGED <<tableVars, cache, event, drawn, requestVars, base>>

Load(r) ==
  /\ at[r] = "loading" /\ table[target[r]] # NoRow
  /\ copy' = [copy EXCEPT ![r] = table[target[r]]]
  /\ at' = [at EXCEPT ![r] = "filling"]
  /\ UNCHANGED <<tableVars, cache, event, drawn, requestVars, base>>

\* The entry is overwritten with what was loaded, and has no expiry: the client
\* of package redis takes an options object, so 'EX' and the ttl are ignored.
Fill(r) ==
  /\ at[r] = "filling"
  /\ cache' = [cache EXCEPT ![target[r]] = copy[r]]
  /\ Proceed(r, copy[r])
  /\ UNCHANGED <<tableVars, event, drawn>>

-----------------------------------------------------------------------------
(* updateEmployee and terminateEmployee *)

Patched(row, d) ==
  [data |-> [c \in Columns |-> IF d.data[c] = NoValue THEN row.data[c] ELSE d.data[c]],
   isActive |-> IF d.isActive = NoValue THEN row.isActive ELSE d.isActive]

\* Mutant of UpdateRow: the columns are put into the cached employee.
UpdateFromCache(r) ==
  LET e == target[r] IN
  /\ at[r] = "updating"
  /\ IF table[e] = NoRow THEN UNCHANGED tableVars
     ELSE Write(e, Patched(IF cache[e] = NoRow THEN table[e] ELSE cache[e], dto[r]))
  /\ at' = [at EXCEPT ![r] = "lookingUp"]
  /\ UNCHANGED <<cache, event, drawn, requestVars, copy, base>>

\* UPDATE ... WHERE id: the named columns of the row, if there is one.
UpdateRow(r) ==
  LET e == target[r] IN
  /\ at[r] = "updating"
  /\ IF table[e] = NoRow THEN UNCHANGED tableVars ELSE Write(e, Patched(table[e], dto[r]))
  /\ at' = [at EXCEPT ![r] = "lookingUp"]
  /\ UNCHANGED <<cache, event, drawn, requestVars, copy, base>>

\* save() reads the row (rows are never deleted) and has nothing to do when the
\* copy equals it.
Compare(r) ==
  LET row == table[target[r]] IN
  /\ at[r] = "comparing"
  /\ \/ /\ copy[r] = row
        /\ End(r)
     \/ /\ copy[r] # row
        /\ base' = [base EXCEPT ![r] = row]
        /\ at' = [at EXCEPT ![r] = "saving"]
        /\ UNCHANGED <<requestVars, copy>>
  /\ UNCHANGED <<tableVars, cache, event, drawn>>

\* save() writes the columns in which copy and base differ.
Saved(row, c, b) ==
  [data |-> [k \in Columns |-> IF c.data[k] = b.data[k] THEN row.data[k] ELSE c.data[k]],
   isActive |-> IF c.isActive = b.isActive THEN row.isActive ELSE c.isActive]

Save(r) ==
  /\ at[r] = "saving"
  /\ Write(target[r], Saved(table[target[r]], copy[r], base[r]))
  /\ End(r)
  /\ UNCHANGED <<cache, event, drawn>>

\* The process ends and is started again: requests and unsent messages are gone.
Crash ==
  /\ at'     = [r \in Requests |-> "idle"]
  /\ kind'   = [r \in Requests |-> "none"]
  /\ target' = [r \in Requests |-> NoEmployee]
  /\ dto'    = [r \in Requests |-> EmptyDto]
  /\ copy'   = [r \in Requests |-> NoRow]
  /\ base'   = [r \in Requests |-> NoRow]
  /\ event' = [e \in Employees |-> IF event[e] = "sending" THEN "lost" ELSE event[e]]
  /\ UNCHANGED <<tableVars, cache, drawn>>

-----------------------------------------------------------------------------

Arrive(r) == RequestCreate(r) \/ RequestGet(r) \/ RequestUpdate(r) \/ RequestTerminate(r)

Step(r) ==
  \/ Insert(r) \/ AddPayroll(r) \/ Commit(r)
  \/ CacheHit(r) \/ CacheMiss(r) \/ NotFound(r) \/ Load(r) \/ Fill(r)
  \/ UpdateRow(r) \/ Compare(r) \/ Save(r)

Next ==
  \/ \E r \in Requests : Arrive(r) \/ Step(r) \/ Fail(r)
  \/ \E e \in Employees : EmitEnds(e)
  \/ Crash

Spec == Init /\ [][Next]_vars

\* Every call of a request ends.
FairSpec == Spec /\ \A r \in Requests : WF_vars(Step(r))

-----------------------------------------------------------------------------
(* Properties. *)

\* The variables have their types, and where a request has an employee at hand
\* it holds a row.
TypeOK ==
  /\ table \in [Employees -> Rows \cup {NoRow}]
  /\ cache \in [Employees -> Rows \cup {NoRow}]
  /\ event \in [Employees -> Events]
  /\ committed \in [Employees -> SUBSET Rows]
  /\ drawn \in SUBSET Employees
  /\ at \in [Requests -> Places]
  /\ kind \in [Requests -> Kinds]
  /\ target \in [Requests -> Employees \cup {NoEmployee}]
  /\ dto \in [Requests -> Dtos]
  /\ copy \in [Requests -> Rows \cup {NoRow}]
  /\ base \in [Requests -> Rows \cup {NoRow}]
  /\ \A r \in Requests : at[r] \in Holding => copy[r] \in Rows
  /\ \A r \in Requests : at[r] = "saving" => base[r] \in Rows

\* Redis never holds an employee that the table did not hold at some time: not
\* one of a transaction that was rolled back, not one that a termination has
\* marked and failed to save.  (It may well hold one the table held long ago.)
CacheHoldsCommittedRows ==
  \A e \in Employees : cache[e] # NoRow => cache[e] \in committed[e]

\* The update of e by request r, which asks for it.
Reactivates(r, e) ==
  /\ at[r] = "updating" /\ at'[r] = "lookingUp"
  /\ target[r] = e /\ dto[r].isActive = TRUE

\* A terminated employee becomes active by an update of it that names isActive and
\* by nothing else: whatever copies are saved over the row and in whatever order,
\* none brings it back, nor does a creation under its id.
TerminationSticks ==
  [][\A e \in Employees :
       table[e] # NoRow /\ ~table[e].isActive =>
         /\ table'[e] # NoRow
         /\ table'[e].isActive => \E r \in Requests : Reactivates(r, e)]_vars

\* No employee is committed whose publication was not at least begun: a crash
\* after the commit cannot leave one that nobody ever tried to announce.
CommittedWasAnnounced ==
  \A e \in Employees : table[e] # NoRow => event[e] # "none"

\* cache.constants.ts: "DEFAULT_TTL = 3600; // 1 hour".  A cached employee that
\* differs from the row does not stay for ever.
StaleEntriesExpire ==
  \A e \in Employees :
    (cache[e] # NoRow /\ cache[e] # table[e]) ~> (cache[e] = NoRow \/ cache[e] = table[e])

-----------------------------------------------------------------------------
(* The inductive invariant of the proofs. *)

\* What the table holds now it has held; an employee once committed stays.
TableIsCommitted ==
  \A e \in Employees :
    IF table[e] = NoRow THEN committed[e] = {} ELSE table[e] \in committed[e]

HasTarget == \A r \in Requests : at[r] \in Running \ {"inserting"} => target[r] \in Employees

\* The object that will be cached was loaded from the table as it is.
FillsAreCommitted ==
  \A r \in Requests : at[r] = "filling" => copy[r] \in committed[target[r]]

\* Only terminations call save(), with their mark, and on an existing row.
SavesTerminate ==
  \A r \in Requests :
    at[r] \in {"comparing", "saving"} => ~copy[r].isActive /\ table[target[r]] # NoRow

\* The id of a transaction that creates is its own, and names no row yet.
CreatesOwnIds ==
  \A r \in Requests : at[r] \in Creating =>
    /\ table[target[r]] = NoRow
    /\ \A q \in Requests \ {r} : at[q] \in Creating => target[q] # target[r]

\* A creation that is under way names every column: none of them is nullable.
CreatesAreComplete ==
  \A r \in Requests : at[r] \in {"inserting"} \cup Creating => dto[r].data \in Data

CommitsAreAnnounced ==
  \A r \in Requests : at[r] = "committing" => event[target[r]] # "none"

IInv ==
  /\ TypeOK
  /\ TableIsCommitted /\ CacheHoldsCommittedRows /\ HasTarget
  /\ FillsAreCommitted /\ SavesTerminate /\ CreatesOwnIds
  /\ CreatesAreComplete /\ CommitsAreAnnounced /\ CommittedWasAnnounced

=============================================================================
