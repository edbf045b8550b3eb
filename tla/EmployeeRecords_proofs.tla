----------------------- MODULE EmployeeRecords_proofs -----------------------
(***************************************************************************)
(* What holds of the employee table and its cache for any employees,       *)
(* requests, columns and values.                                           *)
(***************************************************************************)
EXTENDS EmployeeRecords, TLAPS

USE NullAssumption

\* An update of a row is a row, active only if it was or the update says so.
LEMMA PatchedRow ==
  ASSUME NEW row \in Rows, NEW d \in Dtos
  PROVE  /\ Patched(row, d) \in Rows
         /\ Patched(row, d).isActive => row.isActive \/ d.isActive = TRUE
<1> DEFINE new == [c \in Columns |-> IF d.data[c] = NoValue THEN row.data[c] ELSE d.data[c]]
<1> DEFINE active == IF d.isActive = NoValue THEN row.isActive ELSE d.isActive
<1>1. new \in Data
  BY DEF Data, Dtos, Rows
<1>2. active \in BOOLEAN /\ (active => row.isActive \/ d.isActive = TRUE)
  BY DEF Dtos, Rows
<1>3. Patched(row, d) = [data |-> new, isActive |-> active]
  BY DEF Patched
<1>. QED
  BY <1>1, <1>2, <1>3 DEF Rows

\* What a complete body creates is a row.
LEMMA CreatedRow ==
  ASSUME NEW d \in Dtos, d.data \in Data
  PROVE  Created(d) \in Rows
  BY DEF Created, Dtos, Rows

\* Saving a marked copy leaves a row that is inactive, if the copy or the row was.
LEMMA SavedRow ==
  ASSUME NEW row \in Rows, NEW c \in Rows, NEW b \in Rows, ~c.isActive
  PROVE  /\ Saved(row, c, b) \in Rows
         /\ ~row.isActive => ~Saved(row, c, b).isActive
<1> DEFINE new == [k \in Columns |-> IF c.data[k] = b.data[k] THEN row.data[k] ELSE c.data[k]]
<1> DEFINE active == IF c.isActive = b.isActive THEN row.isActive ELSE c.isActive
<1>1. new \in Data
  BY DEF Data, Rows
<1>2. active \in BOOLEAN /\ (~row.isActive => ~active)
  BY DEF Rows
<1>3. Saved(row, c, b) = [data |-> new, isActive |-> active]
  BY DEF Saved
<1>. QED
  BY <1>1, <1>2, <1>3 DEF Rows

\* The mark of a termination.
LEMMA MarkedRow ==
  ASSUME NEW row \in Rows
  PROVE  /\ [row EXCEPT !.isActive = FALSE] \in Rows
         /\ ~[row EXCEPT !.isActive = FALSE].isActive
  BY DEF Rows

\* A body may name nothing.
LEMMA DtoFacts == EmptyDto \in Dtos
  BY DEF EmptyDto, Dtos

\* Initially nothing is stored and nothing runs.
LEMMA InitEstablishes == Init => IInv
  BY DtoFacts DEF Init, IInv, TypeOK, TableIsCommitted, CacheHoldsCommittedRows, HasTarget,
     FillsAreCommitted, SavesTerminate, CreatesOwnIds, CreatesAreComplete, CommitsAreAnnounced,
     CommittedWasAnnounced, Events, Kinds, Places, Running, Holding, Creating

-----------------------------------------------------------------------------
(* Each step preserves the invariant. *)

LEMMA AcceptPreserves ==
  ASSUME IInv, NEW r \in Requests, Arrive(r)
  PROVE  IInv'
<1>1. PICK k \in Kinds, e \in Employees \cup {NoEmployee}, d \in Dtos,
           place \in {"inserting", "updating", "lookingUp"} :
        /\ Accept(r, k, e, d, place)
        /\ place # "inserting" => e \in Employees
        /\ place = "inserting" => d.data \in Data
  BY DtoFacts DEF Arrive, RequestCreate, RequestGet, RequestUpdate, RequestTerminate, Kinds
<1>2. TypeOK'
  BY <1>1 DEF IInv, TypeOK, Accept, tableVars, Places, Running, Holding
<1>. QED
  BY <1>1, <1>2 DEF IInv, Accept, tableVars, TypeOK, TableIsCommitted,
     CacheHoldsCommittedRows, HasTarget, FillsAreCommitted, SavesTerminate, CreatesOwnIds,
     CreatesAreComplete, CommitsAreAnnounced, CommittedWasAnnounced, Running, Holding, Creating

\* A request that ends leaves the others, the table and the cache as they are.
LEMMA EndPreserves ==
  ASSUME IInv, NEW r \in Requests, End(r), UNCHANGED <<tableVars, cache, event, drawn>>
  PROVE  IInv'
<1>1. TypeOK'
  BY DtoFacts DEF IInv, TypeOK, End, tableVars, Places, Kinds, Holding
<1>. QED
  BY <1>1 DEF IInv, End, tableVars, TypeOK, TableIsCommitted,
     CacheHoldsCommittedRows, HasTarget, FillsAreCommitted, SavesTerminate, CreatesOwnIds,
     CreatesAreComplete, CommitsAreAnnounced, CommittedWasAnnounced, Running, Holding, Creating

\* An insert that is refused has drawn its id.
LEMMA FailPreserves ==
  ASSUME IInv, NEW r \in Requests, Fail(r)
  PROVE  IInv'
<1>1. End(r) /\ drawn' \in SUBSET Employees /\ UNCHANGED <<table, committed, cache, event>>
  BY DEF Fail, IInv, TypeOK, tableVars
<1>2. TypeOK'
  BY <1>1, DtoFacts DEF IInv, TypeOK, End, Places, Kinds, Holding
<1>. QED
  BY <1>1, <1>2 DEF IInv, End, TypeOK, TableIsCommitted,
     CacheHoldsCommittedRows, HasTarget, FillsAreCommitted, SavesTerminate, CreatesOwnIds,
     CreatesAreComplete, CommitsAreAnnounced, CommittedWasAnnounced, Running, Holding, Creating

LEMMA InsertPreserves ==
  ASSUME IInv, NEW r \in Requests, Insert(r)
  PROVE  IInv'
<1>1. PICK e \in Ids(r) :
        /\ table[e] = NoRow /\ \A q \in Requests : at[q] \in Creating => target[q] # e
        /\ InsertUnder(r, e)
  BY DEF Insert
<1>2. at[r] = "inserting" /\ e \in Employees
  BY DEF Insert, Ids, IInv, TypeOK
<1>3. /\ target' = [target EXCEPT ![r] = e] /\ at' = [at EXCEPT ![r] = "addingPayroll"]
      /\ drawn' \in SUBSET Employees
      /\ UNCHANGED <<table, committed, cache, event, kind, dto, copy, base>>
  BY <1>1, <1>2 DEF InsertUnder, tableVars, IInv, TypeOK
<1>4. TypeOK'
  BY <1>2, <1>3 DEF IInv, TypeOK, Places, Running, Holding
<1>5. CreatesOwnIds'
  BY <1>1, <1>2, <1>3 DEF IInv, TypeOK, CreatesOwnIds, Creating
<1>. QED
  BY <1>2, <1>3, <1>4, <1>5 DEF IInv, TypeOK, TableIsCommitted,
     CacheHoldsCommittedRows, HasTarget, FillsAreCommitted, SavesTerminate,
     CreatesAreComplete, CommitsAreAnnounced, CommittedWasAnnounced, Running, Holding, Creating

LEMMA AddPayrollPreserves ==
  ASSUME IInv, NEW r \in Requests, AddPayroll(r)
  PROVE  IInv'
<1>1. target[r] \in Employees
  BY DEF IInv, HasTarget, AddPayroll, Running
<1>2. TypeOK'
  BY <1>1 DEF IInv, TypeOK, AddPayroll, tableVars, requestVars, Places, Running, Holding, Events
<1>3. CommitsAreAnnounced' /\ CommittedWasAnnounced'
  BY <1>1 DEF IInv, TypeOK, AddPayroll, tableVars, requestVars, HasTarget, Running,
     CommitsAreAnnounced, CommittedWasAnnounced
<1>. QED
  BY <1>2, <1>3 DEF IInv, AddPayroll, tableVars, requestVars, TypeOK, TableIsCommitted,
     CacheHoldsCommittedRows, HasTarget, FillsAreCommitted, SavesTerminate, CreatesOwnIds,
     CreatesAreComplete, Running, Holding, Creating

\* A write keeps the rows of the other employees and the history grows; what is
\* left to show is about the row written.
LEMMA WriteKeeps ==
  ASSUME IInv, NEW e \in Employees, NEW row \in Rows, Write(e, row), cache' = cache
  PROVE  /\ table' \in [Employees -> Rows \cup {NoRow}] /\ committed' \in [Employees -> SUBSET Rows]
         /\ TableIsCommitted' /\ CacheHoldsCommittedRows'
         /\ \A f \in Employees : committed[f] \subseteq committed'[f]
         /\ table'[e] = row /\ \A f \in Employees \ {e} : table'[f] = table[f]
  BY DEF IInv, TypeOK, Write, TableIsCommitted, CacheHoldsCommittedRows

\* The row appears: it is the first of its employee, and was announced before.
LEMMA CommitPreserves ==
  ASSUME IInv, NEW r \in Requests, Commit(r)
  PROVE  IInv'
<1> DEFINE e == target[r]
<1> DEFINE row == Created(dto[r])
<1>1. e \in Employees /\ event[e] # "none" /\ row \in Rows
  BY CreatedRow DEF IInv, TypeOK, HasTarget, CreatesAreComplete, CommitsAreAnnounced,
     Commit, Running, Creating
<1>2. Write(e, row) /\ End(r) /\ UNCHANGED <<cache, event, drawn>>
  BY DEF Commit
<1>. HIDE DEF e, row
<1>3. /\ table' \in [Employees -> Rows \cup {NoRow}] /\ committed' \in [Employees -> SUBSET Rows]
      /\ TableIsCommitted' /\ CacheHoldsCommittedRows'
      /\ \A f \in Employees : committed[f] \subseteq committed'[f]
      /\ table'[e] = row /\ \A f \in Employees \ {e} : table'[f] = table[f]
  BY <1>1, <1>2, WriteKeeps
<1>4. TypeOK'
  BY <1>2, <1>3, DtoFacts DEF IInv, TypeOK, End, Places, Kinds, Holding
<1>5. HasTarget' /\ FillsAreCommitted' /\ CreatesAreComplete' /\ CommitsAreAnnounced'
  BY <1>2, <1>3 DEF IInv, TypeOK, End, HasTarget, FillsAreCommitted, CreatesAreComplete,
     CommitsAreAnnounced, Running, Holding, Creating
<1>6. CreatesOwnIds'
  BY <1>1, <1>2, <1>3 DEF IInv, TypeOK, End, CreatesOwnIds, e, Commit, HasTarget, Running, Creating
<1>7. SavesTerminate' /\ CommittedWasAnnounced'
  BY <1>1, <1>2, <1>3 DEF IInv, TypeOK, End, SavesTerminate, HasTarget, Running, Holding,
     CommittedWasAnnounced
<1>. QED
  BY <1>3, <1>4, <1>5, <1>6, <1>7 DEF IInv

LEMMA EmitEndsPreserves ==
  ASSUME IInv, NEW e \in Employees, EmitEnds(e)
  PROVE  IInv'
<1>1. PICK result \in {"sent", "lost"} : event' = [event EXCEPT ![e] = result]
  BY DEF EmitEnds
<1>2. UNCHANGED <<table, committed, cache, drawn, at, kind, target, dto, copy, base>>
  BY DEF EmitEnds, tableVars, requestVars
<1>3. TypeOK'
  BY <1>1, <1>2 DEF IInv, TypeOK, Events
<1>4. CommitsAreAnnounced' /\ CommittedWasAnnounced'
  BY <1>1, <1>2 DEF IInv, TypeOK, CommitsAreAnnounced, CommittedWasAnnounced
<1>. QED
  BY <1>2, <1>3, <1>4 DEF IInv, TableIsCommitted, CacheHoldsCommittedRows, HasTarget,
     FillsAreCommitted, SavesTerminate, CreatesOwnIds, CreatesAreComplete

\* The end of getEmployeeById: the request ends, or goes on with a marked copy.
LEMMA ProceedPreserves ==
  ASSUME IInv, NEW r \in Requests, NEW row \in Rows, Proceed(r, row),
         at[r] \in {"lookingUp", "filling"}, table[target[r]] # NoRow,
         cache' \in [Employees -> Rows \cup {NoRow}], CacheHoldsCommittedRows',
         UNCHANGED <<tableVars, event, drawn>>
  PROVE  IInv'
<1>1. CASE End(r)
  <2>1. TypeOK'
    BY <1>1, DtoFacts DEF IInv, TypeOK, End, tableVars, Places, Kinds, Holding
  <2>. QED
    BY <1>1, <2>1 DEF IInv, End, tableVars, TypeOK, TableIsCommitted, HasTarget,
       FillsAreCommitted, SavesTerminate, CreatesOwnIds, CreatesAreComplete,
       CommitsAreAnnounced, CommittedWasAnnounced, Running, Holding, Creating
<1>2. CASE ~End(r)
  <2> DEFINE marked == [row EXCEPT !.isActive = FALSE]
  <2>1. marked \in Rows /\ ~marked.isActive
    BY MarkedRow
  <2>2. /\ copy' = [copy EXCEPT ![r] = marked] /\ at' = [at EXCEPT ![r] = "comparing"]
        /\ UNCHANGED <<table, committed, event, drawn, kind, target, dto, base>>
    BY <1>2 DEF Proceed, requestVars, tableVars
  <2>. HIDE DEF marked
  <2>3. TypeOK'
    BY <2>1, <2>2 DEF IInv, TypeOK, Places, Running, Holding
  <2>4. SavesTerminate'
    BY <2>1, <2>2 DEF IInv, TypeOK, SavesTerminate
  <2>. QED
    BY <2>2, <2>3, <2>4 DEF IInv, TypeOK, TableIsCommitted, HasTarget, FillsAreCommitted,
       CreatesOwnIds, CreatesAreComplete, CommitsAreAnnounced, CommittedWasAnnounced,
       Running, Holding, Creating
<1>. QED
  BY <1>1, <1>2

LEMMA CacheHitPreserves ==
  ASSUME IInv, NEW r \in Requests, CacheHit(r)
  PROVE  IInv'
<1>1. target[r] \in Employees /\ cache[target[r]] # NoRow
  BY DEF IInv, HasTarget, CacheHit, Running
<1>2. cache[target[r]] \in Rows /\ table[target[r]] # NoRow
  BY <1>1 DEF IInv, TypeOK, CacheHoldsCommittedRows, TableIsCommitted
<1>3. /\ at[r] = "lookingUp" /\ Proceed(r, cache[target[r]])
      /\ UNCHANGED <<tableVars, cache, event, drawn>>
  BY DEF CacheHit
<1>4. cache' \in [Employees -> Rows \cup {NoRow}] /\ CacheHoldsCommittedRows'
  BY <1>3 DEF IInv, TypeOK, CacheHoldsCommittedRows, tableVars
<1>. QED
  BY <1>2, <1>3, <1>4, ProceedPreserves

LEMMA CacheMissPreserves ==
  ASSUME IInv, NEW r \in Requests, CacheMiss(r)
  PROVE  IInv'
<1>1. TypeOK'
  BY DEF IInv, TypeOK, CacheMiss, tableVars, requestVars, Places, Running, Holding
<1>. QED
  BY <1>1 DEF IInv, CacheMiss, tableVars, requestVars, TypeOK, TableIsCommitted,
     CacheHoldsCommittedRows, HasTarget, FillsAreCommitted, SavesTerminate, CreatesOwnIds,
     CreatesAreComplete, CommitsAreAnnounced, CommittedWasAnnounced, Running, Holding, Creating

LEMMA LoadPreserves ==
  ASSUME IInv, NEW r \in Requests, Load(r)
  PROVE  IInv'
<1>1. target[r] \in Employees
  BY DEF IInv, HasTarget, Load, Running
<1>2. table[target[r]] \in Rows /\ table[target[r]] \in committed[target[r]]
  BY <1>1 DEF IInv, TypeOK, TableIsCommitted, Load
<1>3. TypeOK'
  BY <1>2 DEF IInv, TypeOK, Load, tableVars, requestVars, Places, Running, Holding
<1>4. FillsAreCommitted'
  BY <1>2 DEF IInv, TypeOK, Load, tableVars, requestVars, FillsAreCommitted
<1>. QED
  BY <1>3, <1>4 DEF IInv, Load, tableVars, requestVars, TypeOK, TableIsCommitted,
     CacheHoldsCommittedRows, HasTarget, SavesTerminate, CreatesOwnIds,
     CreatesAreComplete, CommitsAreAnnounced, CommittedWasAnnounced, Running, Holding, Creating

LEMMA FillPreserves ==
  ASSUME IInv, NEW r \in Requests, Fill(r)
  PROVE  IInv'
<1>1. target[r] \in Employees /\ copy[r] \in Rows /\ copy[r] \in committed[target[r]]
  BY DEF IInv, TypeOK, HasTarget, FillsAreCommitted, Fill, Running, Holding
<1>2. /\ at[r] = "filling" /\ Proceed(r, copy[r])
      /\ cache' = [cache EXCEPT ![target[r]] = copy[r]]
      /\ UNCHANGED <<tableVars, event, drawn>>
  BY DEF Fill
<1>3. table[target[r]] # NoRow
  BY <1>1 DEF IInv, TableIsCommitted
<1>4. cache' \in [Employees -> Rows \cup {NoRow}] /\ CacheHoldsCommittedRows'
  BY <1>1, <1>2 DEF IInv, TypeOK, CacheHoldsCommittedRows, tableVars
<1>. QED
  BY <1>1, <1>2, <1>3, <1>4, ProceedPreserves

\* The row is replaced by its patch; without a row nothing is written.
LEMMA UpdateRowPreserves ==
  ASSUME IInv, NEW r \in Requests, UpdateRow(r)
  PROVE  IInv'
<1> DEFINE e == target[r]
<1> DEFINE row == Patched(table[e], dto[r])
<1>1. e \in Employees
  BY DEF IInv, HasTarget, UpdateRow, Running
<1>2. /\ at[r] = "updating" /\ at' = [at EXCEPT ![r] = "lookingUp"]
      /\ UNCHANGED <<cache, event, drawn, kind, target, dto, copy, base>>
  BY DEF UpdateRow, requestVars
<1>3. CASE table[e] = NoRow
  <2>1. UNCHANGED <<table, committed>>
    BY <1>3 DEF UpdateRow, tableVars
  <2>2. TypeOK'
    BY <1>2, <2>1 DEF IInv, TypeOK, Places, Running, Holding
  <2>. QED
    BY <1>2, <2>1, <2>2 DEF IInv, TypeOK, TableIsCommitted, CacheHoldsCommittedRows, HasTarget,
       FillsAreCommitted, SavesTerminate, CreatesOwnIds, CreatesAreComplete,
       CommitsAreAnnounced, CommittedWasAnnounced, Running, Holding, Creating
<1>4. CASE table[e] # NoRow
  <2>1. row \in Rows /\ Write(e, row)
    BY <1>1, <1>4, PatchedRow DEF IInv, TypeOK, UpdateRow
  <2>2. event[e] # "none"
    BY <1>1, <1>4 DEF IInv, CommittedWasAnnounced
  <2>. HIDE DEF row
  <2>3. /\ table' \in [Employees -> Rows \cup {NoRow}] /\ committed' \in [Employees -> SUBSET Rows]
        /\ TableIsCommitted' /\ CacheHoldsCommittedRows'
        /\ \A f \in Employees : committed[f] \subseteq committed'[f]
        /\ table'[e] = row /\ \A f \in Employees \ {e} : table'[f] = table[f]
    BY <1>1, <1>2, <2>1, WriteKeeps
  <2>4. TypeOK'
    BY <1>2, <2>3 DEF IInv, TypeOK, Places, Running, Holding
  <2>5. HasTarget' /\ FillsAreCommitted' /\ CreatesAreComplete' /\ CommitsAreAnnounced'
    BY <1>2, <2>3 DEF IInv, TypeOK, HasTarget, FillsAreCommitted, CreatesAreComplete,
       CommitsAreAnnounced, Running, Holding, Creating
  <2>6. CreatesOwnIds'
    BY <1>1, <1>2, <1>4, <2>2, <2>3 DEF IInv, TypeOK, CreatesOwnIds, HasTarget, Running, Creating
  <2>7. SavesTerminate' /\ CommittedWasAnnounced'
    BY <1>2, <2>1, <2>2, <2>3 DEF IInv, TypeOK, SavesTerminate, HasTarget, Running, Holding,
       CommittedWasAnnounced
  <2>. QED
    BY <2>3, <2>4, <2>5, <2>6, <2>7 DEF IInv
<1>. QED
  BY <1>3, <1>4

LEMMA ComparePreserves ==
  ASSUME IInv, NEW r \in Requests, Compare(r)
  PROVE  IInv'
<1>1. CASE End(r)
  BY <1>1, EndPreserves DEF Compare
<1>2. CASE ~End(r)
  <2>1. table[target[r]] \in Rows
    BY DEF IInv, TypeOK, HasTarget, SavesTerminate, Compare, Running, Holding
  <2>2. /\ at[r] = "comparing" /\ at' = [at EXCEPT ![r] = "saving"]
        /\ base' = [base EXCEPT ![r] = table[target[r]]]
        /\ UNCHANGED <<table, committed, cache, event, drawn, kind, target, dto, copy>>
    BY <1>2 DEF Compare, tableVars, requestVars
  <2>3. TypeOK'
    BY <2>1, <2>2 DEF IInv, TypeOK, Places, Running, Holding
  <2>. QED
    BY <2>2, <2>3 DEF IInv, TypeOK, TableIsCommitted, CacheHoldsCommittedRows, HasTarget,
       FillsAreCommitted, SavesTerminate, CreatesOwnIds, CreatesAreComplete,
       CommitsAreAnnounced, CommittedWasAnnounced, Running, Holding, Creating
<1>. QED
  BY <1>1, <1>2

\* What save() writes is a row, and stays inactive.
LEMMA SaveFacts ==
  ASSUME IInv, NEW r \in Requests, Save(r)
  PROVE  LET e == target[r]  row == Saved(table[e], copy[r], base[r])
         IN /\ e \in Employees /\ table[e] \in Rows /\ row \in Rows
            /\ ~table[e].isActive => ~row.isActive
<1>1. target[r] \in Employees
  BY DEF IInv, HasTarget, Save, Running, Holding
<1>2. /\ table[target[r]] \in Rows /\ copy[r] \in Rows /\ base[r] \in Rows
      /\ ~copy[r].isActive
  BY <1>1 DEF IInv, TypeOK, SavesTerminate, Save, Holding
<1>. QED
  BY <1>1, <1>2, SavedRow

LEMMA SavePreserves ==
  ASSUME IInv, NEW r \in Requests, Save(r)
  PROVE  IInv'
<1> DEFINE e == target[r]
<1> DEFINE row == Saved(table[e], copy[r], base[r])
<1>1. e \in Employees /\ table[e] \in Rows /\ row \in Rows
  BY SaveFacts
<1>2. at[r] = "saving" /\ Write(e, row) /\ End(r) /\ UNCHANGED <<cache, event, drawn>>
  BY DEF Save
<1>3. event[e] # "none"
  BY <1>1 DEF IInv, TypeOK, CommittedWasAnnounced
<1>. HIDE DEF row
<1>4. /\ table' \in [Employees -> Rows \cup {NoRow}] /\ committed' \in [Employees -> SUBSET Rows]
      /\ TableIsCommitted' /\ CacheHoldsCommittedRows'
      /\ \A f \in Employees : committed[f] \subseteq committed'[f]
      /\ table'[e] = row /\ \A f \in Employees \ {e} : table'[f] = table[f]
  BY <1>1, <1>2, WriteKeeps
<1>5. TypeOK'
  BY <1>2, <1>4, DtoFacts DEF IInv, TypeOK, End, Places, Kinds, Holding
<1>6. HasTarget' /\ FillsAreCommitted' /\ CreatesAreComplete' /\ CommitsAreAnnounced'
  BY <1>2, <1>4 DEF IInv, TypeOK, End, HasTarget, FillsAreCommitted, CreatesAreComplete,
     CommitsAreAnnounced, Running, Holding, Creating
<1>7. CreatesOwnIds'
  BY <1>1, <1>2, <1>3, <1>4 DEF IInv, TypeOK, End, CreatesOwnIds, HasTarget, Running, Creating
<1>8. SavesTerminate' /\ CommittedWasAnnounced'
  BY <1>1, <1>2, <1>3, <1>4 DEF IInv, TypeOK, End, SavesTerminate, HasTarget, Running, Holding,
     CommittedWasAnnounced
<1>. QED
  BY <1>4, <1>5, <1>6, <1>7, <1>8 DEF IInv

LEMMA CrashPreserves ==
  ASSUME IInv, Crash
  PROVE  IInv'
<1>1. TypeOK'
  BY DtoFacts DEF IInv, TypeOK, Crash, tableVars, Places, Kinds, Holding, Events
<1>2. CommittedWasAnnounced'
  BY DEF IInv, Crash, tableVars, CommittedWasAnnounced
<1>. QED
  BY <1>1, <1>2 DEF IInv, Crash, tableVars, TypeOK, TableIsCommitted, CacheHoldsCommittedRows,
     HasTarget, FillsAreCommitted, SavesTerminate, CreatesOwnIds, CreatesAreComplete,
     CommitsAreAnnounced, Running, Holding, Creating

-----------------------------------------------------------------------------
(* The theorems. *)

\* The invariant behind the properties is one, for any employees, requests,
\* columns and values.
THEOREM Invariance == Spec => []IInv
<1>1. ASSUME IInv, [Next]_vars
      PROVE  IInv'
  <2>1. ASSUME NEW r \in Requests, Arrive(r)
        PROVE  IInv'
    BY <1>1, <2>1, AcceptPreserves
  <2>2. ASSUME NEW r \in Requests, Fail(r) \/ NotFound(r)
        PROVE  IInv'
    BY <1>1, <2>2, FailPreserves, EndPreserves DEF NotFound
  <2>3. ASSUME NEW r \in Requests, Step(r)
        PROVE  IInv'
    BY <1>1, <2>2, <2>3, InsertPreserves, AddPayrollPreserves, CommitPreserves,
       CacheHitPreserves, CacheMissPreserves, LoadPreserves, FillPreserves,
       UpdateRowPreserves, ComparePreserves, SavePreserves DEF Step
  <2>4. CASE UNCHANGED vars
    BY <1>1, <2>4 DEF IInv, vars, tableVars, requestVars, TypeOK, TableIsCommitted,
       CacheHoldsCommittedRows, HasTarget, FillsAreCommitted, SavesTerminate, CreatesOwnIds,
       CreatesAreComplete, CommitsAreAnnounced, CommittedWasAnnounced
  <2>. QED
    BY <1>1, <2>1, <2>2, <2>3, <2>4, EmitEndsPreserves, CrashPreserves DEF Next
<1>. QED
  BY InitEstablishes, <1>1, PTL DEF Spec

\* The variables keep their types.
THEOREM TypeCorrect == Spec => []TypeOK
<1>1. IInv => TypeOK
  BY DEF IInv
<1>. QED
  BY <1>1, Invariance, PTL

\* The cache holds only what the table has held.
THEOREM CacheIsCommitted == Spec => []CacheHoldsCommittedRows
<1>1. IInv => CacheHoldsCommittedRows
  BY DEF IInv
<1>. QED
  BY <1>1, Invariance, PTL

\* An employee in the table has been announced, or its announcement was begun.
THEOREM Announced == Spec => []CommittedWasAnnounced
<1>1. IInv => CommittedWasAnnounced
  BY DEF IInv
<1>. QED
  BY <1>1, Invariance, PTL

\* No other step makes a terminated employee active: a commit writes an employee
\* that had no row, an update sets the mark only if it names it, a save carries it.
THEOREM Termination == Spec => TerminationSticks
<1> DEFINE Sticks == \A e \in Employees :
      table[e] # NoRow /\ ~table[e].isActive =>
        /\ table'[e] # NoRow
        /\ table'[e].isActive => \E r \in Requests : Reactivates(r, e)
<1>1. ASSUME IInv, [Next]_vars
      PROVE  Sticks
  <2>1. CASE UNCHANGED table
    BY <2>1
  <2>2. ASSUME NEW r \in Requests, Commit(r)
        PROVE  Sticks
    BY <1>1, <2>2 DEF IInv, TypeOK, CreatesOwnIds, Creating, Commit, Write
  <2>3. ASSUME NEW r \in Requests, UpdateRow(r), table[target[r]] # NoRow
        PROVE  Sticks
    <3> DEFINE row == Patched(table[target[r]], dto[r])
    <3>1. target[r] \in Employees /\ at[r] = "updating" /\ at'[r] = "lookingUp"
      BY <1>1, <2>3 DEF IInv, TypeOK, HasTarget, UpdateRow, Running
    <3>2. row \in Rows /\ (row.isActive => table[target[r]].isActive \/ dto[r].isActive = TRUE)
      <4>1. table[target[r]] \in Rows /\ dto[r] \in Dtos
        BY <1>1, <2>3, <3>1 DEF IInv, TypeOK
      <4>. QED
        BY <4>1, PatchedRow
    <3>3. table' = [table EXCEPT ![target[r]] = row]
      BY <2>3 DEF UpdateRow, Write
    <3>. HIDE DEF row
    <3>4. row # NoRow
      BY <3>2
    <3>5. ASSUME row.isActive, ~table[target[r]].isActive
          PROVE  Reactivates(r, target[r])
      BY <3>1, <3>2, <3>5 DEF Reactivates
    <3>. QED
      BY <1>1, <3>1, <3>3, <3>4, <3>5 DEF IInv, TypeOK
  <2>4. ASSUME NEW r \in Requests, Save(r)
        PROVE  Sticks
    <3>1. /\ Saved(table[target[r]], copy[r], base[r]) \in Rows
          /\ ~table[target[r]].isActive => ~Saved(table[target[r]], copy[r], base[r]).isActive
      BY <1>1, <2>4, SaveFacts
    <3>. QED
      BY <1>1, <2>4, <3>1 DEF IInv, TypeOK, Save, Write
  <2>5. UNCHANGED table \/ \E r \in Requests :
          Commit(r) \/ (UpdateRow(r) /\ table[target[r]] # NoRow) \/ Save(r)
    BY <1>1 DEF vars, tableVars, Next, Arrive, Step, RequestCreate, RequestGet, RequestUpdate,
       RequestTerminate, Accept, Fail, Insert, InsertUnder, AddPayroll, EmitEnds, CacheHit,
       CacheMiss, NotFound, Load, Fill, UpdateRow, Compare, Crash
  <2>. QED
    BY <2>1, <2>2, <2>3, <2>4, <2>5
<1>2. IInv /\ [Next]_vars => [Sticks]_vars
  BY <1>1
<1>. QED
  BY <1>2, Invariance, PTL DEF Spec, TerminationSticks

=============================================================================
