------------------------------ MODULE UserListing -----------------------------
(***************************************************************************)
(* GET users: UsersService.findAll over buildUserQueryBuilderWithRoles, as *)
(* a client reads it page by page, from page 0 to the totalPages of the    *)
(* latest answer, while accounts are created and changed between pages.    *)
(* With a join, skip and take, TypeORM pages over the distinct accounts    *)
(* and orders by their id after the columns asked for.                     *)
(***************************************************************************)
EXTENDS Integers, Sequences, FiniteSets, Functions

CONSTANTS MaxUsers,  \* bound: accounts created
          Names,     \* usernames, as numbers in their collation order
          Search,    \* the names the search finds; all of them: no search
          Sort,      \* the sort parameter: a sequence of columns and signs
          PageSize,
          MaxPages   \* bound: pages read in one listing

ASSUME PagingAssumption ==
  /\ PageSize \in Nat \ {0} /\ MaxUsers \in Nat /\ MaxPages \in Nat
  /\ Search \subseteq Names /\ Names \subseteq Nat
  /\ Sort \in Seq([key : {"username", "id"}, sign : {"+", "-", ""}])

VARIABLES users,   \* accounts by id, in the order they were created
          reading, \* the listing being read
          began    \* history: the accounts it could show when it began

vars == <<users, reading, began>>

Ids     == 1..MaxUsers
Account == [username : Names, hasRole : BOOLEAN]

TypeOK ==
  /\ users \in Seq(Account) /\ Len(users) <= MaxUsers
  /\ reading \in [pc : {"idle", "reading", "done"}, page : 0..MaxPages,
                  shown : Seq(Ids), created : BOOLEAN, updated : BOOLEAN]
  /\ began \subseteq Ids

Init ==
  /\ users = <<>>
  /\ reading = [pc |-> "idle", page |-> 0, shown |-> <<>>,
                created |-> FALSE, updated |-> FALSE]
  /\ began = {}

\* onlyWithRoles (roles.id IS NOT NULL) and the search over the names.
Found == {i \in DOMAIN users : users[i].hasRole /\ users[i].username \in Search}

\* parseSort builds an object: a column named twice keeps its first place and
\* gets its last direction; only a minus sign means DESC.
ParseSort(sort) ==
  LET LastOf(key) == CHOOSE i \in DOMAIN sort :
                     sort[i].key = key /\ \A j \in DOMAIN sort : sort[j].key = key => j <= i
      Opens(i)  == \A j \in 1..(i - 1) : sort[j].key # sort[i].key
  IN [k \in 1..Cardinality({i \in DOMAIN sort : Opens(i)}) |->
        LET i == CHOOSE i \in DOMAIN sort :
                   Opens(i) /\ Cardinality({j \in 1..i : Opens(j)}) = k
        IN [key |-> sort[i].key, desc |-> sort[LastOf(sort[i].key)].sign = "-"]]

Column(i, key) == IF key = "id" THEN i ELSE users[i].username

\* The columns asked for, then the id.
Order == ParseSort(Sort) \o <<[key |-> "id", desc |-> FALSE]>>

SameIn(i, j, col) == Column(i, col.key) = Column(j, col.key)

BeforeIn(i, j, col) ==
  IF col.desc THEN Column(i, col.key) > Column(j, col.key)
              ELSE Column(i, col.key) < Column(j, col.key)

Precedes(i, j) ==
  \E k \in DOMAIN Order : BeforeIn(i, j, Order[k]) /\ \A l \in 1..(k - 1) : SameIn(i, j, Order[l])

\* The place of an account counts those found that come before it.
Place(i) == Cardinality({j \in Found : Precedes(j, i)}) + 1

Result == [k \in 1..Cardinality(Found) |-> CHOOSE i \in Found : Place(i) = k]

Slice(s, first, last) == SubSeq(s, first, IF last < Len(s) THEN last ELSE Len(s))

\* Mutant of Page: the last row of a page is the first of the next.
PageOverlapping(page) == Slice(Result, page * PageSize + 1, (page + 1) * PageSize + 1)

\* skip(page * pageSize).take(pageSize), and what meta says of the result.
Page(page) == Slice(Result, page * PageSize + 1, (page + 1) * PageSize)

\* Mutant of TotalPages: a last page that is not full is not counted.
TotalPagesFull(total) == total \div PageSize

TotalPages(total) == (total + PageSize - 1) \div PageSize

Create(row) ==
  /\ Len(users) < MaxUsers
  /\ users' = Append(users, row)
  /\ reading' = [reading EXCEPT !.created = @ \/ reading.pc = "reading"]
  /\ UNCHANGED began

\* A new name, or the first role of an account without any.
Update(i, row) ==
  /\ i \in DOMAIN users /\ row # users[i]
  /\ users[i].hasRole => row.hasRole
  /\ users' = [users EXCEPT ![i] = row]
  /\ reading' = [reading EXCEPT !.updated = @ \/ reading.pc = "reading"]
  /\ UNCHANGED began

BeginReading ==
  /\ reading.pc # "reading"
  /\ reading' = [pc |-> "reading", page |-> 0, shown |-> <<>>,
                 created |-> FALSE, updated |-> FALSE]
  /\ began' = Found
  /\ UNCHANGED users

\* Mutant of ReadPage: reading.pc tells nothing of the last page.
ReadPageForever ==
  /\ reading.pc = "reading"
  /\ reading' = [reading EXCEPT !.shown = @ \o Page(reading.page), !.page = @ + 1]
  /\ UNCHANGED <<users, began>>

ReadPage ==
  /\ reading.pc = "reading" /\ reading.page < MaxPages
  /\ reading' = [reading EXCEPT
       !.shown = @ \o Page(reading.page),
       !.page  = @ + 1,
       !.pc    = IF reading.page + 1 < TotalPages(Len(Result)) THEN "reading" ELSE "done"]
  /\ UNCHANGED <<users, began>>

Next ==
  \/ \E row \in Account : Create(row) \/ \E i \in Ids : Update(i, row)
  \/ BeginReading \/ ReadPage

Spec == Init /\ [][Next]_vars

(* ------------------------------- Properties ---------------------------- *)

Shown == Range(reading.shown)

\* A listing read to its last page shows every account it could have shown
\* when it began, though accounts were created, or made older pages longer.
CreationsHideNobody ==
  reading.pc = "done" /\ ~reading.updated => began \subseteq Shown

\* When nothing changes meanwhile it shows exactly those, each of them once.
EachOnceWhenUnchanged ==
  reading.pc = "done" /\ ~reading.updated /\ ~reading.created =>
    IsInjective(reading.shown) /\ Shown = began

-----------------------------------------------------------------------------
(* The strengthening that makes the properties inductive. *)

\* The accounts that the pages read so far stand for, as the result is now.
ReadSoFar == {i \in Found : Place(i) <= reading.page * PageSize}

\* Creations only move an account to a later place: of those that were there
\* when the listing began, the pages already read have shown every one that
\* is still on one of them.
OldOnesWereShown ==
  reading.pc = "reading" /\ ~reading.updated =>
    began \subseteq Found /\ began \cap ReadSoFar \subseteq Shown

\* While nothing changes the pages read are the beginning of the result.
PagesAreABeginning ==
  reading.pc = "reading" /\ ~reading.updated /\ ~reading.created =>
    began = Found /\ Shown = ReadSoFar /\ IsInjective(reading.shown)

\* The inductive invariant of a listing.
IInv ==
  /\ TypeOK
  /\ OldOnesWereShown /\ PagesAreABeginning
  /\ CreationsHideNobody /\ EachOnceWhenUnchanged
=============================================================================
