----------------------------- MODULE UserAccounts -----------------------------
(***************************************************************************)
(* Accounts and their roles: users.service.ts and roles.service.ts over    *)
(* their PostgreSQL tables.                                                *)
(* An update reads the account, changes the copy and saves it;             *)
(* TypeORM's save writes every column and every role in which the copy     *)
(* differs from the row it then finds, so requests that overlap in between *)
(* are undone.  The number a verified code links (auth.service.ts) is a    *)
(* column of the same row.                                                 *)
(***************************************************************************)
EXTENDS Naturals, FiniteSets

CONSTANTS Ids,        \* bound: accounts that can be created
          Spellings,  \* e-mail addresses as clients write them
          Lower,      \* their toLowerCase()
          RoleNames,  \* role names as clients write them
          Upper,      \* their toUpperCase()
          DefaultRole, \* the role of an account created without any
          Numbers,    \* WhatsApp ids
          Creations,  \* bound: bodies of creations
          Requests,   \* bound: requests in flight at once
          None        \* SQL NULL, and a field a body leaves out

ASSUME CaseAssumption ==
  /\ Lower \in [Spellings -> Spellings]
  /\ Upper \in [RoleNames -> RoleNames]
  /\ \A s \in Spellings : Lower[Lower[s]] = Lower[s]
  /\ \A r \in RoleNames : Upper[Upper[r]] = Upper[r]
  /\ DefaultRole \in RoleNames /\ Upper[DefaultRole] = DefaultRole
  /\ None \notin Spellings /\ None \notin Numbers /\ None \notin Ids

VARIABLES users,    \* table users with its join table user_roles
          roles,    \* table roles, by name
          request,  \* the requests in flight
          asked     \* history: roles asked for an account, in upper case

vars == <<users, roles, request, asked>>

Account     == [email : Spellings, waId : Numbers \cup {None}, roles : SUBSET RoleNames]

ASSUME NoneAssumption == None \notin Account

\* No pipe strips the fields CreateUserDto does not have: a creation may name
\* any column, of which the number and the id of a row that is there matter.
CreateBody  == [id : Ids \cup {None}, email : Spellings, waId : Numbers \cup {None},
                roles : (SUBSET RoleNames) \cup {None}]

ASSUME BodyAssumption == Creations \subseteq CreateBody

UpdateBody  == [email : Spellings \cup {None}, roles : (SUBSET RoleNames) \cup {None}]

Idle == [pc |-> "idle"]

\* A creation that found its address free; an update that has read its row.
\* "fresh" is a history: nobody has written the row since.
Records == [pc : {"insert"}, id : Ids \cup {None}, wanted : SUBSET RoleNames, user : Account]
           \cup [pc : {"grant"}, id : Ids, roles : SUBSET RoleNames, copy : Account, fresh : BOOLEAN]
           \cup [pc : {"save"}, id : Ids, copy : Account, fresh : BOOLEAN]

TypeOK ==
  /\ users \in [Ids -> Account \cup {None}]
  /\ roles \subseteq RoleNames
  /\ request \in [Requests -> {Idle} \cup Records]
  /\ asked \in [Ids -> SUBSET RoleNames]

Init ==
  /\ users = [i \in Ids |-> None]
  /\ roles = {}
  /\ request = [q \in Requests |-> Idle]
  /\ asked = [i \in Ids |-> {}]

Stored       == {i \in Ids : users[i] # None}
NextId(i)    == i \notin Stored /\ \A j \in Ids : j < i => j \in Stored
UpperAll(rs) == {Upper[r] : r \in rs}

\* Mutant of FindRoles: an empty IN () leaves out the condition.
FindRolesAnyIfNone(rs) ==
  IF rs = {} THEN roles ELSE roles \cap UpperAll(rs)

\* rolesRepository.findBy({ name: In([...toUpperCase()]) })
FindRoles(rs) == roles \cap UpperAll(rs)

\* Login looks an address up in lower case.
FindByEmail(s) == {i \in Stored : users[i].email = Lower[s]}

Taken(email, i) == \E j \in Stored \ {i} : users[j].email = email
Owned(n, i)     == n # None /\ \E j \in Stored \ {i} : users[j].waId = n

Continue(q, r) == request' = [request EXCEPT ![q] = r]
Answer(q)      == Continue(q, Idle)

\* The row of i becomes the given one, under the copies other requests hold.
Write(i, row, q) ==
  /\ users' = [users EXCEPT ![i] = row]
  /\ request' = [p \in Requests |->
       IF p = q THEN Idle
       ELSE IF request[p].pc \in {"grant", "save"} /\ request[p].id = i
            THEN [request[p] EXCEPT !.fresh = FALSE] ELSE request[p]]

(* ------------------------- POST users, users/register ------------------ *)

Wanted(b) == IF b.roles = None THEN {DefaultRole} ELSE b.roles

\* The new row, with the roles asked for that exist: the others are left out
\* in silence.  An address that is taken is answered as an error.  (Two
\* queries, one step: roles are only ever added.)
CheckEmail(q, b) ==
  /\ request[q] = Idle
  /\ b.id \in Stored \cup {None}
  /\ ~Taken(Lower[b.email], None)
  /\ Continue(q, [pc |-> "insert", id |-> b.id, wanted |-> UpperAll(Wanted(b)),
                  user |-> [email |-> Lower[b.email], waId |-> b.waId, roles |-> FindRoles(Wanted(b))]])
  /\ UNCHANGED <<users, roles, asked>>

\* save updates the row of an id that is there: columns the body leaves out stay.
Saved(i, user) == IF i \in Stored /\ user.waId = None THEN [user EXCEPT !.waId = users[i].waId] ELSE user

\* E-mail and number are unique: of two requests that both found an address
\* free one fails.
Insert(q) ==
  /\ request[q].pc = "insert"
  /\ \/ \E i \in Ids :
          /\ IF request[q].id = None THEN NextId(i) ELSE i = request[q].id
          /\ ~Taken(request[q].user.email, i) /\ ~Owned(request[q].user.waId, i)
          /\ Write(i, Saved(i, request[q].user), q)
          /\ asked' = [asked EXCEPT ![i] = @ \cup request[q].wanted]
     \/ Answer(q) /\ UNCHANGED <<users, asked>>
  /\ UNCHANGED roles

(* ------------------------------ PATCH users/:id ------------------------ *)

AskedBy(b) == IF b.roles = None THEN {} ELSE UpperAll(b.roles)

\* Mutant of Changed: the new address is kept as it was written.
ChangedAsWritten(row, b) == IF b.email = None THEN row ELSE [row EXCEPT !.email = b.email]

Changed(row, b) == IF b.email = None THEN row ELSE [row EXCEPT !.email = Lower[b.email]]

ToGrant(i, copy, rs) == [pc |-> "grant", id |-> i, roles |-> rs, copy |-> copy, fresh |-> TRUE]
ToSave(i, copy)      == [pc |-> "save", id |-> i, copy |-> copy, fresh |-> TRUE]

\* Mutant of FindUser: an account that is not there is not noticed.
FindUserUnchecked(q, i, b) ==
  /\ request[q] = Idle
  /\ Continue(q, IF b.roles = None THEN ToSave(i, users[i]) ELSE ToGrant(i, users[i], b.roles))
  /\ asked' = [asked EXCEPT ![i] = @ \cup AskedBy(b)]
  /\ UNCHANGED <<users, roles>>

FindUser(q, i, b) ==
  /\ request[q] = Idle
  /\ i \in Stored
  /\ LET copy == Changed(users[i], b)
     IN Continue(q, IF b.roles = None THEN ToSave(i, copy) ELSE ToGrant(i, copy, b.roles))
  /\ asked' = [asked EXCEPT ![i] = @ \cup AskedBy(b)]
  /\ UNCHANGED <<users, roles>>

\* Mutant of Merged: the roles found replace those the copy has.
MergedReplacing(copy, found) == [copy EXCEPT !.roles = found]

Merged(copy, found) == [copy EXCEPT !.roles = @ \cup found]

\* The roles found are merged into those the copy has; none found is an error.
MergeRoles(q) ==
  /\ request[q].pc = "grant"
  /\ LET r     == request[q]
         found == FindRoles(r.roles)
     IN IF found = {} THEN Answer(q)
        ELSE Continue(q, [ToSave(r.id, Merged(r.copy, found)) EXCEPT !.fresh = r.fresh])
  /\ UNCHANGED <<users, roles, asked>>

\* Afterwards the row is the copy, whatever it was in between; a taken e-mail
\* or number, or a failing database, is answered as an error.
Save(q) ==
  /\ request[q].pc = "save"
  /\ LET i    == request[q].id
         copy == request[q].copy
     IN \/ /\ ~Taken(copy.email, i) /\ ~Owned(copy.waId, i)
           /\ Write(i, copy, q)
        \/ Answer(q) /\ UNCHANGED users
  /\ UNCHANGED <<roles, asked>>

(* --------------------- One statement of other services ----------------- *)

\* verifyOtp links the account to a number: update({ email }, { waId }).
Link(q, i, n) ==
  /\ request[q] = Idle /\ i \in Stored
  /\ ~Owned(n, i)
  /\ Write(i, [users[i] EXCEPT !.waId = n], q)
  /\ UNCHANGED <<roles, asked>>

\* A role's name, kept as it was written, is unique.
CreateRole(q, name) ==
  /\ request[q] = Idle
  /\ name \notin roles
  /\ roles' = roles \cup {name}
  /\ UNCHANGED <<users, request, asked>>

Next == \E q \in Requests :
  \/ \E b \in Creations : CheckEmail(q, b)
  \/ Insert(q)
  \/ \E i \in Ids, b \in UpdateBody : FindUser(q, i, b)
  \/ MergeRoles(q) \/ Save(q)
  \/ \E i \in Ids, n \in Numbers : Link(q, i, n)
  \/ \E name \in RoleNames : CreateRole(q, name)

Spec == Init /\ [][Next]_vars

(* ------------------------------- Properties ---------------------------- *)

\* An address, however it is spelled, leads a login to at most one account,
\* and every account is found by its own address: creations race between
\* their look and their insert, and updates change addresses.
AddressLeadsToOneAccount ==
  /\ \A s \in Spellings : Cardinality(FindByEmail(s)) <= 1
  /\ \A i \in Stored : i \in FindByEmail(users[i].email)

\* An account holds no role but those some request asked for it, however
\* requests for several accounts interleave.
GrantsWereAsked == \A i \in Stored : users[i].roles \subseteq asked[i]

\* update merges roles and leaves the link of an account alone: one whose row
\* nobody wrote between its read and its save, some awaits later, takes no
\* role and no number away.  (One that was overtaken does.)
UndisturbedUpdateTakesNothing ==
  [][\A q \in Requests :
       request[q].pc = "save" /\ request[q].fresh /\ request'[q] = Idle =>
         \A i \in {request[q].id} \cap Stored :
           /\ users[i].roles \subseteq users'[i].roles
           /\ users[i].waId \in {None, users'[i].waId}]_vars
=============================================================================
