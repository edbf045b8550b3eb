------------------------- MODULE UserAccounts_proofs -------------------------
(***************************************************************************)
(* For any accounts, spellings, roles and requests: an address leads to    *)
(* one account, and no account has a role that nobody asked for.  What is  *)
(* written was in a request's hands for some awaits, so the invariant says *)
(* what holds of every record a request carries.                           *)
(***************************************************************************)
EXTENDS UserAccounts, FiniteSetTheorems, TLAPS

\* What a request is about to write: its address is in lower case and its
\* roles were asked for; and it edits a stored account, so that no later
\* account takes its place.
Sound(r) ==
  /\ r.pc = "insert" => /\ Lower[r.user.email] = r.user.email
                        /\ r.user.roles \subseteq r.wanted
  /\ r.pc \in {"grant", "save"} => /\ Lower[r.copy.email] = r.copy.email
                                   /\ r.copy.roles \subseteq asked[r.id]
                                   /\ r.id \in Stored
  /\ r.pc = "grant" => UpperAll(r.roles) \subseteq asked[r.id]

\* Addresses are stored in lower case, and the column has a unique index.
LowerCase       == \A i \in Stored : Lower[users[i].email] = users[i].email
AddressesDiffer == \A i, j \in Stored : users[i].email = users[j].email => i = j

Inv ==
  /\ TypeOK
  /\ LowerCase /\ AddressesDiffer /\ GrantsWereAsked
  /\ \A q \in Requests : Sound(request[q])

\* Before any request there is no account.
LEMMA InitInv == Init => Inv
BY DEF Init, Inv, TypeOK, Idle, LowerCase, AddressesDiffer, GrantsWereAsked, Sound, Stored

\* The fields of a record, by the await its request stands at.
LEMMA RecordShape ==
  ASSUME NEW r \in {Idle} \cup Records
  PROVE  /\ r.pc \in {"idle", "insert", "grant", "save"}
         /\ r.pc = "insert" => /\ r.wanted \subseteq RoleNames /\ r.user \in Account
                               /\ r.id \in Ids \cup {None}
         /\ r.pc = "grant" => r.roles \subseteq RoleNames
         /\ r.pc \in {"grant", "save"} => /\ r.copy \in Account /\ r.id \in Ids
                                          /\ r.fresh \in BOOLEAN
BY DEF Records, Idle

\* Roles in upper case are roles, and a copy moved to another address is a
\* row again, in lower case.
LEMMA UpperRoles ==
  ASSUME NEW rs \in SUBSET RoleNames PROVE UpperAll(rs) \subseteq RoleNames
BY CaseAssumption DEF UpperAll

LEMMA ChangedRow ==
  ASSUME NEW row \in Account, NEW b \in UpdateBody, Lower[row.email] = row.email
  PROVE  /\ Changed(row, b) \in Account
         /\ Changed(row, b).roles = row.roles
         /\ Lower[Changed(row, b).email] = Changed(row, b).email
BY CaseAssumption DEF Changed, Account, UpdateBody

\* A request goes on with a sound record, and nothing is written.
LEMMA ContinuePreserves ==
  ASSUME Inv, NEW q \in Requests, NEW r \in {Idle} \cup Records, Continue(q, r),
         UNCHANGED <<users, roles>>, asked' \in [Ids -> SUBSET RoleNames],
         \A i \in Ids : asked[i] \subseteq asked'[i],
         Sound(r)'
  PROVE  Inv'
<1>1. TypeOK'
  BY DEF Inv, TypeOK, Continue
<1>2. Stored' = Stored
  BY DEF Stored
<1>3. LowerCase' /\ AddressesDiffer' /\ GrantsWereAsked'
  BY <1>2 DEF Inv, LowerCase, AddressesDiffer, GrantsWereAsked, Stored
<1>4. ASSUME NEW p \in Requests PROVE Sound(request[p])'
  <2>1. CASE p = q
    BY <2>1 DEF Inv, TypeOK, Continue, Sound
  <2>2. CASE p # q
    <3>1. request'[p] = request[p] /\ request[p] \in {Idle} \cup Records
      BY <2>2 DEF Inv, TypeOK, Continue
    <3>2. Sound(request[p])
      BY DEF Inv
    <3> QED BY <1>2, <3>1, <3>2, RecordShape DEF Sound
  <2> QED BY <2>1, <2>2
<1> QED BY <1>1, <1>3, <1>4 DEF Inv

LEMMA AnswerPreserves ==
  ASSUME Inv, NEW q \in Requests, Answer(q), UNCHANGED <<users, roles, asked>>
  PROVE  Inv'
<1>1. Sound(Idle)'
  BY DEF Sound, Idle
<1>2. asked' \in [Ids -> SUBSET RoleNames] /\ \A i \in Ids : asked[i] \subseteq asked'[i]
  BY DEF Inv, TypeOK
<1> QED BY <1>1, <1>2, ContinuePreserves DEF Answer

\* An update that is overtaken keeps what it carries.
LEMMA OvertakenRecord ==
  ASSUME NEW r \in Records, r.pc \in {"grant", "save"}
  PROVE  LET s == [r EXCEPT !.fresh = FALSE]
         IN /\ s \in Records
            /\ s.pc = r.pc /\ s.copy = r.copy /\ s.id = r.id
            /\ r.pc = "grant" => s.roles = r.roles
<1>1. CASE r \in [pc : {"grant"}, id : Ids, roles : SUBSET RoleNames, copy : Account,
                  fresh : BOOLEAN]
  BY <1>1 DEF Records
<1>2. CASE r \in [pc : {"save"}, id : Ids, copy : Account, fresh : BOOLEAN]
  BY <1>2 DEF Records
<1>3. r \notin [pc : {"insert"}, id : Ids \cup {None}, wanted : SUBSET RoleNames, user : Account]
  OBVIOUS
<1> QED BY <1>1, <1>2, <1>3 DEF Records

\* The row of an account, new or not, becomes one in lower case whose roles
\* were asked for and whose address no other account has.
LEMMA WritePreserves ==
  ASSUME Inv, NEW q \in Requests, NEW i \in Ids, NEW row \in Account, Write(i, row, q),
         Lower[row.email] = row.email, row.roles \subseteq asked'[i], ~Taken(row.email, i),
         UNCHANGED roles, asked' \in [Ids -> SUBSET RoleNames],
         \A j \in Ids : asked[j] \subseteq asked'[j]
  PROVE  Inv'
<1>1. users' = [users EXCEPT ![i] = row] /\ row # None
  BY NoneAssumption DEF Write
<1>2. Stored' = Stored \cup {i} /\ users' \in [Ids -> Account \cup {None}] /\ Stored \subseteq Ids
  BY <1>1 DEF Inv, TypeOK, Stored
<1>3. \A j \in Ids : users'[j] = IF j = i THEN row ELSE users[j]
  BY <1>1 DEF Inv, TypeOK
<1>4. ASSUME NEW p \in Requests PROVE request'[p] \in {Idle} \cup Records /\ Sound(request[p])'
  <2> DEFINE r == request[p]
  <2>1. r \in {Idle} \cup Records /\ Sound(r)
    BY DEF Inv, TypeOK
  <2>2. CASE request'[p] = Idle
    BY <2>2 DEF Sound, Idle
  <2>3. CASE request'[p] = r
    BY <1>2, <2>1, <2>3, RecordShape DEF Sound
  <2>4. CASE r.pc \in {"grant", "save"} /\ request'[p] = [r EXCEPT !.fresh = FALSE]
    <3> DEFINE s == [r EXCEPT !.fresh = FALSE]
    <3>1. s \in Records
      BY <2>1, <2>4, OvertakenRecord DEF Idle
    <3>2. /\ s.pc = r.pc /\ s.copy = r.copy /\ s.id = r.id
          /\ r.pc = "grant" => s.roles = r.roles
      BY <2>1, <2>4, OvertakenRecord DEF Idle
    <3>3. s.pc # "insert"
      BY <2>4, <3>2
    <3>4. request'[p] = s
      BY <2>4
    <3> HIDE DEF s
    <3> QED BY <1>2, <2>1, <2>4, <3>1, <3>2, <3>3, <3>4 DEF Sound
  <2> QED BY <2>2, <2>3, <2>4 DEF Write
<1>5. TypeOK'
  <2>1. request' \in [Requests -> {Idle} \cup Records]
    BY <1>4 DEF Write
  <2> QED BY <1>2, <2>1 DEF Inv, TypeOK
<1>6. LowerCase' /\ GrantsWereAsked'
  BY <1>2, <1>3 DEF Inv, LowerCase, GrantsWereAsked
<1>7. AddressesDiffer'
  BY <1>2, <1>3 DEF Inv, AddressesDiffer, Taken
<1> QED BY <1>4, <1>5, <1>6, <1>7 DEF Inv

(* --------------------------- The steps of the code --------------------- *)

LEMMA CheckEmailPreserves ==
  ASSUME Inv, NEW q \in Requests, NEW b \in Creations, CheckEmail(q, b)
  PROVE  Inv'
<1> DEFINE row == [email |-> Lower[b.email], waId |-> b.waId, roles |-> FindRoles(Wanted(b))]
<1>0. b \in CreateBody
  BY BodyAssumption
<1>1. Wanted(b) \in SUBSET RoleNames
  BY <1>0, CaseAssumption DEF Wanted, CreateBody
<1>2. UpperAll(Wanted(b)) \subseteq RoleNames
  BY <1>1, UpperRoles
<1>3. FindRoles(Wanted(b)) \subseteq UpperAll(Wanted(b))
  BY DEF FindRoles
<1>4. Lower[b.email] \in Spellings /\ Lower[Lower[b.email]] = Lower[b.email]
  BY <1>0, CaseAssumption DEF CreateBody
<1>5. [pc |-> "insert", id |-> b.id, wanted |-> UpperAll(Wanted(b)), user |-> row] \in Records
  BY <1>0, <1>2, <1>3, <1>4 DEF Records, Account, CreateBody
<1>6. PICK r \in Records : r = [pc |-> "insert", id |-> b.id, wanted |-> UpperAll(Wanted(b)), user |-> row]
  BY <1>5
<1>7. Sound(r)'
  BY <1>3, <1>4, <1>6 DEF Sound
<1>8. asked' \in [Ids -> SUBSET RoleNames] /\ \A i \in Ids : asked[i] \subseteq asked'[i]
  BY DEF CheckEmail, Inv, TypeOK
<1>9. Continue(q, r) /\ UNCHANGED <<users, roles>>
  BY <1>6 DEF CheckEmail
<1> QED BY <1>7, <1>8, <1>9, ContinuePreserves

\* What save makes of a creation's row: the number may be the stored one.
LEMMA SavedRow ==
  ASSUME Inv, NEW i \in Ids, NEW user \in Account
  PROVE  /\ Saved(i, user) \in Account
         /\ Saved(i, user).email = user.email /\ Saved(i, user).roles = user.roles
<1>1. CASE i \in Stored /\ user.waId = None
  <2>1. users[i].waId \in Numbers \cup {None}
    BY <1>1 DEF Inv, TypeOK, Stored, Account
  <2> QED BY <1>1, <2>1 DEF Saved, Account
<1>2. CASE ~(i \in Stored /\ user.waId = None)
  BY <1>2 DEF Saved
<1> QED BY <1>1, <1>2

LEMMA InsertPreserves ==
  ASSUME Inv, NEW q \in Requests, Insert(q)
  PROVE  Inv'
<1> DEFINE user == request[q].user
<1>1. CASE Answer(q) /\ UNCHANGED <<users, asked>>
  BY <1>1, AnswerPreserves DEF Insert
<1>2. ASSUME NEW i \in Ids, ~Taken(user.email, i), Write(i, Saved(i, user), q),
             asked' = [asked EXCEPT ![i] = @ \cup request[q].wanted]
      PROVE  Inv'
  <2>1. request[q] \in {Idle} \cup Records /\ Sound(request[q]) /\ request[q].pc = "insert"
    BY DEF Inv, TypeOK, Insert
  <2>2. /\ user \in Account /\ request[q].wanted \subseteq RoleNames
        /\ Lower[user.email] = user.email /\ user.roles \subseteq request[q].wanted
    BY <2>1, RecordShape DEF Sound
  <2>3. PICK row \in Account : /\ row = Saved(i, user)
                              /\ row.email = user.email /\ row.roles = user.roles
    BY <2>2, SavedRow
  <2>4. /\ asked' \in [Ids -> SUBSET RoleNames]
        /\ \A j \in Ids : asked[j] \subseteq asked'[j]
        /\ row.roles \subseteq asked'[i]
    BY <1>2, <2>2, <2>3 DEF Inv, TypeOK
  <2>5. Write(i, row, q) /\ Lower[row.email] = row.email /\ ~Taken(row.email, i) /\ UNCHANGED roles
    BY <1>2, <2>2, <2>3 DEF Insert
  <2> QED BY <2>4, <2>5, WritePreserves
<1> QED BY <1>1, <1>2 DEF Insert

LEMMA FindUserPreserves ==
  ASSUME Inv, NEW q \in Requests, NEW i \in Ids, NEW b \in UpdateBody, FindUser(q, i, b)
  PROVE  Inv'
<1>1. i \in Stored /\ users[i] \in Account /\ Lower[users[i].email] = users[i].email
  BY DEF FindUser, Inv, TypeOK, LowerCase, Stored
<1>2. PICK copy \in Account : copy = Changed(users[i], b)
  BY <1>1, ChangedRow
<1>3. Lower[copy.email] = copy.email /\ copy.roles \subseteq asked[i]
  BY <1>1, <1>2, ChangedRow DEF Inv, GrantsWereAsked
<1>4. AskedBy(b) \subseteq RoleNames
  BY UpperRoles DEF AskedBy, UpdateBody
<1>5. /\ asked' = [asked EXCEPT ![i] = @ \cup AskedBy(b)]
      /\ UNCHANGED <<users, roles>>
      /\ Continue(q, IF b.roles = None THEN ToSave(i, copy) ELSE ToGrant(i, copy, b.roles))
  BY <1>2 DEF FindUser
<1>6. /\ asked' \in [Ids -> SUBSET RoleNames]
      /\ \A j \in Ids : asked[j] \subseteq asked'[j]
      /\ asked'[i] = asked[i] \cup AskedBy(b)
  BY <1>4, <1>5 DEF Inv, TypeOK
<1>7. Stored' = Stored
  BY <1>5 DEF Stored
<1>8. CASE b.roles = None
  <2>1. ToSave(i, copy) \in Records
    BY DEF ToSave, Records
  <2>2. Sound(ToSave(i, copy))'
    BY <1>1, <1>3, <1>6, <1>7 DEF ToSave, Sound
  <2> QED BY <1>5, <1>6, <1>8, <2>1, <2>2, ContinuePreserves
<1>9. CASE b.roles # None
  <2>1. b.roles \in SUBSET RoleNames /\ AskedBy(b) = UpperAll(b.roles)
    BY <1>9 DEF UpdateBody, AskedBy
  <2>2. ToGrant(i, copy, b.roles) \in Records
    BY <2>1 DEF ToGrant, Records
  <2>3. Sound(ToGrant(i, copy, b.roles))'
    BY <1>1, <1>3, <1>6, <1>7, <2>1 DEF ToGrant, Sound
  <2> QED BY <1>5, <1>6, <1>9, <2>2, <2>3, ContinuePreserves
<1> QED BY <1>8, <1>9

LEMMA MergeRolesPreserves ==
  ASSUME Inv, NEW q \in Requests, MergeRoles(q)
  PROVE  Inv'
<1>1. PICK r \in {Idle} \cup Records : r = request[q]
  BY DEF Inv, TypeOK
<1>2. Sound(r) /\ r.pc = "grant"
  BY <1>1 DEF Inv, MergeRoles
<1>3. PICK found \in SUBSET RoleNames : found = FindRoles(r.roles)
  BY DEF FindRoles, Inv, TypeOK
<1>4. found \subseteq UpperAll(r.roles)
  BY <1>3 DEF FindRoles
<1>5. /\ r.copy \in Account /\ r.id \in Ids /\ r.fresh \in BOOLEAN
      /\ r.id \in Stored /\ r.copy.roles \subseteq asked[r.id]
      /\ UpperAll(r.roles) \subseteq asked[r.id] /\ Lower[r.copy.email] = r.copy.email
  BY <1>1, <1>2, RecordShape DEF Sound
<1>6. PICK copy \in Account : copy = Merged(r.copy, found)
  BY <1>3, <1>5 DEF Merged, Account
<1>7. copy.roles = r.copy.roles \cup found /\ copy.email = r.copy.email
  BY <1>5, <1>6 DEF Merged, Account
<1>8. UNCHANGED <<users, roles, asked>>
  BY DEF MergeRoles
<1>9. CASE found = {}
  BY <1>1, <1>3, <1>8, <1>9, AnswerPreserves DEF MergeRoles
<1>10. CASE found # {}
  <2> DEFINE s == [pc |-> "save", id |-> r.id, copy |-> copy, fresh |-> r.fresh]
  <2>1. [ToSave(r.id, copy) EXCEPT !.fresh = r.fresh] = s
    BY DEF ToSave
  <2>2. Continue(q, s)
    BY <1>1, <1>3, <1>6, <1>10, <2>1 DEF MergeRoles
  <2>3. s \in Records
    BY <1>5, <1>6 DEF Records
  <2>4. Sound(s)'
    BY <1>4, <1>5, <1>7, <1>8 DEF Sound, Stored
  <2>5. asked' \in [Ids -> SUBSET RoleNames] /\ \A i \in Ids : asked[i] \subseteq asked'[i]
    BY <1>8 DEF Inv, TypeOK
  <2> QED BY <1>8, <2>2, <2>3, <2>4, <2>5, ContinuePreserves
<1> QED BY <1>9, <1>10

LEMMA SavePreserves ==
  ASSUME Inv, NEW q \in Requests, Save(q)
  PROVE  Inv'
<1>1. PICK r \in {Idle} \cup Records : r = request[q]
  BY DEF Inv, TypeOK
<1>2. /\ r.copy \in Account /\ r.id \in Stored /\ Lower[r.copy.email] = r.copy.email
      /\ r.copy.roles \subseteq asked[r.id]
  BY <1>1, RecordShape DEF Inv, Save, Sound
<1>3. CASE Answer(q) /\ UNCHANGED users
  BY <1>3, AnswerPreserves DEF Save
<1>4. CASE ~Taken(r.copy.email, r.id) /\ Write(r.id, r.copy, q)
  <2>1. /\ r.id \in Ids /\ UNCHANGED <<roles, asked>> /\ asked' \in [Ids -> SUBSET RoleNames]
        /\ r.copy.roles \subseteq asked'[r.id] /\ \A j \in Ids : asked[j] \subseteq asked'[j]
    BY <1>2 DEF Save, Stored, Inv, TypeOK
  <2> QED BY <1>2, <1>4, <2>1, WritePreserves
<1> QED BY <1>1, <1>3, <1>4 DEF Save

\* Linking a number touches neither the address nor the roles of the row.
LEMMA LinkPreserves ==
  ASSUME Inv, NEW q \in Requests, NEW i \in Ids, NEW n \in Numbers, Link(q, i, n)
  PROVE  Inv'
<1>1. i \in Stored /\ users[i] \in Account
  BY DEF Link, Inv, TypeOK, Stored
<1>2. PICK row \in Account : row = [users[i] EXCEPT !.waId = n]
  BY <1>1 DEF Account
<1>3. row.email = users[i].email /\ row.roles = users[i].roles
  BY <1>1, <1>2 DEF Account
<1>4. ~Taken(row.email, i)
  BY <1>1, <1>3 DEF Taken, Inv, AddressesDiffer
<1>5. Lower[row.email] = row.email /\ row.roles \subseteq asked[i]
  BY <1>1, <1>3 DEF Inv, LowerCase, GrantsWereAsked
<1>6. /\ UNCHANGED <<roles, asked>> /\ asked' \in [Ids -> SUBSET RoleNames]
      /\ row.roles \subseteq asked'[i] /\ \A j \in Ids : asked[j] \subseteq asked'[j]
  BY <1>5 DEF Link, Inv, TypeOK
<1>7. Write(i, row, q)
  BY <1>2 DEF Link
<1> QED BY <1>4, <1>5, <1>6, <1>7, WritePreserves

LEMMA CreateRolePreserves ==
  ASSUME Inv, NEW q \in Requests, NEW name \in RoleNames, CreateRole(q, name)
  PROVE  Inv'
BY DEF CreateRole, Inv, TypeOK, LowerCase, AddressesDiffer, GrantsWereAsked, Sound, Stored

\* The invariant is inductive.
LEMMA NextInv == Inv /\ [Next]_vars => Inv'
<1> SUFFICES ASSUME Inv, [Next]_vars PROVE Inv'
  OBVIOUS
<1>1. CASE UNCHANGED vars
  BY <1>1 DEF vars, Inv, TypeOK, LowerCase, AddressesDiffer, GrantsWereAsked, Sound, Stored
<1>2. CASE Next
  BY <1>2, CheckEmailPreserves, InsertPreserves, FindUserPreserves, MergeRolesPreserves,
     SavePreserves, LinkPreserves, CreateRolePreserves DEF Next
<1> QED BY <1>1, <1>2

(* ------------------------------- Theorems ------------------------------ *)

\* The invariant holds in every state of every behaviour of the accounts.
THEOREM Invariance == Spec => []Inv
BY InitInv, NextInv, PTL DEF Spec

\* The variables of the accounts keep their types.
THEOREM TypeCorrect == Spec => []TypeOK
<1>1. Inv => TypeOK
  BY DEF Inv
<1> QED BY <1>1, Invariance, PTL

\* update and create look whether an address is free and write later: still a
\* login is led to at most one account, and to every account by its address.
THEOREM OneAccount == Spec => []AddressLeadsToOneAccount
<1>1. ASSUME Inv PROVE AddressLeadsToOneAccount
  <2>1. ASSUME NEW s \in Spellings PROVE Cardinality(FindByEmail(s)) <= 1
    <3> DEFINE F == FindByEmail(s)
    <3>1. \A i, j \in F : i = j
      BY <1>1 DEF FindByEmail, Inv, AddressesDiffer
    <3> HIDE DEF F
    <3>2. CASE F = {}
      BY <3>2, FS_EmptySet DEF F
    <3>3. CASE F # {}
      <4>1. PICK i \in F : TRUE
        BY <3>3
      <4>2. F = {i}
        BY <3>1, <4>1
      <4> QED BY <4>2, FS_Singleton DEF F
    <3> QED BY <3>2, <3>3
  <2>2. \A i \in Stored : i \in FindByEmail(users[i].email)
    BY <1>1 DEF Inv, LowerCase, FindByEmail
  <2> QED BY <2>1, <2>2 DEF AddressLeadsToOneAccount
<1> QED BY <1>1, Invariance, PTL

\* No account holds a role that no request asked for it, also when a save
\* writes a copy that others have overtaken.
THEOREM OnlyAskedGrants == Spec => []GrantsWereAsked
<1>1. Inv => GrantsWereAsked
  BY DEF Inv
<1> QED BY <1>1, Invariance, PTL

(* ------------------- Updates that nobody overtakes --------------------- *)

\* The copy of an update whose row nobody wrote since has every role of the
\* row, and its number.
Mirrors(r) ==
  r.pc \in {"grant", "save"} /\ r.fresh =>
    users[r.id].roles \subseteq r.copy.roles /\ users[r.id].waId = r.copy.waId

CopiesMirror == \A q \in Requests : Mirrors(request[q])

\* A request goes on with a copy that mirrors its row, and nothing is written.
LEMMA ContinueMirrors ==
  ASSUME Inv, CopiesMirror, NEW q \in Requests, NEW r, Continue(q, r), UNCHANGED users, Mirrors(r)'
  PROVE  CopiesMirror'
<1>1. \A p \in Requests : request'[p] = IF p = q THEN r ELSE request[p]
  BY DEF Continue, Inv, TypeOK
<1>2. ASSUME NEW p \in Requests PROVE Mirrors(request[p])'
  <2>1. CASE p = q
    BY <1>1, <2>1 DEF Mirrors
  <2>2. CASE p # q
    BY <1>1, <2>2 DEF CopiesMirror, Mirrors
  <2> QED BY <2>1, <2>2
<1> QED BY <1>2 DEF CopiesMirror

LEMMA AnswerMirrors ==
  ASSUME Inv, CopiesMirror, NEW q \in Requests, Answer(q), UNCHANGED users
  PROVE  CopiesMirror'
<1>1. Mirrors(Idle)'
  BY DEF Mirrors, Idle
<1> QED BY <1>1, ContinueMirrors DEF Answer

\* A row that is written is no longer the one that other copies were read from.
LEMMA WriteMirrors ==
  ASSUME Inv, CopiesMirror, NEW q \in Requests, NEW i \in Ids, NEW row, Write(i, row, q)
  PROVE  CopiesMirror'
<1>1. \A j \in Ids : j # i => users'[j] = users[j]
  BY DEF Write, Inv, TypeOK
<1>2. ASSUME NEW p \in Requests PROVE Mirrors(request[p])'
  <2> DEFINE r == request[p]
  <2>1. r \in {Idle} \cup Records /\ Mirrors(r)
    BY DEF Inv, TypeOK, CopiesMirror
  <2>2. CASE request'[p] = Idle
    BY <2>2 DEF Mirrors, Idle
  <2>3. CASE r.pc \in {"grant", "save"} /\ request'[p] = [r EXCEPT !.fresh = FALSE]
    <3>1. CASE r \in [pc : {"grant"}, id : Ids, roles : SUBSET RoleNames, copy : Account,
                      fresh : BOOLEAN]
      BY <2>3, <3>1 DEF Mirrors
    <3>2. CASE r \in [pc : {"save"}, id : Ids, copy : Account, fresh : BOOLEAN]
      BY <2>3, <3>2 DEF Mirrors
    <3> QED BY <2>1, <2>3, <3>1, <3>2 DEF Records, Idle
  <2>4. CASE request'[p] = r /\ ~(r.pc \in {"grant", "save"} /\ r.id = i)
    BY <1>1, <2>1, <2>4, RecordShape DEF Mirrors
  <2> QED BY <2>2, <2>3, <2>4 DEF Write
<1> QED BY <1>2 DEF CopiesMirror

LEMMA FindUserMirrors ==
  ASSUME Inv, CopiesMirror, NEW q \in Requests, NEW i \in Ids, NEW b \in UpdateBody,
         FindUser(q, i, b)
  PROVE  CopiesMirror'
<1>1. i \in Stored /\ users[i] \in Account /\ UNCHANGED users
  BY DEF FindUser, Inv, TypeOK, Stored
<1>2. PICK copy \in Account : copy = Changed(users[i], b)
  BY <1>1, ChangedRow DEF Inv, LowerCase
<1>3. copy.roles = users[i].roles /\ copy.waId = users[i].waId
  BY <1>1, <1>2 DEF Changed, Account
<1>4. Mirrors(ToSave(i, copy))' /\ Mirrors(ToGrant(i, copy, b.roles))'
  BY <1>1, <1>3 DEF Mirrors, ToSave, ToGrant
<1>5. Continue(q, ToSave(i, copy)) \/ Continue(q, ToGrant(i, copy, b.roles))
  BY <1>2 DEF FindUser
<1> QED BY <1>1, <1>4, <1>5, ContinueMirrors

LEMMA MergeRolesMirrors ==
  ASSUME Inv, CopiesMirror, NEW q \in Requests, MergeRoles(q)
  PROVE  CopiesMirror'
<1>1. PICK r \in {Idle} \cup Records : r = request[q]
  BY DEF Inv, TypeOK
<1>2. Mirrors(r) /\ r.pc = "grant" /\ UNCHANGED users
  BY <1>1 DEF CopiesMirror, MergeRoles
<1>3. PICK found \in SUBSET RoleNames : found = FindRoles(r.roles)
  BY DEF FindRoles, Inv, TypeOK
<1>4. r.copy \in Account
  BY <1>1, <1>2, RecordShape
<1>5. PICK copy \in Account : copy = Merged(r.copy, found)
  BY <1>3, <1>4 DEF Merged, Account
<1>6. r.copy.roles \subseteq copy.roles /\ copy.waId = r.copy.waId
  BY <1>4, <1>5 DEF Merged, Account
<1> DEFINE s == [pc |-> "save", id |-> r.id, copy |-> copy, fresh |-> r.fresh]
<1>7. Mirrors(s)'
  BY <1>2, <1>6 DEF Mirrors
<1>8. [ToSave(r.id, copy) EXCEPT !.fresh = r.fresh] = s
  BY DEF ToSave
<1>9. Answer(q) \/ Continue(q, s)
  BY <1>1, <1>3, <1>5, <1>8 DEF MergeRoles
<1> HIDE DEF s
<1> QED BY <1>2, <1>7, <1>9, ContinueMirrors, AnswerMirrors

LEMMA InsertMirrors ==
  ASSUME Inv, CopiesMirror, NEW q \in Requests, Insert(q)
  PROVE  CopiesMirror'
BY WriteMirrors, AnswerMirrors DEF Insert

\* Fresh copies mirror their rows, whatever the other requests do.
LEMMA MirrorsKept ==
  ASSUME Inv, CopiesMirror, [Next]_vars
  PROVE  CopiesMirror'
<1>1. ASSUME NEW q \in Requests, NEW b \in Creations, CheckEmail(q, b) PROVE CopiesMirror'
  <2>1. PICK r : Continue(q, r) /\ r.pc = "insert"
    BY <1>1 DEF CheckEmail
  <2>2. Mirrors(r)' /\ UNCHANGED users
    BY <1>1, <2>1 DEF Mirrors, CheckEmail
  <2> QED BY <2>1, <2>2, ContinueMirrors
<1>2. ASSUME NEW q \in Requests, Save(q) PROVE CopiesMirror'
  <2>1. PICK r \in {Idle} \cup Records : r = request[q]
    BY DEF Inv, TypeOK
  <2>2. r.id \in Ids
    BY <1>2, <2>1, RecordShape DEF Save
  <2>3. Write(r.id, r.copy, q) \/ (Answer(q) /\ UNCHANGED users)
    BY <1>2, <2>1 DEF Save
  <2> QED BY <2>2, <2>3, WriteMirrors, AnswerMirrors
<1>3. ASSUME NEW q \in Requests, NEW i \in Ids, NEW n \in Numbers, Link(q, i, n) PROVE CopiesMirror'
  BY <1>3, WriteMirrors DEF Link
<1>4. CASE UNCHANGED <<users, request>>
  BY <1>4 DEF CopiesMirror, Mirrors
<1>5. ASSUME NEW q \in Requests, NEW name \in RoleNames, CreateRole(q, name) PROVE CopiesMirror'
  BY <1>4, <1>5 DEF CreateRole
<1> QED BY <1>1, <1>2, <1>3, <1>4, <1>5, FindUserMirrors, MergeRolesMirrors, InsertMirrors
     DEF Next, vars

\* The step in which an update that nobody overtook ends takes nothing away.
LEMMA SaveTakesNothing ==
  ASSUME Inv, CopiesMirror, [Next]_vars, NEW q \in Requests,
         request[q].pc = "save", request[q].fresh, request'[q] = Idle,
         NEW i \in {request[q].id} \cap Stored
  PROVE  users[i].roles \subseteq users'[i].roles /\ users[i].waId \in {None, users'[i].waId}
<1> DEFINE r == request[q]
<1>1. r \in {Idle} \cup Records /\ r.pc = "save" /\ i = r.id /\ i \in Ids /\ Idle.pc = "idle"
  BY RecordShape DEF Inv, TypeOK, Idle
<1>2. users[i].roles \subseteq r.copy.roles /\ users[i].waId = r.copy.waId
  BY <1>1 DEF CopiesMirror, Mirrors
<1>3. CASE UNCHANGED users
  BY <1>3
<1>4. CASE Save(q)
  <2>1. CASE Write(i, r.copy, q)
    <3>1. users'[i] = r.copy
      BY <1>1, <2>1 DEF Write, Inv, TypeOK
    <3> QED BY <1>2, <3>1
  <2> QED BY <1>1, <1>3, <1>4, <2>1 DEF Save
<1>5. ASSUME NEW p \in Requests, p # q, NEW j, NEW row, Write(j, row, p) PROVE FALSE
  <2>1. request'[q] = r \/ request'[q] = [r EXCEPT !.fresh = FALSE]
    BY <1>5 DEF Write
  <2>2. [r EXCEPT !.fresh = FALSE].pc = "save"
    BY <1>1, OvertakenRecord
  <2> QED BY <1>1, <2>1, <2>2
<1>6. ASSUME NEW p \in Requests, p # q, Save(p) PROVE UNCHANGED users
  BY <1>5, <1>6 DEF Save
<1>7. ASSUME NEW p \in Requests, Insert(p) PROVE UNCHANGED users
  <2>1. p # q
    BY <1>1, <1>7 DEF Insert
  <2> QED BY <1>5, <1>7, <2>1 DEF Insert
<1>8. ASSUME NEW p \in Requests, NEW j \in Ids, NEW n \in Numbers, Link(p, j, n) PROVE FALSE
  <2>1. p # q
    BY <1>1, <1>8 DEF Link
  <2> QED BY <1>5, <1>8, <2>1 DEF Link
<1> QED BY <1>3, <1>4, <1>6, <1>7, <1>8 DEF Next, vars, CheckEmail, FindUser, MergeRoles, CreateRole

\* update merges roles into the copy it read and leaves the number alone: when
\* nobody wrote the row between its read and its save it takes nothing away.
THEOREM UndisturbedUpdates == Spec => UndisturbedUpdateTakesNothing
<1>1. Init => CopiesMirror
  BY DEF Init, CopiesMirror, Mirrors, Idle
<1>2. Inv /\ CopiesMirror /\ [Next]_vars =>
        \A q \in Requests :
          request[q].pc = "save" /\ request[q].fresh /\ request'[q] = Idle =>
            \A i \in {request[q].id} \cap Stored :
              /\ users[i].roles \subseteq users'[i].roles
              /\ users[i].waId \in {None, users'[i].waId}
  BY SaveTakesNothing
<1> QED BY <1>1, <1>2, Invariance, MirrorsKept, PTL DEF Spec, UndisturbedUpdateTakesNothing
=============================================================================
