-------------------------- MODULE UserListing_proofs -------------------------
(***************************************************************************)
(* For any accounts, sort parameter, search and page size: a listing read  *)
(* page by page hides no account from its reader and shows none twice.     *)
(* The order of the result is total because the id comes last, so that the *)
(* places of the accounts found are the numbers from 1 to their count.     *)
(***************************************************************************)
EXTENDS UserListing, FiniteSetTheorems, TLAPS

\* The bounds are numbers.
LEMMA Bounds == MaxUsers \in Nat /\ MaxPages \in Nat /\ PageSize \in Nat \ {0}
BY PagingAssumption

\* A set of numbers that is not empty has a least one.
LEMMA Least ==
  ASSUME NEW T \in SUBSET Nat, T # {}
  PROVE  \E m \in T : \A k \in T : m <= k
<1> DEFINE Up == {1..m : m \in T}
<1>1. Up # {} /\ Up \subseteq FiniteSubsetsOf(Nat)
  <2>1. ASSUME NEW m \in T PROVE 1..m \subseteq Nat /\ IsFiniteSet(1..m)
    BY FS_Interval
  <2>2. QED
    BY <2>1 DEF FiniteSubsetsOf
<1>2. PICK I \in Up : \A J \in Up : <<J, I>> \notin StrictSubsetOrdering(Nat)
  BY <1>1, WFMin, FS_StrictSubsetOrderingWellFounded
<1>3. PICK m \in T : I = 1..m
  OBVIOUS
<1>4. ASSUME NEW k \in T, k < m PROVE FALSE
  <2>1. 1..k \subseteq 1..m /\ 1..k # 1..m
    <3>1. m \in 1..m /\ m \notin 1..k
      BY <1>4
    <3>2. QED
      BY <1>4, <3>1
  <2>2. 1..k \in SUBSET Nat /\ 1..m \in SUBSET Nat
    OBVIOUS
  <2>3. <<1..k, 1..m>> \in StrictSubsetOrdering(Nat)
    <3> HIDE <1>3
    <3> DEFINE A == 1..k
               B == 1..m
    <3>1. A \in SUBSET Nat /\ B \in SUBSET Nat /\ A \subseteq B /\ A # B
      BY <2>1, <2>2
    <3> HIDE DEF A, B
    <3>2. <<A, B>> \in StrictSubsetOrdering(Nat)
      BY <3>1 DEF StrictSubsetOrdering
    <3>3. QED
      BY <3>2 DEF A, B
  <2>4. 1..k \in Up
    OBVIOUS
  <2>5. QED
    BY <1>2, <1>3, <2>3, <2>4
<1>5. QED
  BY <1>4

-----------------------------------------------------------------------------
(* The order of the result. *)

\* The columns of the order are numbered, and the last one is the id.
LEMMA LastIsTheId ==
  \E n \in Nat \ {0} :
    DOMAIN Order = 1..n /\ Order[n].key = "id" /\ Order[n].desc = FALSE
<1> DEFINE asked == ParseSort(Sort)
           count == Cardinality({i \in DOMAIN Sort : \A j \in 1..(i - 1) : Sort[j].key # Sort[i].key})
           id    == [key |-> "id", desc |-> FALSE]
<1>1. DOMAIN asked = 1..count
  BY DEF ParseSort
<1>2. count \in Nat
  <2>1. IsFiniteSet(DOMAIN Sort)
    <3>1. PICK S : Sort \in Seq(S)
      BY PagingAssumption
    <3>2. DOMAIN Sort = 1..Len(Sort) /\ Len(Sort) \in Nat
      BY <3>1
    <3>3. QED
      BY <3>2, FS_Interval
  <2>2. QED
    BY <2>1, FS_Subset, FS_CardinalityType
<1>3. asked = [k \in 1..count |-> asked[k]]
  BY <1>1 DEF ParseSort
<1> HIDE DEF asked, count
<1>4. asked \in Seq({asked[k] : k \in 1..count})
  BY <1>2, <1>3
<1>5. Len(asked) = count
  BY <1>1, <1>2, <1>4
<1>6. Order = asked \o <<id>>
  BY DEF Order, asked
<1>7. DOMAIN Order = 1..(count + 1) /\ Order[count + 1] = id
  <2> HIDE DEF id
  <2>1. PICK S : asked \in Seq(S)
    BY <1>4
  <2>2. asked \in Seq(S \cup {id}) /\ <<id>> \in Seq(S \cup {id})
    BY <1>2, <2>1
  <2>3. Len(<<id>>) = 1 /\ <<id>>[1] = id
    OBVIOUS
  <2>4. QED
    BY <1>2, <1>5, <1>6, <2>2, <2>3
<1>8. QED
  BY <1>2, <1>7

\* The columns of accounts are numbers.
LEMMA ColumnsAreNumbers ==
  ASSUME users \in Seq(Account), NEW i \in DOMAIN users, NEW key
  PROVE  Column(i, key) \in Nat
<1>1. users[i] \in Account /\ i \in Nat
  OBVIOUS
<1>2. users[i].username \in Nat
  BY <1>1, PagingAssumption DEF Account
<1>3. QED
  BY <1>1, <1>2 DEF Column

\* No account comes before itself.
LEMMA Irreflexive ==
  ASSUME users \in Seq(Account), NEW i \in DOMAIN users
  PROVE  ~Precedes(i, i)
<1>1. ASSUME NEW k \in DOMAIN Order PROVE ~BeforeIn(i, i, Order[k])
  <2>1. Column(i, Order[k].key) \in Nat
    BY ColumnsAreNumbers
  <2>2. QED
    BY <2>1 DEF BeforeIn
<1>2. QED
  BY <1>1 DEF Precedes

\* The first column in which the accounts of either pair differ decides.
LEMMA Transitive ==
  ASSUME users \in Seq(Account), NEW i \in DOMAIN users, NEW j \in DOMAIN users,
         NEW m \in DOMAIN users, Precedes(i, j), Precedes(j, m)
  PROVE  Precedes(i, m)
<1>1. PICK n \in Nat : DOMAIN Order = 1..n
  BY LastIsTheId
<1>2. PICK p \in DOMAIN Order :
        BeforeIn(i, j, Order[p]) /\ \A l \in 1..(p - 1) : SameIn(i, j, Order[l])
  BY DEF Precedes
<1>3. PICK q \in DOMAIN Order :
        BeforeIn(j, m, Order[q]) /\ \A l \in 1..(q - 1) : SameIn(j, m, Order[l])
  BY DEF Precedes
<1>4. \A k : /\ Column(i, Order[k].key) \in Nat /\ Column(j, Order[k].key) \in Nat
             /\ Column(m, Order[k].key) \in Nat
  BY ColumnsAreNumbers
<1>5. \A l \in 1..(p - 1) : l \in 1..(q - 1) => SameIn(i, m, Order[l])
  BY <1>2, <1>3 DEF SameIn
<1>6. CASE p < q
  <2>1. SameIn(j, m, Order[p])
    BY <1>1, <1>3, <1>6
  <2>2. BeforeIn(i, m, Order[p])
    BY <1>2, <2>1 DEF BeforeIn, SameIn
  <2>3. QED
    BY <1>1, <1>5, <1>6, <2>2 DEF Precedes
<1>7. CASE q < p
  <2>1. SameIn(i, j, Order[q])
    BY <1>1, <1>2, <1>7
  <2>2. BeforeIn(i, m, Order[q])
    BY <1>3, <2>1 DEF BeforeIn, SameIn
  <2>3. QED
    BY <1>1, <1>5, <1>7, <2>2 DEF Precedes
<1>8. CASE p = q
  <2>1. BeforeIn(i, m, Order[p])
    BY <1>2, <1>3, <1>4, <1>8 DEF BeforeIn
  <2>2. QED
    BY <1>5, <1>8, <2>1 DEF Precedes
<1>9. QED
  BY <1>1, <1>6, <1>7, <1>8

\* Of two accounts one comes first: their ids differ.
LEMMA Total ==
  ASSUME users \in Seq(Account), NEW i \in DOMAIN users, NEW j \in DOMAIN users, i # j
  PROVE  Precedes(i, j) \/ Precedes(j, i)
<1>1. PICK n \in Nat \ {0} :
        DOMAIN Order = 1..n /\ Order[n].key = "id" /\ Order[n].desc = FALSE
  BY LastIsTheId
<1> DEFINE D == {k \in 1..n : ~SameIn(i, j, Order[k])}
<1>2. n \in D
  BY <1>1 DEF SameIn, Column
<1>3. PICK k \in D : \A l \in D : k <= l
  <2>1. D \in SUBSET Nat /\ D # {}
    BY <1>2
  <2> HIDE DEF D
  <2>2. QED
    BY <2>1, Least
<1>4. \A l \in 1..(k - 1) : SameIn(i, j, Order[l]) /\ SameIn(j, i, Order[l])
  BY <1>3 DEF SameIn
<1>5. Column(i, Order[k].key) \in Nat /\ Column(j, Order[k].key) \in Nat
  BY ColumnsAreNumbers
<1>6. BeforeIn(i, j, Order[k]) \/ BeforeIn(j, i, Order[k])
  BY <1>5 DEF BeforeIn, SameIn
<1>7. QED
  BY <1>1, <1>4, <1>6 DEF Precedes

-----------------------------------------------------------------------------
(* Places. *)

\* Those found that come before an account.
Earlier(i) == {j \in Found : Precedes(j, i)}

\* Finitely many accounts are found, and each has a place among them.
LEMMA PlacesAreNumbers ==
  ASSUME users \in Seq(Account)
  PROVE  /\ IsFiniteSet(Found) /\ Cardinality(Found) \in Nat
         /\ \A i \in Found : Place(i) \in 1..Cardinality(Found)
<1>1. IsFiniteSet(Found) /\ Found \subseteq DOMAIN users
  <2>1. IsFiniteSet(DOMAIN users)
    BY FS_Interval
  <2>2. QED
    BY <2>1, FS_Subset DEF Found
<1>2. Cardinality(Found) \in Nat
  BY <1>1, FS_CardinalityType
<1>3. ASSUME NEW i \in Found PROVE Place(i) \in 1..Cardinality(Found)
  <2>1. Earlier(i) \subseteq Found /\ i \notin Earlier(i)
    BY <1>1, Irreflexive DEF Earlier
  <2>2. IsFiniteSet(Earlier(i)) /\ Cardinality(Earlier(i)) \in Nat
    BY <1>1, <2>1, FS_Subset, FS_CardinalityType
  <2>3. Cardinality(Earlier(i)) <= Cardinality(Found) /\ Cardinality(Earlier(i)) # Cardinality(Found)
    BY <1>1, <2>1, FS_Subset
  <2>4. QED
    BY <1>2, <2>2, <2>3 DEF Place, Earlier
<1>4. QED
  BY <1>1, <1>2, <1>3

\* Who comes first has the smaller place.
LEMMA PlacesFollowTheOrder ==
  ASSUME users \in Seq(Account), NEW i \in Found, NEW j \in Found, Precedes(i, j)
  PROVE  Place(i) < Place(j)
<1>1. Found \subseteq DOMAIN users
  BY DEF Found
<1>2. Earlier(i) \subseteq Earlier(j)
  BY <1>1, Transitive DEF Earlier
<1>3. i \in Earlier(j) /\ i \notin Earlier(i)
  BY <1>1, Irreflexive DEF Earlier
<1>4. IsFiniteSet(Earlier(j))
  BY PlacesAreNumbers, FS_Subset DEF Earlier
<1>5. /\ IsFiniteSet(Earlier(i)) /\ Cardinality(Earlier(i)) <= Cardinality(Earlier(j))
      /\ Cardinality(Earlier(i)) # Cardinality(Earlier(j))
  BY <1>2, <1>3, <1>4, FS_Subset
<1>6. Cardinality(Earlier(i)) \in Nat /\ Cardinality(Earlier(j)) \in Nat
  BY <1>4, <1>5, FS_CardinalityType
<1>7. QED
  BY <1>5, <1>6 DEF Place, Earlier

\* Every place is that of exactly one account.
LEMMA PlacesAreTaken ==
  ASSUME users \in Seq(Account)
  PROVE  /\ \A i, j \in Found : Place(i) = Place(j) => i = j
         /\ \A k \in 1..Cardinality(Found) : \E i \in Found : Place(i) = k
<1> DEFINE n == Cardinality(Found)
           f == [i \in Found |-> Place(i)]
<1>1. ASSUME NEW i \in Found, NEW j \in Found, Place(i) = Place(j) PROVE i = j
  <2>1. Place(i) \in Int /\ Place(j) \in Int
    BY PlacesAreNumbers
  <2>2. i \in DOMAIN users /\ j \in DOMAIN users
    BY DEF Found
  <2>3. QED
    BY <1>1, <2>1, <2>2, Total, PlacesFollowTheOrder
<1>2. f \in Injection(Found, 1..n)
  BY <1>1, PlacesAreNumbers DEF Injection, IsInjective
<1>3. n \in Nat /\ IsFiniteSet(1..n) /\ Cardinality(1..n) = n
  BY PlacesAreNumbers, FS_Interval
<1>4. f \in Surjection(Found, 1..n)
  BY <1>2, <1>3, FS_Injection
<1>5. \A k \in 1..n : \E i \in Found : f[i] = k
  BY <1>4 DEF Surjection
<1>6. QED
  BY <1>1, <1>5

\* The result lists the accounts found by their places.
LEMMA ResultByPlace ==
  ASSUME users \in Seq(Account)
  PROVE  /\ Result \in Seq(Found) /\ Len(Result) = Cardinality(Found)
         /\ \A k \in 1..Len(Result) : Place(Result[k]) = k
         /\ \A i \in Found : Result[Place(i)] = i
<1>1. Cardinality(Found) \in Nat
  BY PlacesAreNumbers
<1>2. ASSUME NEW k \in 1..Cardinality(Found)
      PROVE  Result[k] \in Found /\ Place(Result[k]) = k
  BY PlacesAreTaken DEF Result
<1>3. Result \in Seq(Found) /\ Len(Result) = Cardinality(Found)
  BY <1>1, <1>2 DEF Result
<1>4. ASSUME NEW i \in Found PROVE Result[Place(i)] = i
  BY <1>2, PlacesAreNumbers, PlacesAreTaken
<1>5. QED
  BY <1>2, <1>3, <1>4

-----------------------------------------------------------------------------
(* Pages. *)

\* A slice lists the rows from one number to another, as far as there are any.
LEMMA SliceRows ==
  ASSUME NEW S, NEW s \in Seq(S), NEW b \in Nat, NEW e \in Nat, b <= e
  PROVE  /\ Slice(s, b + 1, e) \in Seq(S)
         /\ \A k \in DOMAIN Slice(s, b + 1, e) :
              k + b \in b + 1..e /\ k + b \in 1..Len(s) /\ Slice(s, b + 1, e)[k] = s[k + b]
         /\ \A k \in 1..Len(s) : k \in b + 1..e => k - b \in DOMAIN Slice(s, b + 1, e)
<1> DEFINE last == IF e < Len(s) THEN e ELSE Len(s)
<1>1. last \in Nat /\ last <= Len(s) /\ last <= e
  OBVIOUS
<1>2. Slice(s, b + 1, e) = SubSeq(s, b + 1, last)
  BY DEF Slice
<1> HIDE DEF last
<1>3. SubSeq(s, b + 1, last) = [k \in 1..(last - b) |-> s[k + b]]
  BY <1>1
<1>4. \A k \in 1..(last - b) : k + b \in 1..Len(s) /\ k + b \in b + 1..e
  BY <1>1
<1>5. Slice(s, b + 1, e) \in Seq(S)
  <2>1. CASE b <= last
    <3>1. last - b \in Nat /\ \A k \in 1..(last - b) : s[k + b] \in S
      BY <1>1, <1>4, <2>1
    <3>2. [k \in 1..(last - b) |-> s[k + b]] \in Seq(S)
      BY <3>1
    <3>3. QED
      BY <1>2, <1>3, <3>2
  <2>2. CASE last < b
    BY <1>1, <1>2, <1>3, <2>2
  <2>3. QED
    BY <1>1, <2>1, <2>2
<1>6. ASSUME NEW k \in 1..Len(s), k \in b + 1..e PROVE k - b \in 1..(last - b)
  BY <1>6 DEF last
<1>7. QED
  BY <1>2, <1>3, <1>4, <1>5, <1>6

\* Page p stands for the places from p * PageSize to (p + 1) * PageSize.
LEMMA Multiples ==
  ASSUME NEW p \in Nat
  PROVE  /\ p * PageSize \in Nat /\ (p + 1) * PageSize \in Nat
         /\ (p + 1) * PageSize = p * PageSize + PageSize
         /\ p * PageSize <= (p + 1) * PageSize
<1>1. \A q \in Nat : p * q \in Nat /\ (p + 1) * q = p * q + q
  OBVIOUS
<1>2. PageSize \in Nat
  BY PagingAssumption
<1>3. p * PageSize \in Nat /\ (p + 1) * PageSize = p * PageSize + PageSize
  BY <1>1, <1>2
<1>4. QED
  BY <1>2, <1>3

\* A page shows the accounts of its places, each of them once.
LEMMA PageRows ==
  ASSUME users \in Seq(Account), NEW p \in Nat
  PROVE  /\ Page(p) \in Seq(Found) /\ IsInjective(Page(p))
         /\ Range(Page(p)) =
              {i \in Found : p * PageSize < Place(i) /\ Place(i) <= (p + 1) * PageSize}
<1> DEFINE b == p * PageSize
           e == (p + 1) * PageSize
<1>1. b \in Nat /\ e \in Nat /\ b <= e
  BY Multiples
<1>2. Page(p) = Slice(Result, b + 1, e)
  BY DEF Page
<1> HIDE DEF b, e
<1>3. Result \in Seq(Found)
  BY ResultByPlace
<1>4. /\ Page(p) \in Seq(Found)
      /\ \A k \in DOMAIN Page(p) :
           k + b \in b + 1..e /\ k + b \in 1..Len(Result) /\ Page(p)[k] = Result[k + b]
      /\ \A k \in 1..Len(Result) : k \in b + 1..e => k - b \in DOMAIN Page(p)
  <2>1. /\ Slice(Result, b + 1, e) \in Seq(Found)
        /\ \A k \in DOMAIN Slice(Result, b + 1, e) :
             /\ k + b \in b + 1..e /\ k + b \in 1..Len(Result)
             /\ Slice(Result, b + 1, e)[k] = Result[k + b]
        /\ \A k \in 1..Len(Result) : k \in b + 1..e => k - b \in DOMAIN Slice(Result, b + 1, e)
    BY <1>1, <1>3, SliceRows, Zenon
  <2>2. QED
    BY <1>2, <2>1, Zenon
<1>5. ASSUME NEW k \in DOMAIN Page(p) PROVE Page(p)[k] \in Found /\ Place(Page(p)[k]) = k + b
  <2>1. Page(p)[k] \in Found
    BY <1>4
  <2>2. QED
    BY <1>4, <2>1, ResultByPlace
<1>6. IsInjective(Page(p))
  <2>1. ASSUME NEW k \in DOMAIN Page(p), NEW l \in DOMAIN Page(p), Page(p)[k] = Page(p)[l]
        PROVE  k = l
    <3>1. k + b = l + b /\ k \in Int /\ l \in Int
      BY <1>4, <1>5, <2>1
    <3>2. QED
      BY <1>1, <3>1
  <2>2. QED
    BY <2>1 DEF IsInjective
<1>7. ASSUME NEW i \in Found, b < Place(i), Place(i) <= e PROVE i \in Range(Page(p))
  <2>1. Place(i) \in 1..Len(Result) /\ Result[Place(i)] = i
    BY PlacesAreNumbers, ResultByPlace
  <2>2. Place(i) - b \in DOMAIN Page(p)
    BY <1>1, <1>4, <1>7, <2>1
  <2>3. Page(p)[Place(i) - b] = i
    <3>1. Page(p)[Place(i) - b] = Result[(Place(i) - b) + b]
      BY <1>4, <2>2
    <3>2. (Place(i) - b) + b = Place(i)
      BY <1>1, <2>1
    <3>3. QED
      BY <2>1, <3>1, <3>2
  <2>4. QED
    BY <2>2, <2>3 DEF Range
<1>8. ASSUME NEW i \in Range(Page(p)) PROVE i \in Found /\ b < Place(i) /\ Place(i) <= e
  <2>1. PICK k \in DOMAIN Page(p) : i = Page(p)[k]
    BY DEF Range
  <2>2. k + b \in b + 1..e
    BY <1>4
  <2>3. QED
    BY <1>1, <1>5, <2>1, <2>2
<1>9. QED
  BY <1>4, <1>6, <1>7, <1>8 DEF b, e

\* The last page that totalPages announces ends the result.
LEMMA LastPage ==
  ASSUME NEW n \in Nat, NEW p \in Nat, ~(p + 1 < TotalPages(n))
  PROVE  n <= (p + 1) * PageSize
<1>1. PageSize \in Nat \ {0}
  BY PagingAssumption
<1>2. TotalPages(n) = (n + PageSize - 1) \div PageSize
  BY DEF TotalPages
<1>3. p + 1 \in Nat /\ p + 1 >= (n + PageSize - 1) \div PageSize
  BY <1>1, <1>2
<1>4. \A k \in Nat : k >= (n + PageSize - 1) \div PageSize => k * PageSize >= n
  BY <1>1
<1>5. (p + 1) * PageSize >= n
  BY <1>3, <1>4
<1>6. QED
  BY <1>5, Multiples

\* A reader who turns the page has the rows of both, and none twice if they
\* share none.
LEMMA Concatenated ==
  ASSUME NEW S, NEW s \in Seq(S), NEW t \in Seq(S)
  PROVE  /\ Range(s \o t) = Range(s) \cup Range(t)
         /\ IsInjective(s) /\ IsInjective(t) /\ Range(s) \cap Range(t) = {} => IsInjective(s \o t)
<1>1. /\ DOMAIN (s \o t) = 1..(Len(s) + Len(t)) /\ DOMAIN s = 1..Len(s) /\ DOMAIN t = 1..Len(t)
      /\ Len(s) \in Nat /\ Len(t) \in Nat
  OBVIOUS
<1>2. \A k \in DOMAIN (s \o t) :
        \/ k \in DOMAIN s /\ (s \o t)[k] = s[k]
        \/ k - Len(s) \in DOMAIN t /\ (s \o t)[k] = t[k - Len(s)]
  OBVIOUS
<1>3. \A k \in DOMAIN s : k \in DOMAIN (s \o t) /\ (s \o t)[k] = s[k]
  OBVIOUS
<1>4. \A k \in DOMAIN t : k + Len(s) \in DOMAIN (s \o t) /\ (s \o t)[k + Len(s)] = t[k]
  OBVIOUS
<1>5. Range(s \o t) = Range(s) \cup Range(t)
  <2>1. ASSUME NEW x \in Range(s \o t) PROVE x \in Range(s) \cup Range(t)
    BY <1>2 DEF Range
  <2>2. ASSUME NEW x \in Range(s) \cup Range(t) PROVE x \in Range(s \o t)
    BY <1>3, <1>4 DEF Range
  <2>3. QED
    BY <2>1, <2>2
<1>6. ASSUME IsInjective(s), IsInjective(t), Range(s) \cap Range(t) = {},
             NEW k \in DOMAIN (s \o t), NEW l \in DOMAIN (s \o t), (s \o t)[k] = (s \o t)[l]
      PROVE  k = l
  <2>1. \A i \in DOMAIN s, j \in DOMAIN t : s[i] # t[j]
    BY <1>6 DEF Range
  <2>2. CASE k \in DOMAIN s /\ (s \o t)[k] = s[k] /\ l \in DOMAIN s /\ (s \o t)[l] = s[l]
    BY <1>6, <2>2 DEF IsInjective
  <2>3. CASE /\ k - Len(s) \in DOMAIN t /\ (s \o t)[k] = t[k - Len(s)]
             /\ l - Len(s) \in DOMAIN t /\ (s \o t)[l] = t[l - Len(s)]
    <3>1. k - Len(s) = l - Len(s)
      BY <1>6, <2>3 DEF IsInjective
    <3>2. QED
      BY <1>1, <3>1
  <2>4. QED
    BY <1>2, <1>6, <2>1, <2>2, <2>3
<1>7. QED
  BY <1>5, <1>6 DEF IsInjective

-----------------------------------------------------------------------------
(* The steps. *)

\* Accounts are found by their ids.
LEMMA FoundAreIds == TypeOK => Found \subseteq Ids
<1> SUFFICES ASSUME TypeOK, NEW i \in Found PROVE i \in 1..MaxUsers
  BY DEF Ids
<1>1. i \in 1..Len(users) /\ Len(users) \in Nat /\ Len(users) <= MaxUsers
  BY DEF Found, TypeOK
<1>2. QED
  BY <1>1, Bounds

\* Places stay numbers.
LEMMA PlacesAreNumbersAfter ==
  (users \in Seq(Account) => \A i \in Found : Place(i) \in Nat)'
<1>1. users \in Seq(Account) => \A i \in Found : Place(i) \in Nat
  BY PlacesAreNumbers
<1>2. QED
  BY <1>1, PTL

\* A listing begins with what is found, and with no page.
LEMMA Beginning == TypeOK /\ BeginReading => IInv'
<1> SUFFICES ASSUME TypeOK, BeginReading PROVE IInv'
  OBVIOUS
<1> USE DEF BeginReading
<1>1. Found \subseteq Ids
  BY FoundAreIds
<1>2. TypeOK'
  <2>1. 0 \in 0..MaxPages /\ <<>> \in Seq(Ids)
    BY Bounds
  <2>2. reading' \in [pc : {"idle", "reading", "done"}, page : 0..MaxPages,
                      shown : Seq(Ids), created : BOOLEAN, updated : BOOLEAN]
    BY <2>1
  <2>3. QED
    BY <1>1, <2>2 DEF TypeOK
<1>3. Found' = Found /\ \A i : Place(i)' = Place(i)
  BY DEF Found, Place, Precedes, BeforeIn, SameIn, Column
<1>4. ReadSoFar' = {}
  <2>1. reading'.page * PageSize = 0
    <3>1. \A n \in Nat : 0 * n = 0
      OBVIOUS
    <3>2. reading'.page = 0 /\ PageSize \in Nat
      BY Bounds
    <3>3. QED
      BY <3>1, <3>2
  <2>2. \A i \in Found : Place(i) \in Nat \ {0}
    BY PlacesAreNumbers DEF TypeOK
  <2>3. QED
    BY <1>3, <2>1, <2>2 DEF ReadSoFar
<1>5. Shown' = {} /\ IsInjective(reading'.shown)
  BY DEF Shown, Range, IsInjective
<1>6. OldOnesWereShown' /\ PagesAreABeginning'
  BY <1>3, <1>4, <1>5 DEF OldOnesWereShown, PagesAreABeginning
<1>7. CreationsHideNobody' /\ EachOnceWhenUnchanged'
  BY DEF CreationsHideNobody, EachOnceWhenUnchanged
<1>8. QED
  BY <1>2, <1>6, <1>7 DEF IInv

\* An account that is created moves those found only to later places.
LEMMA Creating ==
  ASSUME TypeOK, NEW row \in Account, Create(row)
  PROVE  Found \subseteq Found' /\ \A i \in Found : Place(i) <= Place(i)'
<1>1. users' \in Seq(Account) /\ Len(users') = Len(users) + 1
  BY DEF TypeOK, Create
<1>2. DOMAIN users \subseteq DOMAIN users' /\ \A i \in DOMAIN users : users'[i] = users[i]
  BY DEF TypeOK, Create
<1>3. Found \subseteq Found' /\ Found \subseteq DOMAIN users
  BY <1>2 DEF Found
<1>4. ASSUME NEW i \in DOMAIN users, NEW j \in DOMAIN users PROVE Precedes(j, i)' = Precedes(j, i)
  <2>1. \A key : Column(i, key)' = Column(i, key) /\ Column(j, key)' = Column(j, key)
    BY <1>2 DEF Column
  <2>2. QED
    BY <2>1 DEF Precedes, BeforeIn, SameIn
<1>5. ASSUME NEW i \in Found PROVE Place(i) <= Place(i)'
  <2> DEFINE later == {j \in Found' : Precedes(j, i)'}
  <2>1. Earlier(i) \subseteq later
    BY <1>3, <1>4 DEF Earlier
  <2>2. IsFiniteSet(later)
    <3>1. DOMAIN users' = 1..Len(users') /\ Len(users') \in Nat
      BY <1>1
    <3>2. later \subseteq DOMAIN users'
      BY DEF Found
    <3>3. IsFiniteSet(DOMAIN users')
      BY <3>1, FS_Interval
    <3>4. QED
      BY <3>2, <3>3, FS_Subset
  <2>3. /\ Cardinality(Earlier(i)) <= Cardinality(later)
        /\ Cardinality(Earlier(i)) \in Nat /\ Cardinality(later) \in Nat
    BY <2>1, <2>2, FS_Subset, FS_CardinalityType
  <2>4. Place(i) = Cardinality(Earlier(i)) + 1 /\ Place(i)' = Cardinality(later) + 1
    BY DEF Place, Earlier
  <2>5. QED
    BY <2>3, <2>4
<1>6. QED
  BY <1>3, <1>5

\* A creation while a listing is read keeps what its reader has seen.
LEMMA CreationKeeps == IInv /\ (\E row \in Account : Create(row)) => IInv'
<1> SUFFICES ASSUME IInv, NEW row \in Account, Create(row) PROVE IInv'
  OBVIOUS
<1>1. TypeOK
  BY DEF IInv
<1>2. /\ reading' = [reading EXCEPT !.created = @ \/ reading.pc = "reading"]
      /\ began' = began
  BY DEF Create
<1>3. /\ reading'.pc = reading.pc /\ reading'.page = reading.page
      /\ reading'.shown = reading.shown /\ reading'.updated = reading.updated
      /\ reading'.created = (reading.created \/ reading.pc = "reading")
  BY <1>1, <1>2 DEF TypeOK
<1>4. TypeOK'
  <2>1. users' \in Seq(Account) /\ Len(users') <= MaxUsers
    <3>1. users' = Append(users, row) /\ Len(users) < MaxUsers /\ users \in Seq(Account)
      BY <1>1 DEF TypeOK, Create
    <3>2. users' \in Seq(Account) /\ Len(users') = Len(users) + 1 /\ Len(users) \in Nat
      BY <3>1
    <3>3. QED
      BY <3>1, <3>2, Bounds
  <2>2. QED
    BY <1>1, <1>2, <2>1 DEF TypeOK
<1>5. Shown' = Shown
  BY <1>3 DEF Shown
<1>6. OldOnesWereShown'
  <2> SUFFICES ASSUME reading.pc = "reading", ~reading.updated
               PROVE  began \subseteq Found' /\ began \cap ReadSoFar' \subseteq Shown
    BY <1>2, <1>3, <1>5 DEF OldOnesWereShown
  <2>1. began \subseteq Found /\ began \cap ReadSoFar \subseteq Shown
    BY DEF IInv, OldOnesWereShown
  <2>2. ASSUME NEW i \in began, i \in ReadSoFar' PROVE i \in ReadSoFar
    <3>1. Place(i)' <= reading.page * PageSize
      BY <1>3, <2>2 DEF ReadSoFar
    <3>2. Place(i) <= Place(i)'
      BY <1>1, <2>1, Creating
    <3>3. Place(i) \in Nat /\ reading.page * PageSize \in Nat
      BY <1>1, <2>1, PlacesAreNumbers, Multiples DEF TypeOK
    <3>4. Place(i)' \in Nat
      <4>1. i \in Found' /\ users' \in Seq(Account)
        BY <1>1, <1>4, <2>1, Creating DEF TypeOK
      <4>2. (users \in Seq(Account) => \A j \in Found : Place(j) \in Nat)'
        BY PlacesAreNumbersAfter
      <4>3. QED
        BY <4>1, <4>2
    <3>5. QED
      BY <2>1, <3>1, <3>2, <3>3, <3>4 DEF ReadSoFar
  <2>3. QED
    BY <1>1, <2>1, <2>2, Creating
<1>7. PagesAreABeginning'
  BY <1>3 DEF PagesAreABeginning
<1>8. CreationsHideNobody'
  BY <1>2, <1>3, <1>5 DEF IInv, CreationsHideNobody
<1>9. EachOnceWhenUnchanged'
  BY <1>2, <1>3, <1>5 DEF IInv, EachOnceWhenUnchanged
<1>10. QED
  BY <1>4, <1>6, <1>7, <1>8, <1>9 DEF IInv

\* An update while a listing is read voids what is claimed of the listing.
LEMMA UpdateKeeps == IInv /\ (\E i \in Ids, row \in Account : Update(i, row)) => IInv'
<1> SUFFICES ASSUME IInv, NEW i \in Ids, NEW row \in Account, Update(i, row) PROVE IInv'
  OBVIOUS
<1>1. TypeOK
  BY DEF IInv
<1>2. /\ reading' = [reading EXCEPT !.updated = @ \/ reading.pc = "reading"]
      /\ began' = began
  BY DEF Update
<1>3. /\ reading'.pc = reading.pc /\ reading'.page = reading.page
      /\ reading'.shown = reading.shown /\ reading'.created = reading.created
      /\ reading'.updated = (reading.updated \/ reading.pc = "reading")
  BY <1>1, <1>2 DEF TypeOK
<1>4. TypeOK'
  <2>1. users' \in Seq(Account) /\ Len(users') = Len(users)
    BY <1>1 DEF TypeOK, Update
  <2>2. QED
    BY <1>1, <1>2, <2>1 DEF TypeOK
<1>5. Shown' = Shown
  BY <1>3 DEF Shown
<1>6. OldOnesWereShown' /\ PagesAreABeginning'
  BY <1>3 DEF OldOnesWereShown, PagesAreABeginning
<1>7. CreationsHideNobody'
  BY <1>2, <1>3, <1>5 DEF IInv, CreationsHideNobody
<1>8. EachOnceWhenUnchanged'
  BY <1>2, <1>3, <1>5 DEF IInv, EachOnceWhenUnchanged
<1>9. QED
  BY <1>4, <1>6, <1>7, <1>8 DEF IInv

\* The next page adds the rows of the next places, and the last page the rest.
LEMMA ReadingKeeps == IInv /\ ReadPage => IInv'
<1> SUFFICES ASSUME IInv, ReadPage PROVE IInv'
  OBVIOUS
<1> DEFINE p == reading.page
<1>1. /\ TypeOK /\ users \in Seq(Account) /\ p \in Nat /\ p < MaxPages /\ MaxPages \in Nat
      /\ reading.pc = "reading" /\ UNCHANGED <<users, began>>
  <2>1. TypeOK /\ p \in 0..MaxPages /\ MaxPages \in Nat
    BY Bounds DEF IInv, TypeOK
  <2>2. QED
    BY <2>1 DEF TypeOK, ReadPage
<1>2. /\ Page(p) \in Seq(Found) /\ IsInjective(Page(p))
      /\ Range(Page(p)) =
           {i \in Found : p * PageSize < Place(i) /\ Place(i) <= (p + 1) * PageSize}
  BY <1>1, PageRows
<1>3. /\ reading'.pc \in {"reading", "done"}
      /\ reading'.pc = "done" => ~(p + 1 < TotalPages(Len(Result)))
      /\ reading'.page = p + 1 /\ reading'.shown = reading.shown \o Page(p)
      /\ reading'.created = reading.created /\ reading'.updated = reading.updated
  BY <1>1 DEF TypeOK, ReadPage
<1>4. Found \subseteq Ids
  BY <1>1, FoundAreIds
<1>5. reading.shown \in Seq(Ids) /\ Page(p) \in Seq(Ids)
  BY <1>1, <1>2, <1>4 DEF TypeOK
<1>6. TypeOK'
  <2>1. reading.shown \o Page(p) \in Seq(Ids)
    BY <1>5
  <2>2. p + 1 \in 0..MaxPages
    BY <1>1
  <2>3. reading' \in [pc : {"idle", "reading", "done"}, page : 0..MaxPages,
                      shown : Seq(Ids), created : BOOLEAN, updated : BOOLEAN]
    BY <1>1, <2>1, <2>2 DEF TypeOK, ReadPage
  <2>4. QED
    BY <1>1, <2>3 DEF TypeOK
<1>7. Found' = Found /\ \A i : Place(i)' = Place(i)
  BY <1>1 DEF Found, Place, Precedes, BeforeIn, SameIn, Column
<1>8. Shown' = Shown \cup Range(Page(p))
  BY <1>3, <1>5, Concatenated DEF Shown
<1>9. \A i \in Found : Place(i) \in 1..Cardinality(Found)
  BY <1>1, PlacesAreNumbers
<1>10. /\ p * PageSize \in Nat /\ (p + 1) * PageSize \in Nat
       /\ p * PageSize <= (p + 1) * PageSize
  BY <1>1, Multiples
<1>11. ReadSoFar' = ReadSoFar \cup Range(Page(p)) /\ ReadSoFar \cap Range(Page(p)) = {}
  <2>1. /\ ReadSoFar = {i \in Found : Place(i) <= p * PageSize}
        /\ ReadSoFar' = {i \in Found : Place(i) <= (p + 1) * PageSize}
    BY <1>3, <1>7 DEF ReadSoFar
  <2>2. QED
    BY <1>2, <1>9, <1>10, <2>1
<1>12. reading'.pc = "done" => ReadSoFar' = Found
  <2> SUFFICES ASSUME reading'.pc = "done", NEW i \in Found PROVE Place(i) <= (p + 1) * PageSize
    BY <1>3, <1>7 DEF ReadSoFar
  <2>1. Len(Result) = Cardinality(Found) /\ Cardinality(Found) \in Nat
    BY <1>1, PlacesAreNumbers, ResultByPlace
  <2>2. Cardinality(Found) <= (p + 1) * PageSize
    BY <1>1, <1>3, <2>1, LastPage
  <2>3. QED
    BY <1>9, <1>10, <2>1, <2>2
<1>13. ASSUME ~reading.updated
       PROVE  began \subseteq Found' /\ began \cap ReadSoFar' \subseteq Shown'
  BY <1>1, <1>7, <1>8, <1>11, <1>13 DEF IInv, OldOnesWereShown
<1>14. ASSUME ~reading.updated, ~reading.created
       PROVE  began = Found' /\ Shown' = ReadSoFar' /\ IsInjective(reading'.shown)
  <2>1. began = Found /\ Shown = ReadSoFar /\ IsInjective(reading.shown)
    BY <1>1, <1>14 DEF IInv, PagesAreABeginning
  <2>2. Range(reading.shown) \cap Range(Page(p)) = {}
    BY <1>11, <2>1 DEF Shown
  <2>3. IsInjective(reading.shown \o Page(p))
    BY <1>2, <1>5, <2>1, <2>2, Concatenated
  <2>4. QED
    BY <1>3, <1>7, <1>8, <1>11, <2>1, <2>3
<1>15. OldOnesWereShown' /\ PagesAreABeginning'
  BY <1>1, <1>3, <1>13, <1>14 DEF OldOnesWereShown, PagesAreABeginning
<1>16. CreationsHideNobody' /\ EachOnceWhenUnchanged'
  BY <1>1, <1>3, <1>7, <1>12, <1>13, <1>14 DEF CreationsHideNobody, EachOnceWhenUnchanged
<1>17. QED
  BY <1>6, <1>15, <1>16 DEF IInv

-----------------------------------------------------------------------------

\* The invariant of a listing holds for any accounts, any sort parameter, any
\* search and any page size.
THEOREM Invariance == Spec => []IInv
<1>1. Init => IInv
  <2> SUFFICES ASSUME Init PROVE IInv
    OBVIOUS
  <2>1. TypeOK
    <3>1. 0 \in 0..MaxPages /\ <<>> \in Seq(Ids) /\ <<>> \in Seq(Account) /\ 0 <= MaxUsers
      BY Bounds
    <3>2. reading \in [pc : {"idle", "reading", "done"}, page : 0..MaxPages,
                       shown : Seq(Ids), created : BOOLEAN, updated : BOOLEAN]
      BY <3>1 DEF Init
    <3>3. QED
      BY <3>1, <3>2 DEF Init, TypeOK
  <2>2. QED
    BY <2>1 DEF Init, IInv, OldOnesWereShown, PagesAreABeginning, CreationsHideNobody,
       EachOnceWhenUnchanged
<1>2. IInv /\ [Next]_vars => IInv'
  <2> SUFFICES ASSUME IInv, [Next]_vars PROVE IInv'
    OBVIOUS
  <2>1. CASE BeginReading
    BY <2>1, Beginning DEF IInv
  <2>2. CASE UNCHANGED vars
    <3>1. Found' = Found /\ \A i : Place(i)' = Place(i)
      BY <2>2 DEF vars, Found, Place, Precedes, BeforeIn, SameIn, Column
    <3>2. ReadSoFar' = ReadSoFar /\ Shown' = Shown
      BY <2>2, <3>1 DEF vars, ReadSoFar, Shown
    <3>3. QED
      BY <2>2, <3>1, <3>2 DEF vars, IInv, TypeOK, OldOnesWereShown, PagesAreABeginning,
         CreationsHideNobody, EachOnceWhenUnchanged
  <2>3. QED
    BY <2>1, <2>2, CreationKeeps, UpdateKeeps, ReadingKeeps DEF Next
<1>3. QED
  BY <1>1, <1>2, PTL DEF Spec

\* The variables keep their types.
THEOREM TypeCorrect == Spec => []TypeOK
<1>1. IInv => TypeOK
  BY DEF IInv
<1>2. QED
  BY <1>1, Invariance, PTL

\* A listing read to its last page shows every account it could have shown when
\* it began, whatever accounts are created meanwhile and wherever they sort.
THEOREM NobodyHidden == Spec => []CreationsHideNobody
<1>1. IInv => CreationsHideNobody
  BY DEF IInv
<1>2. QED
  BY <1>1, Invariance, PTL

\* A listing during which nothing changes shows every account exactly once.
THEOREM EachOnce == Spec => []EachOnceWhenUnchanged
<1>1. IInv => EachOnceWhenUnchanged
  BY DEF IInv
<1>2. QED
  BY <1>1, Invariance, PTL
=============================================================================
