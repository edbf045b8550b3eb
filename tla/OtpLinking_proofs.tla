-------------------------- MODULE OtpLinking_proofs --------------------------
(***************************************************************************)
(* What a link, a VERIFIED row, a token and an unsent code say, for any    *)
(* users, numbers, codes, handlers and requests.  The invariant carries    *)
(* what a request has learnt across its awaits: a code it has checked was  *)
(* stored for the number, and from the link on users have been updated.    *)
(***************************************************************************)
EXTENDS OtpLinking, TLAPS

\* Every stored row has an issued code.
RowsAreIssued == \A r \in otps : [num |-> r.num, code |-> r.code] \in issued

\* A code was stored for what the body names.
Vouched(b) ==
  b.num # Absent => \E i \in issued : i.num = b.num /\ b.code \in {i.code, Absent}

\* What a verification knows at each of its awaits.
RequestsKnow ==
  \A q \in Requests : LET b == request[q].body IN
    /\ request[q].pc \in {"user", "link", "consume"} => Vouched(b)
    /\ request[q].pc \in {"link", "consume"} => b.user \in {request[q].user, Absent}
    /\ request[q].pc = "consume" => b \in linked

\* A user who came by a number.
Came(u, n) == (\E l \in linked : l.user = u /\ l.num = n) \/ [user |-> u, num |-> n] \in given

\* The column holds numbers that were linked or came with an account.
ColumnIsLinked == \A u \in Users : waId[u] # None => Came(u, waId[u])

Inv ==
  /\ TypeOK
  /\ RowsAreIssued /\ RequestsKnow /\ ColumnIsLinked
  /\ LinkedByStoredCode /\ VerifiedIsLinked /\ TokensFollowLinks /\ UnsentIsOnItsWay

\* Nothing is stored, linked or under way at the start.
LEMMA InitInv == Init => Inv
<1> SUFFICES ASSUME Init PROVE Inv
  OBVIOUS
<1>1. TypeOK
  BY DEF Init, TypeOK, Closed
<1>2. RowsAreIssued /\ LinkedByStoredCode /\ VerifiedIsLinked /\ UnsentIsOnItsWay
  BY DEF Init, RowsAreIssued, LinkedByStoredCode, VerifiedIsLinked, UnsentIsOnItsWay
<1>3. RequestsKnow
  BY DEF Init, RequestsKnow
<1>4. ColumnIsLinked /\ TokensFollowLinks
  BY DEF Init, ColumnIsLinked, TokensFollowLinks
<1> QED BY <1>1, <1>2, <1>3, <1>4 DEF Inv

(* ------------------------------- Lemmas -------------------------------- *)

\* Going to a step keeps the handlers typed and the others where they are.
LEMMA HandlerGoes ==
  ASSUME TypeOK, NEW h \in Handlers, NEW step \in Working \cup {Idle}, GoTo(h, step)
  PROVE  /\ handler' \in [Handlers -> Working \cup {Idle}]
         /\ handler'[h] = step
         /\ \A g \in Handlers \ {h} : handler'[g] = handler[g]
BY DEF TypeOK, GoTo

\* The requests that are open, by the step they are at.
LEMMA OpenRequest ==
  ASSUME TypeOK, NEW q \in Requests
  PROVE  /\ request[q].pc \in {"otp", "user"} => request[q] \in Asking
         /\ request[q].pc \in {"link", "consume"} => request[q] \in Linking
         /\ request[q].pc \in Open => request[q].body \in Bodies
BY DEF TypeOK, Open, Closed, Asking, Linking

\* A request that goes on, at a step of the same kind, keeps the rest.
LEMMA RequestGoes ==
  ASSUME TypeOK, NEW q \in Requests, NEW pc \in Open, Await(q, pc),
         \/ pc = "user" /\ request[q].pc = "otp"
         \/ pc = "consume" /\ request[q].pc = "link"
  PROVE  /\ request'[q].pc = pc
         /\ request'[q].body = request[q].body
         /\ pc = "consume" => request'[q].user = request[q].user
         /\ \A p \in Requests \ {q} : request'[p] = request[p]
         /\ request' \in [Requests -> Closed \cup Asking \cup Linking]
<1>1. CASE pc = "user"
  <2>1. request[q] \in Asking
    BY <1>1, OpenRequest
  <2> QED BY <1>1, <2>1 DEF TypeOK, Await, Asking
<1>2. CASE pc = "consume"
  <2>1. request[q] \in Linking
    BY <1>2, OpenRequest
  <2> QED BY <1>2, <2>1 DEF TypeOK, Await, Linking
<1> QED BY <1>1, <1>2

\* A request that is answered has no body any more.
LEMMA RequestEnds ==
  ASSUME TypeOK, NEW q \in Requests, Answer(q)
  PROVE  /\ request'[q].pc = "over"
         /\ \A p \in Requests \ {q} : request'[p] = request[p]
         /\ request' \in [Requests -> Closed \cup Asking \cup Linking]
BY DEF TypeOK, Answer, Closed

\* Answers take nothing from what the others know.
LEMMA AnswerKeepsKnowledge ==
  ASSUME Inv, NEW q \in Requests, Answer(q), UNCHANGED <<issued, linked>>
  PROVE  RequestsKnow'
BY RequestEnds DEF Inv, RequestsKnow, Vouched

\* A request that goes on knows what its new await asks of it.
LEMMA StepKeepsKnowledge ==
  ASSUME Inv, NEW q \in Requests,
         \A p \in Requests \ {q} : request'[p] = request[p],
         issued' = issued, linked \subseteq linked',
         Vouched(request'[q].body),
         request'[q].pc \in {"link", "consume"} => request'[q].body.user \in {request'[q].user, Absent},
         request'[q].pc = "consume" => request'[q].body \in linked'
  PROVE  RequestsKnow'
<1> SUFFICES ASSUME NEW p \in Requests
             PROVE  LET c == request'[p].body IN
                      /\ request'[p].pc \in {"user", "link", "consume"} => Vouched(c)
                      /\ request'[p].pc \in {"link", "consume"} => c.user \in {request'[p].user, Absent}
                      /\ request'[p].pc = "consume" => c \in linked'
  BY DEF RequestsKnow, Vouched
<1>1. CASE p = q
  BY <1>1
<1>2. CASE p # q
  BY <1>2 DEF Inv, RequestsKnow
<1> QED BY <1>1, <1>2

\* The rows a verification marks keep their numbers and codes.
LEMMA MarkedRows ==
  ASSUME TypeOK, NEW b \in Bodies, NEW r \in Marked(b)
  PROVE  \/ r \in otps
         \/ /\ r \in Rows /\ r.num = b.num /\ r.code = b.code /\ r.status = "VERIFIED"
            /\ \E o \in otps : o.num = b.num /\ o.code = b.code
<1>1. CASE r \in otps
  BY <1>1
<1>2. ASSUME NEW o \in Marking(b), r = Verified(o) PROVE r \in Rows /\ r.num = b.num /\ r.code = b.code
                                                    /\ r.status = "VERIFIED" /\ o \in otps
                                                    /\ o.num = b.num /\ o.code = b.code
  <2>1. o \in otps /\ o \in Rows /\ o.num = b.num /\ o.code = b.code
    BY <1>2 DEF TypeOK, Marking, OfNumber
  <2> QED BY <1>2, <2>1 DEF Verified, Rows
<1> QED BY <1>1, <1>2 DEF Marked

\* A handler that is not sending may go anywhere: the codes on their way stay.
LEMMA HandlerMoves ==
  ASSUME Inv, NEW h \in Handlers, NEW step \in Working \cup {Idle}, GoTo(h, step), ~AtStep(h, "send"),
         UNCHANGED <<otps, waId, request, sent, issued, linked, given>>, tokens' = tokens
  PROVE  Inv'
<1>1. TypeOK'
  BY HandlerGoes DEF Inv, TypeOK
<1>2. UnsentIsOnItsWay'
  BY HandlerGoes DEF Inv, UnsentIsOnItsWay, AtStep
<1>3. RowsAreIssued' /\ RequestsKnow' /\ ColumnIsLinked'
  BY DEF Inv, RowsAreIssued, RequestsKnow, Vouched, ColumnIsLinked, Came
<1>4. LinkedByStoredCode' /\ VerifiedIsLinked' /\ TokensFollowLinks'
  BY DEF Inv, LinkedByStoredCode, VerifiedIsLinked, TokensFollowLinks
<1> QED BY <1>1, <1>2, <1>3, <1>4 DEF Inv

\* A request's step changes nothing the handlers and the rows depend on.
LEMMA RequestMoves ==
  ASSUME Inv, request' \in [Requests -> Closed \cup Asking \cup Linking],
         RequestsKnow', UNCHANGED <<otps, waId, handler, sent, issued, linked, given, tokens>>
  PROVE  Inv'
<1>1. TypeOK'
  BY DEF Inv, TypeOK
<1>2. RowsAreIssued' /\ ColumnIsLinked' /\ UnsentIsOnItsWay'
  BY DEF Inv, RowsAreIssued, ColumnIsLinked, Came, UnsentIsOnItsWay, AtStep
<1>3. LinkedByStoredCode' /\ VerifiedIsLinked' /\ TokensFollowLinks'
  BY DEF Inv, LinkedByStoredCode, VerifiedIsLinked, TokensFollowLinks
<1> QED BY <1>1, <1>2, <1>3 DEF Inv

(* ------------------------------- Handlers ------------------------------ *)

\* What a handler at work knows of its number.
LEMMA HandlerNumber ==
  ASSUME TypeOK, NEW h \in Handlers, ~AtStep(h, "idle")
  PROVE  /\ handler[h].num \in Numbers
         /\ AtStep(h, "send") => handler[h].code \in Codes
<1>1. handler[h] \in Working
  BY DEF TypeOK, AtStep, Idle
<1> QED BY <1>1 DEF Working, AtStep

LEMMA ReadyPreserves ==
  ASSUME Inv, NEW h \in Handlers, NEW n \in Numbers, Ready(h, n) \/ Message(h, n)
  PROVE  Inv'
<1>1. PICK pc \in {"user", "saveOtp"} : GoTo(h, [pc |-> pc, num |-> n])
  BY DEF Ready, Message
<1>2. [pc |-> pc, num |-> n] \in Working \cup {Idle}
  BY DEF Working
<1> QED BY <1>1, <1>2, HandlerMoves DEF Ready, Message, AtStep

LEMMA FindLinkedUserPreserves ==
  ASSUME Inv, NEW h \in Handlers, FindLinkedUser(h)
  PROVE  Inv'
<1> DEFINE n == handler[h].num
<1>1. n \in Numbers /\ ~AtStep(h, "send") /\ TypeOK
  BY HandlerNumber DEF FindLinkedUser, AtStep, Inv
<1>2. ASSUME NEW u \in Users, Owns(u, n), Issue(u, n), GoTo(h, Idle) PROVE Inv'
  <2>1. Idle \in Working \cup {Idle}
    OBVIOUS
  <2>2. TypeOK'
    BY <1>1, <1>2, <2>1, HandlerGoes DEF FindLinkedUser, TypeOK, Issue, Tokens
  <2>3. UnsentIsOnItsWay'
    BY <1>1, <1>2, <2>1, HandlerGoes DEF Inv, FindLinkedUser, UnsentIsOnItsWay, AtStep
  <2>4. RowsAreIssued' /\ RequestsKnow' /\ ColumnIsLinked' /\ LinkedByStoredCode' /\ VerifiedIsLinked'
    BY DEF Inv, FindLinkedUser, RowsAreIssued, RequestsKnow, Vouched, ColumnIsLinked, Came,
           LinkedByStoredCode, VerifiedIsLinked
  <2>5. Came(u, n)
    BY <1>1, <1>2, NoneAssumption DEF Inv, ColumnIsLinked, Owns
  <2>6. TokensFollowLinks'
    BY <1>2, <2>5 DEF Inv, FindLinkedUser, TokensFollowLinks, Issue, Came
  <2> QED BY <2>2, <2>3, <2>4, <2>6 DEF Inv
<1>3. ASSUME GoTo(h, [pc |-> "pending", num |-> n]), tokens' = tokens PROVE Inv'
  <2>1. [pc |-> "pending", num |-> n] \in Working \cup {Idle}
    BY <1>1 DEF Working
  <2> QED BY <1>1, <1>3, <2>1, HandlerMoves DEF FindLinkedUser
<1> QED BY <1>2, <1>3 DEF FindLinkedUser

LEMMA FindPendingPreserves ==
  ASSUME Inv, NEW h \in Handlers, FindPending(h)
  PROVE  Inv'
<1> DEFINE n == handler[h].num
<1>1. n \in Numbers /\ ~AtStep(h, "send")
  BY HandlerNumber DEF FindPending, AtStep, Inv
<1>2. PICK step \in {Idle, [pc |-> "delete", num |-> n], [pc |-> "save", num |-> n]} : GoTo(h, step)
  BY DEF FindPending
<1>3. step \in Working \cup {Idle}
  BY <1>1 DEF Working
<1> QED BY <1>1, <1>2, <1>3, HandlerMoves DEF FindPending

\* Rows only go, and with them what they say.
LEMMA DeleteRowsPreserves ==
  ASSUME Inv, NEW h \in Handlers, DeleteRows(h)
  PROVE  Inv'
<1> DEFINE n == handler[h].num
<1>1. n \in Numbers /\ ~AtStep(h, "send") /\ TypeOK
  BY HandlerNumber DEF DeleteRows, AtStep, Inv
<1>2. [pc |-> "save", num |-> n] \in Working \cup {Idle}
  BY <1>1 DEF Working
<1>3. otps' \subseteq otps /\ GoTo(h, [pc |-> "save", num |-> n])
  BY DEF DeleteRows
<1>4. TypeOK'
  BY <1>1, <1>2, <1>3, HandlerGoes DEF DeleteRows, TypeOK
<1>5. UnsentIsOnItsWay'
  BY <1>1, <1>2, <1>3, HandlerGoes DEF Inv, DeleteRows, UnsentIsOnItsWay, AtStep
<1>6. RowsAreIssued' /\ RequestsKnow' /\ ColumnIsLinked'
  BY <1>3 DEF Inv, DeleteRows, RowsAreIssued, RequestsKnow, Vouched, ColumnIsLinked, Came
<1>7. LinkedByStoredCode' /\ VerifiedIsLinked' /\ TokensFollowLinks'
  BY <1>3 DEF Inv, DeleteRows, LinkedByStoredCode, VerifiedIsLinked, TokensFollowLinks
<1> QED BY <1>4, <1>5, <1>6, <1>7 DEF Inv

\* The new row is pending, its code is issued and about to be sent.
LEMMA SaveCodePreserves ==
  ASSUME Inv, NEW h \in Handlers, NEW c \in Codes, SaveCode(h, c)
  PROVE  Inv'
<1> DEFINE n   == handler[h].num
           row == [num |-> n, code |-> c, status |-> "PENDING", expired |-> FALSE]
           s   == [pc |-> "send", num |-> n, code |-> c]
<1>1. n \in Numbers /\ ~AtStep(h, "send") /\ TypeOK
  BY HandlerNumber DEF SaveCode, AtStep, Inv
<1>2. s \in Working \cup {Idle} /\ row \in Rows /\ [num |-> n, code |-> c] \in Sendings
  BY <1>1 DEF Working, Rows, Sendings
<1>3. GoTo(h, s)
  BY DEF SaveCode
<1>4. /\ handler' \in [Handlers -> Working \cup {Idle}]
      /\ handler'[h] = s
      /\ \A g \in Handlers \ {h} : handler'[g] = handler[g]
  BY <1>1, <1>2, <1>3, HandlerGoes
<1>5. \/ otps' = otps \cup {row} /\ issued' = issued \cup {[num |-> n, code |-> c]}
      \/ UNCHANGED <<otps, issued>>
  BY DEF SaveCode, Store
<1>6. TypeOK'
  BY <1>1, <1>2, <1>4, <1>5 DEF SaveCode, TypeOK
<1>7. UnsentIsOnItsWay'
  BY <1>1, <1>4, <1>5 DEF Inv, SaveCode, UnsentIsOnItsWay, AtStep
<1>8. RowsAreIssued' /\ RequestsKnow' /\ ColumnIsLinked'
  BY <1>5 DEF Inv, SaveCode, RowsAreIssued, RequestsKnow, Vouched, ColumnIsLinked, Came
<1>9. LinkedByStoredCode' /\ VerifiedIsLinked' /\ TokensFollowLinks'
  BY <1>5 DEF Inv, SaveCode, LinkedByStoredCode, VerifiedIsLinked, TokensFollowLinks
<1> QED BY <1>6, <1>7, <1>8, <1>9 DEF Inv

\* A code that was on its way is sent.
LEMMA SendCodePreserves ==
  ASSUME Inv, NEW h \in Handlers, SendCode(h)
  PROVE  Inv'
<1>1. handler[h].num \in Numbers /\ handler[h].code \in Codes /\ TypeOK
  BY HandlerNumber DEF SendCode, AtStep, Inv
<1>2. Idle \in Working \cup {Idle} /\ GoTo(h, Idle)
  BY DEF SendCode
<1>3. TypeOK'
  BY <1>1, <1>2, HandlerGoes DEF SendCode, TypeOK, Sendings
<1>4. UnsentIsOnItsWay'
  BY <1>1, <1>2, HandlerGoes DEF Inv, SendCode, UnsentIsOnItsWay, AtStep
<1>5. RowsAreIssued' /\ RequestsKnow' /\ ColumnIsLinked'
  BY DEF Inv, SendCode, RowsAreIssued, RequestsKnow, Vouched, ColumnIsLinked, Came
<1>6. LinkedByStoredCode' /\ VerifiedIsLinked' /\ TokensFollowLinks'
  BY DEF Inv, SendCode, LinkedByStoredCode, VerifiedIsLinked, TokensFollowLinks
<1> QED BY <1>3, <1>4, <1>5, <1>6 DEF Inv

(* ------------------------------- Requests ------------------------------ *)

LEMMA VerifyPreserves ==
  ASSUME Inv, NEW q \in Requests, NEW b \in Bodies, Verify(q, b)
  PROVE  Inv'
<1>1. request' \in [Requests -> Closed \cup Asking \cup Linking]
  BY DEF Inv, TypeOK, Verify, Asking
<1>2. /\ request'[q].pc = "otp"
      /\ \A p \in Requests \ {q} : request'[p] = request[p]
  BY DEF Inv, TypeOK, Verify
<1>3. RequestsKnow'
  BY <1>2 DEF Inv, RequestsKnow, Vouched, Verify
<1> QED BY <1>1, <1>3, RequestMoves DEF Verify

\* A row that matches vouches for what the body names.
LEMMA CheckOtpPreserves ==
  ASSUME Inv, NEW q \in Requests, CheckOtp(q)
  PROVE  Inv'
<1> DEFINE b == request[q].body
<1>1. CASE Matching(b) # {} /\ Await(q, "user")
  <2>1. PICK r \in otps : b.num \in {r.num, Absent} /\ b.code \in {r.code, Absent}
    BY <1>1 DEF Matching
  <2>2. Vouched(b)
    BY <2>1 DEF Inv, RowsAreIssued, Vouched
  <2>3. "user" \in Open /\ request[q].pc = "otp" /\ TypeOK
    BY DEF Open, CheckOtp, Inv
  <2>4. /\ request'[q].pc = "user" /\ request'[q].body = b
        /\ \A p \in Requests \ {q} : request'[p] = request[p]
        /\ request' \in [Requests -> Closed \cup Asking \cup Linking]
    BY <1>1, <2>3, RequestGoes
  <2>5. RequestsKnow'
    <3>1. issued' = issued /\ linked \subseteq linked'
      BY DEF CheckOtp
    <3> QED BY <2>2, <2>4, <3>1, StepKeepsKnowledge
  <2> QED BY <2>4, <2>5, RequestMoves DEF CheckOtp
<1>2. CASE Answer(q)
  <2>1. RequestsKnow'
    BY <1>2, AnswerKeepsKnowledge DEF CheckOtp
  <2> QED BY <1>2, <2>1, RequestEnds, RequestMoves DEF Inv, CheckOtp
<1> QED BY <1>1, <1>2 DEF CheckOtp

\* The account found is the one of the e-mail, if the body names one.
LEMMA FindAccountPreserves ==
  ASSUME Inv, NEW q \in Requests, FindAccount(q)
  PROVE  Inv'
<1> DEFINE b == request[q].body
<1>1. request[q].pc = "user" /\ b \in Bodies /\ Vouched(b) /\ TypeOK
  BY OpenRequest DEF Inv, FindAccount, RequestsKnow, Open
<1>2. PICK u \in WithEmail(b.user) :
        request' = [request EXCEPT ![q] = [pc |-> "link", body |-> b, user |-> u]]
  BY DEF FindAccount
<1>3. u \in Users /\ b.user \in {u, Absent}
  BY <1>1, <1>2 DEF WithEmail, Bodies
<1>4. /\ request'[q] = [pc |-> "link", body |-> b, user |-> u]
      /\ \A p \in Requests \ {q} : request'[p] = request[p]
  BY <1>1, <1>2 DEF TypeOK
<1>5. request' \in [Requests -> Closed \cup Asking \cup Linking]
  BY <1>1, <1>2, <1>3 DEF TypeOK, Linking
<1>6. request'[q].pc = "link" /\ request'[q].body = b /\ request'[q].user = u
  BY <1>4
<1>7. RequestsKnow'
  <2>1. issued' = issued /\ linked \subseteq linked'
    BY DEF FindAccount
  <2> QED BY <1>1, <1>3, <1>4, <1>6, <2>1, StepKeepsKnowledge
<1> QED BY <1>5, <1>7, RequestMoves DEF FindAccount

\* The column after an update of users: the user of the e-mail gets the number
\* or none, or nobody gets anything.
LEMMA UpdatedColumn ==
  ASSUME TypeOK, NEW b \in Bodies, NEW col \in Updated(b)
  PROVE  /\ col \in [Users -> Numbers \cup {None}]
         /\ \A u \in Users : col[u] \in {waId[u], None} \/ (u = b.user /\ col[u] = b.num)
<1>1. CASE b.user = Absent
  BY <1>1 DEF TypeOK, Updated
<1>2. CASE b.user # Absent /\ b.num = Absent
  BY <1>2 DEF TypeOK, Updated, Bodies
<1>3. CASE b.user # Absent /\ b.num # Absent
  <2>1. b.user \in Users /\ b.num \in Numbers
    BY <1>3 DEF Bodies
  <2> QED BY <1>3, <2>1 DEF TypeOK, Updated
<1> QED BY <1>1, <1>2, <1>3

\* A link takes the column of its user, which no other user has by the guard.
LEMMA LinkNumberPreserves ==
  ASSUME Inv, NEW q \in Requests, LinkNumber(q)
  PROVE  Inv'
<1> DEFINE b == request[q].body
<1>1. request[q].pc = "link" /\ "consume" \in Open /\ TypeOK
  BY DEF LinkNumber, Open, Inv
<1>2. CASE Answer(q) /\ UNCHANGED <<waId, linked>>
  <2>1. RequestsKnow'
    BY <1>2, AnswerKeepsKnowledge DEF LinkNumber
  <2> QED BY <1>1, <1>2, <2>1, RequestEnds, RequestMoves DEF LinkNumber
<1>3. CASE /\ b.user # Absent => \A v \in Users \ {b.user} : ~Owns(v, b.num)
           /\ waId' \in Updated(b)
           /\ linked' = linked \cup {b}
           /\ Await(q, "consume")
  <2>1. b \in Bodies /\ Vouched(b) /\ b.user \in {request[q].user, Absent}
    BY <1>1, OpenRequest DEF Inv, RequestsKnow, Open
  <2>2. /\ request'[q].pc = "consume" /\ request'[q].body = b
        /\ request'[q].user = request[q].user
        /\ \A p \in Requests \ {q} : request'[p] = request[p]
        /\ request' \in [Requests -> Closed \cup Asking \cup Linking]
    BY <1>1, <1>3, RequestGoes
  <2>3. /\ waId' \in [Users -> Numbers \cup {None}]
        /\ \A u \in Users : waId'[u] \in {waId[u], None} \/ (u = b.user /\ waId'[u] = b.num)
    BY <1>1, <1>3, <2>1, UpdatedColumn
  <2>4. TypeOK'
    BY <1>1, <1>3, <2>1, <2>2, <2>3 DEF LinkNumber, TypeOK
  <2>5. RequestsKnow'
    <3>1. issued' = issued /\ linked \subseteq linked' /\ b \in linked'
      BY <1>3 DEF LinkNumber
    <3> QED BY <2>1, <2>2, <3>1, StepKeepsKnowledge
  <2>6. ColumnIsLinked'
    BY <1>3, <2>3 DEF Inv, LinkNumber, ColumnIsLinked, Came
  <2>7. TokensFollowLinks'
    <3>1. \A u, v \in Users : waId'[u] = waId'[v] /\ waId'[u] # None => u = v
      <4> SUFFICES ASSUME NEW u \in Users, NEW v \in Users, waId'[u] = waId'[v], waId'[u] # None, u # v
                   PROVE  FALSE
        OBVIOUS
      <4>1. CASE waId'[u] = waId[u] /\ waId'[v] = waId[v]
        BY <4>1 DEF Inv, TokensFollowLinks
      <4>2. CASE u = b.user /\ waId'[u] = b.num /\ waId'[v] = waId[v]
        BY <1>3, <4>2, NoneAssumption DEF Owns
      <4>3. CASE v = b.user /\ waId'[v] = b.num /\ waId'[u] = waId[u]
        BY <1>3, <4>3, NoneAssumption DEF Owns
      <4> QED BY <2>3, <4>1, <4>2, <4>3
    <3> QED BY <1>3, <3>1 DEF Inv, LinkNumber, TokensFollowLinks
  <2>8. LinkedByStoredCode'
    BY <1>3, <2>1 DEF Inv, LinkNumber, LinkedByStoredCode, Vouched
  <2>9. VerifiedIsLinked' /\ RowsAreIssued' /\ UnsentIsOnItsWay'
    BY <1>3 DEF Inv, LinkNumber, VerifiedIsLinked, RowsAreIssued, UnsentIsOnItsWay, AtStep
  <2> QED BY <2>4, <2>5, <2>6, <2>7, <2>8, <2>9 DEF Inv
<1> QED BY <1>2, <1>3 DEF LinkNumber

\* The rows marked have the number and the code of an update that was made.
LEMMA ConsumePreserves ==
  ASSUME Inv, NEW q \in Requests, Consume(q)
  PROVE  Inv'
<1> DEFINE b == request[q].body
           n == IF b.user = Absent THEN Absent ELSE b.num
           u == request[q].user
<1>1. /\ request[q].pc = "consume" /\ TypeOK /\ Answer(q)
      /\ otps' = Marked(b)
      /\ Issue(u, n)
  BY DEF Consume, Inv
<1>2. b \in Bodies /\ b \in linked /\ b.user \in {u, Absent} /\ u \in Users
  BY <1>1, OpenRequest DEF Inv, RequestsKnow, Linking, Open
<1>3. \A r \in otps' :
        \/ r \in otps
        \/ /\ r \in Rows /\ r.num = b.num /\ r.code = b.code /\ r.status = "VERIFIED"
           /\ \E o \in otps : o.num = b.num /\ o.code = b.code
  BY <1>1, <1>2, MarkedRows
<1>4. RequestsKnow'
  BY <1>1, AnswerKeepsKnowledge DEF Consume
<1>5. n \in Numbers \cup {Absent} /\ (n # Absent => b.user = u /\ b.num = n)
  BY <1>2 DEF Bodies
<1>6. TypeOK'
  <2>1. tokens' \subseteq Tokens
    BY <1>1, <1>2, <1>5 DEF TypeOK, Issue, Tokens
  <2>2. otps' \subseteq Rows
    BY <1>1, <1>3 DEF TypeOK
  <2>3. request' \in [Requests -> Closed \cup Asking \cup Linking]
    BY <1>1, RequestEnds
  <2> QED BY <1>1, <2>1, <2>2, <2>3 DEF Consume, TypeOK
<1>7. RowsAreIssued' /\ ColumnIsLinked' /\ LinkedByStoredCode'
  BY <1>3 DEF Inv, Consume, RowsAreIssued, ColumnIsLinked, Came, LinkedByStoredCode
<1>8. VerifiedIsLinked'
  BY <1>2, <1>3 DEF Inv, Consume, VerifiedIsLinked
<1>9. TokensFollowLinks'
  <2>1. tokens' = tokens \cup {[user |-> u, num |-> n]} /\ UNCHANGED <<waId, linked, given>>
    BY <1>1 DEF Consume, Issue
  <2> QED BY <1>2, <1>5, <2>1 DEF Inv, TokensFollowLinks
<1>10. UnsentIsOnItsWay'
  BY <1>3 DEF Inv, Consume, UnsentIsOnItsWay, AtStep
<1> QED BY <1>4, <1>6, <1>7, <1>8, <1>9, <1>10 DEF Inv

\* A login by number answers with a token of the user the column names.
LEMMA WhatsAppLoginPreserves ==
  ASSUME Inv, NEW q \in Requests, NEW n \in Numbers \cup {Absent}, WhatsAppLogin(q, n)
  PROVE  Inv'
<1>1. CASE Answer(q) /\ UNCHANGED tokens
  <2>1. RequestsKnow'
    BY <1>1, AnswerKeepsKnowledge DEF WhatsAppLogin
  <2> QED BY <1>1, <2>1, RequestEnds, RequestMoves DEF Inv, WhatsAppLogin
<1>2. ASSUME NEW u \in WithNumber(n), Issue(u, n), Answer(q) PROVE Inv'
  <2>1. TypeOK /\ u \in Users /\ (n # Absent => waId[u] = n)
    BY DEF Inv, WithNumber, Owns
  <2>2. RequestsKnow'
    BY <1>2, AnswerKeepsKnowledge DEF WhatsAppLogin
  <2>3. TypeOK'
    <3>1. tokens' \subseteq Tokens
      BY <1>2, <2>1 DEF TypeOK, Issue, Tokens
    <3>2. request' \in [Requests -> Closed \cup Asking \cup Linking]
      BY <1>2, <2>1, RequestEnds
    <3> QED BY <2>1, <3>1, <3>2 DEF WhatsAppLogin, TypeOK
  <2>4. n # Absent => Came(u, n)
    BY <2>1, NoneAssumption DEF Inv, ColumnIsLinked
  <2>5. TokensFollowLinks'
    <3>1. tokens' = tokens \cup {[user |-> u, num |-> n]} /\ UNCHANGED <<waId, linked, given>>
      BY <1>2 DEF WhatsAppLogin, Issue
    <3> QED BY <2>4, <3>1 DEF Inv, TokensFollowLinks, Came
  <2>6. RowsAreIssued' /\ ColumnIsLinked' /\ LinkedByStoredCode' /\ VerifiedIsLinked' /\ UnsentIsOnItsWay'
    BY DEF Inv, WhatsAppLogin, RowsAreIssued, ColumnIsLinked, Came, LinkedByStoredCode, VerifiedIsLinked,
       UnsentIsOnItsWay, AtStep
  <2> QED BY <2>2, <2>3, <2>5, <2>6 DEF Inv
<1> QED BY <1>1, <1>2 DEF WhatsAppLogin

LEMMA RequestFailsPreserves ==
  ASSUME Inv, NEW q \in Requests, RequestFails(q)
  PROVE  Inv'
<1>1. RequestsKnow'
  BY AnswerKeepsKnowledge DEF RequestFails
<1> QED BY <1>1, RequestEnds, RequestMoves DEF Inv, RequestFails

\* An account saved with a number that is free has come by it.
LEMMA SaveWithNumberPreserves ==
  ASSUME Inv, NEW q \in Requests, NEW u \in Users, NEW n \in Numbers, SaveWithNumber(q, u, n)
  PROVE  Inv'
<1>1. /\ TypeOK /\ Answer(q)
      /\ \A v \in Users \ {u} : waId[v] # n
      /\ waId' = [waId EXCEPT ![u] = n]
      /\ given' = given \cup {[user |-> u, num |-> n]}
      /\ UNCHANGED <<otps, handler, sent, issued, linked, tokens>>
  BY DEF SaveWithNumber, Inv, Owns
<1>2. \A v \in Users : waId'[v] = IF v = u THEN n ELSE waId[v]
  BY <1>1 DEF TypeOK
<1>3. RequestsKnow'
  BY <1>1, AnswerKeepsKnowledge
<1>4. TypeOK'
  <2>1. request' \in [Requests -> Closed \cup Asking \cup Linking]
    BY <1>1, RequestEnds
  <2>2. waId' \in [Users -> Numbers \cup {None}] /\ given' \subseteq Owners
    BY <1>1 DEF TypeOK, Owners
  <2> QED BY <1>1, <2>1, <2>2 DEF TypeOK
<1>5. ColumnIsLinked'
  BY <1>1, <1>2 DEF Inv, ColumnIsLinked, Came
<1>6. TokensFollowLinks'
  BY <1>1, <1>2 DEF Inv, TokensFollowLinks
<1>7. RowsAreIssued' /\ LinkedByStoredCode' /\ VerifiedIsLinked' /\ UnsentIsOnItsWay'
  BY <1>1 DEF Inv, RowsAreIssued, LinkedByStoredCode, VerifiedIsLinked, UnsentIsOnItsWay, AtStep
<1> QED BY <1>3, <1>4, <1>5, <1>6, <1>7 DEF Inv

(* ------------------------------ Environment ---------------------------- *)

\* A row that expires keeps its number, code and status.
LEMMA ExpirePreserves ==
  ASSUME Inv, NEW r \in otps, Expire(r)
  PROVE  Inv'
<1>1. \A s \in otps' : s \in Rows /\ \E o \in otps : s.num = o.num /\ s.code = o.code /\ s.status = o.status
  BY DEF Inv, TypeOK, Expire, Rows
<1>2. TypeOK'
  BY <1>1 DEF Inv, TypeOK, Expire
<1>3. RowsAreIssued' /\ RequestsKnow' /\ ColumnIsLinked'
  BY <1>1 DEF Inv, Expire, RowsAreIssued, RequestsKnow, Vouched, ColumnIsLinked, Came
<1>4. LinkedByStoredCode' /\ VerifiedIsLinked' /\ TokensFollowLinks'
  BY <1>1 DEF Inv, Expire, LinkedByStoredCode, VerifiedIsLinked, TokensFollowLinks
<1>5. UnsentIsOnItsWay'
  BY <1>1 DEF Inv, Expire, UnsentIsOnItsWay, AtStep
<1> QED BY <1>2, <1>3, <1>4, <1>5 DEF Inv

\* What was about to be sent is lost, what was sent or stored stays.
LEMMA CrashPreserves ==
  ASSUME Inv, Crash
  PROVE  Inv'
<1> DEFINE Sending == {h \in Handlers : AtStep(h, "send")}
<1>1. \A h \in Sending : handler[h].num \in Numbers /\ handler[h].code \in Codes
  BY HandlerNumber DEF Inv, AtStep
<1>2. sent' = sent \cup {[num |-> handler[h].num, code |-> handler[h].code] : h \in Sending}
  BY DEF Crash
<1>3. TypeOK'
  <2>1. handler' \in [Handlers -> Working \cup {Idle}]
    BY DEF Crash
  <2>2. request' \in [Requests -> Closed \cup Asking \cup Linking]
    BY DEF Inv, TypeOK, Crash, Closed
  <2>3. (sent \cup issued)' \subseteq Sendings
    BY <1>1, <1>2 DEF Inv, TypeOK, Sendings, Crash
  <2> QED BY <2>1, <2>2, <2>3 DEF Inv, TypeOK, Crash
<1>4. UnsentIsOnItsWay'
  <2> SUFFICES ASSUME NEW r \in otps, r.status = "PENDING"
               PROVE  [num |-> r.num, code |-> r.code] \in sent'
    BY DEF Crash, UnsentIsOnItsWay
  <2>1. CASE [num |-> r.num, code |-> r.code] \in sent
    BY <1>2, <2>1
  <2>2. ASSUME NEW h \in Sending, handler[h].num = r.num, handler[h].code = r.code
        PROVE  [num |-> r.num, code |-> r.code] \in sent'
    BY <1>2, <2>2
  <2> QED BY <2>1, <2>2 DEF Inv, UnsentIsOnItsWay
<1>5. RequestsKnow'
  <2>1. \A q \in Requests : request'[q] = request[q] \/ request'[q].pc = "over"
    BY DEF Crash
  <2> QED BY <2>1 DEF Inv, Crash, RequestsKnow, Vouched
<1>6. RowsAreIssued' /\ ColumnIsLinked'
  BY DEF Inv, Crash, RowsAreIssued, ColumnIsLinked, Came
<1>7. LinkedByStoredCode' /\ VerifiedIsLinked' /\ TokensFollowLinks'
  BY DEF Inv, Crash, LinkedByStoredCode, VerifiedIsLinked, TokensFollowLinks
<1> QED BY <1>3, <1>4, <1>5, <1>6, <1>7 DEF Inv

LEMMA StutterPreserves ==
  ASSUME Inv, UNCHANGED vars
  PROVE  Inv'
BY DEF vars, Inv, TypeOK, RowsAreIssued, RequestsKnow, Vouched, ColumnIsLinked, Came, LinkedByStoredCode,
   VerifiedIsLinked, TokensFollowLinks, UnsentIsOnItsWay, AtStep

(* ------------------------------- Theorems ------------------------------ *)

\* The invariant is inductive: every action keeps it.
LEMMA NextInv == Inv /\ [Next]_vars => Inv'
<1> SUFFICES ASSUME Inv, [Next]_vars PROVE Inv'
  OBVIOUS
<1>1. ASSUME NEW h \in Handlers, HandlerStep(h) PROVE Inv'
  BY <1>1, ReadyPreserves, FindLinkedUserPreserves, FindPendingPreserves, DeleteRowsPreserves,
     SaveCodePreserves, SendCodePreserves DEF HandlerStep
<1>2. ASSUME NEW q \in Requests, RequestStep(q) PROVE Inv'
  BY <1>2, VerifyPreserves, WhatsAppLoginPreserves, CheckOtpPreserves, FindAccountPreserves,
     LinkNumberPreserves, ConsumePreserves, RequestFailsPreserves, SaveWithNumberPreserves DEF RequestStep
<1>3. ASSUME NEW r \in otps, Expire(r) PROVE Inv'
  BY <1>3, ExpirePreserves
<1> QED BY <1>1, <1>2, <1>3, CrashPreserves, StutterPreserves DEF Next

\* The invariant holds for any users, numbers, codes, handlers and requests.
THEOREM Invariance == Spec => []Inv
BY InitInv, NextInv, PTL DEF Spec

\* The variables keep their types.
THEOREM TypeCorrect == Spec => []TypeOK
<1>1. Inv => TypeOK
  BY DEF Inv
<1> QED BY <1>1, Invariance, PTL

\* A verification links no number without a stored code, which the one it names is.
THEOREM LinksAreVouchedFor == Spec => []LinkedByStoredCode
<1>1. Inv => LinkedByStoredCode
  BY DEF Inv
<1> QED BY <1>1, Invariance, PTL

\* A row is only VERIFIED by a verification that has updated users before.
THEOREM MarkedAfterLink == Spec => []VerifiedIsLinked
<1>1. Inv => VerifiedIsLinked
  BY DEF Inv
<1> QED BY <1>1, Invariance, PTL

\* Tokens for a number go to users who came by it; no number has two users.
THEOREM TokensAreLinked == Spec => []TokensFollowLinks
<1>1. Inv => TokensFollowLinks
  BY DEF Inv
<1> QED BY <1>1, Invariance, PTL

\* A pending code was sent, is about to be, or was lost to a crash.
THEOREM CodesAreOnTheirWay == Spec => []UnsentIsOnItsWay
<1>1. Inv => UnsentIsOnItsWay
  BY DEF Inv
<1> QED BY <1>1, Invariance, PTL
=============================================================================
