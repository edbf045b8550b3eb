------------------------------ MODULE OtpLinking ------------------------------
(***************************************************************************)
(* How a WhatsApp number gets tied to an account.  The 'ready' and         *)
(* 'message' handlers of whatsapp.service.ts store one-time codes and send *)
(* them; POST /auth/verify-otp links the number of a stored code to the    *)
(* account of an e-mail address; POST /auth/whatsapp-login and the next    *)
(* 'ready' turn the link into a token.  Every await is a step of its own,  *)
(* so handlers and requests interleave between their database calls.       *)
(* No pipe validates the bodies: a field may be left out, and TypeORM drops *)
(* an undefined (or null) condition from a where, while an update compares *)
(* with it as with NULL.                                                   *)
(***************************************************************************)
EXTENDS Naturals

CONSTANTS Users,     \* rows of the users table, named by their e-mail
          Numbers,   \* WhatsApp ids
          Codes,     \* what OtpHelper.generateOtp may return
          Handlers,  \* bound: handlers in flight at once
          Requests,  \* bound: HTTP requests made
          None,      \* SQL NULL
          Absent     \* undefined: what a body leaves out

ASSUME NoneAssumption ==
  None \notin Users \cup Numbers \cup Codes \cup {Absent} /\ Absent \notin Users \cup Numbers \cup Codes

VARIABLES otps,      \* rows of otp_codes_whatsapp (equal rows count once)
          waId,      \* column wa_id of users
          handler,   \* the 'ready' and 'message' handlers
          request,   \* the verify-otp and whatsapp-login requests
          sent,      \* history: codes sent over WhatsApp, or kept from it by a crash
          issued,    \* history: codes stored
          linked,    \* history: bodies whose update of users went through
          given,     \* history: accounts saved with a number
          tokens     \* history: tokens, with the number that named the account

vars == <<otps, waId, handler, request, sent, issued, linked, given, tokens>>

Rows     == [num : Numbers, code : Codes,
             status : {"PENDING", "VERIFIED"}, expired : BOOLEAN]
Sendings == [num : Numbers, code : Codes]
Owners   == [user : Users, num : Numbers]
Tokens   == [user : Users, num : Numbers \cup {Absent}]
Bodies   == [user : Users \cup {Absent}, num : Numbers \cup {Absent},
             code : Codes \cup {Absent}]

Idle    == [pc |-> "idle"]
Working == [pc : {"user", "pending", "delete", "save", "saveOtp"},
            num : Numbers] \cup
           [pc : {"send"}, num : Numbers, code : Codes]
Asking  == [pc : {"otp", "user"}, body : Bodies]
Linking == [pc : {"link", "consume"}, body : Bodies, user : Users]
Open    == {"otp", "user", "link", "consume"}
Closed  == [pc : {"unsent", "over"}]   \* nothing depends on what was answered

TypeOK ==
  /\ otps \subseteq Rows
  /\ waId \in [Users -> Numbers \cup {None}]
  /\ handler \in [Handlers -> Working \cup {Idle}]
  /\ request \in [Requests -> Closed \cup Asking \cup Linking]
  /\ sent \cup issued \subseteq Sendings
  /\ linked \subseteq Bodies
  /\ given \subseteq Owners
  /\ tokens \subseteq Tokens

Init ==
  /\ otps = {}
  /\ waId = [u \in Users |-> None]
  /\ handler = [h \in Handlers |-> Idle]
  /\ request = [q \in Requests |-> [pc |-> "unsent"]]
  /\ sent = {} /\ issued = {} /\ linked = {} /\ given = {} /\ tokens = {}

OfNumber(n)   == {r \in otps : r.num = n}
Pending(n)    == {r \in OfNumber(n) : r.status = "PENDING"}

\* Mutant of Matching: the number is not compared.
AnyNumbers(b) == {r \in otps : b.code \in {r.code, Absent}}

\* The rows verifyOtp looks for: what the body leaves out is not compared ...
Matching(b) == {r \in otps : b.num \in {r.num, Absent} /\ b.code \in {r.code, Absent}}

\* ... and those it marks: nothing equals what was left out.
Marking(b)    == {r \in OfNumber(b.num) : r.code = b.code}
Verified(r)   == [r EXCEPT !.status = "VERIFIED", !.expired = FALSE]
Marked(b)     == (otps \ Marking(b)) \cup {Verified(r) : r \in Marking(b)}

\* findOne on users: without a condition any row will do.
WithEmail(e)  == IF e = Absent THEN Users ELSE {e}
Owns(u, n)    == waId[u] = n
WithNumber(n) == {u \in Users : n = Absent \/ Owns(u, n)}

\* Signed with the account's id, e-mail and roles, and audited as a LOGIN.
Issue(u, n)   == tokens' = tokens \cup {[user |-> u, num |-> n]}

(* -------------------------- WhatsApp handlers -------------------------- *)

GoTo(h, step) == handler' = [handler EXCEPT ![h] = step]
AtStep(h, pc) == handler[h].pc = pc

\* The client of a number is ready: checkWhatsAppUser looks for its user.
Ready(h, n) ==
  /\ AtStep(h, "idle")
  /\ GoTo(h, [pc |-> "user", num |-> n])
  /\ UNCHANGED <<otps, waId, request, sent, issued, linked, given, tokens>>

\* A message whose trimmed body is 'otp', in any case, asks for a code.
Message(h, n) ==
  /\ AtStep(h, "idle")
  /\ GoTo(h, [pc |-> "saveOtp", num |-> n])
  /\ UNCHANGED <<otps, waId, request, sent, issued, linked, given, tokens>>

\* A linked number is logged in, any other goes on to handleUnlinkedWhatsApp.
FindLinkedUser(h) ==
  /\ AtStep(h, "user")
  /\ LET n == handler[h].num IN
     \/ \E u \in Users : /\ Owns(u, n)
                         /\ Issue(u, n)
                         /\ GoTo(h, Idle)
     \/ /\ \A u \in Users : ~Owns(u, n)
        /\ GoTo(h, [pc |-> "pending", num |-> n])
        /\ UNCHANGED tokens
  /\ UNCHANGED <<otps, waId, request, sent, issued, linked, given>>

\* findOne gives any one pending row: an active one ends the handler, an
\* expired one leads to the delete, none to a new code.
FindPending(h) ==
  /\ AtStep(h, "pending")
  /\ LET n == handler[h].num IN
     \/ \E r \in Pending(n) :
          GoTo(h, IF r.expired THEN [pc |-> "delete", num |-> n] ELSE Idle)
     \/ Pending(n) = {} /\ GoTo(h, [pc |-> "save", num |-> n])
  /\ UNCHANGED <<otps, waId, request, sent, issued, linked, given, tokens>>

\* delete({ waId }): every row of the number goes, of any status and age.
DeleteRows(h) ==
  /\ AtStep(h, "delete")
  /\ otps' = otps \ OfNumber(handler[h].num)
  /\ GoTo(h, [pc |-> "save", num |-> handler[h].num])
  /\ UNCHANGED <<waId, request, sent, issued, linked, given, tokens>>

\* Mutant of Store: the row is stored with a status the column does not have.
StoreSent(n, c) ==
  /\ otps' = otps \cup {[num |-> n, code |-> c, status |-> "SENT", expired |-> FALSE]}
  /\ issued' = issued \cup {[num |-> n, code |-> c]}

\* save({ otpCode, waId, status: 'PENDING', expiresAt }), five minutes ahead.
Store(n, c) ==
  /\ otps' = otps \cup {[num |-> n, code |-> c, status |-> "PENDING", expired |-> FALSE]}
  /\ issued' = issued \cup {[num |-> n, code |-> c]}

\* Mutant of SaveCode: the message is only sent when the handler was asked for a code.
SaveCodeSilently(h, c) ==
  /\ handler[h].pc \in {"save", "saveOtp"}
  /\ Store(handler[h].num, c)
  /\ GoTo(h, IF AtStep(h, "save") THEN Idle
             ELSE [pc |-> "send", num |-> handler[h].num, code |-> c])
  /\ UNCHANGED <<waId, request, sent, linked, given, tokens>>

\* The ready handler logs a failed save and goes on to send the code; in the
\* message handler a failed save is a Crash.
SaveCode(h, c) ==
  /\ handler[h].pc \in {"save", "saveOtp"}
  /\ \/ Store(handler[h].num, c)
     \/ AtStep(h, "save") /\ UNCHANGED <<otps, issued>>
  /\ GoTo(h, [pc |-> "send", num |-> handler[h].num, code |-> c])
  /\ UNCHANGED <<waId, request, sent, linked, given, tokens>>

SendCode(h) ==
  /\ AtStep(h, "send")
  /\ sent' = sent \cup {[num |-> handler[h].num, code |-> handler[h].code]}
  /\ GoTo(h, Idle)
  /\ UNCHANGED <<otps, waId, request, issued, linked, given, tokens>>

(* ----------------------------- HTTP requests --------------------------- *)

Await(q, pc)   == request' = [request EXCEPT ![q].pc = pc]
Answer(q)      == request' = [request EXCEPT ![q] = [pc |-> "over"]]

Verify(q, b) ==
  /\ request[q].pc = "unsent"
  /\ request' = [request EXCEPT ![q] = [pc |-> "otp", body |-> b]]
  /\ UNCHANGED <<otps, waId, handler, sent, issued, linked, given, tokens>>

\* A row of the number with the code will do, whatever its status; a failed
\* query counts as no row.
CheckOtp(q) ==
  /\ request[q].pc = "otp"
  /\ \/ Matching(request[q].body) # {} /\ Await(q, "user")
     \/ Answer(q)
  /\ UNCHANGED <<otps, waId, handler, sent, issued, linked, given, tokens>>

\* The account of the e-mail, then its tokens and their audit record.  (An
\* e-mail nobody has is answered as an error: RequestFails.)
FindAccount(q) ==
  /\ request[q].pc = "user"
  /\ LET b == request[q].body IN
     \E u \in WithEmail(b.user) :
       request' = [request EXCEPT ![q] = [pc |-> "link", body |-> b, user |-> u]]
  /\ UNCHANGED <<otps, waId, handler, sent, issued, linked, given, tokens>>

\* What update({ email }, { waId }) makes of the column: no row has an
\* undefined e-mail, an undefined number is not set and a null one is NULL.
Updated(b) ==
  IF b.user = Absent THEN {waId}
  ELSE IF b.num = Absent THEN {waId, [waId EXCEPT ![b.user] = None]}
  ELSE {[waId EXCEPT ![b.user] = b.num]}

\* Mutant of LinkNumber: the rows are marked before the number is linked.
LinkLast(q) ==
  /\ request[q].pc = "link"
  /\ otps' = Marked(request[q].body)
  /\ Await(q, "consume")
  /\ UNCHANGED <<waId, linked, handler, sent, issued, given, tokens>>

\* The column is unique.
LinkNumber(q) ==
  /\ request[q].pc = "link"
  /\ LET b == request[q].body IN
     IF b.user # Absent /\ \E v \in Users \ {b.user} : Owns(v, b.num)
     THEN Answer(q) /\ UNCHANGED <<waId, linked>>
     ELSE /\ waId' \in Updated(b)
          /\ linked' = linked \cup {b}
          /\ Await(q, "consume")
  /\ UNCHANGED <<otps, handler, sent, issued, given, tokens>>

\* Every row with the code is marked, and the tokens are answered: the number
\* names their account only if an e-mail said whose it is to be.
Consume(q) ==
  /\ request[q].pc = "consume"
  /\ LET b == request[q].body IN
     /\ otps' = Marked(b)
     /\ Issue(request[q].user, IF b.user = Absent THEN Absent ELSE b.num)
  /\ Answer(q)
  /\ UNCHANGED <<waId, handler, sent, issued, linked, given>>

\* Mutant of WhatsAppLogin: any linked user will do.
WhatsAppLoginAnyone(q, n) ==
  /\ request[q].pc = "unsent"
  /\ \E u \in Users : /\ waId[u] # None
                     /\ Issue(u, n)
  /\ Answer(q)
  /\ UNCHANGED <<otps, waId, handler, sent, issued, linked, given>>

\* The user of the number, findOne and tokens.
WhatsAppLogin(q, n) ==
  /\ request[q].pc = "unsent"
  /\ \/ \E u \in WithNumber(n) : Issue(u, n) /\ Answer(q)
     \/ WithNumber(n) = {} /\ Answer(q) /\ UNCHANGED tokens
  /\ UNCHANGED <<otps, waId, handler, sent, issued, linked, given>>

\* No account has the e-mail, or the database refuses a statement: the error is
\* the answer.
RequestFails(q) ==
  /\ request[q].pc \in {"user", "link", "consume"}
  /\ Answer(q)
  /\ UNCHANGED <<otps, waId, handler, sent, issued, linked, given, tokens>>

\* POST users and users/register save the body's further fields as they are,
\* a number among them, into a new row or the row of an id (UserAccounts).
SaveWithNumber(q, u, n) ==
  /\ request[q].pc = "unsent"
  /\ \A v \in Users \ {u} : ~Owns(v, n)
  /\ waId' = [waId EXCEPT ![u] = n]
  /\ given' = given \cup {[user |-> u, num |-> n]}
  /\ Answer(q)
  /\ UNCHANGED <<otps, handler, sent, issued, linked, tokens>>

(* ------------------------------- Environment --------------------------- *)

\* Five minutes pass for a row (the age of a VERIFIED one is never looked at).
Expire(r) ==
  /\ r \in otps /\ r.status = "PENDING" /\ ~r.expired
  /\ otps' = (otps \ {r}) \cup {[r EXCEPT !.expired = TRUE]}
  /\ UNCHANGED <<waId, handler, request, sent, issued, linked, given, tokens>>

\* A rejected await of a handler is unhandled and ends the process; so may
\* anything else.  The rows stay, what was in flight is gone.
Crash ==
  /\ handler' = [h \in Handlers |-> Idle]
  /\ request' = [q \in Requests |->
                   IF request[q].pc \in Open THEN [pc |-> "over"] ELSE request[q]]
  /\ sent' = sent \cup {[num |-> handler[h].num, code |-> handler[h].code] :
                          h \in {x \in Handlers : AtStep(x, "send")}}
  /\ UNCHANGED <<otps, waId, issued, linked, given, tokens>>

HandlerStep(h) ==
  \/ \E n \in Numbers : Ready(h, n) \/ Message(h, n)
  \/ FindLinkedUser(h) \/ FindPending(h) \/ DeleteRows(h)
  \/ \E c \in Codes : SaveCode(h, c)
  \/ SendCode(h)

RequestStep(q) ==
  \/ \E b \in Bodies : Verify(q, b)
  \/ \E n \in Numbers \cup {Absent} : WhatsAppLogin(q, n)
  \/ CheckOtp(q) \/ FindAccount(q) \/ LinkNumber(q) \/ Consume(q)
  \/ RequestFails(q)
  \/ \E u \in Users, n \in Numbers : SaveWithNumber(q, u, n)

Next ==
  \/ \E h \in Handlers : HandlerStep(h)
  \/ \E q \in Requests : RequestStep(q)
  \/ \E r \in otps : Expire(r)
  \/ Crash

Spec == Init /\ [][Next]_vars

(* ------------------------------- Properties ---------------------------- *)

\* A number that no code was ever stored for is never linked by a
\* verification, and a code the body names is one stored for that very number,
\* however the code check, the link and the rows' deletion interleave
\* (verifyOtp looks the row up before three further awaits).  A body that
\* names no code passes on any row of the number.
LinkedByStoredCode ==
  \A l \in linked : l.num # Absent =>
    \E i \in issued : i.num = l.num /\ l.code \in {i.code, Absent}

\* A row is only marked VERIFIED by a verification of its number and code that
\* has updated users before: a crash or a refused link leaves it unmarked.
VerifiedIsLinked ==
  \A r \in otps : r.status = "VERIFIED" =>
    \E l \in linked : l.num = r.num /\ l.code = r.code

\* A token for a number, from a login, a verification or a 'ready', belongs to
\* a user who was linked to it or whose account was saved with it, and no
\* number has two users.  (A login without a number, or a verification without
\* an e-mail, is answered with a token of some account, for no number.)
TokensFollowLinks ==
  /\ \A t \in tokens : t.num # Absent =>
       \/ \E l \in linked : l.user = t.user /\ l.num = t.num
       \/ [user |-> t.user, num |-> t.num] \in given
  /\ \A u, v \in Users : waId[u] = waId[v] /\ waId[u] # None => u = v

\* A pending row whose code nobody was sent is one a handler is about to
\* send, or one a crash left behind (it blocks a new code until it expires).
UnsentIsOnItsWay ==
  \A r \in otps : r.status = "PENDING" =>
    \/ [num |-> r.num, code |-> r.code] \in sent
    \/ \E h \in Handlers : /\ AtStep(h, "send")
                           /\ handler[h].num = r.num /\ handler[h].code = r.code
=============================================================================
