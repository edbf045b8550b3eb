----------------------- MODULE AccessControl_proofs -----------------------
(* What the sessions and the guards keep, for any number of browsers,       *)
(* accounts and requests.                                                   *)
EXTENDS AccessControl, TLAPS

\* The fields of a request, by the stage it is at.
LEMMA Fields ==
  ASSUME TypeOK, NEW q \in Requests, request[q] # Idle
  PROVE  /\ request[q].call \in Call
         /\ request[q].pc \in {"guard", "handle", "answered"}
         /\ request[q].pc = "guard" => request[q] \in [pc : {"guard"}, call : Call]
         /\ request[q].pc = "handle" =>
              request[q] \in [pc : {"handle"}, call : Call, user : Users \cup {None}]
         /\ request[q].pc = "answered" =>
              request[q] \in [pc : {"answered"}, call : Call, status : Status, set : SetCookies]
BY DEF TypeOK, InFlight

LEMMA IdleStage == Idle.pc = "idle"
BY DEF Idle

\* The fields of a call.
LEMMA CallFields ==
  ASSUME NEW c \in Call
  PROVE  /\ c.route \in Routes /\ c.from \in Browsers /\ c.for \in Users \cup {None}
         /\ c.exact \in BOOLEAN /\ c.cookies \in Cookies /\ c.cookies.at \in TokenIds \cup {None}
         /\ c.cookies.sid \in TokenIds \cup {None} /\ c.bearer \in TokenIds \cup {None}
BY DEF Call, Cookies

\* The cookies an answer may set.
LEMMA AnswerCookies ==
  /\ NoCookies \in SetCookies /\ DOMAIN NoCookies = {}
  /\ [at |-> None, sid |-> None] \in SetCookies
  /\ \A t \in TokenIds : [at |-> t] \in SetCookies /\ [at |-> t, sid |-> t] \in SetCookies
  /\ \A set \in SetCookies :
       /\ "at" \in DOMAIN set => set["at"] \in TokenIds \cup {None}
       /\ "sid" \in DOMAIN set => set["sid"] \in TokenIds \cup {None}
<1>1. \A names \in SUBSET {"at", "sid"} : \A f :
        f \in [names -> TokenIds \cup {None}] => f \in SetCookies
  BY DEF SetCookies
<1>2. NoCookies \in [{} -> TokenIds \cup {None}] /\ DOMAIN NoCookies = {}
  BY DEF NoCookies
<1>3. [at |-> None, sid |-> None] \in [{"at", "sid"} -> TokenIds \cup {None}]
  OBVIOUS
<1>4. \A t \in TokenIds : /\ [at |-> t] \in [{"at"} -> TokenIds \cup {None}]
                          /\ [at |-> t, sid |-> t] \in [{"at", "sid"} -> TokenIds \cup {None}]
  OBVIOUS
<1>5. NoCookies \in SetCookies
  BY <1>1, <1>2
<1>6. [at |-> None, sid |-> None] \in SetCookies
  BY <1>1, <1>3
<1>7. \A t \in TokenIds : [at |-> t] \in SetCookies /\ [at |-> t, sid |-> t] \in SetCookies
  BY <1>1, <1>4
<1>8. \A set \in SetCookies : \E names \in SUBSET {"at", "sid"} :
        set \in [names -> TokenIds \cup {None}]
  BY DEF SetCookies
<1>9. \A set \in SetCookies :
       /\ "at" \in DOMAIN set => set["at"] \in TokenIds \cup {None}
       /\ "sid" \in DOMAIN set => set["sid"] \in TokenIds \cup {None}
  BY <1>8
<1>10. QED
  BY <1>2, <1>5, <1>6, <1>7, <1>9

\* A request that is at a stage is not idle, and one that goes on stays where
\* requests are.
LEMMA Continues ==
  ASSUME TypeOK, NEW q \in Requests, NEW r \in {Idle} \cup InFlight, Continue(q, r)
  PROVE  /\ request' \in [Requests -> {Idle} \cup InFlight]
         /\ request'[q] = r /\ \A p \in Requests : p # q => request'[p] = request[p]
BY DEF TypeOK, Continue

\* What an answer is.
LEMMA Responds ==
  ASSUME TypeOK, NEW q \in Requests, request[q].pc \in {"guard", "handle"},
         NEW status \in Status, NEW set \in SetCookies,
         Respond(q, status, set)
  PROVE  /\ request' \in [Requests -> {Idle} \cup InFlight]
         /\ \A p \in Requests : p # q => request'[p] = request[p]
         /\ request[q] # Idle /\ request'[q] # Idle
         /\ request'[q].pc = "answered" /\ request'[q].call = request[q].call
         /\ request'[q].status = status /\ request'[q].set = set
<1> DEFINE r == [pc |-> "answered", call |-> request[q].call, status |-> status, set |-> set]
<1>1. request[q] # Idle
  BY IdleStage
<1>2. r \in InFlight
  BY <1>1, Fields DEF InFlight
<1>3. Continue(q, r)
  BY DEF Respond
<1>4. r # Idle /\ r.pc = "answered" /\ r.call = request[q].call /\ r.status = status /\ r.set = set
  BY IdleStage
<1>5. QED
  BY <1>1, <1>2, <1>3, <1>4, Continues

\* What a request looks like when it is sent and when it is admitted.
LEMMA Sends ==
  ASSUME TypeOK, NEW q \in Requests, NEW b \in Browsers, NEW f \in Called[q],
         NEW u \in Users \cup {None}, Send(q, b, f, u)
  PROVE  /\ request' \in [Requests -> {Idle} \cup InFlight]
         /\ \A p \in Requests : p # q => request'[p] = request[p]
         /\ request[q] = Idle /\ request'[q] # Idle /\ request'[q].pc = "guard"
         /\ request'[q].call.from = b /\ request'[q].call.cookies = browser[b]
         /\ request'[q].call.bearer = f.bearer /\ f.bearer \in TokenIds \cup {None}
<1> DEFINE c == [route |-> f.route, bearer |-> f.bearer, exact |-> f.exact,
                 from |-> b, for |-> u, cookies |-> browser[b]]
           r == [pc |-> "guard", call |-> c]
<1>0. f.bearer \in TokenIds \cup {None} /\ f.route \in Routes /\ f.exact \in BOOLEAN
  BY CallAssumption DEF Forms
<1>1. c \in Call
  BY <1>0 DEF Call, TypeOK
<1>2. r \in InFlight /\ r # Idle
  BY <1>1, IdleStage DEF InFlight
<1>3. request[q] = Idle /\ Continue(q, r)
  BY DEF Send
<1>4. c.from = b /\ c.cookies = browser[b] /\ c.bearer = f.bearer /\ r.pc = "guard" /\ r.call = c
  OBVIOUS
<1> HIDE DEF c, r
<1>5. QED
  BY <1>0, <1>2, <1>3, <1>4, Continues

\* The guard admits a request or answers 401, and lets every login pass.
LEMMA Guards ==
  ASSUME TypeOK, NamesAreSigned, NEW q \in Requests, Guard(q)
  PROVE  /\ request' \in [Requests -> {Idle} \cup InFlight]
         /\ \A p \in Requests : p # q => request'[p] = request[p]
         /\ request[q].pc = "guard" /\ request[q] # Idle /\ request'[q] # Idle
         /\ request'[q].call = request[q].call
         /\ \/ request'[q].pc = "handle"
            \/ /\ request'[q].pc = "answered" /\ request'[q].set = NoCookies
               /\ ~(request[q].call.route \in Logins /\ request[q].call.exact)
<1> DEFINE c == request[q].call
           Admitted(u) == [pc |-> "handle", call |-> c, user |-> u]
<1>1. request[q].pc = "guard" /\ request[q] # Idle /\ c \in Call
  BY IdleStage, Fields DEF Guard
<1>2. ASSUME NEW u \in Users \cup {None}, Continue(q, Admitted(u))
      PROVE  /\ request' \in [Requests -> {Idle} \cup InFlight]
             /\ \A p \in Requests : p # q => request'[p] = request[p]
             /\ request'[q] # Idle /\ request'[q].pc = "handle" /\ request'[q].call = c
  <2>1. Admitted(u) \in InFlight
    BY <1>1 DEF InFlight
  <2>2. Admitted(u) # Idle /\ Admitted(u).pc = "handle" /\ Admitted(u).call = c
    BY IdleStage
  <2>3. QED
    BY <1>2, <2>1, <2>2, Continues
<1>3. CASE Open(c)
  <2>1. SessionUser(c) \in Users \cup {None}
    BY <1>1, CallFields DEF SessionUser, TypeOK
  <2>2. Continue(q, Admitted(SessionUser(c)))
    BY <1>3 DEF Guard
  <2>3. QED
    BY <1>1, <1>2, <2>1, <2>2
<1>4. CASE ~Open(c) /\ Live(Credential(c))
  <2>1. Credential(c) \in TokenIds /\ Signed(Credential(c))
    BY <1>1, <1>4, CallFields DEF Credential, Live, NamesAreSigned
  <2>2. token[Credential(c)] \in Users \cup {None}
    BY <2>1 DEF TypeOK
  <2>3. Continue(q, Admitted(token[Credential(c)]))
    BY <1>4 DEF Guard
  <2>4. QED
    BY <1>1, <1>2, <2>2, <2>3
<1>5. CASE ~Open(c) /\ ~Live(Credential(c))
  <2>1. Respond(q, 401, NoCookies) /\ ~(c.route \in Logins /\ c.exact)
    BY <1>5 DEF Guard, Refuse, Open, Listed, Logins
  <2>2. QED
    BY <1>1, <2>1, Responds, AnswerCookies DEF Status
<1>6. QED
  BY <1>3, <1>4, <1>5

\* Every handler answers; a login that names an account answers 200, or 429.
Handler(q) ==
  \/ Throttled(q) \/ LoginFails(q) \/ Logout(q) \/ Profile(q) \/ AuditTrail(q)
  \/ \E t \in TokenIds : Login(q, t) \/ WhatsappLogin(q, t)

LEMMA Answers ==
  ASSUME TypeOK, NEW q \in Requests, Handler(q)
  PROVE  /\ request' \in [Requests -> {Idle} \cup InFlight]
         /\ \A p \in Requests : p # q => request'[p] = request[p]
         /\ request[q] # Idle /\ request'[q] # Idle
         /\ request[q].pc = "handle" /\ request'[q].pc = "answered"
         /\ request'[q].call = request[q].call
         /\ request[q].call.route \in Logins /\ request[q].call.for # None
              => request'[q].status \in {200, 429}
         /\ \/ request'[q].set = NoCookies /\ UNCHANGED token /\ Read(q)
            \/ /\ Logout(q) /\ request'[q].set = [at |-> None, sid |-> None]
               /\ UNCHANGED token
            \/ \E t \in TokenIds : Login(q, t) /\ request'[q].set = [at |-> t, sid |-> t]
            \/ \E t \in TokenIds : WhatsappLogin(q, t) /\ request'[q].set = [at |-> t]
<1> DEFINE c == request[q].call
           Answer(status, set) ==
             /\ request' \in [Requests -> {Idle} \cup InFlight]
             /\ \A p \in Requests : p # q => request'[p] = request[p]
             /\ request[q] # Idle /\ request'[q] # Idle
             /\ request'[q].pc = "answered" /\ request'[q].call = c
             /\ request'[q].status = status /\ request'[q].set = set
<1>1. request[q].pc = "handle"
  BY DEF Handler, Throttled, LoginFails, Logout, Profile, AuditTrail, Login, WhatsappLogin, Handles
<1>2. request[q] # Idle /\ c.for \in Users \cup {None}
  BY <1>1, IdleStage, Fields, CallFields
<1>3. ASSUME NEW status \in Status, NEW set \in SetCookies, Respond(q, status, set)
      PROVE  Answer(status, set)
  BY <1>1, <1>3, Responds
<1> HIDE DEF c, Answer
<1>4. 200 \in Status /\ 401 \in Status /\ 403 \in Status /\ 404 \in Status
      /\ 429 \in Status /\ 500 \in Status
  BY DEF Status
<1>5. Answer(200, NoCookies) \/ Answer(401, NoCookies) \/ Answer(403, NoCookies)
      \/ Answer(404, NoCookies) \/ Answer(429, NoCookies) \/ Answer(500, NoCookies)
        => /\ request' \in [Requests -> {Idle} \cup InFlight]
           /\ \A p \in Requests : p # q => request'[p] = request[p]
           /\ request[q] # Idle /\ request'[q] # Idle
           /\ request'[q].pc = "answered" /\ request'[q].call = request[q].call
           /\ request'[q].set = NoCookies
  BY DEF Answer, c
<1>6. CASE LoginFails(q)
  <2>1. (Respond(q, 401, NoCookies) \/ Respond(q, 404, NoCookies))
        /\ request[q].call.for = None
    BY <1>6 DEF LoginFails, Refuse
  <2>2. Answer(401, NoCookies) \/ Answer(404, NoCookies)
    BY <2>1, <1>3, <1>4, AnswerCookies
  <2>3. QED
    BY <1>1, <1>5, <1>6, <2>1, <2>2 DEF LoginFails
<1>7. CASE Logout(q)
  <2>1. Respond(q, 200, [at |-> None, sid |-> None])
        /\ request[q].call.route \notin Logins
    BY <1>7 DEF Logout, Handles, Logins
  <2>2. Answer(200, [at |-> None, sid |-> None])
    BY <2>1, <1>2, <1>3, <1>4, AnswerCookies
  <2>3. QED
    BY <1>1, <1>7, <2>1, <2>2 DEF Logout, Answer, c
<1>8. CASE Profile(q)
  <2>1. Respond(q, 200, NoCookies) /\ request[q].call.route \notin Logins
    BY <1>8 DEF Profile, Handles, Logins
  <2>2. Answer(200, NoCookies)
    BY <2>1, <1>2, <1>3, <1>4, AnswerCookies
  <2>3. QED
    BY <1>1, <1>5, <1>8, <2>1, <2>2 DEF Profile
<1>9. CASE AuditTrail(q)
  <2>1. PICK status \in {401, 403, 500} : Respond(q, status, NoCookies)
    BY <1>9 DEF AuditTrail, Refuse, RoleGuard
  <2>2. request[q].call.route \notin Logins
    BY <1>9 DEF AuditTrail, Handles, Logins
  <2>3. Answer(401, NoCookies) \/ Answer(403, NoCookies) \/ Answer(500, NoCookies)
    BY <2>1, <1>3, <1>4, AnswerCookies
  <2>4. QED
    BY <1>1, <1>5, <1>9, <2>2, <2>3 DEF AuditTrail
<1>10. ASSUME NEW t \in TokenIds, Login(q, t)
      PROVE  Answer(200, [at |-> t, sid |-> t])
  <2>1. Respond(q, 200, [at |-> t, sid |-> t])
    BY <1>10 DEF Login
  <2>2. QED
    BY <2>1, <1>2, <1>3, <1>4, AnswerCookies DEF c
<1>11. ASSUME NEW t \in TokenIds, WhatsappLogin(q, t)
       PROVE  Answer(200, [at |-> t])
  <2>1. Respond(q, 200, [at |-> t])
    BY <1>11 DEF WhatsappLogin
  <2>2. QED
    BY <2>1, <1>2, <1>3, <1>4, AnswerCookies
<1>12. CASE \E t \in TokenIds : Login(q, t) \/ WhatsappLogin(q, t)
  <2>1. CASE \E t \in TokenIds : Login(q, t)
    <3>1. PICK t \in TokenIds : Login(q, t)
      BY <2>1
    <3>2. Answer(200, [at |-> t, sid |-> t])
      BY <3>1, <1>10
    <3>3. request'[q].set = [at |-> t, sid |-> t]
      BY <3>2 DEF Answer
    <3>4. QED
      BY <1>1, <3>1, <3>2, <3>3 DEF Answer, c
  <2>2. CASE \E t \in TokenIds : WhatsappLogin(q, t)
    BY <2>2, <1>1, <1>11 DEF Answer, c
  <2>3. QED
    BY <1>12, <2>1, <2>2
<1>13. CASE Throttled(q)
  <2>1. Respond(q, 429, NoCookies)
    BY <1>13 DEF Throttled, Refuse
  <2>2. Answer(429, NoCookies)
    BY <2>1, <1>3, <1>4, AnswerCookies
  <2>3. request'[q].status = 429
    BY <2>2 DEF Answer
  <2>4. QED
    BY <1>1, <1>5, <1>13, <2>2, <2>3 DEF Throttled
<1>14. QED
  BY <1>13, <1>6, <1>7, <1>8, <1>9, <1>12 DEF Handler

\* An answer that is lost.
LEMMA Loss ==
  ASSUME TypeOK, NEW q \in Requests, LoseAnswer(q)
  PROVE  /\ request' \in [Requests -> {Idle} \cup InFlight] /\ request'[q] = Idle
         /\ \A p \in Requests : p # q => request'[p] = request[p]
         /\ left' \subseteq Stored /\ left \subseteq left'
         /\ \A s \in Stored : Gives(q, s) => s \in left'
         /\ UNCHANGED <<token, expired, sessions, lapsed, browser>>
<1>1. Continue(q, Idle)
  BY DEF LoseAnswer
<1>2. left' \subseteq Stored /\ left \subseteq left' /\ \A s \in Stored : Gives(q, s) => s \in left'
  BY DEF LoseAnswer, TypeOK
<1>3. QED
  BY <1>1, <1>2, Continues DEF LoseAnswer

\* The browser puts the cookies of an answer in the place of its own.
LEMMA Receipt ==
  ASSUME TypeOK, NEW q \in Requests, Receive(q)
  PROVE  /\ request' \in [Requests -> {Idle} \cup InFlight] /\ request'[q] = Idle
         /\ \A p \in Requests : p # q => request'[p] = request[p]
         /\ request[q] # Idle /\ request[q].call.from \in Browsers
         /\ browser' \in [Browsers -> Cookies]
         /\ \A b \in Browsers : b # request[q].call.from => browser'[b] = browser[b]
         /\ LET set == request[q].set
                b   == request[q].call.from
            IN /\ set \in SetCookies
               /\ browser'[b].at = IF "at" \in DOMAIN set THEN set["at"] ELSE browser[b].at
               /\ browser'[b].sid = IF "sid" \in DOMAIN set THEN set["sid"] ELSE browser[b].sid
               /\ "sid" \in DOMAIN set /\ browser[b].sid \in Stored
                    => browser[b].sid = request[q].call.cookies.sid \/ browser[b].sid \in left'
         /\ left' \subseteq Stored /\ left \subseteq left'
<1> DEFINE set == request[q].set
           b   == request[q].call.from
           held == [at  |-> IF "at" \in DOMAIN set THEN set["at"] ELSE browser[b].at,
                    sid |-> IF "sid" \in DOMAIN set THEN set["sid"] ELSE browser[b].sid]
<1>1. request[q].pc = "answered" /\ request[q] # Idle
  BY IdleStage DEF Receive
<1>2. b \in Browsers /\ set \in SetCookies
  BY <1>1, Fields, CallFields
<1>3. browser[b] \in Cookies
  BY <1>2 DEF TypeOK
<1>4. held \in Cookies
  BY <1>2, <1>3, AnswerCookies DEF Cookies
<1>5. browser' = [browser EXCEPT ![b] = held] /\ Continue(q, Idle)
  BY DEF Receive
<1>6. browser' \in [Browsers -> Cookies] /\ browser'[b] = held
      /\ \A a \in Browsers : a # b => browser'[a] = browser[a]
  BY <1>2, <1>4, <1>5 DEF TypeOK
<1>7. "sid" \in DOMAIN set /\ browser[b].sid \in Stored
        => browser[b].sid = request[q].call.cookies.sid \/ browser[b].sid \in left'
  BY DEF Receive
<1>8. left' \subseteq Stored /\ left \subseteq left'
  BY DEF Receive, TypeOK
<1>9. QED
  BY <1>1, <1>2, <1>5, <1>6, <1>7, <1>8, Continues

-----------------------------------------------------------------------------
(* The guards. *)

\* A login signs the next token, for the account it was asked for.
LEMMA Signing ==
  ASSUME TypeOK, NEW q \in Requests, NEW t \in TokenIds, Login(q, t) \/ WhatsappLogin(q, t)
  PROVE  /\ request[q].call.for \in Users
         /\ token' \in [TokenIds -> Users \cup {None}]
         /\ token[t] = None /\ token'[t] # None
         /\ \A s \in TokenIds : s # t => token'[s] = token[s]
<1>1. request[q].call.for \in Users
  BY IdleStage, Fields, CallFields DEF Login, WhatsappLogin, Handles
<1>2. Sign(t, request[q].call.for)
  BY DEF Login, WhatsappLogin
<1>3. token[t] = None
  BY DEF Login, WhatsappLogin, NextToken
<1>4. QED
  BY <1>1, <1>2, <1>3, BoundAssumption DEF Sign, TypeOK

\* A session that is read, or ended, stays what it was for the rest.
Fewer == \A s \in Stored' : s \in Stored /\ (s \in left => s \in left')

LEMMA Storing ==
  ASSUME TypeOK, NEW stored \in [TokenIds -> Users \cup {None}], Store(stored)
  PROVE  /\ sessions' \in [TokenIds -> Users \cup {None}]
         /\ lapsed' \subseteq Stored' /\ left' \subseteq Stored'
         /\ \A s \in Stored' : s \in left => s \in left'
BY DEF Store

LEMMA Ending ==
  ASSUME TypeOK, NEW S, Store(Without(S))
  PROVE  /\ sessions' \in [TokenIds -> Users \cup {None}]
         /\ lapsed' \subseteq Stored' /\ left' \subseteq Stored' /\ Fewer
         /\ \A s \in TokenIds \cap S : sessions'[s] = None
<1>1. Without(S) \in [TokenIds -> Users \cup {None}]
  BY DEF Without, TypeOK
<1>2. sessions' = Without(S)
  BY DEF Store
<1>3. \A s \in Stored' : s \in Stored
  BY <1>2 DEF Without, Stored
<1>4. \A s \in TokenIds \cap S : sessions'[s] = None
  BY <1>2 DEF Without
<1>5. QED
  BY <1>1, <1>3, <1>4, Storing DEF Fewer

LEMMA Reading ==
  ASSUME TypeOK, NEW q \in Requests, Read(q)
  PROVE  /\ sessions' \in [TokenIds -> Users \cup {None}]
         /\ lapsed' \subseteq Stored' /\ left' \subseteq Stored' /\ Fewer
BY Ending DEF Read

\* A login ends the session that its request came with, and begins its own.
LEMMA Beginning ==
  ASSUME TypeOK, NEW q \in Requests, NEW t \in TokenIds, Login(q, t)
  PROVE  /\ sessions' \in [TokenIds -> Users \cup {None}]
         /\ lapsed' \subseteq Stored' /\ left' \subseteq Stored'
         /\ \A s \in Stored' : s = t \/ (s \in Stored /\ (s \in left => s \in left'))
         /\ \A s \in TokenIds : s = request[q].call.cookies.sid => sessions'[s] = None \/ s = t
<1> DEFINE old == request[q].call.cookies.sid
           stored == [Without({old}) EXCEPT ![t] = request[q].call.for]
<1>1. Store(stored)
  BY DEF Login
<1>2. request[q].call.for \in Users
  BY Signing
<1>3. stored \in [TokenIds -> Users \cup {None}]
  BY <1>2 DEF Without, TypeOK
<1>4. \A s \in TokenIds : s # t => stored[s] = IF s = old THEN None ELSE sessions[s]
  BY DEF Without
<1> HIDE DEF stored
<1>5. sessions' = stored
  BY <1>1 DEF Store
<1>6. /\ sessions' \in [TokenIds -> Users \cup {None}]
      /\ lapsed' \subseteq Stored' /\ left' \subseteq Stored'
      /\ \A s \in Stored' : s \in left => s \in left'
  BY <1>1, <1>3, Storing
<1>7. \A s \in Stored' : s = t \/ s \in Stored
  BY <1>4, <1>5 DEF Stored
<1>8. \A s \in TokenIds : s = old => sessions'[s] = None \/ s = t
  BY <1>4, <1>5
<1>9. QED
  BY <1>6, <1>7, <1>8

\* What becomes of the tokens and sessions in a handler.
LEMMA HandlerTypes ==
  ASSUME TypeOK, NEW q \in Requests, Handler(q)
  PROVE  /\ token' \in [TokenIds -> Users \cup {None}]
         /\ \A t \in TokenIds : token[t] # None => token'[t] # None
         /\ sessions' \in [TokenIds -> Users \cup {None}]
         /\ lapsed' \subseteq Stored' /\ left' \subseteq Stored'
         /\ UNCHANGED <<expired, browser>>
<1>1. CASE Throttled(q) \/ LoginFails(q) \/ Profile(q) \/ AuditTrail(q)
  <2>1. Read(q) /\ UNCHANGED <<token, expired, browser>>
    BY <1>1 DEF Throttled, LoginFails, Profile, AuditTrail
  <2>2. QED
    BY <2>1, Reading DEF TypeOK
<1>2. CASE Logout(q)
  <2>1. Store(Without({request[q].call.cookies.sid})) /\ UNCHANGED <<token, expired, browser>>
    BY <1>2 DEF Logout
  <2>2. QED
    BY <2>1, Ending DEF TypeOK
<1>3. ASSUME NEW t \in TokenIds, Login(q, t) PROVE UNCHANGED <<expired, browser>>
  BY <1>3 DEF Login
<1>4. ASSUME NEW t \in TokenIds, WhatsappLogin(q, t)
      PROVE  Read(q) /\ UNCHANGED <<expired, browser>>
  BY <1>4 DEF WhatsappLogin
<1>5. CASE \E t \in TokenIds : Login(q, t)
  BY <1>3, <1>5, Signing, Beginning
<1>6. CASE \E t \in TokenIds : WhatsappLogin(q, t)
  BY <1>4, <1>6, Signing, Reading
<1>7. QED
  BY <1>1, <1>2, <1>5, <1>6 DEF Handler

\* The steps that leave the requests and what the store has alone.
Surroundings ==
  \/ \E t \in TokenIds : TokenExpires(t) \/ SessionLapses(t)
  \/ \E b \in Browsers : TokenCookieExpires(b) \/ SessionCookieExpires(b)

Sent(q) ==
  \E b \in Browsers, f \in Called[q], u \in Users \cup {None} : Send(q, b, f, u)

LEMMA Steps ==
  ASSUME [Next]_vars
  PROVE  \/ \E q \in Requests : Sent(q) \/ Guard(q) \/ Handler(q) \/ Receive(q) \/ LoseAnswer(q)
         \/ Surroundings
         \/ Restart
         \/ UNCHANGED vars
BY DEF Next, Sent, Handler, Surroundings

\* Around the requests, cookies end, sessions may lapse, and a restart ends all.
LEMMA Elsewhere ==
  ASSUME TypeOK, Surroundings \/ Restart \/ UNCHANGED vars
  PROVE  /\ UNCHANGED token
         /\ \A q \in Requests : request'[q] = request[q] \/ request'[q] = Idle
         /\ \A b \in Browsers : /\ browser'[b].at \in {browser[b].at, None}
                                /\ browser'[b].sid \in {browser[b].sid, None}
         /\ Restart \/ UNCHANGED <<request, sessions>>
<1>1. CASE Restart
  BY <1>1 DEF Restart
<1>2. CASE UNCHANGED vars
  BY <1>2 DEF vars
<1>3. ASSUME NEW t \in TokenIds, TokenExpires(t) \/ SessionLapses(t)
      PROVE  UNCHANGED <<token, request, browser, sessions>>
  BY <1>3 DEF TokenExpires, SessionLapses
<1>4. ASSUME NEW b \in Browsers, TokenCookieExpires(b) \/ SessionCookieExpires(b)
      PROVE  /\ UNCHANGED <<token, request, sessions>>
             /\ \A a \in Browsers : /\ browser'[a].at \in {browser[a].at, None}
                                    /\ browser'[a].sid \in {browser[a].sid, None}
  BY <1>4 DEF TokenCookieExpires, SessionCookieExpires, TypeOK, Cookies
<1>5. CASE Surroundings
  BY <1>3, <1>4, <1>5 DEF Surroundings
<1>6. QED
  BY <1>1, <1>2, <1>5

\* Every variable keeps its type.
LEMMA TypesKept ==
  ASSUME TypeOK, NamesAreSigned, [Next]_vars
  PROVE  TypeOK'
<1>1. ASSUME NEW q \in Requests, Sent(q) PROVE TypeOK'
  <2>1. request' \in [Requests -> {Idle} \cup InFlight]
    BY <1>1, Sends DEF Sent
  <2>2. UNCHANGED <<token, expired, sessions, lapsed, browser, left>>
    BY <1>1 DEF Sent, Send
  <2>3. QED
    BY <2>1, <2>2 DEF TypeOK, Stored
<1>2. ASSUME NEW q \in Requests, Guard(q) PROVE TypeOK'
  <2>1. request' \in [Requests -> {Idle} \cup InFlight]
    BY <1>2, Guards
  <2>2. Read(q) /\ UNCHANGED <<token, expired, browser>>
    BY <1>2 DEF Guard
  <2>3. QED
    BY <2>1, <2>2, Reading DEF TypeOK
<1>3. ASSUME NEW q \in Requests, Handler(q) PROVE TypeOK'
  <2>1. request' \in [Requests -> {Idle} \cup InFlight]
    BY <1>3, Answers
  <2>2. QED
    BY <1>3, <2>1, HandlerTypes DEF TypeOK
<1>4. ASSUME NEW q \in Requests, Receive(q) PROVE TypeOK'
  <2>1. request' \in [Requests -> {Idle} \cup InFlight] /\ browser' \in [Browsers -> Cookies]
    BY <1>4, Receipt
  <2>2. UNCHANGED <<token, expired, sessions, lapsed>> /\ left' \subseteq Stored
    BY <1>4, Receipt DEF Receive
  <2>3. QED
    BY <2>1, <2>2 DEF TypeOK, Stored
<1>5. ASSUME NEW q \in Requests, LoseAnswer(q) PROVE TypeOK'
  BY <1>5, Loss DEF TypeOK, Stored
<1>6. CASE Surroundings
  <2>1. ASSUME NEW t \in TokenIds, TokenExpires(t) PROVE TypeOK'
    BY <2>1 DEF TokenExpires, TypeOK, Stored
  <2>2. ASSUME NEW t \in TokenIds, SessionLapses(t) PROVE TypeOK'
    BY <2>2 DEF SessionLapses, TypeOK, Stored
  <2>3. ASSUME NEW b \in Browsers, TokenCookieExpires(b) PROVE TypeOK'
    BY <2>3 DEF TokenCookieExpires, TypeOK, Cookies, Stored
  <2>4. ASSUME NEW b \in Browsers, SessionCookieExpires(b) PROVE TypeOK'
    BY <2>4 DEF SessionCookieExpires, TypeOK, Cookies, Stored
  <2>5. QED
    BY <1>6, <2>1, <2>2, <2>3, <2>4 DEF Surroundings
<1>7. CASE Restart
  BY <1>7 DEF Restart, Store, TypeOK, Stored
<1>8. CASE UNCHANGED vars
  BY <1>8 DEF vars, TypeOK, Stored
<1>9. QED
  BY <1>1, <1>2, <1>3, <1>4, <1>5, <1>6, <1>7, <1>8, Steps

\* What the cookies and headers of a request name stays signed.
NamesFit(q) ==
  request[q] # Idle =>
    LET c == request[q].call IN
    /\ Signed(c.cookies.at) /\ Signed(c.cookies.sid) /\ Signed(c.bearer)
    /\ request[q].pc = "answered" =>
         \A name \in DOMAIN request[q].set : Signed(request[q].set[name])

LEMMA NamesByPart ==
  NamesAreSigned <=> /\ \A b \in Browsers : Signed(browser[b].at) /\ Signed(browser[b].sid)
                     /\ \A q \in Requests : NamesFit(q)
BY DEF NamesAreSigned, NamesFit

LEMMA NamesByPartAfter == NamesByPart'
BY NamesByPart, PTL

\* Tokens are not taken back, so names stay signed where they are ...
LEMMA SignedStays ==
  ASSUME TypeOK, NEW q \in Requests, request[q] # Idle, NamesFit(q), request'[q] = request[q],
         \A t \in TokenIds : token[t] # None => token'[t] # None
  PROVE  NamesFit(q)'
<1>1. request[q].call \in Call
  BY Fields
<1>2. /\ request[q].call.cookies.at \in TokenIds \cup {None}
      /\ request[q].call.cookies.sid \in TokenIds \cup {None}
      /\ request[q].call.bearer \in TokenIds \cup {None}
  BY <1>1, CallFields
<1>3. ASSUME request[q].pc = "answered", NEW name \in DOMAIN request[q].set
      PROVE  request[q].set[name] \in TokenIds \cup {None}
  <2>1. request[q].set \in SetCookies
    BY <1>3, Fields
  <2>2. QED
    BY <1>3, <2>1, AnswerCookies DEF SetCookies
<1>4. QED
  BY <1>2, <1>3 DEF NamesFit, Signed

\* ... and every step keeps them signed.
LEMMA NamesKept ==
  ASSUME TypeOK, NamesAreSigned, [Next]_vars
  PROVE  NamesAreSigned'
<1> DEFINE Lasting == \A t \in TokenIds : token[t] # None => token'[t] # None
<1>1. \A b \in Browsers : /\ browser[b].at \in TokenIds \cup {None}
                          /\ browser[b].sid \in TokenIds \cup {None}
  BY DEF TypeOK, Cookies
<1>2. ASSUME Lasting, UNCHANGED browser
      PROVE  \A b \in Browsers : Signed(browser[b].at)' /\ Signed(browser[b].sid)'
  BY <1>1, <1>2 DEF NamesAreSigned, Signed
<1>3. ASSUME Lasting, NEW q \in Requests, \A p \in Requests : p # q => request'[p] = request[p],
             NamesFit(q)'
      PROVE  \A p \in Requests : NamesFit(p)'
  <2>1. ASSUME NEW p \in Requests, p # q, request[p] # Idle PROVE NamesFit(p)'
    BY <1>3, <2>1, SignedStays, NamesByPart
  <2>2. ASSUME NEW p \in Requests, p # q, request[p] = Idle PROVE NamesFit(p)'
    BY <1>3, <2>2 DEF NamesFit
  <2>3. QED
    BY <1>3, <2>1, <2>2
<1>4. ASSUME NEW q \in Requests, Sent(q) PROVE NamesAreSigned'
  <2>1. PICK b \in Browsers, f \in Called[q], u \in Users \cup {None} : Send(q, b, f, u)
    BY <1>4 DEF Sent
  <2>2. Lasting /\ UNCHANGED <<browser, token>> /\ Signed(f.bearer)
    BY <2>1 DEF Send, Signed
  <2>3. Signed(browser[b].at) /\ Signed(browser[b].sid)
    BY DEF NamesAreSigned
  <2>4. NamesFit(q)'
    BY <2>1, <2>2, <2>3, Sends DEF NamesFit, Signed
  <2>5. QED
    BY <1>2, <1>3, <2>1, <2>2, <2>4, Sends, NamesByPartAfter
<1>5. ASSUME NEW q \in Requests, Guard(q) PROVE NamesAreSigned'
  <2>1. Lasting /\ UNCHANGED <<browser, token>>
    BY <1>5 DEF Guard
  <2>2. NamesFit(q)'
    BY <1>5, <2>1, Guards, AnswerCookies DEF NamesFit, Signed, NamesAreSigned
  <2>3. QED
    BY <1>2, <1>3, <1>5, <2>1, <2>2, Guards, NamesByPartAfter
<1>6. ASSUME NEW q \in Requests, Handler(q) PROVE NamesAreSigned'
  <2>1. Lasting /\ UNCHANGED browser
    BY <1>6, HandlerTypes
  <2>2. request[q] # Idle /\ request'[q].call = request[q].call /\ request'[q].pc = "answered"
        /\ \A p \in Requests : p # q => request'[p] = request[p]
    BY <1>6, Answers
  <2>3. /\ Signed(request[q].call.cookies.at)' /\ Signed(request[q].call.cookies.sid)'
        /\ Signed(request[q].call.bearer)'
    <3>1. request[q].call \in Call
      BY <2>2, Fields
    <3>2. /\ Signed(request[q].call.cookies.at) /\ Signed(request[q].call.cookies.sid)
          /\ Signed(request[q].call.bearer)
      BY <2>2 DEF NamesAreSigned
    <3>3. QED
      BY <2>1, <2>2, <3>1, <3>2, CallFields DEF Signed
  <2>4. \A name \in DOMAIN request'[q].set : Signed(request[q].set[name])'
    <3>1. CASE request'[q].set = NoCookies
      BY <3>1, AnswerCookies
    <3>2. CASE request'[q].set = [at |-> None, sid |-> None]
      BY <3>2 DEF Signed
    <3>3. ASSUME NEW t \in TokenIds, Login(q, t) \/ WhatsappLogin(q, t) PROVE token'[t] # None
      BY <3>3, Signing
    <3>4. ASSUME NEW t \in TokenIds, Login(q, t), request'[q].set = [at |-> t, sid |-> t]
          PROVE  \A name \in DOMAIN request'[q].set : request'[q].set[name] = t
      BY <3>4
    <3>5. ASSUME NEW t \in TokenIds, WhatsappLogin(q, t), request'[q].set = [at |-> t]
          PROVE  \A name \in DOMAIN request'[q].set : request'[q].set[name] = t
      BY <3>5
    <3>6. CASE \E t \in TokenIds :
                \/ Login(q, t) /\ request'[q].set = [at |-> t, sid |-> t]
                \/ WhatsappLogin(q, t) /\ request'[q].set = [at |-> t]
      BY <3>3, <3>4, <3>5, <3>6 DEF Signed
    <3>7. QED
      BY <1>6, <3>1, <3>2, <3>6, Answers
  <2>5. NamesFit(q)'
    BY <2>2, <2>3, <2>4 DEF NamesFit
  <2>6. QED
    BY <1>2, <1>3, <2>1, <2>2, <2>5, NamesByPartAfter
<1>7. ASSUME NEW q \in Requests, Receive(q) PROVE NamesAreSigned'
  <2>1. Lasting /\ UNCHANGED token /\ request[q].pc = "answered"
    BY <1>7 DEF Receive
  <2>2. NamesFit(q)'
    BY <1>7, Receipt DEF NamesFit
  <2>3. \A name \in DOMAIN request[q].set : Signed(request[q].set[name])
    BY <1>7, <2>1, Receipt DEF NamesAreSigned
  <2>4. \A b \in Browsers : Signed(browser[b].at)' /\ Signed(browser[b].sid)'
    BY <1>7, <2>1, <2>3, Receipt DEF NamesAreSigned, Signed
  <2>5. QED
    BY <1>3, <1>7, <2>1, <2>2, <2>4, Receipt, NamesByPartAfter
<1>8. ASSUME NEW q \in Requests, LoseAnswer(q) PROVE NamesAreSigned'
  <2>1. Lasting /\ UNCHANGED browser
    BY <1>8, Loss
  <2>2. NamesFit(q)'
    BY <1>8, Loss DEF NamesFit
  <2>3. QED
    BY <1>2, <1>3, <1>8, <2>1, <2>2, Loss, NamesByPartAfter
<1>9. CASE Surroundings \/ Restart \/ UNCHANGED vars
  <2>1. UNCHANGED token /\ \A q \in Requests : request'[q] = request[q] \/ request'[q] = Idle
    BY <1>9, Elsewhere
  <2>2. \A b \in Browsers : /\ browser'[b].at \in {browser[b].at, None}
                            /\ browser'[b].sid \in {browser[b].sid, None}
    BY <1>9, Elsewhere
  <2>3. QED
    BY <2>1, <2>2 DEF NamesAreSigned, Signed
<1>10. QED
  BY <1>4, <1>5, <1>6, <1>7, <1>8, <1>9, Steps

\* A login that names an account is not refused: the guard lets it pass.
LEMMA LoginsKept ==
  ASSUME TypeOK, NamesAreSigned, LoginIsNotLockedOut, [Next]_vars
  PROVE  LoginIsNotLockedOut'
<1> DEFINE Fine(q) ==
             request[q].pc = "answered" /\ request[q].call.route \in Logins
               /\ request[q].call.for # None /\ request[q].call.exact
             => request[q].status \in {200, 429}
<1>1. LoginIsNotLockedOut <=> \A q \in Requests : Fine(q)
  BY DEF LoginIsNotLockedOut, Answered, Logins
<1>2. LoginIsNotLockedOut' <=> \A q \in Requests : Fine(q)'
  BY DEF LoginIsNotLockedOut, Answered, Logins
<1>3. ASSUME NEW q \in Requests, request'[q] = request[q] \/ request'[q] = Idle PROVE Fine(q)'
  BY <1>1, <1>3, IdleStage
<1>4. ASSUME NEW q \in Requests, Sent(q) \/ Guard(q) \/ Handler(q) \/ Receive(q) \/ LoseAnswer(q)
      PROVE  Fine(q)' /\ \A p \in Requests : p # q => request'[p] = request[p]
  <2>1. CASE Sent(q)
    BY <2>1, Sends DEF Sent
  <2>2. CASE Guard(q)
    BY <2>2, Guards
  <2>3. CASE Handler(q)
    BY <2>3, Answers
  <2>4. CASE Receive(q)
    BY <2>4, Receipt, IdleStage
  <2>5. CASE LoseAnswer(q)
    BY <2>5, Loss, IdleStage
  <2>6. QED
    BY <1>4, <2>1, <2>2, <2>3, <2>4, <2>5
<1>5. CASE Surroundings \/ Restart \/ UNCHANGED vars
  <2>1. \A q \in Requests : request'[q] = request[q] \/ request'[q] = Idle
    BY <1>5, Elsewhere
  <2>2. QED
    BY <1>2, <1>3, <2>1
<1> HIDE DEF Fine
<1>6. CASE \E q \in Requests : Sent(q) \/ Guard(q) \/ Handler(q) \/ Receive(q) \/ LoseAnswer(q)
  BY <1>2, <1>3, <1>4, <1>6
<1>7. QED
  BY <1>5, <1>6, Steps

\* The invariant of the guards.
LEMMA InitialInv == Init => IInv
<1> SUFFICES ASSUME Init PROVE IInv
  OBVIOUS
<1>1. TypeOK
  BY DEF Init, TypeOK, Cookies, Stored
<1>2. NamesAreSigned
  BY DEF Init, NamesAreSigned, Signed
<1>3. LoginIsNotLockedOut
  BY IdleStage DEF Init, LoginIsNotLockedOut, Answered
<1>4. QED
  BY <1>1, <1>2, <1>3 DEF IInv

\* Whatever cookies and headers arrive, requests, tokens and sessions keep
\* their types, and cookies and headers name only what was given out.
THEOREM Invariance == Spec => []IInv
<1>1. IInv /\ [Next]_vars => IInv'
  BY TypesKept, NamesKept, LoginsKept DEF IInv
<1>2. QED
  BY InitialInv, <1>1, PTL DEF Spec

\* The variables have their types.
THEOREM TypeCorrect == Spec => []TypeOK
<1>1. IInv => TypeOK
  BY DEF IInv
<1>2. QED
  BY <1>1, Invariance, PTL

\* Stale cookies and headers lock nobody out: JwtAuthGuard lets both login URLs
\* pass, and the handler answers 200 to a login that names an account.
THEOREM LoginsAreOpen == Spec => []LoginIsNotLockedOut
<1>1. IInv => LoginIsNotLockedOut
  BY DEF IInv
<1>2. QED
  BY <1>1, Invariance, PTL

-----------------------------------------------------------------------------
(* The sessions. *)

\* What a step of a request does to the store: a session begins only with a
\* login, for which nobody had a name yet; a logout and a login end the one
\* their request came with.
Replaces(q, set) ==
  /\ "sid" \in DOMAIN set
  /\ \A s \in TokenIds : s = request[q].call.cookies.sid => sessions'[s] = None \/ set["sid"] = s
  /\ \A s \in Stored' :
       (s \in Stored /\ (s \in left => s \in left')) \/ (set["sid"] = s /\ token[s] = None)
  /\ set["sid"] # None => set["sid"] \in TokenIds /\ token[set["sid"]] = None

LEMMA StoreSteps ==
  ASSUME IInv, NEW q \in Requests, Handler(q)
  PROVE  ("sid" \notin DOMAIN request'[q].set /\ Fewer) \/ Replaces(q, request'[q].set)
<1> USE DEF IInv
<1> DEFINE set == request'[q].set
<1>1. CASE set = NoCookies /\ Read(q)
  BY <1>1, AnswerCookies, Reading
<1>2. CASE Logout(q) /\ set = [at |-> None, sid |-> None]
  <2>1. Store(Without({request[q].call.cookies.sid}))
    BY <1>2 DEF Logout
  <2>2. "sid" \in DOMAIN set /\ set["sid"] = None
    BY <1>2
  <2>3. QED
    BY <2>1, <2>2, Ending DEF Replaces, Fewer
<1>3. ASSUME NEW t \in TokenIds, Login(q, t), set = [at |-> t, sid |-> t]
      PROVE  Replaces(q, set)
  <2>1. token[t] = None
    BY <1>3, Signing
  <2>2. set["sid"] = t /\ "sid" \in DOMAIN set
    BY <1>3
  <2> HIDE DEF set
  <2>3. QED
    BY <1>3, <2>1, <2>2, Beginning DEF Replaces
<1>4. ASSUME NEW t \in TokenIds, WhatsappLogin(q, t), set = [at |-> t]
      PROVE  "sid" \notin DOMAIN set /\ Fewer
  <2>1. Read(q)
    BY <1>4 DEF WhatsappLogin
  <2>2. QED
    BY <1>4, <2>1, Reading
<1>5. QED
  BY <1>1, <1>2, <1>3, <1>4, Answers

\* Somebody has session s, or had it.
Held(s) ==
  (\E b \in Browsers : browser[b].sid = s) \/ (\E q \in Requests : Gives(q, s)) \/ s \in left

LEMMA HeldByPart == SessionsAreHeld <=> \A s \in Stored : Held(s)
BY DEF SessionsAreHeld, Held, Stored

LEMMA HeldByPartAfter == HeldByPart'
BY HeldByPart, PTL

\* A session in the store stays named by a browser or by an answer, or its
\* browser has lost it.
LEMMA HeldKept ==
  ASSUME SessionInv, [Next]_vars
  PROVE  SessionsAreHeld'
<1> USE DEF SessionInv, IInv
<1> SUFFICES ASSUME NEW s \in Stored' PROVE Held(s)'
  BY HeldByPartAfter
<1>1. s # None /\ s \in TokenIds
  BY BoundAssumption DEF TokenIds, Stored
\* The requests that a step leaves alone, and the browsers, keep what they have.
<1>2. ASSUME NEW q \in Requests, \A p \in Requests : p # q => request'[p] = request[p],
             UNCHANGED browser, request[q].pc # "answered",
             s \in Stored /\ (s \in left => s \in left')
      PROVE  Held(s)'
  <2>1. \A p \in Requests : Gives(p, s) => Gives(p, s)'
    BY <1>2 DEF Gives
  <2>2. QED
    BY <1>2, <2>1, HeldByPart DEF Held
<1>3. ASSUME NEW q \in Requests, Sent(q) PROVE Held(s)'
  <2>1. /\ UNCHANGED <<browser, sessions, left>> /\ request[q].pc # "answered"
        /\ \A p \in Requests : p # q => request'[p] = request[p]
    BY <1>3, Sends, IdleStage DEF Sent, Send
  <2>2. QED
    BY <1>2, <2>1 DEF Stored
<1>4. ASSUME NEW q \in Requests, Guard(q) PROVE Held(s)'
  <2>1. /\ UNCHANGED browser /\ Read(q) /\ request[q].pc # "answered"
        /\ \A p \in Requests : p # q => request'[p] = request[p]
    BY <1>4, Guards DEF Guard
  <2>2. s \in Stored /\ (s \in left => s \in left')
    BY <2>1, Reading DEF Fewer
  <2>3. QED
    BY <1>2, <2>1, <2>2
<1>5. ASSUME NEW q \in Requests, Handler(q) PROVE Held(s)'
  <2>1. /\ UNCHANGED browser /\ request[q].pc # "answered" /\ request'[q].pc = "answered"
        /\ \A p \in Requests : p # q => request'[p] = request[p]
    BY <1>5, Answers, HandlerTypes
  <2>2. (s \in Stored /\ (s \in left => s \in left')) \/ Gives(q, s)'
    BY <1>5, <2>1, StoreSteps DEF Gives, Replaces, Fewer
  <2>3. QED
    BY <1>2, <2>1, <2>2 DEF Held
<1>6. ASSUME NEW q \in Requests, Receive(q) PROVE Held(s)'
  <2>1. s \in Stored /\ request[q].pc = "answered" /\ left \subseteq left'
        /\ \A p \in Requests : p # q => request'[p] = request[p]
    BY <1>6, Receipt DEF Receive, Stored
  <2>2. ASSUME NEW b \in Browsers, browser[b].sid = s PROVE Held(s)'
    <3>1. CASE b = request[q].call.from
      <4>1. CASE "sid" \notin DOMAIN request[q].set
        BY <1>6, <2>2, <3>1, <4>1, Receipt DEF Held
      <4>2. CASE "sid" \in DOMAIN request[q].set
        <5>1. s = request[q].call.cookies.sid \/ s \in left'
          BY <1>6, <2>1, <2>2, <3>1, <4>2, Receipt
        <5>2. s # request[q].call.cookies.sid
          BY <1>1, <2>1, <4>2 DEF ReplacedIsGone, Stored
        <5>3. QED
          BY <5>1, <5>2 DEF Held
      <4>3. QED
        BY <4>1, <4>2
    <3>2. CASE b # request[q].call.from
      BY <1>6, <2>2, <3>2, Receipt DEF Held
    <3>3. QED
      BY <3>1, <3>2
  <2>3. ASSUME Gives(q, s) PROVE Held(s)'
    BY <1>6, <2>3, Receipt DEF Held, Gives
  <2>4. ASSUME NEW p \in Requests, p # q, Gives(p, s) PROVE Held(s)'
    BY <2>1, <2>4 DEF Held, Gives
  <2>5. QED
    BY <2>1, <2>2, <2>3, <2>4, HeldByPart DEF Held
<1>7. ASSUME NEW q \in Requests, LoseAnswer(q) PROVE Held(s)'
  <2>1. /\ s \in Stored /\ UNCHANGED browser /\ left \subseteq left' /\ (Gives(q, s) => s \in left')
        /\ \A p \in Requests : p # q => request'[p] = request[p]
    BY <1>7, Loss DEF Stored
  <2>2. \A p \in Requests : p # q /\ Gives(p, s) => Gives(p, s)'
    BY <2>1 DEF Gives
  <2>3. QED
    BY <2>1, <2>2, HeldByPart DEF Held
<1>8. CASE Surroundings \/ Restart \/ UNCHANGED vars
  <2>1. CASE Restart
    BY <2>1 DEF Restart, Store, Stored
  <2>2. CASE ~Restart
    <3>1. s \in Stored /\ UNCHANGED request
      BY <1>8, <2>2, Elsewhere DEF Stored
    <3>2. ASSUME NEW b \in Browsers, SessionCookieExpires(b)
          PROVE  /\ left \subseteq left'
                 /\ \A a \in Browsers : browser[a].sid = s => browser'[a].sid = s \/ s \in left'
      BY <3>1, <3>2 DEF SessionCookieExpires
    <3>3. ASSUME NEW b \in Browsers, TokenCookieExpires(b)
          PROVE  UNCHANGED left /\ \A a \in Browsers : browser'[a].sid = browser[a].sid
      BY <3>3 DEF TokenCookieExpires, TypeOK, Cookies
    <3>4. CASE UNCHANGED <<left, browser>>
      BY <3>1, <3>4, HeldByPart DEF Held, Gives
    <3>5. CASE \E b \in Browsers : SessionCookieExpires(b)
      BY <3>1, <3>2, <3>5, HeldByPart DEF Held, Gives
    <3>6. CASE \E b \in Browsers : TokenCookieExpires(b)
      BY <3>1, <3>3, <3>6, HeldByPart DEF Held, Gives
    <3>7. QED
      BY <1>8, <2>2, <3>4, <3>5, <3>6 DEF Surroundings, TokenExpires, SessionLapses, vars
  <2>3. QED
    BY <2>1, <2>2
<1>9. QED
  BY <1>3, <1>4, <1>5, <1>6, <1>7, <1>8, Steps

\* The session that an answer replaces stays out of the store: no login begins
\* one that a cookie names already.
LEMMA ReplacedStaysGone ==
  ASSUME SessionInv, [Next]_vars
  PROVE  \A q \in Requests : ReplacedIsGone(q)'
<1> USE DEF SessionInv, IInv
<1>1. ASSUME NEW p \in Requests, request[p].pc = "answered"
      PROVE  /\ request[p].call.cookies.sid \in TokenIds \cup {None}
             /\ request[p].call.cookies.sid # None => token[request[p].call.cookies.sid] # None
  BY <1>1, IdleStage, Fields, CallFields DEF NamesAreSigned, Signed
<1>2. ASSUME NEW p \in Requests, request'[p] = request[p],
             \A s \in Stored' : s \in Stored \/ token[s] = None
      PROVE  ReplacedIsGone(p)'
  BY <1>1, <1>2 DEF ReplacedIsGone, Stored
<1>3. ASSUME NEW p \in Requests, request'[p].pc # "answered" PROVE ReplacedIsGone(p)'
  BY <1>3 DEF ReplacedIsGone
<1>4. ASSUME NEW q \in Requests, Sent(q) PROVE \A p \in Requests : ReplacedIsGone(p)'
  <2>1. UNCHANGED sessions /\ request'[q].pc = "guard"
        /\ \A p \in Requests : p # q => request'[p] = request[p]
    BY <1>4, Sends DEF Sent, Send
  <2>2. QED
    BY <1>2, <1>3, <2>1 DEF Stored
<1>5. ASSUME NEW q \in Requests, Guard(q) PROVE \A p \in Requests : ReplacedIsGone(p)'
  <2>1. \A s \in Stored' : s \in Stored
    BY <1>5, Reading DEF Guard, Fewer
  <2>2. ReplacedIsGone(q)'
    BY <1>5, Guards, AnswerCookies DEF ReplacedIsGone
  <2>3. QED
    BY <1>2, <1>5, <2>1, <2>2, Guards
<1>6. ASSUME NEW q \in Requests, Handler(q) PROVE \A p \in Requests : ReplacedIsGone(p)'
  <2>1. /\ request[q].pc = "handle" /\ request[q] # Idle /\ request'[q].call = request[q].call
        /\ \A p \in Requests : p # q => request'[p] = request[p]
    BY <1>6, Answers
  <2>2. \A s \in Stored' : s \in Stored \/ token[s] = None
    BY <1>6, StoreSteps DEF Replaces, Fewer
  <2>3. ReplacedIsGone(q)'
    <3> DEFINE sid == request[q].call.cookies.sid
    <3>1. sid \in TokenIds \cup {None} /\ (sid # None => token[sid] # None)
      BY <2>1, Fields, CallFields DEF NamesAreSigned, Signed
    <3>2. CASE "sid" \notin DOMAIN request'[q].set
      BY <3>2 DEF ReplacedIsGone
    <3>3. CASE Replaces(q, request'[q].set)
      BY <2>1, <3>1, <3>3 DEF Replaces, ReplacedIsGone
    <3>4. QED
      BY <1>6, <3>2, <3>3, StoreSteps
  <2>4. QED
    BY <1>2, <2>1, <2>2, <2>3
<1>7. ASSUME NEW q \in Requests, Receive(q) \/ LoseAnswer(q)
      PROVE  \A p \in Requests : ReplacedIsGone(p)'
  <2>1. UNCHANGED sessions /\ request'[q].pc # "answered"
        /\ \A p \in Requests : p # q => request'[p] = request[p]
    BY <1>7, Receipt, Loss, IdleStage DEF Receive, LoseAnswer
  <2>2. QED
    BY <1>2, <1>3, <2>1 DEF Stored
<1>8. CASE Surroundings \/ Restart \/ UNCHANGED vars
  <2>1. CASE Restart
    BY <1>3, <2>1, IdleStage DEF Restart
  <2>2. CASE UNCHANGED <<request, sessions>>
    BY <1>2, <2>2 DEF Stored
  <2>3. QED
    BY <1>8, <2>1, <2>2, Elsewhere
<1>9. QED
  BY <1>4, <1>5, <1>6, <1>7, <1>8, Steps

\* However requests overlap, and whatever cookies end, an answer that gives or
\* clears a session follows the end of the one its request came with, and the
\* browsers account for the rest of the store.
THEOREM SessionInvariance == Spec => []SessionInv
<1>1. Init => SessionInv
  <2> SUFFICES ASSUME Init PROVE SessionInv
    OBVIOUS
  <2>1. SessionsAreHeld
    BY DEF Init, SessionsAreHeld
  <2>2. \A q \in Requests : ReplacedIsGone(q)
    BY IdleStage DEF Init, ReplacedIsGone
  <2>3. QED
    BY <2>1, <2>2, InitialInv DEF SessionInv
<1>2. SessionInv /\ [Next]_vars => SessionInv'
  <2>1. IInv /\ [Next]_vars => IInv'
    BY TypesKept, NamesKept, LoginsKept DEF IInv
  <2>2. QED
    BY <2>1, HeldKept, ReplacedStaysGone DEF SessionInv
<1>3. QED
  BY <1>1, <1>2, PTL DEF Spec

\* The store of express-session has no session that neither a browser holds nor
\* an answer gives, except those whose browser lost them by itself: no login
\* over a login, no logout and no restart leaves one behind.
THEOREM SessionsHeld == Spec => []SessionsAreHeld
<1>1. SessionInv => SessionsAreHeld
  BY DEF SessionInv
<1>2. QED
  BY <1>1, SessionInvariance, PTL
=============================================================================
