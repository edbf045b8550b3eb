----------------------------- MODULE AccessControl ----------------------------
(***************************************************************************)
(* Who a request is taken for: the express session, the guards of          *)
(* app.module.ts and of the controllers, and the handlers of               *)
(* auth.controller.ts that give out and clear what the guards look at.     *)
(* Browsers keep the cookies of the answers they got, in the order they    *)
(* got them; several requests of a browser may be on their way.  Login     *)
(* tokens are signed with JWT_AT_SECRET and checked with JWT_SECRET: the   *)
(* two are taken to be one secret, as nothing works otherwise.             *)
(***************************************************************************)
EXTENDS Naturals

CONSTANTS Users, Browsers,
          Requests,   \* bound: requests in flight at once
          MaxTokens,  \* bound: tokens given out
          Called,     \* bound: the forms each request may have
          None        \* no cookie, no header, no session, undefined

ASSUME BoundAssumption ==
  MaxTokens \in Nat /\ None \notin Users \cup (1..MaxTokens)

VARIABLES token,     \* the accounts of the tokens signed so far
          expired,   \* tokens past their expiry
          sessions,  \* express-session's MemoryStore: passport.user
          lapsed,    \* sessions past their expiry that the store still has
          browser,   \* cookies: jwt_at and employeeSession
          request,
          left       \* history: sessions in the store their browser has lost

vars == <<token, expired, sessions, lapsed, browser, request, left>>

TokenIds == 1..MaxTokens
Routes   == {"login", "whatsappLogin", "register", "logout", "profile", "auditTrail"}
Logins   == {"login", "whatsappLogin"}
Cookies  == [at : TokenIds \cup {None}, sid : TokenIds \cup {None}]
Forms    == [route : Routes, bearer : TokenIds \cup {None},
             exact : BOOLEAN]   \* neither a query string nor a final slash
Call     == [route : Routes, bearer : TokenIds \cup {None}, exact : BOOLEAN,
             from : Browsers, for : Users \cup {None}, cookies : Cookies]
Status   == {200, 401, 403, 404, 429, 500}
Idle     == [pc |-> "idle"]

ASSUME CallAssumption == Called \in [Requests -> SUBSET Forms]

\* Cookies an answer sets: a token id, or None to clear it.
SetCookies == UNION {[names -> TokenIds \cup {None}] : names \in SUBSET {"at", "sid"}}

InFlight == [pc : {"guard"}, call : Call]
            \cup [pc : {"handle"}, call : Call, user : Users \cup {None}]
            \cup [pc : {"answered"}, call : Call, status : Status, set : SetCookies]

Stored == {s \in TokenIds : sessions[s] # None}

TypeOK ==
  /\ token \in [TokenIds -> Users \cup {None}]
  /\ expired \subseteq {t \in TokenIds : token[t] # None}
  /\ sessions \in [TokenIds -> Users \cup {None}]
  /\ lapsed \subseteq Stored /\ left \subseteq Stored
  /\ browser \in [Browsers -> Cookies]
  /\ request \in [Requests -> {Idle} \cup InFlight]

Init ==
  /\ token = [t \in TokenIds |-> None]
  /\ expired = {}
  /\ sessions = [t \in TokenIds |-> None]
  /\ lapsed = {} /\ left = {}
  /\ browser = [b \in Browsers |-> [at |-> None, sid |-> None]]
  /\ request = [q \in Requests |-> Idle]

Live(t)     == t # None /\ t \notin expired
NextToken(t) == token[t] = None /\ \A s \in 1..(t - 1) : token[s] # None

(* ------------------------------ The store ------------------------------ *)

Without(S) == [s \in TokenIds |-> IF s \in S THEN None ELSE sessions[s]]

Store(stored) ==
  /\ sessions' = stored
  /\ lapsed' = lapsed \cap Stored'
  /\ left' = left \cap Stored'

\* MemoryStore deletes an expired session when its id is read: at the start of
\* each request with its cookie, and at the end, which puts the expiry of one
\* that has not expired off again.
Read(q) == Store(Without({request[q].call.cookies.sid} \cap lapsed))

(* -------------------------------- Guards ------------------------------- *)

\* Handlers marked @Public().
Public == {"login", "whatsappLogin", "register"}

\* Mutant of Listed: the WhatsApp login is only marked @Public().
ListedPassword == {"login"}

\* The URLs JwtAuthGuard lets pass whatever comes with them.
Listed == {"login", "whatsappLogin"}

\* passport.session(): deserializeUser of the session, if the store has it.
SessionUser(c) ==
  IF c.cookies.sid \in {None} \cup lapsed THEN None ELSE sessions[c.cookies.sid]

Open(c) == (c.route \in Listed /\ c.exact) \/ (c.route \in Public /\ c.cookies.at = None)

\* JwtStrategy takes the cookie before the header, AuthGuard the header first.
Credential(c)   == IF c.cookies.at # None THEN c.cookies.at ELSE c.bearer
HeaderOrCookie(c) == IF c.bearer # None THEN c.bearer ELSE c.cookies.at

\* RoleGuard lets nobody pass: the roles in a token are names, so that
\* role?.name.toLowerCase() throws on the first of them and undefined.map
\* without any list; an empty list matches none.
RoleGuard == {403, 500}

Continue(q, r) == request' = [request EXCEPT ![q] = r]

Respond(q, status, set) ==
  Continue(q, [pc |-> "answered", call |-> request[q].call, status |-> status, set |-> set])

NoCookies         == [f \in {} |-> None]
Refuse(q, status) == Respond(q, status, NoCookies)

\* u is the account that the query of a login will find.
Send(q, b, f, u) ==
  /\ request[q] = Idle
  /\ f.route \in Logins \/ u = None
  /\ f.bearer # None => token[f.bearer] # None
  /\ Continue(q, [pc |-> "guard",
                  call |-> [route |-> f.route, bearer |-> f.bearer, exact |-> f.exact,
                            from |-> b, for |-> u, cookies |-> browser[b]]])
  /\ UNCHANGED <<token, expired, sessions, lapsed, browser, left>>

\* The session is read, then JwtAuthGuard: validate reads the account the
\* token names anew.
Guard(q) ==
  /\ request[q].pc = "guard"
  /\ LET c == request[q].call
         Admit(u) == Continue(q, [pc |-> "handle", call |-> c, user |-> u])
     IN IF Open(c) THEN Admit(SessionUser(c))
        ELSE IF Live(Credential(c)) THEN Admit(token[Credential(c)])
        ELSE Refuse(q, 401)
  /\ Read(q)
  /\ UNCHANGED <<token, expired, browser>>

(* ------------------------------- Handlers ------------------------------ *)

Handles(q, route) == request[q].pc = "handle" /\ request[q].call.route = route

\* CustomThrottlerGuard comes next; what it takes an administrator's token
\* for is never in one, as the roles in a token are names.
Throttled(q) ==
  /\ request[q].pc = "handle"
  /\ Refuse(q, 429)
  /\ Read(q)
  /\ UNCHANGED <<token, expired, browser>>

\* getTokens; the roles it signs matter to nobody (RoleGuard).
Sign(t, u) == token' = [token EXCEPT ![t] = u]

\* No account has this number; LocalAuthGuard: none has this address and
\* password ...
LoginFails(q) ==
  /\ request[q].pc = "handle" /\ request[q].call.for = None
  /\ \/ Handles(q, "login") /\ Refuse(q, 401)
     \/ Handles(q, "whatsappLogin") /\ Refuse(q, 404)
  /\ Read(q)
  /\ UNCHANGED <<token, expired, browser>>

\* Mutant of Login: the session is begun without the end of the old one.
LoginOverSession(q, t) ==
  /\ Handles(q, "login") /\ NextToken(t)
  /\ LET c == request[q].call IN
     /\ c.for # None
     /\ Sign(t, c.for)
     /\ Store([sessions EXCEPT ![t] = c.for])
     /\ Respond(q, 200, [at |-> t, sid |-> t])
  /\ UNCHANGED <<expired, browser>>

\* ... or passport destroys the session the request came with, begins one for
\* the account, and the handler adds the token.  Session t begins with token t.
Login(q, t) ==
  /\ Handles(q, "login") /\ NextToken(t)
  /\ LET c == request[q].call IN
     /\ c.for # None
     /\ Sign(t, c.for)
     /\ Store([Without({c.cookies.sid}) EXCEPT ![t] = c.for])
     /\ Respond(q, 200, [at |-> t, sid |-> t])
  /\ UNCHANGED <<expired, browser>>

\* whatsappLogin (and verifyOtp) begins no session.
WhatsappLogin(q, t) ==
  /\ Handles(q, "whatsappLogin") /\ NextToken(t)
  /\ LET c == request[q].call IN
     /\ c.for # None
     /\ Sign(t, c.for)
     /\ Respond(q, 200, [at |-> t])
  /\ Read(q)
  /\ UNCHANGED <<expired, browser>>

\* Mutant of Logout: the cookies are cleared, the session is kept.
LogoutCookiesOnly(q) ==
  /\ Handles(q, "logout")
  /\ Respond(q, 200, [at |-> None, sid |-> None])
  /\ Read(q)
  /\ UNCHANGED <<token, expired, browser>>

\* A WhatsApp logout that fails does not keep the rest from being done.
Logout(q) ==
  /\ Handles(q, "logout")
  /\ Store(Without({request[q].call.cookies.sid}))
  /\ Respond(q, 200, [at |-> None, sid |-> None])
  /\ UNCHANGED <<token, expired, browser>>

\* profile and who-am-i answer the account; register is in UserAccounts.
Profile(q) ==
  /\ Handles(q, "profile") \/ Handles(q, "register")
  /\ Respond(q, 200, NoCookies)
  /\ Read(q)
  /\ UNCHANGED <<token, expired, browser>>

\* The controller's AuthGuard and RoleGuard come after the global guard.
AuditTrail(q) ==
  /\ Handles(q, "auditTrail")
  /\ LET t == HeaderOrCookie(request[q].call)
     IN \E status \in IF Live(t) THEN RoleGuard ELSE {401} : Refuse(q, status)
  /\ Read(q)
  /\ UNCHANGED <<token, expired, browser>>

(* ----------------------------- Surroundings ---------------------------- *)

\* The browser applies what an answer sets, on whatever it holds by then: a
\* session that an answer in between gave it is not the one the handler ended.
Receive(q) ==
  /\ request[q].pc = "answered"
  /\ LET set  == request[q].set
         c    == request[q].call
         held == browser[c.from]
     IN /\ browser' = [browser EXCEPT ![c.from] =
                         [at  |-> IF "at" \in DOMAIN set THEN set["at"] ELSE held.at,
                          sid |-> IF "sid" \in DOMAIN set THEN set["sid"] ELSE held.sid]]
        /\ left' = left \cup (Stored \cap IF "sid" \in DOMAIN set THEN {held.sid} \ {c.cookies.sid} ELSE {})
  /\ Continue(q, Idle)
  /\ UNCHANGED <<token, expired, sessions, lapsed>>

\* The answer to a request gives its browser session s.
Gives(q, s) ==
  request[q].pc = "answered" /\ "sid" \in DOMAIN request[q].set /\ request[q].set["sid"] = s

\* The answer does not reach the browser.
LoseAnswer(q) ==
  /\ request[q].pc = "answered"
  /\ left' = left \cup {s \in Stored : Gives(q, s)}
  /\ Continue(q, Idle)
  /\ UNCHANGED <<token, expired, sessions, lapsed, browser>>

\* JWT_AT_EXP has passed; the cookie's Max-Age is another setting.
TokenExpires(t) ==
  /\ token[t] # None
  /\ expired' = expired \cup {t}
  /\ UNCHANGED <<token, sessions, lapsed, browser, request, left>>

TokenCookieExpires(b) ==
  /\ browser' = [browser EXCEPT ![b].at = None]
  /\ UNCHANGED <<token, expired, sessions, lapsed, request, left>>

\* maxAge after the login: no later answer sends the cookie again, as
\* express-session does with rolling ...
SessionCookieExpires(b) ==
  /\ browser[b].sid # None
  /\ left' = left \cup (Stored \cap {browser[b].sid})
  /\ browser' = [browser EXCEPT ![b].sid = None]
  /\ UNCHANGED <<token, expired, sessions, lapsed, request>>

\* ... and maxAge after the last request, by the server's clock.
SessionLapses(s) ==
  /\ sessions[s] # None
  /\ lapsed' = lapsed \cup {s}
  /\ UNCHANGED <<token, expired, sessions, browser, request, left>>

\* The store is in memory; requests being handled get no answer.
Restart ==
  /\ Store([s \in TokenIds |-> None])
  /\ request' = [q \in Requests |-> Idle]
  /\ UNCHANGED <<token, expired, browser>>

Next ==
  \/ \E q \in Requests :
       \/ \E b \in Browsers, f \in Called[q], u \in Users \cup {None} : Send(q, b, f, u)
       \/ Guard(q) \/ Throttled(q) \/ LoginFails(q) \/ Logout(q) \/ Profile(q) \/ AuditTrail(q)
       \/ Receive(q) \/ LoseAnswer(q)
       \/ \E t \in TokenIds : Login(q, t) \/ WhatsappLogin(q, t)
  \/ \E t \in TokenIds : TokenExpires(t) \/ SessionLapses(t)
  \/ \E b \in Browsers : TokenCookieExpires(b) \/ SessionCookieExpires(b)
  \/ Restart

Spec == Init /\ [][Next]_vars

(* ------------------------------- Properties ---------------------------- *)

Answered(q, route) == request[q].pc = "answered" /\ request[q].call.route = route

\* Whatever stale cookies and headers a browser still sends, the right
\* password or a linked number logs it in at exactly the login's URL:
\* JwtAuthGuard lets it pass, and only the rate limit refuses it.
LoginIsNotLockedOut ==
  \A q \in Requests :
    /\ Answered(q, "login") \/ Answered(q, "whatsappLogin")
    /\ request[q].call.for # None /\ request[q].call.exact
    => request[q].status \in {200, 429}

\* Logins over logins and logouts leave no session behind, however requests of
\* a browser overlap: every session in the store is one that a browser holds or
\* is about to be given, or one that its browser lost by itself, when the
\* cookie's time was over, an answer did not arrive, or an answer to an older
\* request took its place.
SessionsAreHeld ==
  \A s \in TokenIds : sessions[s] # None =>
    \/ \E b \in Browsers : browser[b].sid = s
    \/ \E q \in Requests : Gives(q, s)
    \/ s \in left

-----------------------------------------------------------------------------
(* The strengthening that makes the safety properties inductive. *)

Signed(t) == t # None => token[t] # None

\* Tokens and sessions that a cookie or a header names have been given out.
NamesAreSigned ==
  /\ \A b \in Browsers : Signed(browser[b].at) /\ Signed(browser[b].sid)
  /\ \A q \in Requests : request[q] # Idle =>
       LET c == request[q].call IN
       /\ Signed(c.cookies.at) /\ Signed(c.cookies.sid) /\ Signed(c.bearer)
       /\ request[q].pc = "answered" =>
            \A name \in DOMAIN request[q].set : Signed(request[q].set[name])

\* The inductive invariant of the guards.
IInv == TypeOK /\ NamesAreSigned /\ LoginIsNotLockedOut

\* An answer that gives or clears a session follows the end of the session its
\* request came with.
ReplacedIsGone(q) ==
  LET sid == request[q].call.cookies.sid IN
  request[q].pc = "answered" /\ "sid" \in DOMAIN request[q].set /\ sid # None => sessions[sid] = None

\* The inductive invariant of the sessions.
SessionInv ==
  /\ IInv
  /\ SessionsAreHeld
  /\ \A q \in Requests : ReplacedIsGone(q)
=============================================================================
