# Verification of employee_management

TLA+ models, TLC runs and TLAPS proofs for the NestJS backend in this
repository (`src/src`, `src/libs`). Line numbers without a file refer to
`src/src/features/whatsapp/whatsapp.service.ts`.

## 1. Inventory

| component | state it keeps | operations | interacts with | what makes it correct |
|---|---|---|---|---|
| WhatsApp operation queue (`queueOperation`) | `processingQueue`: user -> promise | start, reset, nested start | every caller of the service | one operation per user at a time, first come first served, every call answered |
| WhatsApp client lifecycle | `clients`, `clientStatus`, `reconnectAttempts`, timers, QR promise, session directories | start, reset, destroy, reconnect, health check, logout of all, client events | browser instances (whatsapp-web.js), socket.io, the queue | one live client per user, no user left deaf, none forgotten unless its queue is stuck, starts answered, no crash |
| Gateway, controller, QrThrottle | request times per user | start-client, reset-client, check-status, logout | the service | throttled starts, answers match what happened |
| OTP linking, WhatsApp login | OTP rows, `users.wa_id` | ready/message handlers, verifyOtp, whatsAppLogin | the clients, the users table, JWT | a link is vouched for by a code of that number, a number belongs to one user, active codes survive, codes sent are stored |
| Auth (guards, strategies, session) | JWT cookies, express sessions | login, whatsapp-login, logout, profile, guards | users, roles | stale cookies lock nobody out, logins and logouts leave no session behind, roles are enforced |
| Users, roles, permissions | their tables and join tables | create, register, update (merges roles), list | one another, verifyOtp | an address leads to one account, grants are asked for and kept, links are kept |
| Sessions | sessions table, map of clients | create, status | nothing | nothing it keeps is read again |
| Employees and cache | employees and payroll rows, Redis entries | create, get, update, terminate | RabbitMQ | reads agree with writes, nothing but an update that asks for it undoes a termination |
| Employee events | durable queue `employee_queue`, the consumer's channel | publish, consume, ack | employees | a committed employee is announced, an event is handled at most once and kept until it is |
| Payroll integration | `synced_salaries` | sync-selected | a source of salaries | what was selected is stored, failures store nothing, success means stored |
| Rate limiting | none of its own: the windows are @nestjs/throttler's | the choice of a key, and whom to skip | every request of two routes | users are limited for themselves, administrators are not |
| Audit trail | audit rows | interceptor, getTokens, query | every request | one row per request |
| Query utilities | none | parse sort, build a query, paginate | listings | pages show every account, once |

Hard behaviours. There is one thread, so the interleavings are those of
callbacks between awaits: requests of several browsers, events of clients,
timers (30 s reconnection, 5 min health check, 60 s QR, 30 s QR cooldown, 60 s
throttle), the database, Redis and the broker. Nothing of the WhatsApp state or of
the express sessions survives the process. Code that never runs is not modelled: `WhatsappMultiAccountService` and
`ClientManager` (no module provides them), the `setup*Handler` methods,
`cleanupClient`, `logOutAllSessionx`, the crons (their module is not wired), the
audit subscriber.

## 2. Modules

| module | role |
|---|---|
| `OperationQueue` | `queueOperation` and the way `startClient` and `resetAndRestartClient` use it; its properties and the inductive invariant `IInv` |
| `OperationQueue_proofs` | the theorems about it |
| `MCOperationQueue` | instances for TLC |
| `WhatsappService` | the client lifecycle: the bodies of the operations, timers, events, logout of all, crash; implements `OperationQueue`; properties and `IInv` |
| `WhatsappService_proofs` | the theorems about it |
| `MCWhatsappService` | instances for TLC |
| `EmployeeRecords` | employees: table, cache, creation with its publication; properties and `IInv` |
| `EmployeeRecords_proofs` | the theorems about it |
| `MCEmployeeRecords` | instances for TLC |
| `EventDelivery` | what the announcement of an employee promises: a welcome that is due happens once or is lost |
| `EmployeeEvents` | publisher, queue, consumer; implements `EventDelivery` |
| `MCEmployeeEvents` | instances for TLC |
| `OtpLinking` | codes, links, tokens for a number |
| `OtpLinking_proofs`, `MCOtpLinking` | the theorems about it; instances for TLC |
| `UserAccounts` | accounts and their roles |
| `UserAccounts_proofs`, `MCUserAccounts` | the theorems about it; instance for TLC |
| `AccessControl` | guards, cookies, sessions, tokens; properties, `IInv`, `SessionInv` |
| `AccessControl_proofs`, `MCAccessControl` | the theorems about it; instances for TLC |
| `PayrollSync` | sync-selected |
| `MCPayrollSync` | instances for TLC |
| `Integrations_proofs` | the theorems about `EmployeeEvents` and `PayrollSync` |
| `UserListing` | the paged listing of users over the query utilities; properties and `IInv` |
| `UserListing_proofs`, `MCUserListing` | the theorems about it; instances for TLC |

### OperationQueue

A call is one invocation of `queueOperation`. `stage` says whether it awaits the
entry it found (`waiting`), runs its operation, or has settled; `awaited` is the
`existingOperation` of line 218, `parent` the operation from whose body it was
made (only `resetAndRestartClient` line 174 does that). The map is
`processingQueue`. One action is one synchronous piece of the function:
`Invoke`/`InvokeNested` (213-221, and 228-236 when there is no entry), `Resume`
(after the await, 228-236), `Settle` (the promise and its `finally`),
`ProcessExit`.

Node drains the microtask queue between two callbacks. `Quiescent` states it: while
a promise reaction is pending no request, timer, event or I/O completion is
handled. Reactions of one promise run in the order of the awaits: `ticket`. A
reset whose operation fails before its nested call (line 175) settles without
it.

### WhatsappService

`pc` is the await at which a call stands:

| `pc` | awaiting | left by |
|---|---|---|
| `waiting` | the entry of the user (221) | `Resume` |
| `destroying` | `client.logout()`, `client.destroy()` (1188, 1200) | `Destroyed` |
| `scrubbing` | `cleanupSessionFiles` in `destroyClient` (1209) | `Scrubbed` |
| `cleaning` | `cleanupSessionFiles` in the operation (170, 259) | `CreateClient`, `ReadyToRestart` |
| `initializing` | `client.initialize()` (299) | `Initialized`, `InitializeFails` |
| `awaitingQr` | the QR promise (304) | `Qr`, `ClientReady`, `AuthFailure`, `QrTimeout` |
| `restarting` | the nested `startClient` (174) | `CallNested`, then `Settle` |
| `finished` | nothing: `finally` is the next microtask | `Settle` |

Calls are numbered as they arrive (`NewCall`), and 0 is no call. A `startClient`
creates at most one client, so a client has the name of the call
that created it; `phase`, `listening`, `readyOnce` and `qrPromise` describe it.
`clients[u]` is the map entry. The two awaits of `destroyClient` (logout, then
destroy) are one place, since nothing of the service changes between them. The
retries of `cleanupSessionFiles` are one await whose outcome is whether the
directory was removed (it then resets the throttle). Events may come from any
live client that has listeners, in any order, also while `initialize()` is
pending: the library promises no order. A client that was replaced in the map
but not destroyed keeps emitting. `HealthCheck` is one iteration of the loop of
any instance. `UnhandledRejection` is the end of the process when the QR promise
is rejected while nobody awaits it; `src/src/main.ts` and the logger install no
handler, and Node ends a process by default. Someone restarts it (`Restart`).

Not in the model: what is sent over socket.io, except whether a QR code was sent;
the work of the `message` and `ready` handlers in the database (in
`OtpLinking`); `logout` and `sendMessage`, which look up `this.clients[userId]`
on a `Map`, find nothing, and change nothing (line 1175 has the comment that
explains the mistake, and `destroyClient` the correction).

### EmployeeRecords

Line numbers here refer to `src/src/features/employees/employees.service.ts`. A
request of `EmployeesController` occupies one of `Requests` while it runs and frees
it when it ends, so a behaviour has any number of requests, two of them under way
at a time in the run. `at` is the await it stands at:

| `at` | awaiting | left by |
|---|---|---|
| `inserting`, `addingPayroll`, `committing` | the steps of the transaction (33, 49, 31) | `Insert`, `AddPayroll`, `Commit` |
| `updating` | `repository.update` (76) | `UpdateRow` |
| `lookingUp` | Redis (88) | `CacheHit`, `CacheMiss` |
| `loading` | `findOne` (62) | `Load`, `NotFound` |
| `filling` | `cacheService.set` (71) | `Fill` |
| `comparing`, `saving` | the SELECT and the UPDATE inside `save` (83) | `Compare`, `Save` |

`Fail` lets any of these calls reject. `copy` is the object a request holds; a
termination marks it (`Proceed`), and `save` writes the columns in which it differs
from the row that `save` itself reads: a copy from the cache writes old columns
back. `committed` is a history variable. `event` follows the publication of an
employee as far as the broker. `Crash` ends all requests and keeps the table, Redis
and the ids that were drawn.

Rows are a few columns with a few values and the mark `isActive`. The application installs
no validation pipe, so bodies may name columns that the DTO does not have (`Dtos`). In an update
or a creation that is `isActive`: `PUT {isActive: true}` makes a terminated employee active again, and
`TerminationSticks` says that nothing else does. A creation may name an id: an insert waits for the
transaction that holds the same one (the primary key, `Insert`), and a creation under the id of a row
saves over the row inside its transaction, finds no `createdAt` to publish and is rolled back, as is an
update that names another id, which the payroll's foreign key refuses (both are `Fail`). Rows are never
deleted by the code.

TypeORM and the client of package `redis` 4 are external: `update` writes the named
columns, `save` the changed ones, and `set(key, value, 'EX', ttl)` sets no expiry,
since that client takes an options object. So there is no action that expires an
entry.

### EmployeeEvents and EventDelivery

`EmployeeRecords` ends at the broker; `EmployeeEvents` begins with `publishMessage`
(`rabbit-mq.service.ts`, 48). `unsent` is the memory of the publisher, `queue` the
broker's queue, `step` the await of `handleEmployeeCreated` (`employee.consumer.ts`)
each event has reached. `main.ts` (114) connects the consumer without `noAck: false`;
Nest's default is `noAck: true`, so `Deliver` removes the event from the queue, and
`Ack`, a second acknowledgement, names a delivery the broker does not know and closes
the channel; a handler whose channel was given up meanwhile (`stale`) closes nothing.
`Reconnect`, `Crash` and `BrokerRestart` are the faults. A connection that breaks and a process
that ends take along any messages that are on their way, for the broker has forgotten them
(`OnTheirWay`); Nest publishes messages that are not persistent, so a broker restart empties the
durable queue. `dropped`, `synced` and `cut` are history variables: events that are gone, events whose
payroll call was made, events whose handler the end of the process cut off. `EventDelivery` has three
actions: a welcome becomes due, happens, or is lost; `Due` maps memory, queue and handlers before the
e-mail to it.

### OtpLinking

A handler (`ready` or `message`) and a request (`verify-otp` or `whatsapp-login`)
advance by one database call at a time:

| step | awaiting | code |
|---|---|---|
| handler `user` | the user of the number | 430-448 |
| handler `pending` | `findOne` of a PENDING row | 956 |
| handler `delete` | `delete({ waId })` | 963 |
| handler `save`, `saveOtp` | `save` of a new row, logged or not when it fails | 970-982, 1019 |
| handler `send` | `client.sendMessage` | 984 |
| request `otp`, `user`, `link`, `consume` | the four statements of `verifyOtp` | `auth.service.ts` 166-196 |

`FindPending` may be given any pending row, as the query has no order. Equal
rows count once: what the code does with a row it does with all equal ones.
`Expire` lets five minutes pass for a row. A save that fails in the message handler is
an unhandled rejection, which is `Crash`. `sent`, `issued`, `linked`, `given`
and `tokens` are history variables.

No pipe validates the bodies, so any field may be left out (`Absent`). TypeORM (external) drops such a
condition from the `where` of a find (`Matching`, `WithEmail`, `WithNumber`), compares it as NULL in the
criteria of an update, which then meets no row, and leaves an undefined column of an update alone or sets
a null one to NULL (`Updated`). `SaveWithNumber` is `POST users` or `users/register` with a `waId` among the
further fields of its body.

### UserAccounts

`create` and `update` of `users.service.ts`, one action per statement, the first of which takes
the request (`CheckEmail` also looks the roles up: a role is only ever added, so a creation
that overlaps with one just finds fewer); `Link` is the
statement of `verifyOtp` on the same row. The body's roles are looked up in upper case
(`FindRoles`), addresses are stored in lower case (`Changed`, `CheckEmail`). `Save` is
TypeORM's `save`: it writes every column in which the copy, read some awaits before,
differs from the row as it is now, so afterwards the row is the copy. `fresh` is a history
variable of an update: nobody has written the row since it was read (`Write` takes it away).
`asked` remembers which roles requests asked for an account. Roles are
stored as they are written (`CreateRole`). Accounts and roles are
never deleted: the `remove` methods answer a string.

A creation's body may carry columns beside those of its DTO (`...rest`, 62): the models have the number,
which must be free (`Owned`), and the id, with which `save` writes over the row that has it
(`Insert`, `Saved`: a number that the body does not name stays). Other columns distinguish nothing here.

### AccessControl

A request takes the cookies of its browser at `Send`, passes `passport.session()` and
`JwtAuthGuard` (`Guard`), then the throttler, which may answer 429 (`Throttled`), is handled, and its answer is
applied by the browser at `Receive`, on whatever it holds by then, or gets lost (`LoseAnswer`). `Open` is the
guard's condition with its list of URLs; `exact` says whether a URL is the listed one to the letter, as the
guard compares `originalUrl`, which has the query string in it. `for` is the account the query of a login finds.
`RoleGuard` is modelled by what it does with the roles `getTokens` puts into a
token, which are names: it throws, or answers 403 when there are none, so it lets nobody pass and the model needs no
roles. Tokens and sessions are numbered as they are given out.

A session and its cookie end apart. `main.ts` (83-98) sets `resave: false` and no `rolling`, so a request puts the
expiry of the stored session off and does not send the cookie again: the cookie ends `maxAge` after the login
(`SessionCookieExpires`), the session `maxAge` after its last request (`SessionLapses`). The session store is
express-session's `MemoryStore`, which deletes an expired entry only when its id is read (`Read`, at the guard and at
the answer): one whose browser has no cookie any more is never read and stays. `left` is a history variable, the
stored sessions that their browser lost by itself: its cookie ended, an answer was lost, or the answer to an older
request replaced a cookie. `Restart` empties the store. The lifetimes of a token and its cookie are two more
settings, so each ends on its own. Handlers whose effect is in another module (`register`, `verify-otp`) are here
only as far as the guards see them. `JWT_AT_SECRET` and `JWT_SECRET` are taken to be equal.

### PayrollSync

`syncSelectedSalaries`: `Fetched` filters, starts the save and answers; `Save` ends it later;
a save that fails ends the process (`ProcessEnds`). Salaries are values; the generator keeps one
item per employee (`FakeSalaries`). Rows carry the request that stored them. What every module has
(`Init`, `Next`, `Spec`, `TypeOK`) carries the prefix `PS` here, so that `Integrations_proofs` can extend
this module and `EmployeeEvents`.

### UserListing

`findAll` as a reader sees it page by page. `ParseSort` and `Precedes` give the order, `Place`
numbers the accounts found in it, `Page` and `TotalPages` the page and the meta data; `Found` is the WHERE. TypeORM
(external) pages a joined query over the distinct ids and orders by id last.
`reading.created` and `reading.updated` say what happened while pages were read.

### What is assumed of the environment

- Puppeteer and whatsapp-web.js: `logout`, `destroy` and `initialize` end (by
  success or failure). This is the only fairness assumed besides microtasks,
  timers and file removal, and only for the temporal properties. No event of a client
  is assumed ever to come.
- Calls of the employees' requests end, in `employee_stale_cache`.
- The process and the broker go on with an event they hold while the channel is
  open (`EmployeeEvents.FairSpec`): weak fairness of a continuation in Node's event
  loop or of the broker's delivery. No request, fault or reconnection is assumed to come.
- Resets are not excluded from the runs with a liveness property. `CallsAnsweredUnlessSelfAwaited` claims
  nothing for the calls of a user one of whose resets awaits itself (below), `StartsAnswered` nothing for a process in
  which a reset was asked for.
- `new Client` (318-325) throws only for a user id that `LocalAuth` does not accept as a directory name; user ids
  are taken to be accepted, so `CreateClient` has no failing branch.

## 3. Runs

| run | asks | result |
|---|---|---|
| `queue_safety` | 2 users, 4 calls: order of beginning, lost wakeups, sequential while no promise is shared, self-await, `IInv`; is every call answered unless a reset of its user awaits itself? | holds |
| `service_safety` | 1 user, 3 calls: registered clients sound, a user whom the health check passes over has a timer or a reset that goes on, `destroyClient` removes what it destroyed unless operations overlap, `IInv` | holds |
| `service_liveness` | 1 user, 2 calls: every start answered; refinement of `OperationQueue` | holds |
| `service_qr_timeout_crash` | the QR timer (272) answers instead of crashing | violated |
| `employee_safety` | 1 employee, 2 requests at a time, `isActive` and one more column: only an update that names `isActive` undoes a termination, the cache holds rows the table held, every employee was announced, `IInv` | holds |
| `employee_stale_cache` | "1 hour" (`cache.constants.ts`, 2) | violated |
| `events` | 3 events: at most one welcome each, each in exactly one place, what is delivered is handled to its end unless the process ends; refinement of `EventDelivery` | holds |
| `otp_links` | 2 users, 2 numbers, 1 code, 1 handler, 2 requests with any field left out: what links, VERIFIED rows, tokens and unsent codes say | holds |
| `accounts` | 2 accounts, 3 spellings of 2 addresses, 2 roles, 2 requests: an address leads to one account, roles were asked for, an update that was not overtaken takes nothing away | holds |
| `access_control` | 1 user, 1 browser, two requests at a time, 2 tokens: only the rate limit refuses a login; which sessions are left in the store; `SessionInv` | holds |
| `payroll_sync` | 2 employees, 2 salaries, 3 requests: stored is what was selected, failures store nothing | holds |
| `listing_pages` | 4 accounts, pages of 2, a search, a sort: nobody hidden, nobody twice, `IInv` | holds |

Bounds. Four calls of one user in the queue are enough for two waiters on one promise and a
call that comes while both run; with a reset, whose nested call is one of them, for
starts before and behind it. Users share nothing in the queue, two of them show that. In the
service, three calls give the same overlaps with bodies; the temporal run has two, enough for
a start under way when another operation begins or waits. `MaxReconnectAttempts` is
1 (5 in the code): what matters is being below, at and above it. `MaxTimers` is
1 and one attempt beyond the maximum is counted. One `logOutAllSession` runs at a
time. A request is only taken if a call is left for it and for the nested calls
that are owed (`RoomFor`). For the employees, two requests at a time give every overlap
of a read, a write and a save with another one, and `isActive` with one more column lets a save mix
an old column with a new one; an id that is drawn and one that is named in a body can be the same.

Events do not influence one another except through the channel: of three, one can close
it, one be delivered and one be queued. In `otp_links` two requests race for the same and for
different numbers, and a second number tells links apart; handlers of one number overlap only in
the proofs, which hold for any number of them and of codes. Two accounts are
enough for a clash of addresses or numbers, two requests for every overlap of a read with
a save, and two roles for one that is there and one that is asked for. The bodies
of creations (`Creations`) ask for the default role, for none or for another, and those that carry
a number or an id of their own ask for the default.

The guards look at one request and at what other requests have left in the cookies, and what becomes of sessions
depends on the order of the answers, so `access_control` has two requests of one browser. One of them takes every
route, and of the logins and one closed route also with a header, a query string or a final slash; the one beside it
logs in and so leaves a session and a cookie (`Called`). In `listing_pages` four
accounts make a full last page, a page that is not full and an empty result.

`TypeOK` of the queue, the employees, the service and the listing is a conjunct of their `IInv`, that of
`AccessControl` of its `SessionInv`: these runs check the inductive invariant the proofs use.

Symmetry is used for safety only (requests, ids, columns and values of the employees; users,
numbers, codes, handlers and requests of the OTPs; requests of the accounts; employees and salaries).

### Findings

1. A QR promise that is rejected before it is awaited ends the process (line 275):
   by the 60 s timer when `initialize()` takes longer or has failed, or by `ready` or
   `auth_failure` during `initialize()` (`service_qr_timeout_crash`).
2. A cached employee never expires (`cache.service.ts`, 35): what was read once
   is answered for ever, after updates and terminations too (`employee_stale_cache`).

### Observed in the models

These behaviours are reachable in the models as they are in the code, and no run states the
opposite.

- `queueOperation` is not sequential (line 219): after its await it does not look
  at the map again, so all waiters of one promise begin together. "Sequential processing of
  requests per client" (212) holds as long as no promise has two waiters
  (`SequentialUnlessShared`, proved).
- `resetAndRestartClient` deadlocks with itself (line 174), unless shared waiting
  has replaced the entry. The user's later calls wait for ever, and so does the
  instance of the health check that made the call (`LoneResetAwaitsItself` and
  `SelfAwaitNeverResolves`, proved). A user at exactly the maximum of attempts, whom the health check passes over,
  is forgotten then: `PassedOverIsRecovering` is about the users whose queue is not stuck.
- `logOutAllSession` forgets a client started meanwhile (`ClearClients`, line 1292).
- A start within the QR cooldown of the previous one is answered with a code that
  is not shown (`Qr`, line 359).
- A start replaces a client that became authenticated while the session files were being
  removed (`Begin`, `CreateClient`, line 263); one of a user that is `initializing` or `ready`
  replaces a live client.
- A code whose save failed is sent (`SaveCode`, line 981), and an expired code takes the active
  ones of its number with it (`DeleteRows`, line 964).
- An update of an account that another update, or a verification, overtakes takes back the
  role or the number it wrote (`Save`, `users.service.ts`, 246): `UndisturbedUpdateTakesNothing`
  says when it does not. An update goes on when only some of the roles asked for exist
  (`FindRoles`, 228). A role created in lower case is never found.
- Bodies are not validated. `PUT employees/:id` with `isActive` makes a terminated employee active again
  (`employees.service.ts`, 76). A verification without a code passes on any row of its number, one without a number or
  an e-mail on any row or account (`auth.service.ts`, 166-191); a login without a number is answered with some
  account's token (124-126). `POST users` and `users/register` with a `waId` give an account a number that no code
  vouches for, and with an `id` save over the account that has it (`users.service.ts`, 62-84).
- Sessions pile up in the store when their browser loses them: the cookie is not renewed while the session is, an answer
  is lost, or the answer to an older login comes last (`left`). Nobody reads their ids again, so not even their
  expiry removes them; `SessionsAreHeld` says that there are no others.
- A login whose URL has a query string or a final slash is not on the guard's list, and an old cookie locks it
  out (`Open`, `jwt-auth.guard.ts`, 37).
- `RoleGuard` expects roles with names and gets names (`role.guard.ts`, 27): the audit
  trail is closed to every account, with 500 to those that have a role (`RoleGuard`, `AuditTrail` of `AccessControl`).
- A message counts as acknowledged when it is delivered, since `main.ts` (115-122) leaves `noAck` at Nest's default,
  and not "after processing" (`employee.consumer.ts`, 51): a crash in the handler loses it (`Crash`, `cut`).
- The acknowledgement of the first event makes the consumer deaf: later ones stay in the queue until something
  makes it connect again, which nothing promises (`Ack`, `Reconnect`, `employee.consumer.ts`, 51). An event whose
  publication fails is logged and gone (`Emit`, `rabbit-mq.service.ts`, 58), and so is one that is on its way when the
  connection breaks (`Reconnect`).
- A synchronisation is answered before it is stored (`Fetched`, `Save`,
  `integrations/payroll/payroll.service.ts`, 76), and overlapping ones may store different salaries of one
  employee: `StoresWhatWasSelected` compares a row with the selection of its own request only.
- A termination puts columns back to what the cache holds; an employee may be announced and
  rolled back.
- The reconnection counter returns to 0 with each start, so that the maximum is only reached by
  several failures of one client.

Seen while reading: the comments at lines 56 (`30000; // 5 seconds`) and
`qr-throttle.service.ts:9` (`60_000; // 30 detik`) differ from the values; `POST
whatsapp/start/:userId` creates a client and drops it; permissions without an action can be
stored twice (`permission.entity.ts`, 14).

## 4. Proofs

`OperationQueue_proofs` proves for all sets of users and calls, from
`NullAssumption` (the null values are not members): `TypeCorrect`, `Invariance`
(`IInv`), and from it `Sequential`, `ArrivalOrder`, `NoLostWakeup`, `SelfAwait`, and
`LoneReset`.

The properties are not inductive alone. `WaitersAwaitTheEntry` needs that a user's
entry is a running operation of that user (`EntryRuns`), or removing it could strand
waiters; `BeginsInArrivalOrder` needs that the waiters of a user await the same
promise (`WaitersShareThePromise`), as only those are ordered by `Resume`; and
`SequentialUnlessShared` needs that when a lone waiter becomes ready the entry is gone
(`ReadyMeansNoEntry`), that is, that the operation it awaited was the last. The
lemmas follow the code: `EnterPreserves` (a call comes in, nested or not),
`ResumePreserves`, `SettlePreserves`.

`EmployeeRecords_proofs` proves for any employees, requests, columns and values, from
`NullAssumption`: `TypeCorrect`, `Invariance` (`IInv`), `CacheIsCommitted`,
`Announced` and `Termination`. That the cache holds committed rows needs that a row,
once there, stays (`TableIsCommitted`), that an object on its way to the cache is
unmarked (`FillsAreCommitted`), and for `Termination` that a commit meets no row,
because no two transactions hold one id and none holds that of a row (`CreatesOwnIds`, from the primary key, also for
ids that bodies name), and that only marked objects are saved (`SavesTerminate`): what is left is an update whose
body says `isActive: true`, and the theorem names that update. Lemma `SavedRow` is the algebra of `save`.

`Integrations_proofs` proves for any set of events: `TypeCorrect`, `Invariance`, `AtMostOnce`,
`NoneForgotten` and `Implementation` (`ImplementsDelivery`). That nobody is
welcomed twice needs that an event is in one place only, and that one which is in a place has
not been welcomed and not been dropped, through deliveries that a broken connection takes along (`NoneForgotten` states
it: exactly one of the `Whereabouts`); from that each action is an announcement, a
welcome, a loss or a stutter of `EventDelivery`.

For any employees, salaries and requests of a synchronisation it proves `PSTypeCorrect`,
`PSInvariance`, `Selected` and `FailedStoredNothing`. The invariant `Batches` follows a batch
from the answer to the table: it is in one of the two places, never in both.

`OtpLinking_proofs` proves for any users, numbers, codes, handlers and requests, from
`NoneAssumption`: `TypeCorrect`, `Invariance`, `LinksAreVouchedFor`, `MarkedAfterLink`,
`TokensAreLinked` and `CodesAreOnTheirWay`. `verifyOtp` looks the row up three awaits before it
links, and rows may be deleted meanwhile, so the invariant says what a request has learnt at each
await (`RequestsKnow`): after the lookup a code was issued for the number its body names, and the code if it names
one; at the marking its link is made. `ColumnIsLinked` carries links, and numbers that accounts were saved with, to the tokens a later
login gives out. The theorems hold for bodies that leave any field out, and say only as much as such a body
does: a number without a code is vouched for by some code of the number.

`UserAccounts_proofs` proves for any accounts, spellings, roles and requests, from
`CaseAssumption` (lower and upper case are idempotent), `BodyAssumption` (the bodies of creations are
bodies) and `NoneAssumption`: `TypeCorrect`,
`Invariance`, `OneAccount` and `OnlyAskedGrants`. A row is in a request's hands for some awaits before
it is written, so the invariant says of every record a request carries that its address is in lower
case, that its roles were asked for, and that the account it edits is stored (`Sound`); the unique
index is `AddressesDiffer`.

For `UndisturbedUpdateTakesNothing` the invariant is joined by `CopiesMirror`: the
copy of an update whose row nobody wrote since it was read differs from the row in the columns
the update changed and in no other (lemma `MirrorsKept`, one step per statement), so that saving the whole copy
takes nothing (`UndisturbedUpdates`).

`WhatsappService_proofs` proves for any users, calls, timers and maxima, from `NullAssumption`
and `BoundAssumption`: `TypeCorrect`, `Invariance`, `RegisteredIsSound`, `PassedOverIsFollowed`,
`QueueImplemented`, `QueueInvariant` and `DestroysRegistered`.

- The inductive invariant is `IInv`. A client has the name of the call that created it, so a new
  one is fresh only because calls are numbered as they come (`CallsAreNumbered`) and what is alive
  was created by a call that was made (`ClientsWereCreated`). A reset can make its nested call
  only if `RoomIsKept`, an argument about the cardinality of `Owed`. `PlacesFit` says what a call
  at an await must be: the call from which `destroyClient` was entered has captured a client
  of its own user. `RegisteredClientIsSound` is a conjunct of its own.
- `PassedOverIsFollowed` needs `AttemptsAreFollowed`: as long as attempts are counted
  and not exhausted, a timer or a reset that is not through is on its way (`Followed`), and a user
  whose client is connected has no attempts. Each place that writes the counter, the status or the
  timers is a step of that lemma. A reset that awaits itself is not through either, and never will be, so the
  property leaves out the users who have one (`Queue!SelfAwaited`); that the resets of the others go on is
  `CallsAnsweredUnlessSelfAwaited` of the queue, checked by TLC.
- `QueueImplemented` takes the actions one by one: a request, an awaited promise that settles,
  a nested call and the end of the process are the actions of `OperationQueue`, all others
  leave its variables alone. With it the theorems of `OperationQueue_proofs`, instantiated with
  the refinement mapping (`QueueProofs`), are theorems about the service: `QueueInvariant`.
- `DestroysRegistered` combines the two layers. While one call awaits `client.destroy()`, only
  another operation of the same user could register a client; by the invariant of the queue two
  of them run at a time only if calls of that user awaited one promise (`SharedStays`: once so, it
  remains so).

`AccessControl_proofs` proves for any users, browsers, requests, calls and numbers of tokens, from
`BoundAssumption` and `CallAssumption`: `TypeCorrect`, `Invariance`, `LoginsAreOpen`,
`SessionInvariance` and `SessionsHeld`.

- A guard looks up what a cookie names, so the types alone are not inductive: `NamesAreSigned`
  says that whatever a cookie, a request or an answer names was given out, and has a user.
  `LoginsAreOpen` follows through the guards, request by request.
- A session is followed from the handler that makes it, through the answer that carries it, to the
  browser that holds it, and out of the store. `Receive` may replace a cookie only because the session that the
  request came with is gone by then (`ReplacedIsGone`), whatever requests of the browser are under way besides; if
  the browser has another one by then, that one joins `left`. `SessionsHeld` has no further hypothesis.

`UserListing_proofs` proves for any accounts, names, sort parameter, search and page size, from
`PagingAssumption`: `TypeCorrect`, `Invariance`, `NobodyHidden` and `EachOnce`. The result is defined by
the `Place` of an account, the number of those that come before it plus one. `Precedes` is a strict total order
(`Irreflexive`, `Transitive`, `Total`): the first column in which two accounts differ decides, and there is one
because the id is the last column. So places are the numbers from 1 to the count, each
taken once (`PlacesAreTaken`: an injection between sets of one size), a page is the accounts of
its places (`PageRows`), and `totalPages` reaches the last of them (`LastPage`). A creation moves the
accounts found only to later places (`Creating`), which is why the invariant of the unfinished listing
(`OldOnesWereShown`) survives it; an update may move one to an earlier place, which is why both properties
exclude updates.

Only model-checked are the temporal properties under fairness, `CallsAnsweredUnlessSelfAwaited`,
`StartsAnswered` and `DeliveredIsHandled`: the provers have no rules for ENABLED. What `ParseSort` computes is
not the subject of a theorem either; those of the listing hold for whatever columns it returns.

## 5. Not modelled

- Sessions: `createSession` starts a client under a random id and stores a row; nothing hears
  its event, `getSession`, `deleteSession` and `handleIncomingMessage` have no caller, and
  the status route reads a path parameter its path does not have.
- Audit trail: one insert after the answer, whose failure is logged. Nothing reads the table but its
  own route, which `RoleGuard` closes (`AccessControl`); the subscriber is not registered.
- Error codes: single statements on one table. Scheduler and payroll feature: their module
  registers no cron. Passwords: calls of bcrypt.
- Rate limiting: that a request may be answered 429 is a step of `AccessControl` (`Throttled`); the windows are the library's. The guard chooses a key (the user of a token in
  the authorization header, else the address, so that browsers, which send the token as a cookie,
  are limited by address) and skips administrators by `r.name` of roles that are names
  (`custom-throttler.guard.ts`, 88), so it skips nobody. One route uses one of its decorators.
- Permissions: rows that hang on roles; the answer of a login lists them and no guard reads them.
- `buildFindOptions`, the Redis storage of the throttler, `changeUserRole`,
  `WhatsappMultiAccountService`, `ClientManager`: nothing uses them.
- Bootstrap and configuration, filters, logging, API documentation: wiring and formatting. What the
  models use of `main.ts` (sessions in memory, the consumer's options, no handler of
  unhandled rejections) is named where it is used.

## 6. Plan

1. The interplay of `EmployeeRecords` with its events: the employees announced there are the events published.
2. What a reader sees of an update during a listing.
