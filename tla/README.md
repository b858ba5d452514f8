# Formal model of the 2FA / MPC system

The system enrols users for TOTP two-factor authentication without ever keeping
a TOTP secret in one place: the secret is cut into three Shamir shares, any two
of which rebuild it, and each share lives in the database of its own MPC node.
Around that stand an auth service with rotating refresh tokens, a gateway and a
browser front end. This directory holds TLA+ modules of all of them, TLC
configurations that check them on small instances, and TLAPS proofs of nearly
all of the safety properties for every instance.

    tlc -workers 2 -config Overlap.cfg MCTwoFA.tla     # any run of the table in section 3
    tlapm AuthSessionsProofs.tla                       # any of the eight *Proofs modules

## 1. The system

| Component | State it keeps | Operations | Talks to | Module |
|---|---|---|---|---|
| MPC node (`src/mpc`) | table `shares`, UNIQUE(user_id, share_index) | StoreShare (refuses a duplicate), RetrieveShare, DeleteShare (idempotent) | its PostgreSQL, Kafka (audit) | `MpcNodes` |
| TwoFA orchestrator (`src/twofa/internal/services/twofaService`) | none of its own | Setup, Verify, Disable, GetStatus | three nodes over gRPC, PostgreSQL, Redis, Kafka | `TwoFA` |
| TwoFA PostgreSQL storage | `twofa_records` (primary key user_id, is_enabled), `backup_codes` (is_used) | single statements, one transaction for a batch of codes | - | `TwoFA` |
| TwoFA Redis guards | `rate_limit:verify:<user>`, `otp_used:<user>`, both with a TTL | INCR/EXPIRE/DEL, GET/SET, DEL | - | `CodeCheck` |
| Crypto (`internal/crypto`) | none | Shamir Split/Combine over GF(256), HOTP/TOTP with a +-1 window | - | `Sharing`, `OTP` |
| Auth service (`src/auth`) | users (PostgreSQL); refresh tokens, token families, families per user (Redis) | Register, Login, RefreshToken (rotation, reuse detection), Logout, LogoutAll, ValidateToken | PostgreSQL, Redis, Kafka | `Sessions`, `AuthSessions`, `Registration` |
| Gateway (`src/gateway`) | rate limit per remote address and token cache (Redis) | REST to gRPC, access token checked by Auth or the cache | Auth, TwoFA, Prometheus | `Gateway`, `Calls` |
| Frontend (`src/frontend`) | access token in memory, refresh token in a cookie | silent refresh, login, logout, logout everywhere, reload | Gateway | `WebSession`, `Calls` |
| Bootstrap, configuration, mTLS, audit events of the four programs | what is open, the writer's batch | start, serve, drain, close, publish | everything | `Config`, `Service`, `Calls` |
| Generated routes and stubs | - | which path calls which method, what a failed call returns | - | `Calls` |
| Pages and widgets, load tests, monitoring stack, deployment | - | rendering and operations | - | not modelled |

How they interact. Every operation is a request that comes through the gateway
and runs in a goroutine of a service. The orchestrator reads the record first
and keeps it in a local variable, calls all three nodes in parallel (Setup and
Disable with an errgroup whose context the first failure cancels, Verify with
two channels of which it reads until it has two shares or two failures), then
writes PostgreSQL in several statements that are not one transaction. The auth
service keeps a session in three kinds of Redis keys, each with a time to live
of its own, and changes them by pipelines that are no transactions. Nothing
serialises two requests of one user. Every call has a timeout, so a caller may
give up on a call the callee still executes. The browser takes every 401 for an
access token that ran out: it refreshes, once for all threads of a tab, and
sends the call again.

What makes each part correct:

* MPC node: a stored share is not overwritten; a deleted one is gone.
* Setup: all or nothing over three nodes and two tables; a user who was given a
  URI can log in with it although a node is down.
* Verify: a good code passes with any one node down; a backup code and a one-time
  code pass once; what is enabled is what was proved.
* Disable: the user is forgotten only when every node forgot; an error leaves
  something that can be retried.
* Guards: attempts are bounded, the bound goes away again, a code just used is not
  accepted again.
* Auth: a new token is only given for an accepted one; reuse ends its session;
  logout everywhere leaves no live token; every live token can be found from its user.
* Gateway: an expired token passes for at most the cache's TTL; limits end.
* Browser: unless a call fails, cookie and Redis agree on the good token, and nobody
  is signed out because several requests got a 401 together; nobody is left waiting.
* Processes: handlers find open what they use, what was published is delivered,
  a stop ends, an answer of success is true and nothing is carried out twice.

What is hard about it (the list `hazards` of `PROJECT.json` gives the lines): partial
failure of a fan-out or of a pipeline, compensation that deletes by user id whatever it
finds, state read before a call and used after it, check-then-act on a row or a key,
calls that execute after their caller gave up, keys that expire between two commands,
commands whose answer is lost although they were executed, requests that end between two
statements, a shared promise that fails, retries of calls that were done, and shutdown
racing the handlers.

## 2. The modules

    MpcNodes, Enrolment <- TwoFA <- MCTwoFA        TLC: symmetry of secrets and requests;
                                                   Enrolment by INSTANCE ... WITH
                      <- TwoFAProofs <- EnrolmentProofs     TLAPS
    CodeCheck <- CodeCheckProofs                   TLC on CodeCheck; TLAPS
    Sessions <- AuthSessions <- MCAuth             TLC; Sessions by INSTANCE ... WITH
                             <- AuthSessionsProofs TLAPS
                             <- WebSession <- MCWeb
    WebSession, AuthSessionsProofs <- WebSessionProofs      TLAPS
    Gateway <- GatewayProofs                       TLC on Gateway; TLAPS
    Sharing, Registration, OTP <- Algorithms <- MCAlgorithms
                                             <- AlgorithmsProofs      TLAPS
    Config <- Service <- Calls <- CallsProofs      TLC on Calls; TLAPS

Definitions named `X_Something` are mutants: a plausible mistake in the code of
`X`, which TLC refutes under the configuration of the run that checks it.

### MpcNodes - the nodes and the calls to them

One user. `shares[n]` is the secret of which node n holds a share, or `NoSecret`:
node n only ever receives share index n, and UNIQUE(user_id, share_index) makes
that one row. The bytes of a share do not matter to any property, which secret
it belongs to does; encryption at rest is therefore the identity.

An RPC is one step. `StoreShare` and `DeleteShare` say which outcomes its caller may
see: ok (executed), refused by the node, or failed - and then the call was never
executed, was executed although the answer was lost, or is still on its way
(`late`) and executes (`DeliverLate`) or is dropped (`LoseLate`) at any later time.
Only nodes of `FaultyNode` fail by themselves; any node's call may fail for a
request whose context was cancelled. `calm` becomes TRUE at some moment, after
which nothing fails any more: liveness is stated for what follows.

### TwoFA - Setup, Verify, Disable

`record`, `unused` are the user's rows in the two tables; `delivered` is what the user
holds; `req[r]` is the request slot r serves, with the handler's local variables:

| Field | In the code |
|---|---|
| `op`, `stage` | the handler and the line it has reached |
| `seen` | `existing` (setup.go:35), `record` (verify.go:51, disable.go:70) |
| `code` | the code that was sent, or the secret being issued |
| `got`, `call` | the shares received; which of the three goroutines returned, and how |
| `answer` | what the last request of the slot returned |

A handler is a walk through stages; each stage boundary is a call after which other
requests may have run:

* Setup: `SetupBegin` (duplicate check, secret, split) - `SetupStore` per node -
  `SetupStored` (g.Wait) - `CreateTwoFARecord` - `StoreBatchBackupCodes` -
  `SetupReply`; on any failed store `SetupUndo` per node, in order.
* Verify and Disable: `VerifyBegin`/`DisableBegin` - `FetchShare`/`FetchFails` per node -
  `CheckOTP` or `InsufficientShares`, or `LookupBackupCode` - `MarkBackupCodeUsed`;
  then `EnableTwoFA`, or `EraseShare` per node - `SharesErased` - `DeleteBackupCodes` -
  `DeleteTwoFARecord`.
* `Stop` ends a request at a stage of `StopsAt`: the process died, the caller went
  away, or the stage's statement failed; no handler undoes anything in that case.

A credential is <<s, 0>>, the current TOTP code of secret s, or <<s, i>>, the i-th
backup code issued with s. `CheckOTP` accepts when the shares fetched are all of
the code's secret: shares of two secrets combine to a value that fits no code
(up to a chance of about 3 in 10^6, which is not modelled). Whether a matching
code is refused as reused is left open here and decided in CodeCheck, and so is
the rate limiter, whose only effect on a request is that it does not start.
Fresh secrets are drawn from those nothing refers to any more (`InUse`), so a
finite set of secrets stands for an unbounded supply.

Refused requests that change nothing (Setup of an enabled user, Verify without a
record) are not steps.

### Enrolment - what TwoFA promises

The second factor as its user knows it, without nodes, requests or failures. `TwoFA`
is shown to implement it (`KeepsEnrolment`) under this mapping:

| Enrolment | In TwoFA |
|---|---|
| `status` | `record`; `ending` while it is enabled and a Disable erases, drops codes or drops the record (`Standing`) |
| `live` | the secrets of which `Threshold` nodes hold a share (`Live`) |
| `given` | `delivered` |
| `codes` | `unused` |

What it says beyond the invariants is how these may change together: an
enrolment is opened, given and has codes added only for a secret that can be
rebuilt; until it is confirmed shares come and go, but no secret the user was
given comes back; it is confirmed only while a secret the user was given can be
rebuilt; once confirmed nothing is added, and nothing but an accepted Disable
takes shares away; it is forgotten when nothing is left. A Disable that fails
leaves what it left (`GiveUp`), as the code does.

### CodeCheck - rate limiter and code reuse

The two Redis keys with their expiry, for one enrolment of one user. Time
advances in TOTP windows of 30 s (`Tick`); a key set in window w with a TTL of t
windows disappears at some moment of window w + t (`ExpireRate`, `ExpireUsed`; the
clock cannot leave that window before). A code is the counter it belongs to,
valid one window before and after. Each Redis command is a step: INCR (`Attempt`),
EXPIRE (`SetTTL`), the DEL after a failed EXPIRE (`DropKey`), GET (`ReadCounter`), SET
(`StoreCounter`), the DEL at the end of Disable (`Cleanup`). Verify reads the last
counter before it validates the code, Disable after; both orders are kept.
Requests overlap freely. `Failing` names the commands that may fail, each of them
executed or not. INCR is special, because the program acts on its answer: within
one call the client of Redis may send it up to `MaxLost` times more than it is
answered, so that the answer that arrives is 2 for a new key; and when none arrives
(`AttemptUncounted`) the request passes, uncounted or counted, without setting a time
to live. `rate.lost` remembers that a key was made like that. `lastAccepted`, `stale` (the
requests that were under way when that code was accepted) and `admitted` (the attempts
that were counted and passed, each with its window and its number in it) are
history variables for the properties.

### Sessions and AuthSessions - refresh tokens

`Sessions` says what the auth service promises, without saying how: a session
(token family) accepts tokens it issued itself, each over one stretch of time; a
new one is issued for one that was accepted when it was presented, and once for
each time it was; a session that accepts nothing and has no such exchange under way
is over for good. Its state is the sessions opened, the tokens each accepts, the
tokens issued, and `exchange`, the session a request is about to get a token of; its
actions are `Open`, `Present`, `Rotate`, `Abandon` and `Revoke`. It does not promise that a
token is accepted once: the service stores the new token before it deletes the
old one, which stays good when that fails, and two requests may both read a token
before either deletes it. The mapping has a refresh exchange from the moment it read
its token to the moment it stores the next one.

`AuthSessions` is the code. Its state is Redis (`live` = `refresh_token:<jti>`,
`members` = `token_family:<family>`, `families` = `user_tokens:<user>`, the last two with
the time to live they were last given), the users' table, the tokens clients
hold (`delivered`), and `req[r]`, the request slot r serves and the command it is at.
Tokens are numbered in the order they are stored, which is the order they expire
in; `Age` ends the oldest JWT and `Sweep` drops its key later, so keys outlive JWTs.

* Register and Login: `RegisterBegin` - `CreateUser`, or `LoginBegin`; then
  `StoreRefreshToken`, one pipeline of SET, SADD + EXPIRE, SADD + EXPIRE.
* Refresh: `RefreshBegin` reads the token and decides between rotation
  (`StoreRefreshToken`, then the stages of DeleteRefreshToken for the old token) and
  reuse (`FamilyMembers` - `DeleteTokenFamily`).
* DeleteRefreshToken, as Logout and Refresh call it: `FindToken` - `RemoveToken` -
  `CountFamily` - `CleanFamily`.
* LogoutAll: `DeleteAllUserTokens`, one script and therefore one step.

With `Faulty` a pipeline may be executed up to any of its commands and report an
error (`Ran`), a command may fail, and a request may be cut short at any stage
(`Stop`). SADD and EXPIRE of one set are one step of the pipeline. `Racing` is the set of
sessions a refresh of which may overlap other calls for the same session; the
others are calm. What is claimed of every session is `TypeOK` and `KeepsPromise`; the
other properties speak of the tokens of calm sessions, which share the account's keys
with the racing ones. Section 6 says what happens to the racing ones.

### WebSession - the browser

`WebSession` extends `AuthSessions`. A thread <<tab, name>> is one asynchronous
function of a tab; the request slot of the same name serves its calls. State:
the cookie all tabs share, what each tab shows, the access token in its memory
(none, good, stale), and per thread its job, step and the token it read. The
steps are those of apiRequest (`Accepted`, `Unauthorized`), tryRefresh and initAuth
(`ReadCookie`, `PresentToken`, `Granted`, `Refused`, `SaveCookie`), and of the hooks
(`Login`, `Logout`, `Reload`, `ClearAuth`). The shared `refreshPromise` is `Refreshing`: whoever
gets a 401 while it is set waits and is resolved or rejected with it.

With `Unreliable` every call of the browser may go wrong. A request fails without a 401
(`SendFails`); the refresh gets a 429, a 5xx or no answer, before the auth service
saw it (`PresentToken`) or after it rotated the token (`Refused`); the session route does
not give the cookie, does not write or delete it, answers with an error nobody looks
at, or throws (`ReadCookie`, `SaveCookie`, `ClearAuth`). `mishap` says which kind of thing went
wrong since the cookie was last written: a call failed, or a token is not where it
should be (a new one not in the cookie, a given up one still in it).

### Gateway - limiter and token cache

Per remote address a counter with a time to live, per access token a cached
identity; requests interleave at INCR, EXPIRE, GET, the call of ValidateToken
and SET, and a client may hang up at any moment, which makes everything fail that runs
under its request's context (`Works`), INCR included. As in CodeCheck an INCR may have
been executed, up to `MaxLost` times, when its answer does not come (`IncrFails`) or
comes late (`Incr`); `lost` is the set of counters that were made like that. Times are counted
down. `Faults` says which commands fail by themselves.

### Sharing, Registration, OTP, Algorithms - the pure parts

`Sharing`: a byte is a set of bit numbers, addition the symmetric difference;
multiplication by shift and reduce, the exp and log tables, gfMul, gfDiv and gfInv from
them, evalPolynomial, Lagrange at zero, Split and Combine with their error returns.
Split has a draw of coefficients for each byte (`drawn`). Its actions take shares out in
any order. `Registration`: the rules for passwords (a character is its class and the
bytes of its lower case, since runs are looked for in bytes) and for addresses (a
character is its kind), and the expression of the login form. `OTP`: truncation and
codes with the HMAC as a constant function, the window of three periods and the matched
counter. `Algorithms` compares them with what they are for.

### Config, Service, Calls - the four programs

`Config`: the required settings of each program, which come from a file and from
environment variables, each of which says nothing, a zero, something garbled or
something usable; and the keys and certificates that must be readable. It decides which
programs start at all; no property is about it alone. `Service`: one process of one of
the four programs: load, open one resource after the other, listen, serve, drain with a
deadline, close in order, exit; or fail, or crash. Handlers work, publish an audit event
(which may fail, and is then only logged) and reply, or panic. Kafka's writer is
asynchronous (a batch, written later or given up) in auth and mpc, synchronous in twofa;
the gateway has none. `Calls` composes it with what becomes of a call: apiRequest, the
gateway's limiter, authentication and decoding, the handler's outcome through the API's
error switch (a success only with the databases open that it needs, `Needed`), the
answer back, the retry after a 401. `effects[r]` counts how often a call did its work.

## 3. What TLC checks

| Run | Instance | Checked | Shows |
|---|---|---|---|
| `Overlap` | 2 requests, Verify and Disable overlap, Setup alone; node 1 faulty; 2 secrets | `TypeOK`, `OrphansBelowThreshold`, `OnlyDisableTakesApart`, `ErasedBeforeForgotten`, `ValidCodeAccepted`, `EnableProvesSecret`, `SuccessMeansFullyShared`, `KeepsEnrolment` | partial failure of every fan-out, stale reads of Verify and Disable; the refinement of `Enrolment` |
| `Enrol` | Setup alone, Verify overlapping; node 1 faulty; 1 call executes late; 3 secrets | `EnabledImpliesRecoverable`, `OnlyDisableTakesApart` | late calls against rollback and re-enrolment |
| `Progress` | 1 request, cut short at any stage until calm; fairness | `RequestTerminates`, `SetupEventuallySucceeds` | no handler waits for ever; failed Setups do not block enrolment for ever |
| `CodeCheck` | 2 requests, Verify and Disable overlap and are cut short; INCR and EXPIRE fail, executed or not, one INCR's answer lost per call; limit 1 per window, 4 windows | `LimitIsTemporary`, `NotTwiceInARow` | why the DEL after a failed EXPIRE is needed; expiry of the used counter against the moving window of validity |
| `Sessions` | 2 requests, 1 user, 2 sessions of which one races, 3 tokens; pipelines run in part, requests are cut short | `TypeOK`, `Indexed`, `LogoutAllReachesAll`, `ReuseEndsSession`, `FailedRefreshKeepsToken`, `KeepsPromise` | sessions across three keys with times to live of their own; the refinement of `Sessions` |
| `Browser` | 1 tab with 2 threads, 2 sessions, 3 tokens; every call of the browser may fail; fairness | `WebTypeOK`, `CookieIsAccepted`, `KeptSignedIn`, `ThreadEnds` | silent refresh of several requests against rotation and failing calls |
| `Gateway` | 2 requests, 2 clients, 1 token; clients hang up, Redis and auth fail, answers of INCR get lost; fairness | `CounterExpires`, `StaleBound`, `LimitEnds` | cache against expiry, limiter against clients that go away |
| `Algorithms` | all bytes as secrets, some of two bytes; passwords of up to 5 of 9 characters; addresses of up to 7 of 5 kinds; the HMACs of RFC 4226 | `Recovers`, `Hides`, `TablesAgree`, `RunsAreFound`, `TypingOn`, `CanLogIn`, `MatchesRFC`, `CodeLifetime` | each algorithm against its purpose |
| `Calls` | all four programs, 2 calls of 5 methods; fairness | `OnlyLateHandlersBreak`, `EventsOutliveTheProcess`, `CarriedOutOnce`, `SuccessIsTrue`, `StopsForGood` | calls across start, panic, drain, deadline and crash |

Every property has a mutant that TLC refutes under the same configuration.

Three runs are expected to fail, each a place where the code does something other
than its documents, tests or comments say (`findings` in `PROJECT.json` quotes them):

| Run | Violated | What happens |
|---|---|---|
| `RetryDisable` | `DisableCanBeRetried` | one node fails while Disable erases: two shares are gone, the record is still enabled, and once the backup codes are spent no code can be proved, so Disable cannot be retried and Setup is refused |
| `Period` | `AttemptsPerPeriod` | the README of the service promises at most 5 attempts in 5 minutes; the periods of the limiter are fixed, so the last of one and the first of the next pass within one such stretch, up to twice as many (`SlidingBound`, proved) |
| `UiLogout` | `LogoutRevokes` | logout in the browser sends an empty refresh token, which the API refuses; the hook drops the error, and the real token stays accepted until it expires |

### Bounds

* Three nodes and threshold two are the values of the code, not a bound. One
  faulty node is what 2-of-3 is built for; the proofs have no such restriction.
  Nodes are not symmetric (compensation goes in order), so node 1, the first to be
  compensated, is the faulty one: the mutant that stops there leaves most behind.
* One backup code stands for ten: codes are only compared for equality and
  removed one at a time or all at once. `Progress` has none: liveness does not look
  at them.
* Secrets: a leftover share on the faulty node, the codes of a pending enrolment
  and the one being issued need at most three; with `Stop` a fourth. A run that ran
  out would only lose behaviours of Setup, and `Overlap` (two secrets) is where
  that is accepted, since Setup runs alone there.
* Two request slots: the interleaving properties are about pairs.
* `MaxLate` = 1 call still under way in `Enrol`, 0 elsewhere. Nobody disables in `Enrol`; that a
  DeleteShare of an abandoned Disable that executes late is the only other thing that
  takes shares from an enabled user is `FactorOnlyDisabled`, for any `MaxLate`. In
  `Progress` it must be 0: if a store that its caller gave up on always executes right
  after the compensation, a user can fail to enrol for ever, and that is a real
  behaviour of the code.
* `CodeCheck` looks at four windows (`MaxTime` 3), one more than the used counter lives;
  its limiter is scaled from a period of ten windows to one and from five attempts to
  one, so that periods end while a code is still valid. DEL, GET and SET do not fail
  there, and no request ends between INCR and the DEL: section 6 says what happens
  if they do. `MaxLost` = 1: an INCR is sent at most twice. `Period` needs neither failures
  nor overlap.
* `MaxToken` = 3: in `Sessions` one session rotates while the other is opened, in `Browser` a
  login and two rotations; `Room` keeps one number for every token that is still to be
  asked for, so that the bound never makes a thread wait.
* `Browser` sets `Faulty` to FALSE: Redis does not fail there, the calls of the browser do; the
  theorems leave both open. A call is given up only when the service is done with it.
* `Browser` sets `Orderly`: the user acts and reloads only while nothing else runs in
  the tab. Without it two threads may present the same token. `Racing` holds both
  sessions: nothing in the service keeps refreshes apart.
* `Algorithms` draws two vectors of coefficients per byte; `Hides` goes through all draws.
* `Gateway`: `Delay` is how long an answer of the auth service may be on its way; the
  counter of requests stops one above the limit, and times to live are 2 or 3
  units, enough for a period to end while a request is at any stage.
* `Algorithms` scales the limits of length (`MinLength` 2 for 12, `MaxLength` 4 for 128,
  `MaxEmail` 6 for 254, `MaxLocal` 1 for 64) so that inputs on both sides of each exist;
  `SomePasswords` and `SomeEmails` name the inputs.
* `Calls`: `Methods` has one of each kind: one that the orchestrator and one that Auth
  protects, a public one, one of an MPC node, the gateway's own.
* `CHECK_DEADLOCK FALSE`: `CodeCheck` and `Period` (the last window, or the enrolment
  has ended), `Browser` and `UiLogout` (all tokens used),
  `Algorithms` (all shares taken, or one input looked at), `Calls` (the process has ended).

### Fairness

* TwoFA `LiveSpec`: weak fairness of `Proceed(r)`, the handler's own steps: a goroutine
  runs on, and each call to a node or a database returns or times out
  (`mpc_timeout`, the contexts of the gRPC server). It does not assume that a call
  succeeds, except after `calm`. Strong fairness of `SetupBegin(r)` is the user who
  keeps trying to enrol; it is the premise of `SetupEventuallySucceeds` and not a claim
  about the code. Nothing is assumed of `Stop`, `Network`, Verify or Disable.
* WebSession: weak fairness of each thread's own steps (the event loop, and the auth
  service that answers). Nothing is assumed of the user or of expiry.
* Gateway `LiveSpec`: handlers run on, and time passes.
* Calls: main's own steps, its deadline and its return. Of the handlers nothing is
  assumed: that is what `StopsForGood` is about.

## 4. What is proved

For all values of the constants that satisfy the named assumptions of the modules
(any number of nodes, secrets, users, sessions, tokens, clients, requests; any
faults the constants allow):

| Module | Theorem | Statement | Further assumption |
|---|---|---|---|
| `TwoFAProofs` | `TypeCorrectness` | `Spec => []TypeOK` | - |
| | `CodesNeverOrphaned` | `Spec => []CodesImplyRecord` (unused codes only while there is a record) | Setup overlaps nothing |
| | `DisableErasesFirst` | `Spec => ErasedBeforeForgotten` | Setup overlaps nothing, no late calls |
| `EnrolmentProofs` | `EnabledSecretIsProved` | `Spec => EnableProvesSecret` | Setup overlaps nothing, no late calls |
| | `FactorOnlyDisabled` | `Spec => OnlyDisableTakesApart` | Setup overlaps nothing; any number of late calls |
| | `ValidCodesAccepted` | `Spec => ValidCodeAccepted` | Setup overlaps nothing, no late calls; `Threshold` nodes do not fail |
| | `NothingLeftToRebuild` | `Spec => []OrphansBelowThreshold` | same; fewer than `Threshold` nodes fail; no Setup is cut short at its stores, rollback or record |
| | `EnabledUsersCanLogIn` | `Spec => []EnabledImpliesRecoverable` | Setup overlaps nothing, nobody disables, no rollback is cut short; `Threshold` nodes do not fail and fewer than `Threshold` do; any number of late calls |
| | `EnrolmentIsKept` | `Spec => KeepsEnrolment` (refinement of `Enrolment`) | Setup overlaps nothing, no late calls |
| `CodeCheckProofs` | `TypeCorrect` | `Spec => []TypeOK` | - |
| | `LimitEnds` | `Spec => []LimitIsTemporary` (its exception: the answer of the INCR that made the counter was lost) | DEL works, no request ends at EXPIRE or DEL |
| | `AttemptsAreBounded` | `Spec => []SlidingBound` (twice the limit in any stretch as long as a period) | EXPIRE works |
| | `NoReplay` | `Spec => NotTwiceInARow` | GET and SET work; the key lives three windows; requests overlap |
| `AuthSessionsProofs` | `TypeCorrect` | `Spec => []TypeOK` | - |
| | `Implements` | `Spec => KeepsPromise` (refinement of `Sessions`) | - |
| | `TokensAreIndexed` | `Spec => []Indexed` (of calm sessions) | - |
| | `LogoutAllIsComplete` | `Spec => LogoutAllReachesAll` (same) | - |
| | `ReuseIsAnswered` | `Spec => ReuseEndsSession` (same; when the deletion succeeded) | - |
| | `FailureIsHarmless` | `Spec => FailedRefreshKeepsToken` (same) | - |
| `WebSessionProofs` | `WebTypeCorrect` | `WebSpec => []WebTypeOK` | - |
| | `WebUsesAuth` | `WebSpec => Spec` (the auth service under any number of tabs behaves as AuthSessions says) | - |
| | `TabsKeepPromise` | `WebSpec => KeepsPromise` (refinement of `Sessions`) | - |
| | `TabsLogOutEverywhere` | `WebSpec => []Indexed /\ LogoutAllReachesAll` (of calm sessions) | - |
| | `CookieStaysGood` | `WebSpec => []CookieIsAccepted` (its exception: `mishap` holds "token") | one tab, whose user acts while nothing runs in it |
| | `StaysSignedIn` | `WebSpec => KeptSignedIn` (its exceptions: see `mishap`) | same |
| `GatewayProofs` | `TypeCorrect` | `Spec => []TypeOK` | - |
| | `CountersExpire` | `Spec => []CounterExpires` (its exception: as for `LimitEnds` of CodeCheck) | EXPIRE works |
| | `NoStaleToken` | `Spec => StaleBound` | - |
| `CallsProofs` | `CallsTypeCorrect` | `CallsSpec => []CallsTypeOK` | - |
| | `HandlersFindAllOpen` | `CallsSpec => []OnlyLateHandlersBreak` | - |
| | `NoEventIsLost` | `CallsSpec => []EventsOutliveTheProcess` | - |
| | `NothingIsDoneTwice` | `CallsSpec => []CarriedOutOnce` | - |
| | `AnswersAreTrue` | `CallsSpec => []SuccessIsTrue` | - |
| `AlgorithmsProofs` | `CodesLive` | `AlgSpec => []CodeLifetime` | counters and times are natural numbers; no two counters compared have one code |
| | `RegisteredCanLogIn` | `AlgSpec => []CanLogIn` | addresses are sequences |
| | `SecretsOfAnyLength` | `AlgSpec => []Recovers` | `BytesRecover`: it holds for every single byte |
| | `SharesOfAnyLengthHide` | `AlgSpec => []Hides` | `BytesHide`: it holds for every single byte |
| | `ChecksAgree` | `validateOTPAt` and `validateOTPWithCounterAt` agree on every code at every time, and the counter returned is at most one period away and has that code | - |
| | `TruncationStaysInside` | the bytes of a code are among the twenty of the HMAC, and a code is below 10^6 | - |

Most of the further assumptions are necessary, and the instances TLC checks for the same
property satisfy them. The code does not keep two Setups apart, and does not wait for
calls it gave up on: TLC refutes `EnabledUsersCanLogIn` without the first assumption;
and "no late calls" is there because, for one, a StoreShare that executes late can land
between an erase and the deletion of the record; section 6 says what happens without the
others. The statements about sessions and the browser are unconditional where the table
says "-", and the formulas name what they leave out: racing sessions, and what went
wrong in the browser. In a deployment of three nodes and threshold two, "`Threshold`
nodes do not fail" and "fewer than `Threshold` fail" both say that at most one node
does. Nobody disables in `EnabledUsersCanLogIn` because a Disable that erased some
shares and then failed leaves an enabled user without them: that is the run
`RetryDisable`. Codes of six digits may collide; that the counters compared have
different ones is what `CodesLive` is about the window for, and `ChecksAgree` says what
holds without it. `BytesRecover` and `BytesHide` are facts about the field, which has
256 elements: TLC looks at every one of them (run `Algorithms`, all secrets of one byte,
shares taken in every order), and the theorems carry them to secrets of every length.

### The arguments

*TwoFA.* `TypeOK` is not inductive, because that backup codes belong to a real
secret rests on a Setup in progress having one: `TypeInv` adds `SetupHasSecret`.
`AloneInv` adds that stage and operation agree and that while a Setup runs all
other slots are idle (`MayStart`). On it rest two invariants about what a request may
rely on at its stage. `RecordInv`: a Setup about to store codes has a record, a
Disable about to delete the record has deleted the codes. The step to watch is a
second Disable: it deletes a record whose codes another Disable already deleted,
and no Setup can have come in between because Setup is alone. `SharesInv`: where a
call of the store stage returned ok the node holds the secret being issued, where
a call of the erase stage returned ok it holds nothing, and the later stages of
both keep that for all nodes.

*TwoFA, the shares under a request (EnrolmentProofs).* Three more invariants, each over
those before it. `PhaseInv`: no Setup runs for an enabled record, no Disable for a
pending one; a Disable that read an enabled record long ago is still right, because
no Setup can have begun. So nothing takes shares away between the moment Verify
fetches them and the moment it enables the record, which is `FetchInv`: what a fetch
got is still what the node holds, or a Disable deleted it; a node that answered
with an error holds nothing or may fail. `EnableProvesSecret` and `ValidCodeAccepted` follow
with cardinalities: the failures seen are all of faulty nodes, and `NodeCount - Threshold`
of them are not enough to give up. `OrphanInv`: without a record, a node that does not
fail holds a share only while a Setup stores shares or has yet to undo that very
one, so that at the end only faulty nodes are left with any.

`EnrolInv` holds with any number of calls that execute late, where `SharesInv` does not. It
speaks of the reliable nodes only: what a call that is still under way may do is
delete on a faulty node, or store a share of a secret that nobody was given
(`LateInv`, which rests on a rollback that is not cut short); a secret that was given
to the user is on all reliable nodes or, once a later Setup was rolled back, on
none (`WholeOrNone`); that of an enabled record is on all of them (`EnabledWhole`).

*TwoFA implements Enrolment (EnrolmentProofs).* One more invariant, `GivenInv`, says
what a request knows of the secrets users were given: a Setup issues one that
nobody was given, a proof presents one that somebody was. With it and the five
invariants before, every step, handler by handler, is a step of `Enrolment` or a stutter
(`SetupKeepsPromise`, `ProofKeepsPromise`, `DisableKeepsPromise`). A StoreShare may make its
secret one that can be rebuilt, and that one was not given; an erase or an undo only
takes away (`LiveShrinks`); at the record, the codes and the reply all nodes hold
the secret (`SharesInv`); at EnableTwoFA what was fetched still stands (`FetchInv`). Two
overlapping Disables are the delicate part: the status is `ending` while either is
past its proof, so the end of one is a stutter while the other goes on, and the
second deletes a record that is already gone, which changes nothing.

*CodeCheck.* `LimitIsTemporary` is inductive with `TypeOK`. `SlidingBound` is not: it says nothing
of what is still to be let in. `PeriodInv` does: a stretch of `RateTTL` windows that
reaches the present holds at most one full period besides what the key has
counted, and what passed after the window in which the key got its time to
live is in that count. So when the key expires, no sooner than `RateTTL` windows
after it got its time to live, what the next stretch can still hold of the past
is one period's worth; a key that got none does not expire, and its count bounds
what passes. Overlap does not matter since INCR is one command.

`NotTwiceInARow` is a property of a step; what makes it true is `Remembered`: until a code
is valid no longer, the key holds its counter and outlives its validity
(`KeyRemembers`), and so does what every request has read of it that began after the
code was accepted (`RequestRemembers`); the others are in `stale`. Verify reads before it
matches and Disable after, so for Disable what was read counts while the code is
still valid. The key lives three windows because a code may be accepted one window
early.

*AuthSessions.* `Kept` collects what a request carries with it by its operation and
stage (`Shape`), that the families drawn by requests under way are different
(`Distinct`), and whose tokens and families the sets hold (`Owned`). It gives the
refinement, with every overlap: each command maps to a step of `Sessions` or a stutter;
a refresh that found its token presents it, and stores the next one for that
exchange, whatever became of the session meanwhile. For the calm sessions more
holds: requests for them are of different sessions (`Apart`), so that the token a
refresh found is still there when it stores the next (`Guarded`). `Index` strengthens
`Indexed`: the fresh token of a refresh that has not been handed out is known too; each
set on the way to a known token lives at least as long as the token; what
DeleteTokenFamily has read is all of the family that is known; a family about to be
cleaned is empty. Racing sessions write the same sets of the user, but never remove
a calm one from them. `LogoutAllReachesAll` and `ReuseEndsSession` follow from `Index` and the
one step that can give that answer, `FailedRefreshKeepsToken` from `Guarded`.

*WebSession.* `WebKept` adds to `Kept` what a thread is by its job and step (`Form`). With it
every step of the browser is a step of the auth service or leaves it alone, so
`WebUsesAuth` hands the theorems about the service to any number of tabs. What is
claimed of the browser needs one tab. `Serving` says what a thread and the request slot
of its name have to do with each other, `OneAtATime` that at most one thread of the tab
is at a step that changes the session, which is what `refreshPromise` is for, and
`CookieKept` what that is good for: the cookie is accepted, expired, about to be
replaced by the thread at such a step, or `mishap` says why not (`CookieGood`); what a
refresh presents is the cookie (`Presented`), so no good token is ever taken for a
second use (`Reused`); and a 401 for a refresh (`Denied`), and a session that is cleared
(`Cleared`), have their reason. Each step that can fail either leaves the cookie's token
in Redis or puts the failure into `mishap`. With two tabs `OneAtATime` fails, and so do the
two properties: see section 6.

*Gateway.* `Fresh`: a cache entry with n units left was written when the token was at
most `Delay` past its last known life, so the token's age is bounded by what is left
of the entry; and so for the answer of the auth service a request is about to write.
`CounterExpires` is inductive with `TypeOK`: an INCR that makes a key is told 1, and goes on to
EXPIRE whatever its client does, or it puts the key into `lost`.

*Calls.* `Orderly` is about the process: while handlers may run everything is open
unless the drain was cut short, and published events are in the batch or with the
brokers. A step of a call is a step of the process or leaves it alone
(`ProcessSteps`), so it holds of calls too. `Honest` is about a call: it has done nothing
before its handler ran, its handler runs once, and a 401 that is sent again says
that nothing was done - which is where the tables of answers enter (`Tables`).

*Algorithms.* The window is linear arithmetic once the counter of a time is bounded by
it. For addresses, every kind that the expression of the service allows at a
place the one of the browser allows there; what is left is that trimming returns
a sequence, which needs the first and the last position of a set of positions to
exist (`Extremes`, from the well-foundedness of the natural numbers). For sharing,
`DealtInv` says what was taken: shares of the secret that was dealt, of different
nodes, with the coefficients that were drawn. Split works byte by byte, Combine
puts byte after byte together (`Combines`), so what holds of one byte holds of each.
For `Hides` that is not enough: that each byte of a share may be anything does not say
that they may be anything together. They may because each byte has a draw of its
own: the draws for a sequence of bytes are found byte by byte, with the byte's
polynomial a line (`AByteIsALine`), and put together. Were there one draw for all bytes, the
sum of two bytes of a share would be that of the secret's; that is the mutant.

### Only model-checked

* Liveness: `RequestTerminates`, `SetupEventuallySucceeds`, `ThreadEnds`, `LimitEnds` of Gateway,
  `StopsForGood`. Fairness and ENABLED are outside the prover's reach.
* `TablesAgree`, `RunsAreFound` and `TypingOn`, and of `Recovers` and `Hides` the facts about single
  bytes (`BytesRecover`, `BytesHide`): they are about sums, products and concatenations,
  defined by recursion over the data, and what a recursive definition computes for
  every input needs induction, which the prover cannot instantiate.
* `SuccessMeansFullyShared`: what it excludes, two Setups at once, is what would break it.
* `MatchesRFC` compares with the numbers that RFC 4226 prints: there is nothing to
  generalise.

## 5. Not modelled, and why

* AES-GCM, HMAC-SHA1, bcrypt, base32, the URI, JWT signatures: their results are
  compared for equality only, and enter as given functions or as valid / not valid.
* A node that answers with a wrong share (`docs/03 - Security/MPC Fault Tolerance.md`
  lists it as a known limitation).
* The browser's 2FA gate (`pending2FA`, the stored user), the restore on the login page,
  pages, widgets and translations: rendering over the same calls.
* What the monitoring snapshot says, metrics, logging, CORS, the documentation
  pages: they read and format. The route and its answers are in `Calls`.
* Generated message types and their accessors (about 47 % of the Go lines are
  generated protobuf code): no logic of their own. Service descriptors, stubs and
  routes are in `Calls`.
* Optional settings and their defaults, the metrics servers, load tests, the
  monitoring stack, deployment.
* GetStatus and GetRateLimit only read.

## 6. What the assumptions exclude

The passing runs name their assumptions instead of hiding them. Each of these is
what the code does without one, and TLC shows it when the constant is changed:

* `StopsAt = {"create"}` with `OrphansBelowThreshold` (TwoFA): when the INSERT into
  twofa_records fails after all nodes stored, a complete set of shares stays without
  a record; the next Setup fails once and its rollback clears it.
* `"setup" \in Concurrent`: `SuccessMeansFullyShared` and `EnabledImpliesRecoverable`
  fail, because the rollback of one Setup deletes what another stored (no property
  covers overlapping Setups). A second Setup while the first is pending (the setup page
  is reloaded) is refused by every node as a duplicate, and its rollback takes the first
  one's shares; only the third attempt works.
* Backup codes are looked up and marked in two statements: two overlapping requests
  pass with one code.
* `NotTwiceInARow` speaks of requests that began after the code was accepted: GET and
  SET are two commands, and one that read the key before (`stale`) accepts the code
  again. Without its condition on Disable it fails too: the window may turn between
  match and read, and the key expire with it. And since only the last counter is
  remembered, code c passes, then c+1, then c again.
* The answer of an INCR gets lost (`MaxLost`, `"INCR" \in Failing`): the key it made is new and
  nobody is told so. IncrementRateLimit (rate_limit.go:14) sets the time to live on the
  answer 1 only, so that counter never expires; once it is past the limit the user
  is refused until Disable's DEL, and a user who is refused cannot disable. The
  limiter of the gateway (rate_limit.go:22) does the same, and there a client that
  hangs up during INCR is enough. `LimitIsTemporary`, `CounterExpires` and `LimitEnds` name these
  counters as their exception.
* `StopsAt = {"ttl"}` with `LimitIsTemporary` (CodeCheck): a request that ends between INCR and
  EXPIRE leaves a counter that never expires (the DEL shares its cancelled context).
* Racing sessions (`Racing`; nothing in the code keeps a session calm): a refresh that read
  its token before the script of logout everywhere ran stores the next one after it;
  the session lives on, and may no longer be found from its user. `Indexed`,
  `LogoutAllReachesAll`, `ReuseEndsSession` and `FailedRefreshKeepsToken` fail for it;
  `KeepsPromise` says that only such a refresh can revive a session.
* A refresh token is accepted again when its deletion failed after the new one was
  stored, or when two requests read it before either deleted it. The docs speak of
  rotation; neither they nor `Sessions` promise a single use.
* ErrTokenRevoked is answered also when DeleteTokenFamily failed, which is only logged
  (refresh_token.go:34-43). The README of auth (line 67) says the whole family is
  invalidated; `ReuseEndsSession` is about the case in which the deletion worked.
* Failing calls of the browser (`Unreliable`): a refresh that gets a 429, a 5xx or no answer,
  or a cookie that cannot be read, signs the user out (api.ts:38, 44, 95), although the
  token is good. A rotated token that does not get into the cookie (auth.ts:43 does
  not look at the answer), or whose answer is lost, leaves a deleted token in the
  cookie, and the next refresh ends the session. `mishap` names both.
* Two tabs (`Tab` with two members) share the cookie but not the promise: both may present
  one token, which ends the session.
* `"expire" \in Faults` (Gateway): the result of EXPIRE is not looked at, a counter may stay.

Met while reading, and not a matter of a property here:

* The gateway's limiter uses the remote address with its port, so a client that
  opens a new connection has a new counter; the documents speak of a limit per IP.
* ValidateToken is stateless: access tokens survive logout until they expire.
* A gateway that cannot listen logs so and stays, deaf (`DoesNotListen`).
* Containers are stopped after 10 s by default, the drain's deadline is 30 s; a stop by the
  deadline does not wait for handlers.
* config.go says environment variables always override the file; numbers that do
  not parse and empty values do not (`envInt`).
* Passwords of 73 to 128 bytes pass the rules and then fail in bcrypt as an internal
  error, although password_validation.go:15 gives truncation as the reason for the cap.
* Repeated characters are compared byte by byte, so four equal letters of two bytes pass;
  `RunsAreFound` is complete for ASCII only. The forms of the browser have rules of
  their own (no numpad sequence, other letters); only `CanLogIn` is promised by both.
* Without a configured Kafka a no-op producer reports success and delivers nothing;
  `EventsOutliveTheProcess` is about a configured one.
* A row of the monitoring snapshot may be down and still carry numbers.

## 7. Plan

Done: `TwoFA` with `MpcNodes` and `Enrolment`; `CodeCheck`; `Sessions` and
`AuthSessions`; `WebSession`; `Gateway`; `Sharing`, `Registration`, `OTP`; `Config`,
`Service`, `Calls`; the theorems of section 4.

Left: the 2FA gate of the browser as a further job of `WebSession`.
