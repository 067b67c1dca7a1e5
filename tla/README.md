# A TLA+ verification project for BankOS

BankOS is a set of services around a banking core. Two of them hold the program's own logic and all
of its hard behaviour: the **identity service** (`services/identity`, Express, Prisma, Redis), which
registers accounts, logs them in, rotates their refresh tokens and resolves their roles, and the
**gateway** (`services/gateway`), which authenticates, limits, retries and proxies what clients send.
`services/customer360` is two read-only queries and `services/credit-risk` one stateless decision;
the other service directories hold no program. This project models the first two.

In order of reading: the inventory (1), the modules and how they correspond to the code (2), the runs
with their bounds and fairness (3), the proofs (4), what is not modelled (5) and what is left (6).

## 1. Inventory

| part | state it keeps | operations | talks to |
|---|---|---|---|
| Sessions (`LoginService`, `RefreshTokenService`, `LogoutService`, `DeviceSession`, `User`) | `users` (failed attempts, lock), `device_sessions`, Redis `bl:<jti>` | login, refresh, logout | Postgres through repositories, Redis, Argon2, the event dispatcher |
| Accounts (`RegisterUserService`, `ForgotPasswordService`, `ResetPasswordService`, `SendVerificationEmailService`, `VerifyEmailService`) | `users`, `user_roles`, `password_reset_tokens`, `email_verification_tokens` | register, forgot, reset, send verification, verify | the same, and the mailer |
| Roles and permissions (`modules/auth/services/*Role*`, `*Permission*`, `PermissionResolver`, `AuthorizationEngine`) | `roles`, `permissions`, `user_roles`, `role_permissions` | create, delete, grant, revoke, assign, remove, resolve | Postgres; login and refresh call the resolution |
| Policy checks (`requireAuth`, `PolicyEngine`, `RBACEvaluator`) | none | match a token's permissions with wildcards, audit a denial | the token; the event dispatcher |
| Token keys (`KeyManager`, `JwksBuilder`, `JwtTokenService`) | the key set in memory, read when the process starts | sign, verify, publish | the configuration |
| Redis services (`RedisRateLimitService`, `RedisCacheService`, `RedisTokenBlacklistService`) | Redis keys with a time to live | INCR and EXPIRE, get and set, blacklist | Redis |
| HTTP edge of identity (`app.ts`, `validateRequest`, `extractClientMeta`, `extractAuthToken`) | the body a service is given | a chain of checks per request | the services |
| Events and audit (`DomainEventDispatcher`, `AuditEventHandler`) | `audit_events` | dispatch | Postgres |
| Gateway proxy (`middlewares/resilience.ts`, `routes/proxy.ts`) | circuit breaker, `res.locals`, the response | try, time out, retry, degrade | the breaker and proxy libraries, the downstream service |
| Gateway edge (`app.ts`, `middlewares/*`) | the limiter's counts, in the memory of each process | a chain of checks per request | identity's tokens |
| Start and shutdown (`server.ts`, `index.ts`) | the server, connections, a ten-second timer | start, drain, exit | the process |

How they interact: every handler of the identity service is an `async` function whose awaits are
queries. No handler opens a transaction around two queries, so that requests of one process, and of
several replicas, interleave at every await and share the tables. A request's entities (`User`,
`DeviceSession`) are copies of rows; saving one writes what the request believes. The gateway's
attempts of one request share one response object and `res.locals.proxyReject` and `proxyResolve`,
which each attempt overwrites.

What is hard, and what must hold in spite of it (each is a hazard of `PROJECT.json`, at its line):

- stale copies: a login writes back a counter and a lock that somebody else has changed;
- check and then act: two refreshes of a token, two registrations of an address, two creations of a
  role, a deletion between a look-up and the write that relies on it;
- several writes without a transaction: revoke and save, insert, assign and issue, blacklist and
  revoke; the process may die, or the call fail, between any two;
- reads without a snapshot: roles and permissions of a token come from four kinds of query;
- abandoned work that goes on: an attempt that timed out may still be answered or fail while the
  next one runs;
- events that are dispatched after the write they report, or before the answer that relies on them;
- processes that start from a configuration which changes under them: a token is signed by one replica
  and verified by another, or by whoever cached the keys an hour ago;
- a process that is told to stop, with connections that go on sending requests;
- what a client may slip in beside its request: identity headers, unknown keys of a body.

What makes each part correct is in the last column of the runs (section 3): locks and counters that
agree, answered logouts and denials that hold, tables without orphans, tokens that verify wherever they
may be presented, one answer per request, and at most one downstream call for a request that is not
idempotent.

## 2. Modules

| module | models | abstract specification |
|---|---|---|
| `UserAccount` | the lockout part of `User.ts`, as operators on a row | |
| `AuthSessions` (EXTENDS `UserAccount`) | login, refresh, logout | `SessionRegistry`, by `INSTANCE` and `ImplementsRegistry` |
| `SessionRegistry` | what the sessions table promises | |
| `Accounts` | registration, mailed tokens | |
| `Rbac` | administration of roles, resolution for a token | `Inherited`, the reference definition of inheritance |
| `ResilientProxy` | the gateway's proxy | |
| `Gateway` (EXTENDS `ResilientProxy`) | one process of the gateway: the chain of `app.ts` before the proxy | `ResilientProxy`, by `ImplementsProxy` |
| `Permissions` | the matching of permissions, as operators | `Below` in `MCReplicas`, over the segments of names |
| `Replicas` (EXTENDS `Permissions`) | the processes of the identity service: keys, connections, guards, the Redis limiter, shutdown | |
| `MC*` | small instances: the symmetry sets, payloads and guards | |
| `*_proofs` | theorems | |

A request is a slot of `Requests`: a program counter named `<handler>.<await>` and the handler's
locals. An action begins where a promise settles and runs to the next await, so that every query is
one atomic step and whatever the code computes in between belongs to it. `Fail` is an awaited call
that throws, a process that dies or an answer that is lost: the locals vanish and what was written
stays. A crash of the process is a `Fail` of each of its requests. `Replicas` has the processes
themselves, with a `Crash` that takes all their connections at once. The mutants of the definitions,
each marked `Mutant`, stand before the definition they change and are used by no specification.

### AuthSessions

`user`, `session`, `blacklist` and `audit` are the tables. `age` is time: it moves a session's tokens
from valid to "access token expired" to "refresh token expired"; the configuration gives access
tokens the shorter life. `held` and `loggedOut` are what clients have seen. `session[s].parent` is
history, as is the session an audit row is labelled with (the row stores the user).

| action | code |
|---|---|
| `LoginBegin` ... `LoginFind` | the query by e-mail; an unknown address gets a dummy verification |
| `LoginRefuseLocked`, `LoginWrongPassword`, `LoginRightPassword` | Argon2's answer, the check of the lock on the copy |
| `LoginStoreFailure`, `LoginStoreSuccess` | `userRepository.update`: the whole row from the copy |
| `LoginSave`, `LoginDispatch`, `Respond` | the new session, its event, the answer |
| `RefreshFind`, `RefreshReject`, `RefreshRejectRevoked` | the query by the token's hash and the checks on the copy |
| `RefreshCheckUser`, `RefreshRevoke`, `RefreshSave` | the user, then the two saves |
| `LogoutBegin`, `LogoutBlacklist`, `LogoutFind`, `LogoutRevoke`, `LogoutDispatch` | `LogoutService.execute` |

A row is found by the hash of the token that was presented, so its hash matches: the replay branch of
`RefreshTokenService.ts:41-50` and the mismatch of `:56-58` cannot be taken and are no actions. The
model gives logout access tokens as bearer tokens and refresh tokens in the body, not swapped.
`User.unlock` has no caller. The `UserLocked` event of a failed login is dropped with its copy.
The blacklist is written and never read (`isBlacklisted` has no caller), so the model states what is
in it and not what it prevents.

### Accounts

One table of tokens stands for both, whose code and columns are the same. The model shows what the
code does: `PrismaUserRepository.save` is an INSERT, so that reset and verification throw when they
hand it a loaded user, and what follows (`markAsUsed`, the deletion, the revocation of sessions) is
no action because it is not reached. Nothing creates the role `user` that registration needs: that is
`SeedRole`, an operator's action outside `src`. A registration's raw token is dropped, so that only
`send-verification` mails one. A reset ignores the result of its password policy check.

### Rbac

Role names are unique and are what tokens and queries use; a role's id is drawn once. `Collect` is
`collectRoles` of `PermissionResolver`, as a recursive function; `Inherited` is inheritance as the
least set closed under parents, to which the run compares it and the proofs show it equal. `findPermissions` is called for
one role after the other; the model allows any order. A login or a refresh calls the resolution
between `LoginStoreSuccess` and `LoginSave`, and between `RefreshRevoke` and `RefreshSave`; it
reads other tables than `AuthSessions` writes, so that the two modules share no variable and compose
by interleaving. `hadRoles`, `hadPerms` and `writes` are history. The application mounts no RBAC
route, `AssignRoleService` and `RemoveRoleService` have no route at all, and the routes' dispatcher
has no handlers, so that no audit row is written; the services are modelled as they are written.
`RoleController.update` changes nothing.

### ResilientProxy

`pc` is `executeWithRetry`: waiting for an attempt (`fired`), in the pause before the next one, or
done. `call[r][k]` is the downstream call of attempt `k`, which lives on when the breaker has given
the attempt up. `answer` is whose headers were sent, `ended` the `finish` event. The breaker (opossum)
and the proxy library are outside `src` and are modelled by what `resilience.ts` and `proxy.ts` expect
of them: the errors they name, a half-open breaker that lets one attempt through, statistics that are
a choice. An answer that finds headers sent is `dropped`. Clients do not disconnect in the model.
`proxy.ts:52-65` is not reached, since `proxyReject` is always set.

### Gateway

`edge[r]` is where the chain of `app.ts` is with a request, or the status it was answered with.
The chain pauses twice, for the body and for the verification of a token, and an action goes from one
pause to the next. `vars` of `ResilientProxy` and the edge's variables are disjoint; `HandOn` is the
one step that changes both.

| action | code |
|---|---|
| `Receive` | `rateLimitMiddleware`, which may refuse any request; `cors`, `validateHttpMethodMiddleware` |
| `ReadBody` | the parsers and their errors, `validateContentTypeMiddleware`, `sanitizeHeadersMiddleware`, the open routes |
| `Authenticate` | `authMiddleware`: the token's headers are set, the request goes to a proxied route or to the 404 handler |
| `ProxyRetry`, `ProxyTimeout`, `ProxyDownstream`, `ProxyReset` | the actions of `ResilientProxy`, the edge unchanged |
| `Leave`, `ProxyRecycle` | bounds: the slot serves its next request |

Which origin, method, body and token a request brings is chosen at the check that reads it, so that
the model has every order of answers without modelling their contents. OPTIONS is answered by `cors`
and HEAD is refused. `x-forwarded-user` stands for the three headers that are stripped and never set.
A header of the client is tracked by who set it. The replicas of the gateway share nothing, so that one
process is the whole of it, but for the limiter: `express-rate-limit` is given no store and counts in
the memory of its process, which is external and left out (section 5).

### Permissions

A name is a sequence of characters, since the code cuts characters off it (`slice(0, -2) + '.'`,
`startsWith`). `Permits` is what the four guards ask of a token. `PolicyEngine.not` has no caller.

### Replicas

`status[p]` is a process from its start to its exit, `ring[p]` the keys it read then, `config` what the
next start will read. `conn[c]` is a connection: its process, the step of its request, and who set
`ipAddress`, `userAgent` and `accessToken` of the body. `signed` holds the kids of live tokens,
`cached` the JWKS document a consumer has. `audit` and `forbidden` are about a connection's last
request, `window` is the limiter's key in Redis.

| action | code |
|---|---|
| `Start`, `Crash` | `KeyManager`'s constructor, which throws unless the active key is there and has a private part |
| `Signal`, `Closed`, `Exit`, `ForceExit` | `gracefulShutdown`: `server.close`, its callback with Prisma and telemetry, the ten-second timer |
| `Accept`, `Close`, `EdgeAnswer` | connections, and the answers of the chain of `app.ts` (`middlewares/security.ts`) before a route |
| `Service`, `ServiceEnds` | a strict schema, `extractClientMeta`, `extractAuthToken`, then the service, which verifies and signs |
| `Guard`, `Dispatch`, `Forbid` | `requireAuth.ts`: the decision, the awaited `AuthorizationDenied`, the 403 |
| `Increment`, `SetExpiry`, `ResetAttempts`, `WindowEnds` | `RedisRateLimitService`: `MULTI INCR TTL`, EXPIRE, DEL, the TTL |
| `FetchJwks`, `JwksStale`, `TokensExpire` | `JwksController` with its `max-age`, and time |
| `RollOut` | the operator, outside `src`: `Publish`, `Activate`, `Retire` |

The operator may do anything in any order: publish a key with or without its private part, make any key
active, known or not, and take any key out, the active one included. The code refuses none of it, but
for a start with an active key that is missing or cannot sign (then the other replica goes on).
`hasty` is history: the keys that were made active while a running process or a cached document did not
know them, or taken out while a token, a process or the configuration used them. `TokensVerify` says
that only their tokens can ever fail: all that the rolling restarts, crashes, failed starts and caches
need is that order, which is the operator's part. `body` of a service and the guards' denial are
about any route: at this commit no route of the application uses a guard or the Redis limiter, and they
are modelled as the handlers of routes that would. The count of the limiter is left out. A second
signal changes nothing that the first one did not. `AuthorizationDenied` names an empty event, so that
its row carries no name; that there is a row is what the model states.

## 3. Runs

| run | instance | shows |
|---|---|---|
| `auth_sessions` | one account, a stranger, 2 sessions, 2 requests that may fail, threshold 2, everything expires | `LockAgreement`, `ChainRevoked`, `HeldBacked`, `AuditTruthful`, `LogoutHolds`, `LockFreezes`, `SpentMintsNothing`, and the refinement of `SessionRegistry` |
| `auth_liveness` | 2 requests, one of which may fail, no expiry | `SuccessorReachesClient`, `LogoutRevokes` |
| `accounts` | 2 addresses, 2 passwords, 3 tokens, 2 requests that may fail | `AnsweredIsWhole`, `HalfMadeByFailure`, `MailIsBacked`, `AuditTruthful`, `PasswordKept` (by registrations) |
| `rbac` | 2 names, 3 ids, a permission, a user, 2 requests | `NamesUnique`, `NoOrphans`, `MintSandwiched`, `OnlyGrantsWiden`; longer chains of roles are left to the proof of `MintSandwiched` |
| `gateway` | a GET and a POST, 3 retries, a bulkhead of 1, tokens without a subject or without roles | `NonIdempotentOnce`, `RefusedIsOver`, `DoneMeansAnswered`, `AnswerIsFinal`, `AttemptsDescend`, `TrustedIdentity`, `HandlerEnds`, and the refinement of `ResilientProxy` |
| `key_roll_over` | 2 processes, 2 keys, a connection | `TokensVerify` |
| `replicas` | 2 processes, a key, 2 connections, names of up to 4 characters | `CleanExit`, `ForbiddenIsAudited`, `ServedBody`, `EternalOnlyByFailure`, and the matching of permissions |

Five runs show where the code does not do what the repository says; each is a finding:

| run | what happens |
|---|---|
| `lock_is_kept` | a login that read the account before it was locked writes its copy over the lock |
| `rotation_is_single_use` | two overlapping refreshes of one token both pass the check and both save a successor |
| `reuse_revokes_successor` | a rotated token that is presented again gets 'Session is revoked' and its successor stays live |
| `tokens_are_consumed` | a reset ends at the INSERT, its token unused |
| `no_retry_after_headers` | an attempt answers during the pause, and the retry is made all the same |

Beside each such claim stands what does hold. A lock that no request has already passed is final
(`LockFreezes`); a token whose session nobody read before it was revoked yields nothing more
(`SpentMintsNothing`); an answer that has begun is never replaced, retry or not (`AnswerIsFinal`).

### Bounds

`SessionIds`, `Tokens` and `RoleIds` are the UUIDs and tokens a run may draw; `RoomForSession`,
`RoomForToken` and `RoomForRole` let a request that will draw one begin only while one is left for it,
so that no handler stops for want of a bound. `Requests` is how many requests overlap: two, since every
hazard above is between two requests or between one and a deletion, an expiry or a failure.
`MaxAge` bounds expiry; 2 is everything expired. `MaxAttempts` 2 (5 in the code) is the smallest
threshold that a lost update can miss. `RetryCount` 3 is the default; `Capacity` 1 makes two requests
meet the bulkhead. `Recycle` lets a slot of the proxy serve its next request once nothing of the last
one is under way, which keeps the number of requests unbounded and that of the slots finite. `Claims`
are the tokens that lack a subject or whose roles are no list: the ones for which the gateway must leave
a header out. Of `Replicas`, two processes are what is deployed; two keys are a roll-over from
one to the other and back, for which one connection that signs is enough (`key_roll_over`); two
connections are what overlap or belong to different processes, for which the one key may be there or not
(`replicas`); 4 characters are the fewest that tell `a.*` from `ab.*`, from its own resource and
from what is below it.
Model values that are interchangeable are permuted in the runs that check no liveness.
`CHECK_DEADLOCK` is left on everywhere: no instance stops.

### Fairness

`AuthSessions`: weak fairness of `Proceed(r)`. Node runs a continuation whose promise settled, and the
database, Redis and Argon2 settle theirs. A slot that may fail still may, forever; nothing is assumed
of arrivals, expiry or failure. `ResilientProxy`: weak fairness of `Retry` and `Timeout`, which are
timers, kept in `Gateway` (`ProxyRetry`, `ProxyTimeout`). Nothing is assumed of the downstream service,
which may never answer, nor of clients. `Replicas` states no fairness: that a process which is told to
stop does stop rests on the ten-second timer alone, and a property of it would restate that fairness.

## 4. Proofs

Each modelled component has a `_proofs` module, checked by TLAPS from nothing but the constants'
assumptions: `DistinctAssumption` and `NamesAssumption` (a "none" value is no id), `MaxAttemptsAssumption`
(the threshold is positive, as `config` has it), `ConfigAssumption` (the retry count and the capacity
are naturals), `EdgeAssumption` (claims are identity headers) and
`DeploymentAssumption` (the first key is a key, and no process is none). What they prove holds for any number of users, ids, tokens and overlapping requests.

The argument is the same in all of them. The safety invariants are not inductive: between two awaits a
handler relies on what it read, and the next write is right only because that is still true. `IInv`
therefore says, beside the types and the invariants, what a request's locals promise at each of its
steps, and each action is shown to keep three things: the tables' conjuncts, the promise of the request
that moves, and the promises of all the others.

| module | `IInv` | why the others' promises last | theorems |
|---|---|---|---|
| `AuthSessions_proofs` | `SharedOK`, and `LocalOK` of every request: the copy a login holds has a lock that agrees with its counter, a refresh about to save has revoked what it read, a logout about to audit has saved | the tables only grow: sessions stay stored with their owner and parent, what is revoked or blacklisted stays so (`Grows`) | `TypeOK`, `LockAgreement`, `ChainRevoked`, `HeldBacked`, `AuditTruthful`, `LogoutHolds`; the steps `LockFreezes`, `SpentMintsNothing`; the refinement of `SessionRegistry` |
| `Accounts_proofs` | the same shape: a registration past its INSERT has its account, then its role, then its token; a mail about to be sent has its token stored | accounts, passwords, roles, tokens and mails stay (`Grows`); tokens need an owner (`TokensOwned`) | `TypeOK`, `AnsweredIsWhole`, `HalfMadeByFailure`, `MailIsBacked`, `AuditTruthful`; the step `PasswordKept`, which is about registrations |
| `Rbac_proofs` | `TablesOK`: types, `NamesUnique`, `NoOrphans`; little is owed to a request, since roles may be deleted under it and every write is guarded by the constraints of the database | not needed: the constraint is read in the step that writes | `TypeOK`, `NamesUnique`, `NoOrphans`; the step `OnlyGrantsWiden` |
| `RbacMint_proofs` | `MInv`: `IInv` of `Rbac`, and of every resolution under way `ShrunkOK` unless an addition overlapped it (it has read at least what the tables still give, at most what the user had) and `GrownOK` unless a removal did (the other way round) | a removal only `Shrinks` the tables and an addition only `Grows` them, and inheritance is monotone in both | `MintSandwiched`; what `Collect` computes; the guards' decisions by a token |
| `ResilientProxy_proofs` | `CallsOK`, `OnceOK` of every request: attempts that answer have sent headers, a request that is not idempotent stays at attempt 0 | a step of one request leaves the attempts and the answer of the others alone (`Others`) | `TypeOK`, `NonIdempotentOnce`, `RefusedIsOver`, `DoneMeansAnswered`; the steps `AnswerIsFinal`, `AttemptsDescend` |
| `Gateway_proofs` | `IInv` of the proxy, by the refinement, and `EdgeInv`: a request is idle at the proxy unless its edge handed it on, and then its headers are the token's | the chain of one request leaves the others' edges, headers and attempts alone (`EdgeFrame`) | `EdgeTypeOK`, `TrustedIdentity`; the refinement of `ResilientProxy`, and all that is proved of the proxy behind the edge |
| `Replicas_proofs` | `KeysOK`: a key in use, by a live token, a process or the configuration, is known to every process that runs, to the configuration and to the cached document, unless it is `hasty`; `DenialOK` of every connection; connections only at processes that listen | `RequestKeeps`: a step of one connection leaves the keys and the other connections alone | `TypeOK`, `TokensVerify`, `ForbiddenIsAudited`, `ServedBody`, `EternalOnlyByFailure`; the step `CleanExit` |
| `Permissions_proofs` | none: lemmas about names of any length | | matching is transitive; a grant that another one covers changes no decision; `resource.*` reaches exactly what is the resource, a dot and anything, so not the resource itself; a token with more passes every guard that one with less passes |

`TokensVerify` is not inductive: it says what verifies now, and the next `Sign` may use any process's
active key, the next `Start` the configured one. `KeysOK` is closed under both, and under every step of
the operator, who is not restrained: a step in the wrong order makes the key it touches `hasty`, and no
step harms a key that it does not touch. `CleanExit` needs the
placement of connections: a process in `closing` has none, because `Closed` saw that and `Accept` takes
no connection for a process that does not listen.

`OnlyGrantsWiden` is about inheritance, so that its proof is not one of counting: a set of roles that is
closed under parents stays closed when a childless role is added, and closed without the deleted role
when its children lose their parent (`InheritedShrinks`); what is inherited is the least such set.
`CatchEffect` does the same for the proxy: it says once what the catch of `executeWithRetry` may do, and
the proofs of the actions that end in it cite it.

`MintSandwiched` needs to know what `Collect` returns, and `collectRoles` is a recursive function of the
tables as they are in that step. That there is a function with its equation is shown by giving one:
`Path(eff, i)`, the least set of roles that a walk from `i` visits if those of `eff` are visited already
(`CollectEquation`). What it returns for one role is then settled by the smallest counterexample of a
well-founded order, inclusion of the sets of roles not yet visited (`SmallestOf`, `CollectOne`), and the fold over
the names by the same means: `CollectIsInheritance` says that the result is `Inherited` of the direct
roles, for every order of the loop and also if the parents form a cycle. The loop finds a role by its
name, and `NamesUnique` is what makes that the role that was meant. A resolution reads roles,
then the table of roles, then the permissions of one role after the other, while anything is written;
`MInv` says at each of these steps what the part that was read has to do with `hadRoles` and `hadPerms`
and with the tables of that moment. `GuardsSandwiched` puts `Permits` on top of it: if only removals
overlapped a resolution, whatever the token opens was open to the user when it began, and whatever is
open to the user when it ends the token opens; the other way round for additions.

`AttemptsDescend` is the safety half of `HandlerEnds`. `StepsLeft` counts the steps a handler can still
take, two for each attempt left; it is a natural number and is zero only for a handler that is done or
idle (`StepsCounted`), every step of the handler lowers it, and so do both timers whenever they fire. That a
timer fires, which is fairness, is what TLC adds.

Left to TLC: liveness (`SuccessorReachesClient`, `LogoutRevokes`, and of `HandlerEnds` that the timers
fire: fairness and ENABLED are out of the prover's reach), and `WildcardsAgree`, which compares the
matching of characters with the segments of names: a fact of constants, stated as an assumption of
`MCReplicas` that TLC evaluates before the run. `WildcardReach` says the same of `resource.*` for names
of any length, by concatenation instead of segments.

## 5. Not modelled

Health, metrics, logs, configuration, tracing and the database client are input and output without state
of their own: a probe is a request that the edge answers. Which status and which text the identity
service answers at its edge is left out, and so is the syntax of addresses and passwords, the contents
of an audit row and the document at `/docs`. `RedisCacheService` and `isBlacklisted` have no caller.
The gateway's shutdown (`index.ts`) has the shape of the identity service's without a database, and its
replicas share nothing; neither is modelled. The customer service is two
read-only queries, the credit service one decision without state. The scripts that rewrite sources
(`fix*.js`, `update_services.js`), migrations, charts, workflows and templates are not the program.

Six hazards have no property. Nothing reads the blacklist, so that there is no reader to check. The
roles of a token outlive their removal by the token's lifetime, by design. A lock that falls after a
refresh has read it does not stop that refresh, as the code has it. The limiter of the gateway
counts in the memory of each of two to ten processes, so that its limit is per replica and gone with a
restart; within one process it is the library's, of which a property would only restate the definition.
A blacklist entry expires with its
token, since the arithmetic of its TTL is left out. And whether an answer that has begun is ever finished
is the proxy library's part: `DoneMeansAnswered` is about its headers.

Noted on the way, and not modelled:

- the gateway verifies HS256 tokens of issuer `bankos-identity` with a shared secret, while the identity
  service signs RS256 with issuer `bankos:identity`; `Gateway` begins with a token that verifies or not,
  however it was signed;
- `jwksRouter` is mounted at `/.well-known` and its route is `/.well-known/jwks.json`, so that the
  document is served below `/.well-known/.well-known/`; `FetchJwks` is a fetch of wherever it is;
- opossum rejects with `err.code` (`EOPENBREAKER`, `ESEMLOCKED`), while `resilience.ts:55-61` looks at
  `err.type`, so that its refusals are retried and answered 502.
  `ResilientProxy` has the refusal that the code means; no property depends on which of the two it is;
- `services/gateway/README.md:19` lists 'Redis (for distributed rate limiting in Prod)', while `rateLimit.ts:4`
  gives the limiter no store and `deploy/helm/bankos-gateway/values.yaml:3` deploys two replicas;
- `MetricsEventHandler` is registered with no dispatcher.

## 6. Plan

1. `AuthSessions` with `UserAccount` and `SessionRegistry`: modelled, checked, proved.
2. `Accounts`: modelled, checked, proved.
3. `Rbac`: modelled, checked, proved.
4. `ResilientProxy`, and `Gateway` around it: modelled, checked, proved but for `HandlerEnds`.
5. `Permissions` and `Replicas`: modelled, checked, proved.
6. Left: the composition of `Rbac`'s resolution with the login and the refresh of `AuthSessions`, so that
   the roles a refreshed token carries can be related to the session it continues.
