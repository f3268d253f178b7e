# Verification of the Chexi Trading API

TLA+ models of the Go API in `src/apps/goapi`, checked with TLC. Every safety
property that a run shows to hold is also proved with TLAPS, for any number of jobs,
workers, administrators, sessions, users, requests and faults. Paths below are
relative to `src/apps/goapi` unless they start with `src/`.

## 1. The system

The API is one Go program (`main.go`, `internal/app/run.go`) that runs as an
HTTP server, a queue worker, or both, in any number of replicas. Replicas share
PostgreSQL (through gorm) and Redis; nothing else coordinates them. A React
front end (`src/apps/shadcn-admin`) talks to it over HTTP.

| Component | State | Operations | Talks to |
|---|---|---|---|
| Job queue, worker (`internal/queue`) | Redis: job keys, due sorted set, dead-letter list; goroutines of each process | Enqueue, PopDue, processJob, failJob, drain, crash, restart | handlers for mail and webhooks |
| Queue administration (`redis_queue_admin.go`, `handlers/admin_jobs.go`) | none of its own | list, get, retry, replay a dead letter | the same Redis keys |
| Refresh sessions (`services/auth_service.go`) | table `auth_sessions`: hash, revocation, successor | create, refresh, logout, revoke all | users, password reset |
| One-time tokens, MFA, OAuth (`auth_email.go`, `mfa.go`, `oauth.go`) | token tables with `used_at`; TOTP factors; recovery codes | issue with throttle, confirm once | sessions, queue (mail) |
| User records and cache (`userService.go`, `me_profile.go`, `cache/`) | table `users`; Redis keys by id and by e-mail | read through, update, delete, invalidate | sessions |
| Organizations, members, invitations (`organization_*.go`) | memberships with roles; invitations with token and expiry | create, invite, supersede, accept, remove | webhooks, mail |
| Webhooks (`organization_webhook_service.go`, `jobs/webhook_jobs.go`) | subscriptions, delivery rows | create, edit, delete, emit, deliver | queue, the receiver |
| API keys, tenant and roles (`org_tenant.go`, `rbac/`) | key rows with `revoked_at`, `last_used_at` | issue, revoke, authorise, touch | organizations |
| Rate limiting (`middleware/ratelimit.go`, `cache/redis_cache.go`) | buckets in memory; counters in Redis | allow, cleanup, fixed window | every route |
| Market data (`internal/marketdata`) | ticker per product, reconnect attempt | dial, subscribe, read, back off | strategy |
| Strategy, trade plans | none; one row per plan | score, create plan | market data |
| Startup, events, mail, configuration, HTTP | wiring and best-effort output | | all |

Behaviour that is hard here: worker goroutines of several processes interleave
on single Redis commands; Redis commands fail, are applied without a reply, or
are sent twice by the client library; processes crash or drain with jobs in
flight and nothing scans for orphans; database transactions run at READ
COMMITTED and take row locks only where the code says so; many rows are written
whole from a copy read earlier; caches are filled and invalidated without a
common lock; deliveries and mail are repeated after partial failures.

What makes the main components correct:

* *Queue*: a job is in at most one pair of hands; an accepted job is never
  silently lost; retries respect the budget, across processes and restarts; the
  dead-letter list holds exactly exhausted jobs and stays bounded; success is
  final; undisturbed jobs finish; retries lose no job (nearly: section 3).
* *Sessions*: a refresh token is used once; a login never has two valid tokens;
  rotation and revocation are all or nothing; what a revocation reported stays
  revoked; reuse is detected only after reuse.
* *Organizations*: a role only by an invitation to an address one had; the owner
  stays; no acceptance lowers a role; an invitation counts once (nearly: section 3).
* *Users*: entries show committed rows, the present one unless a race or a fault
  interfered, and never an old one for good; updates of different fields do not
  undo each other (they do: section 3).
* *Webhooks*: a delivery's row says what happened to it and is final; it ends
  settled, with two exceptions (section 3); the two counters of attempts agree;
  requests are signed with the secret last shown.
* *Sign-in*: a link, a challenge, an OAuth state and an exchange code are each
  good for one thing, however many requests have found them unused; a second
  factor that is demanded can be given, and is asked of every later sign-in.
* *Access*: what is done in an organization is done by someone who had the right
  while the request ran; revocation of a key is final; the name and the slug a
  manager was answered stand, and the slug leads to that organization alone.
* *Limits*: a bucket lets through a burst and what time earns, or a little more
  where it is forgotten too early (2.12); a minute sees two windows at most.
* *Market*: the feed comes back to the current quotes and stops within one
  blocking call; a better setup never scores less.

`PROJECT.json` lists every hazard at its line, with the properties that cover it
or the reason none does yet.

## 2. Modules

| Module | Contents |
|---|---|
| `JobQueue` | the queue, the workers, Redis failures, process life cycle; safety and liveness properties |
| `JobQueueInv`, `JobQueue_proofs` | its inductive invariant; theorems about the queue and the refinement |
| `JobLifecycle` | abstract specification: the life of a job, as a client may rely on it |
| `JobQueueLife` | the refinement mapping from `JobQueue` |
| `JobQueueAdmin`, `JobQueueAdmin_proofs` | composes `JobQueue` with concurrent administrator retries |
| `WebhookDelivery`, `WebhookDelivery_proofs` | subscriptions, emission, delivery rows and the handler, on top of `JobLifecycle` |
| `RefreshSessions`, `RefreshSessions_proofs` | refresh, logout, reuse detection and password reset as database transactions |
| `LoginFactors` | password sign-in, TOTP, MFA challenges, OAuth states and exchange codes |
| `MailTokens` | verification and reset links, from their throttle to their use |
| `Accounts_proofs` | theorems about `MailTokens` and `LoginFactors` |
| `OrgMembership` | invitations and members of an organization |
| `OrgDirectory` | names and slugs of organizations |
| `OrgAccess` | API keys, tenant resolution, guards of the routes |
| `UserCache`, `UserCache_proofs` | users, the Redis entries that cache them, and their handlers |
| `RateLimiter` | token buckets, the Redis window, failure modes |
| `Gateway_proofs` | theorems about `OrgDirectory`, `OrgAccess`, `OrgMembership` and `RateLimiter` |
| `TickerFeed` | the market data adapter and the shutdown that waits for it |
| `OvernightScore` | the score of a quote, as a function, and the handlers that answer it |
| `Market_proofs` | theorems about `TickerFeed` and `OvernightScore` |
| `MC...` | values of the constants for TLC; `MCAccounts`, `MCGateway`, `MCMarket` and `MCWebhookDelivery` hold two models each |

Definitions marked *mutant* in a comment are deliberately wrong variants of the
operator next to them. They are not part of any specification; they record, for
each property, a plausible mistake in the code that it catches.

### 2.1 JobQueue

A step is one Redis command of one goroutine, because that is what goroutines of
different processes interleave on; a Lua script or a `MULTI` is one step. The
state mirrors the keys: `store` is `queue:v1:job:{id}`, `due` with `wait` the
sorted set `queue:v1:due` (a score minus the clock, so that time passing is
`Tick`), `dlq` the list `queue:v1:dlq`. Each goroutine of `Worker.processJob` has
a label `pc`, the job it `held` and `att`, the attempts in its own copy of the
envelope; the copy is what later commands write back, however old.

| Action | Code |
|---|---|
| `Enqueue` | `RedisQueue.Enqueue`: SET and ZADD in one pipeline that is not a transaction, so SET alone may happen |
| `PollOnce` | `pollOnce` and `popDueScript` |
| `LoadJob`, `MarkRunning` | `processJob` up to the handler |
| `HandlerSucceeds`, `HandlerFails` | the handler's result and `failJob`'s decision; a job with no handler goes straight to the dead-letter list |
| `PushDeadLetter`, `TrimDeadLetter`, `DeleteJob` | LPUSH, LTRIM, DEL |
| `RequeueSave`, `RequeueAdd` | `Requeue`: SET, then ZADD |
| `Crash`, `Shutdown`, `ExitDrained`, `ExitTimedOut`, `Restart` | `Worker.Start` and `internal/app/run.go` |

Every command has three outcomes besides its result: it fails without effect, it
takes effect and its reply is lost (`Failed`), or it takes effect and the client
sends it again (`SentAgain`; `initializers/initializers.go` leaves go-redis's
retries on). After `SentAgain` the goroutine is where it was, and the second copy
acts whenever the goroutine takes its next step, possibly after others have moved
on. History variables record what happened (`runs`, `succeeded`, `evicted`,
`dropped`) and which jobs were hit (`disturbed`, `resent`), so that a property
can say precisely whom it speaks about.

### 2.2 JobQueueAdmin

Adds requests to `POST /api/v1/admin/jobs/:id/retry`. `AdminRetryJob` reads the
dead-letter list and either replays a snapshot (`ReplayDeadLetter`, one MULTI) or
loads the job key and requeues it (`AdminLoad`, `AdminSave`, `AdminAdd`). Nothing
stops it from touching a job in use.

`RetriesLoseNothing` is about all of it: whoever retries what, alone or together,
while the job is scheduled, running or failing, an accepted job succeeds or leaves
its key, its snapshot or the record of an eviction. One order of steps is excepted,
and recorded in `overrun`. A snapshot appears before the worker's LTRIM and DEL; a
replay in between takes the snapshot off and restores the key, and the DEL
(`worker.go:157`) removes that key, so that a due id without a job is all that is
left, although a replay `restores the job key, and schedules it on due`
(`redis_queue_admin.go:61`).

`RetryBudget` is about calm jobs, those that no administrator wrote while somebody
else used them (`raced` records the others). Where administrators race, budgets do
not hold: of two replays of one snapshot the second removes nothing (what LREM
removed is not looked at, `redis_queue_admin.go:93`) and schedules the job again, and
the retry of a running job starts a second execution.

### 2.3 RefreshSessions

`row` is `revoked_at` with `revoke_reason`, `next` is `replaced_by_session`.
Transactions follow PostgreSQL at READ COMMITTED, which this code does not
change: writes are visible to others at COMMIT, so they are one step with it;
`SELECT ... FOR UPDATE` holds the row (`lock`) until the end; a bulk UPDATE fixes
its candidates when the statement begins (`RevokeAllStart`), waits for holders of
their locks, and tests its condition again (`RevokeAllCommit`). It does not see
rows inserted in between. `Rollback` may hit any request at any statement: it
stands for lost connections, cancelled requests, deadlocks PostgreSQL breaks, and
for refusals that change nothing (expired token, unverified or missing user).

| Action | Code |
|---|---|
| `CreateSession` | `createSession`, the end of Login, Register, MFA and OAuth logins |
| `RefreshToken`, `LockCurrent`, `Rotate` | `authService.RefreshToken` |
| `Logout` | `authService.Logout` up to its transaction's bulk UPDATE |
| `ConfirmPasswordReset`, `UpdatePassword` | `authService.ConfirmPasswordReset` |
| `RevokeAllStart`, `RevokeAllCommit` | `revokeAllUserSessionsTx` and what follows it |

A sweep is complete only as far as its candidates go: a logout that has chosen
them before a rotation commits does not see the successor, which stays valid.

### 2.4 OrgMembership

One organization, from the moment `CreateOrganization` has committed. `member` is
`organization_memberships`, `inv` the invitations, `address` the users' e-mail
column; `held` is history. Each request runs through its handler statement by
statement (`pc`), with what it has read in `target`, `token`, `grant` and `was`.
Only `AcceptOrganizationInvitation` opens a transaction, at READ COMMITTED and
without locking reads, so that it protects nothing it has read; its writes are
one step with COMMIT. What the database adds is in the guards: an INSERT needs a
free primary key (`KeyFree`), gorm's `Save` updates the row or inserts it if it is
gone, foreign keys need the organization and the account, and the versioned
migrations delete by cascade. `Refused` ends a request at any statement: expired
invitations, failed statements and all refusals that change nothing.

| Action | Code |
|---|---|
| `Invite`, `CheckNotMember`, `SupersedePending`, `CreateInvitation` | `CreateOrganizationInvitation` |
| `AcceptInvitation`, `ReadInvitation`, `ReadMembership`, `AcceptCommit` | `AcceptOrganizationInvitation` |
| `RemoveMember`, `CheckTarget`, `DeleteMembership` | `RemoveOrganizationMember` |
| `ChangeEmail`, `DeleteUser` | `UpdateUser` with a new address, `DeleteUser`; the rest of users is not modelled |

### 2.5 UserCache

`row` is the table `users`, `idKey` and `emailKey` the entries `user:id:{id}` and
`user:email:{address}`. A step is one SQL statement or one Redis command of one
request. `Flow` lists the statements of each handler in order; `pc` is the next
one, `copy` the row the request holds. A row keeps its id, its address and two
stamps, one for the columns users and administrators edit (`profile`), one for
those the authentication handlers write (`account`): what matters is whether a
column is older than it should be, not what it says. Addresses are equal exactly
if they are the same value; `Norm` is `normalizeEmail`, and `Keys` has spellings
of an address besides the normalised one. The table's unique index on the address
is `EmailFree`; the check of `ExistsByEmail` before it only refuses earlier.

| Action | Code |
|---|---|
| `FindByID`, `FindByEmail`, `SetUserByID`, `SetUserByEmail` | `GetUserByID`, `GetUserByEmail` after a miss; the same statements in the other handlers |
| `SetAgain` | a SET that took effect and whose lost reply makes the client library send it again, however late |
| `Create` | `CreateUser`; sign-up, which fills no entry, is `Create` with both SETs failing |
| `Save` | `userRepository.Update`: all columns of the copy, inserted if the row is gone |
| `UpsertSettings` | the settings of `PatchMyProfile`, whose failure leaves the entries as they are |
| `Remove` | `DeleteUser` |
| `WriteColumns` | the transactions of `VerifyEmail`, password reset and MFA; `FindByID` and `DeleteEntries` after it are `invalidateUserCache` |
| `DeleteEntries`, `DeleteUserByEmail`, `DeleteUserByID` | the DEL commands; which ones `UpdateUser` sends depends on whether the input differs from the old address |
| `ExpireID`, `ExpireEmail` | `UserCacheTTL` |
| `CacheFails`, `Abandon` | a command that fails and is logged; a failed statement, a cancelled request or a process that stops |

An address of an `UpdateUser` is either absent or one of `Keys`; `Handler` decides
after `Save` which keys are cleared, and `want` holds the old address from then on.
Nobody can promise fresh entries when a write races a read or a DEL fails, so the
history variable `exposed` records exactly these users: a row was written while
another request still had its old copy to save, cache or trust (`Carries`), or a
fault hit a request that had entries to clear (`Unsettled`). `Fresh` speaks about
all others, `Converges` about everybody. An update that still holds the row of a
user deleted meanwhile inserts it again with `Save`; that row is then committed,
and `Genuine` lets it be cached.

### 2.6 JobLifecycle and JobQueueLife

`JobLifecycle` is what whoever enqueues a job may rely on: a job waits, is in one
pair of hands, comes back at most as often as its budget allows, and ends as
succeeded, dead, trimmed from the dead-letter list, or lost to an error or a
killed process. `JobQueueLife` maps `JobQueue` to it. The life of a job is spread
over Redis, the goroutines and the caller of `Enqueue`; `LifePhase` reads it off in
the order in which the evidence is final: success on record, a snapshot in the
list, a trimmed one, an id in the schedule, a goroutine that holds the job, a
caller that has not sent it. Everything else is lost. `ImplementsLifecycle` is
checked by TLC and proved (`QueueImplementsLifecycle`).

The mapping needs `MaxResends = 0`. A ZADD that the client library sends twice can
put a job back in the schedule that a worker already holds or has finished, which
no life of a job allows; `queue_faults` says what holds with such repetitions.

### 2.7 WebhookDelivery

Subscriptions (`hooks`), delivery rows (`rows`) and the jobs that post them. The
jobs are an instance of `JobLifecycle`, which the queue is shown to implement, so
that Redis need not be modelled a second time. A step is one SQL statement, one
POST, or one step of the queue. Events in `Inline` are emitted where there is no
Redis queue (or by its synchronous fallback): the handler runs inside the
emission, once, and its error is the emission's (phase "unretried", which only
such a delivery reaches: `Return`). A failing statement is applied
or not; `Save` of a row whose hook was deleted tries an INSERT, which the foreign
key refuses. The validation of the URL is one outcome of an attempt (`BlockURL`).
A worker without the key that deciphers secrets may run beside API processes that
have it; its handler says it is done and leaves the row as it is (`SkipUnconfigured`,
recorded in `unkeyed`).

| Action | Code |
|---|---|
| `CreateWebhook`, `ReadForUpdate`, `WriteUpdate`, `DeleteWebhook` | `CreateOrganizationWebhook`, `UpdateOrganizationWebhook` (a read, then every column written), `DeleteOrganizationWebhook`, whose deliveries go by cascade |
| `ListEnabledWebhooks`, `CreateDelivery`, `EnqueueDelivery`, `ReturnInside`, `EmitDone` | `EmitOrganizationWebhookEvent` and `enqueueOne`, which logs its errors and goes on |
| `PopDelivery`, `Dispatch`, `SkipUnconfigured`, `FindWebhook`, `Post`, `SaveDelivered`, `SaveFailure`, `GiveUp` | `handleWebhookDeliver`, statement by statement |
| `LoseJob` | a job that a crash or a Redis error has lost |

The handler changes its own copy of the row; `SaveFailure` and `GiveUp` are two
writes of it, so a statement that fails between them leaves a row pending that has
used its attempts. `harmed` records the deliveries of which a statement failed and
`undone` the hooks with overlapping updates, since an update that holds an old
copy may put back a secret another has just rotated.

`EndsSettled` says where a row is when the handler has run for the last time with no
statement failed: it is terminal, unless the delivery is `unkeyed`, or it was a first
attempt outside the queue that left budget unused, which nobody uses later.

The abstract queue runs one execution of a job at a time. A ZADD that the client
library repeats, or an administrator who retries a delivery job in use, can start
a second one, whose `Save` may overwrite a terminal row and whose POST is not
counted by the first; this module says nothing about such deliveries, and neither
does it give one a fresh budget. `JobQueue` and `JobQueueAdmin` show when this happens
to a job.

### 2.8 LoginFactors

Sign-in for one address: its user row, whether a provider identity is linked to
it, its TOTP factor, and the single-use rows that carry a sign-in from request to
request. A row that is locked `FOR UPDATE` (a challenge, an exchange code) stays
locked until its transaction ends; OAuth states and factors are read without a
lock. `createSession` runs on a connection of its own, so that the session of an
exchange code is committed before the code is (`SessionForCode`, `CommitCode`).

| Action | Code |
|---|---|
| `Register`, `VerifyEmail` | the row of the address, as far as sign-in looks at it |
| `Login`, `IssueChallenge`, `IssueAuthentication`, `VerifyMFALogin` | `Login` with the challenge it hands out, `issueAuthentication`, `VerifyMFALogin` |
| `SetupTOTP`, `ReadFactor`, `StorePending` | `SetupTOTP`: user, factor, `Save` of the factor |
| `ConfirmTOTP`, `ReadFactor`, `EnableTOTP` | `ConfirmTOTP`, whose transaction writes flag and factor from the copy |
| `DisableTOTP`, `WipeTOTP` | `DisableTOTP` |
| `OAuthAuthorizeURL`, `OAuthHandleCallback`, `ProviderRefuses`, `MarkStateUsed`, `ResolveUser`, `PrepareChallenge`, `CreateExchangeCode` | the callback: read the state, ask the provider, mark the state, find or create the user, hand out a code |
| `OAuthCompleteExchange`, `SessionForCode`, `CommitCode` | `OAuthCompleteExchange` |
| `Fail` | any statement that fails |

Four histories delimit what is claimed: `spoiled` (a `SetupTOTP` that had read the
factor earlier wrote its copy over a confirmed one), `torn` (the commit of a code
failed after its session was created), `crossed` (two callbacks read a state before
either marked it) and `flipped` (sign-ins under way when the factor was enabled).
Each is something the code lets happen; the properties say what holds otherwise.

### 2.9 MailTokens

The rows behind mailed verification and reset links. Time is `MailTick`, one
resend interval; a link's `age` is 0 within the interval, 2 when expired. The
throttle reads the latest row outside the transaction that deletes the unused
rows and inserts the new one; a deleted row stays locked until that transaction
ends. A DELETE that meets such a row waits, and then looks again at the rows it
had seen when it began and at no others: at READ COMMITTED it misses the row the
other transaction has inserted meanwhile, so that two overlapping requests for a
link (`overlapped`) leave two that are good. `Consume` is the transaction of `VerifyEmail` or `ConfirmPasswordReset` at its
commit: account or password and sessions, and the row marked where it is still
unused. A password sign-in under way (`CheckPassword`, `CreateSession`) may store
its session after a reset has revoked the others, which `late` records.

| Action | Code |
|---|---|
| `SignUp`, `Ask` | `Register`, `ResendVerificationEmail`, `RequestPasswordReset` |
| `CheckThrottle` | the look at the latest row; a read that fails lets the request through |
| `DeleteUnused`, `AwaitRows`, `DeleteSeen`, `CreateLink`, `EnqueueMail` | the transaction that issues a link, and the mail after it |
| `OpenLink`, `Consume`, `ConsumeFails` | `VerifyEmail`, `ConfirmPasswordReset` |
| `CheckPassword`, `CreateSession` | `Login` |

### 2.10 OrgAccess

A request to a route of an organization, from its credentials to its statement.
Middleware and services read roles and keys at different moments; a request
records the roles its caller has had since it began (`had`) and whether its key
was good when it was looked up, and `last` is the request just done.

| Action | Code |
|---|---|
| `AuthenticatePerson`, `AuthenticateKey` | `OrganizationGroupAuthMiddleware`; a token is believed, a key is looked up |
| `TouchLastUsed` | the goroutine that sets `last_used_at` of a key not revoked |
| `ResolveTenant` with `Guard` | `OrganizationTenantMiddleware`, then `RequireOrgAccessRead`, `RequireOrgAccessWrite`, `RequireOrgAdmin` |
| `RequireOrgManager` | the check that the services of keys and webhooks repeat |
| `CreateOrganizationAPIKey`, `RevokeOrganizationAPIKey`, `ServeNotes`, `ServeWebhooks` | the services |
| `ChangeRole`, `ExpireKey`, `Refuse` | memberships change as `OrgMembership` lets them; time; every refusal and error |

### 2.11 OrgDirectory

Names and slugs. A slug is looked up outside a transaction, and the unique index
on its lower case decides races. An update reads a row, checks, and saves every
column of what it read, so that of two concurrent updates the later one can put
back the other's name or slug. The `:id` of a route is tried as an id first
(`ReadsAs`); a slug in the form of a UUID, which the normalisation lets pass, never
reaches its organization.

`told` is what the last manager to create or change an organization was answered.
`AnswerStands` says that this is still its name and slug and that the slug leads
there and nowhere else, through whatever other creations and renames are under
way, except where a row was saved while another request held a copy of it
(`overlapped`).

| Action | Code |
|---|---|
| `CreateOrganization`, `TryCandidate`, `CheckSlug`, `CreateWithOwnerMembership` | `CreateOrganization` with `resolveCreateSlug` and the repository's transaction |
| `UpdateOrganization`, `FindForUpdate`, `CheckManager`, `CheckSlug`, `SaveOrganization` | resolution of the route, `UpdateOrganization` |
| `ChangeManager`, `RefuseEdit` | administrators come and go; every refusal and error |

### 2.12 RateLimiter

One client of one process. `ResolveEnvironment` and `ResolveMode` decide at start,
from what the operator wrote, whether the limiter works in memory or in Redis
and what it does when Redis fails; the process does not start where the code
calls `log.Fatal`. Time passes in `1/Unit` of what earns a token. A step is one
critical section of a mutex or one Redis command (the script that increments and
sets the expiry is one).

| Action | Code |
|---|---|
| `Arrive`, `IncrementRateLimit`, `RedisError` | the middleware over Redis, and its failure modes |
| `Lookup`, `TakeToken` | the entry in the map under the map's mutex, then the bucket under its own |
| `Cleanup` | the goroutine that forgets idle buckets |
| `LimiterTick` | time; a Redis key whose time has come is gone |

`passed` is a history: for each way and time, how many requests went through up to
then, so that a stretch of time is a difference of two counts (`Through`).
Every RPM and burst of at least one is accepted beside the fixed idle limit of ten
minutes (`config.go:264-288`), so nothing makes a burst fill within the idle limit:
with one request a minute and a burst of 20 a forgotten bucket comes back with 20
tokens where waiting would have earned 10. `BucketBudget` counts this. A stretch of
time lets through a burst, what the time earns (`Earns`), and for each time a bucket
can have been forgotten in it (`Renewals`) the part of a burst that idling did not
earn (`Gift`), which is nothing where a burst fills within the idle limit. A request
that found its bucket before the cleanup removed it takes a token from a bucket nobody
else will find; those go the way "stray" in `passed`. With n requests under way at
once, a stretch sees fewer of them than 2n, and n more for each idle limit it spans.

### 2.13 TickerFeed

The goroutine of the market data adapter, and the stages of `app.Run` that wait
for it. `timer` counts the present blocking call down (dial, read deadline,
reconnect delay); code that does not block runs before the clock moves (`Urgent`).
The exchange is external: quotes come in order on one connection, a product may be
quoted again unchanged, a message may come in malformed in addition to the quotes or
in the place of one, the connection is lost with some of what is in flight, the
exchange may be out of reach, and a new subscription is answered with the current
quotes. A dial and the write of the subscription are one step (`Dialled`): the write
has no deadline of its own (`adapter.go:95`), and a connection that breaks under it
shows in the model as one that breaks under the first read. `garbled` holds the
products whose current quote was dropped because it came in malformed.

| Action | Code |
|---|---|
| `Start`, `Dialled`, `DialFails`, `CheckContext`, `Receive`, `ReadFails`, `SessionEnds`, `Wake` | `Adapter.Run`, `runOnce`, `HandleRawMessage`, `UpsertTicker`, `reconnectBackoff`, `sleepCtx` |
| `Signal`, `CloseDown` | `app.Run`: cancel, wait for the adapter, drain, stop the worker |
| `Publish`, `Repeat`, `Garble`, `Lose`, `Outage`, `Restore` | the exchange and the network |
| `Tick` | time |

### 2.14 OvernightScore

The score of a quote as a function: metrics of a ticker, the input made of it and
of an analyst's fields, six category scores, weights, ceilings of the filters and
labels, with the validation of both handlers. Numbers are integers: percentages
and category scores in hundredths, the weighted score in ten-thousandths, rounded
down where the code has floats; the logarithm of the volume is a table
(`LiquidityShare`). `Quote` is the feed storing a ticker, `ScoreTicker` and `ScoreBody`
the two handlers. Reason and warning codes are left out.

## 3. Runs

| Run | Instance | Question and answer |
|---|---|---|
| `queue_faults` | 2 jobs (budgets 2 and 1), 2 processes, 1 Redis error, 1 repeated command, 1 crash or shutdown, cap 1 | `Exclusive`, `Recoverable`, `BudgetRespected`, `DeadMeansExhausted` and `NotStranded` hold |
| `queue_liveness` | 2 jobs, one without a handler, 2 goroutines in one process, 2 errors, 2 stops | `Finishes` holds under `FairSpec`; every behaviour is one of `JobLifecycle` |
| `queue_capture` | as `queue_faults`, one error, no stop | `DeadLetterCaptured` fails: a failed LPUSH is logged and the key deleted |
| `queue_retry` | 1 job, 2 processes, 2 retry requests, 1 error, 1 stop | retries lose no job except one replayed before its worker's DEL; a calm job gets one fresh budget per retry |
| `sessions` | 3 sessions, 2 requests, 2 reset tokens | single use of refresh tokens, atomic rotation, complete and final revocation hold |
| `org_roles` | creator and a user, 3 addresses, 2 invitations, 2 requests, 1 change of address | the owner stays, roles are earned, no acceptance lowers one |
| `cache_fresh` | 2 users, 1 of them registered, 2 addresses, 2 requests, 2 writes, 1 fault | with SETs that are sent twice, entries show committed rows; those of unexposed users the present one; their saves undo nothing |
| `cache_converges` | 1 user, 2 addresses and another spelling of one, 2 requests, 1 write, 1 fault | `Converges` holds under `FairSpec` |
| `webhooks` | 1 subscription, 2 events, one of them handled inline, 2 administrators, 2 updates, budget 2, 1 fault; 2 organizations, 2 people, 2 names, 3 slugs, 4 edits | rows say what happened and stay so; they end settled but for the two kinds of 2.7; the counters agree; the secret is the one last shown; what a manager was answered about names stands |
| `accounts` | 2 requests, 1 challenge, 1 OAuth state, 2 codes, 2 secrets, 2 confirmations, 1 fault; 2 requests, 3 links, 1 fault | single use of challenges, codes, states and links; a demanded factor exists and is asked for; a reset cuts off old sessions |
| `gateway` | burst 2 that takes 4 units to fill, idle limit 2, 1 request per window of 3, 4 requests in 6 units, 2 buckets; 2 people, 2 organizations, 1 key, 2 calls, 1 change of role | budgets of bucket and window; what is done is done by right; revocation is final |
| `market` | 2 products, 4 configurations, 1 quote each, 2 faults; tickers, fields and bodies around every threshold | the feed catches up with all but garbled quotes and stops in time; a better setup never scores less |

`MCAccounts`, `MCGateway`, `MCMarket` and `MCWebhookDelivery` hold two models that share no state
a step of both would touch. A behaviour runs one of them while the others rest in
their initial state, so TLC explores the sum of their states and not the product;
each property speaks about one of them. The header of each module says why the
models do not interact.

The failing run contradicts a sentence of the repository: `docs/ARCHITECTURE.md:95`
promises "dead-letter capture after max attempts", and `failJob` deletes the job's
key even if the push failed (`worker.go:154`), so the job is nowhere.

Further disagreements between the code and what it or its documents say show in
the models and have no run of their own; the properties are stated so that they
say when each cannot happen.

* *Retries of dead letters* race the worker's own DEL, which takes the job with it,
  and each other (2.2).
* *Webhooks*: a delivery is promised "retries" by the queue
  (`docs/ARCHITECTURE.md:95`), and without Redis the queue runs handlers in the call
  (`docs/ARCHITECTURE.md:97`). There, or when an enqueue falls back to it, an answer other
  than 2xx is returned as an error (`webhook_jobs.go:152`, `175`) to a caller that logs
  it (`inline_queue.go:41`): the row stays pending, with budget left, for ever. So does
  the row of a job that a worker without an encryption key takes (`webhook_jobs.go:65`).
* *Mailed links*: two requests for a link at once leave two good ones, although each
  deletes the unused ones first (2.9).
* *Rate limiter*: a bucket that is forgotten before it is full gives the rest of the
  burst away, and one that is forgotten in use lets stray requests through (2.12).
* *Logout* misses the successor that a concurrent refresh is about to commit (2.3).
* *Invitations*: two sent at once are both pending, although one `supersedes other
  pending invites` (`organization_invitation.go:77`), since `SupersedePending` and
  `CreateInvitation` are two statements. Nor is an invitation quite `single-use` (the
  same line): two users who had the address in turn, both past `ReadInvitation`, are
  both let in by `AcceptCommit`.
* *User records*: where `exposed` holds, a deleted user may stay cached
  (`README.md:795` of the API says entries `are removed`), an update may insert a
  deleted row again, and a `partial` patch (`me_profile.go:64`) may undo another
  handler's columns.
* *Organizations*: an update saves a stale row, and a slug that reads as a UUID does
  not resolve (2.11).
* *Single use*: an exchange code gives two sessions if its commit fails after the
  first, an OAuth state two codes if two callbacks read it at once (2.8).
* *Second factor*: a setup that overlaps a confirmation may wipe the confirmed
  secret while the flag stays, which locks the account's sign-in (2.8).

Bounds. A conflict in the queue needs two jobs (order in the schedule, eviction
from the list) or two goroutines (execution, retry and crash of one job), and
budgets 2 and 1 give a retried job and one that is exhausted at once; with cap 1
the second snapshot is trimmed. `MaxFaults`, `MaxResends` and `MaxStops` bound
how often the environment misbehaves, not where: each command of each job meets
each fault. `MaxLag` merges scores that are both long overdue. `MaxRuns` only
stops the history counter, above every budget. Three sessions make a chain of
two rotations, or one beside a second login; two requests race a rotation with a
reuse, a logout or a reset, and requests arrive again and again. For `Earned` an invitation must reach an address nobody has and a
second one that somebody takes later, hence three addresses; `MaxMoves` bounds
the changes of address, two invitations let one be superseded, and two requests
race. In `UserCache` two users and two addresses let an address change hands while
its former holder is cached, `MaxWrites` bounds the writes of rows (a race needs
one, a change of hands two) and `MaxFaults` the faults.

Deliveries of different hooks share nothing but the emission's loop, so one hook
is enough for their rows; two events give two deliveries, one through the queue
and one inline; `MaxUpdates` 2 lets two administrators overlap and a rotation be
undone. In `LoginFactors` one row of each single-use kind is presented by two
requests, two codes let a state yield a second one, `MaxSecrets` and `MaxConfirms`
let an enrolment be repeated after the factor was removed. Three links are one
of each kind and a successor, or a chain of three. For the limiter a window
shorter than the horizon, a burst of 2 and an idle limit of half the time that
fills it let a bucket be emptied, refilled, forgotten too early, held on to and made
anew within 6 units; four requests exceed every budget. One
change of role and one key suffice to invalidate what a guard has read; three
requests create a key, revoke it and use it in any order. Two organizations
and three slugs (one suffixed, one that reads as an id) let a slug be freed, taken
and claimed back. The feed's timers keep the order of the real ones (a delay
grows from shorter than the deadlines to their length), and two faults are an
outage and a loss, or a loss during the session that recovers. The tickers, fields and
bodies of the score lie below, on and above each threshold. The theorems below remove
all of these bounds for safety; what TLC adds is that the interesting cases do
happen, and that every property fails for some plausible mistake in the code.

`CHECK_DEADLOCK FALSE` appears where a system at rest is correct: all jobs done,
all events delivered and updates used, all codes and links spent, all requests
answered, the server shut down. In `OrgMembership` nobody is left to send a request
once every account is deleted. In `RefreshSessions` and `UserCache` a request can
always arrive or end, and deadlock is checked.

### Fairness

In `TickerFeed`, `FeedFairness` asks that the adapter's goroutine, the shutdown and
the clock go on, that an outage ends, and (strongly) that an exchange that is
dialled again and again answers some dial in time. Nothing obliges it to publish,
and no signal has to come. `CatchesUp` holds under it for every quote but one that
itself came in malformed: the adapter drops it, and quotes of other products go on
renewing the read deadline that would end the session, so that the old quote stands
until the exchange sends the product again. The time it takes is not
bounded by the property, and in the code it is longer than it need be: `attempt`
is never set back after a session that worked (`adapter.go:62`), so that after a
few losses every later reconnection waits for `MaxReconnect`.

In `UserCache`, `FairSpec` asks that handlers come to an end and that every entry
expires: Redis commands and SQL statements have timeouts, and every SET carries
`UserCacheTTL`. Writes end because `MaxWrites` bounds them, which is the premise
of `Converges`; requests that read and fill the cache may go on for ever.

In `JobQueue`,
`FairSpec` asks for weak fairness of `Tick`, of polling and of each goroutine's
next step, of leaving a drained or timed-out process, and of restarting a
stopped one. The Go scheduler runs every goroutine, the poll ticker fires
(`worker.go:46`), a handler ends because its SMTP or HTTP call has a timeout, the
drain has `ShutdownTimeout`, and the container runtime restarts a process that
ended. Nothing is assumed about the callers or about faults ending. `Finishes` is
claimed for accepted jobs no error or kill hits. A resent command is left out of
the liveness run: the two copies of a job it may create overwrite each other's
attempts and can retry for ever.

## 4. Proofs

The theorems hold for every value of the constants that satisfies the assumptions
of their module: `JobQueueAssumption`, `AdminAssumption`, `SessionsAssumption`,
`LoginAssumption`, `MailAssumption`, `WebhookAssumption`, `MembershipAssumption`,
`AccessAssumption`, `DirectoryAssumption`, `CacheAssumption` and `NoRowAssumption`,
`LimiterAssumption`, `FeedAssumption`, `VolumeAssumption` and `ScoreAssumption`. Most
say only of what kind a constant is and that "none" is not a value. Those that say
more:

* `AdminAssumption`: `MaxRuns`, the cap of a history counter, is large enough for all
  budgets that `MaxRetries` retries can grant, so that it cuts nothing off.
* `VolumeAssumption`: a higher volume never has a lower share of liquidity, and no
  share exceeds the whole, as for the clamped logarithm that the table stands for.

A module of proofs may cover several components that stand beside each other on a
request's way; all but one of them then prefix the names they would share
(`MailSpec`, `AccessSpec`, `LimiterSpec`).

| Theorem | Property |
|---|---|
| `JobQueue_proofs!TypeCorrect`, `Inductive` | `TypeOK`, `IInv` |
| `ExclusiveHolds` | `Exclusive` |
| `RecoverableHolds` | `Recoverable` |
| `DueIsBackedHolds` | `DueIsBacked` |
| `BudgetHolds` | `BudgetRespected` |
| `DeadMeansExhaustedHolds` | `DeadMeansExhausted` |
| `NotStrandedHolds` | `NotStranded` |
| `SuccessIsFinalHolds` | `SuccessIsFinal` (action property) |
| `QueueImplementsLifecycle` | `ImplementsLifecycle`, if `MaxResends = 0` |
| `JobQueueAdmin_proofs!AdminTypeCorrect`, `AdminInductive` | `AdminTypeOK`, the inductive invariant |
| `RetriesLoseNothingHolds` | `RetriesLoseNothing` |
| `RetryBudgetHolds` | `RetryBudget` |
| `RefreshSessions_proofs!TypeCorrect`, `Inductive` | `TypeOK`, `IInv` |
| `OneValidTokenHolds` | `OneValidToken` |
| `RotationIsAtomic` | `RotatedHasSuccessor` |
| `SweptStayRevokedHolds` | `SweptStayRevoked` |
| `NoFalseAlarmHolds` | `NoFalseAlarm` |
| `ResetOnceHolds` | `ResetOnce` |
| `RevokedIsFinalHolds` | `RevokedIsFinal` (action property) |
| `Accounts_proofs!MailTypeCorrect`, `MailInductive` | `MailTypeOK`, the inductive invariant |
| `LinkUsedOnceHolds` | `LinkUsedOnce` |
| `ResetRevokesHolds` | `ResetRevokes` |
| `OneLinkHolds` | `OneLink` |
| `LoginTypeCorrect`, `LoginInductive` | `TypeOK` of `LoginFactors`, the inductive invariant |
| `EnabledHasSecretHolds` | `EnabledHasSecret` |
| `GrantOnceHolds` | `GrantOnce` |
| `SecondFactorHonouredHolds` | `SecondFactorHonoured` |
| `WebhookDelivery_proofs!WebhookTypeCorrect`, `WebhookInductive` | `TypeOK`, the inductive invariant |
| `StatusIsTrueHolds` | `StatusIsTrue` |
| `AttemptsHonestHolds` | `AttemptsHonest` |
| `EndsSettledHolds` | `EndsSettled` |
| `KeyIsLastShownHolds` | `KeyIsLastShown` |
| `TerminalIsFinalHolds` | `TerminalIsFinal` (action property) |
| `Gateway_proofs!TypeCorrect`, `Inductive` | `TypeOK` and `IInv` of `OrgMembership` |
| `SoleOwnerHolds` | `SoleOwner` |
| `EarnedHolds` | `Earned` |
| `NeverDemotedHolds` | `NeverDemoted` (action property) |
| `AccessTypeCorrect`, `AccessInductive` | `AccessTypeOK`, the inductive invariant |
| `EntitledHolds` | `Entitled` |
| `RevokedStaysHolds` | `RevokedStays` (action property) |
| `DirectoryTypeCorrect`, `DirectoryInductive` | `DirectoryTypeOK`, the inductive invariant |
| `AnswerStandsHolds` | `AnswerStands` |
| `LimiterTypeCorrect`, `LimiterInductive` | `LimiterTypeOK`, the inductive invariant |
| `BucketBudgetHolds` | `BucketBudget` |
| `WindowBudgetHolds` | `WindowBudget` |
| `UserCache_proofs!TypeCorrect`, `Inductive` | `TypeOK`, `IInv` |
| `GenuineHolds` | `Genuine` |
| `FreshHolds` | `Fresh` |
| `SaveIsPartialHolds` | `SaveIsPartial` (action property) |
| `Market_proofs!StopsInTimeHolds` | `StopsInTime` |
| `ScoreTypeCorrect` | `ScoreTypeOK` |
| `MonotoneHolds` | `Monotone` |

Every property in the table but `DueIsBacked`, `SuccessIsFinal`, `ResetOnce` and the
type invariants is also checked by a run.

*Queue.* None of the safety properties is inductive: whether a goroutine may
dispatch, requeue or delete depends on where in `processJob` it is. `Stage` says,
per label, how the goroutine's copy, the envelope and the dispatch count relate
(at "mark" all three agree; at "run" the dispatch is counted and the copy is one
behind; at "save" and "push" the copy has caught up). `HeldInv` adds that a held
job is off the schedule, has its key and has no second holder, `DueInv` that a
scheduled one has counted all its runs, `EraseInv` that a key about to be deleted
belongs to a job whose outcome is on record. All of this is claimed for jobs of
which no command was resent; `Recoverable` and `EraseInv` hold for all. `IInv` is
the conjunction.

`NotStranded` needs none of this: it is preserved by each action once types and
the correspondence of labels with held jobs (`TaskInv`) are known. A job is put out
of everybody's hands by a failed command or a killed process only, and both
record it in `disturbed`.

*Refinement.* Without resent commands the invariant above speaks about every job.
`TrimmedInv` adds that a job whose snapshot was trimmed is over: it neither
succeeded nor is scheduled, and is held at most for its LTRIM and DEL, so that
it stays trimmed. There is a lemma for each action (`...Lives`): a
Redis command of one goroutine moves one job, or none, and stutters; the end of a
process is `Lose` of what its goroutines held; LTRIM is `Trim`. `StepLives` collects
them under `Next`.

*Retries.* With administrators the budgets of `JobQueueInv` are false of all
dispatches since the beginning; they hold of those since the last retry
(`Given(j) = runs[j] - base[j]`) and for calm jobs. `RetryHeld` is the per-label
invariant of the worker over `Given`; `Adding` says that a calm retry between its
SET and its ZADD has the job to itself, with a fresh envelope and nothing given;
`Aimed` and `Untouched` keep retries away from ids nothing exists of. `runs` is
capped by `MaxRuns` in the model, which would hide dispatches if it were reached:
`Granted` shows that it is not, by counting, over requests still pending, what all
resets together can grant. The library's facts on finite sets serve for that.
`RetriesLoseNothing` rests on `LossInv` and on nothing about calm: an accepted job has
its key or its outcome on record (`Present`), and a goroutine that has pushed a
snapshot and will delete the key (`ErasesSafely`) holds a job whose outcome is on
record or that was overrun. Only a replay takes a record away, and it restores the key
in the same MULTI; hence the two can only part where the replay falls between push
and DEL. The steps of the queue itself go by one lemma each, for those that delete a
key and those that do not.

*Sessions.* `LockOK` is the heart: a request about to rotate holds the row's lock
and the row is valid, so that nobody else changes it; from it follow
`OneValidToken` and `RevokedIsFinal`. `ShownOK` ties "rotated" to a token that
was presented, which makes `NoFalseAlarm` inductive; `SeenOK` says that the
candidates of a bulk UPDATE exist and stay the user's. `ResetOnce` is about
cardinalities and uses the library's facts on finite sets.

*Mailed links.* `UsesInv` says what the uses of a link are in terms of its row:
none while it is unused or deleted unused, one when it is marked, and of the row's
kind. `SessionInv` says
that a sign-in about to store a session checked the present password unless a
reset marked it late. `IssueInv` is about links being issued: without an overlap
there is one issuer of a kind, after its throttle no row of the kind is young, and
after its DELETE the unused ones are those it has locked; the INSERT then leaves
one. A DELETE that had to wait for another issuer's rows implies the overlap, so what
it misses does no harm there. Cardinalities are reasoned about as "any two are equal".

*Sign-in.* Each single-use kind has its own argument. `ChallengeOK`: a challenge is
marked in the transaction that locks it, so one request at most is past it.
`CodeOK`: the lock of a code admits one exchange at a time, and while its session is
stored but the code not yet marked, that exchange is still at its commit, unless
the commit failed (`torn`). `StateOK`: nothing locks a state, so it says that only
while no second callback reads it (`crossed`) there is one callback, which is the
only one to draw a code. `FlippedOK` follows everything that may still end in a
session without a challenge, copies in requests and unused codes alike, and says
that it was under way when TOTP was turned on; `SecondFactorHonoured` is its part
about requests that are one statement away. `EnabledHasSecret` is inductive
once types are known.

*Webhooks.* `PendingOK` is the heart: unless a statement failed, a pending row has
counted every dispatch but the present one, whatever statement the handler is at,
and its job is neither over nor dead. `CopyOK` relates the handler's copy to what
has happened, `RowOK` the row to the copy and to the receiver, `RunOK` the
statement to the job's phase, `UnrunOK` what is not yet popped. A job that is
"unretried" had one dispatch, so its pending row has counted one attempt of a larger
budget; a job that succeeded with its row pending was skipped by an unkeyed worker.
From these follow
`StatusIsTrue`, `AttemptsHonest`, `EndsSettled` and, step by step, `TerminalIsFinal`.
`HookInv` is separate: a draft that does not rotate the secret carries the row's
own, unless updates overlap, which gives `KeyIsLastShown`. The queue enters by
`JobLifecycle` only.

*Membership.* The handlers act on what they read earlier, so the invariant says
which of it stays true: the address and the role of an invitation never change
(`RowsKept`), an address once held stays in the history, and a creator who accepts
has read the owner's role or is deleted (`AcceptOK`). With at most one owner
(`OwnersCounted`) the count in `RemoveOrganizationMember` always protects that
owner, although count and DELETE are two statements (`RemoveOK`). `MemberRoleStep` sums up
what any step can do to a role: it stays, `Leaves` or `Joins`; `SoleOwner`, `Earned`
and `NeverDemoted` follow from that.

*Access.* A request keeps what it was found entitled to (`CallOK`): its caller's
present role is among those recorded, and past a guard the record shows a role
the guard accepts, or a key whose organization and scope fit. Rows of keys keep
organization, scope and creator (`KeysKept`), so what was true of a key at the
guard is true at the statement, and `LastOK` carries it to what was done.

*Directory.* `AnswersTrue`: unless saves overlapped, the row is what was last told.
It is inductive with `CopiesTrue`, which says that a request's copy of a row is the
row as long as nothing was saved over it: then what it saves, its own change and
the copy's other column, is also what it answers. `EditsShaped` says which fields a
request has filled at each statement. That the slug leads to one organization alone
rests on the index (`SlugsUnique`), whatever was looked up before.

*Cache.* `Fresh` is inductive once it says who will mend an old entry. `CopiesFresh`:
what a request will still save, cache or trust is the row, unless a write raced it,
which exposes the user. `OldCleared`: an old entry of an unexposed user is one that
some writer is about to clear (`ClearsID`, `ToClear`). `KeysMatch` makes a current
entry under a normalised address lie under the address of the row, so that a writer
that clears the address it read clears the right key. Two lemmas carry the proof:
`QuietStep` for steps that write no row (entries stay, go, or are right; debts are
paid or kept) and `WriteStep` for those that write one (the writer takes over the
debt); every action is an instance of one of them.

*Limiter.* A budget over all stretches of time is not inductive: it does not say
how much the bucket may still let through. `WithinBurst` does: what has passed
since any time, together with the tokens left, is at most a burst and what that
time had earned at the last refill; and a token that no refill has followed was
spent within the time that earns one, since a later request would have refilled.
A bucket that is forgotten has been idle for longer than the idle limit; a new, full
one then grants at most `Gift` more than the old one would hold, and the next to be
forgotten is at least as far away, so that `BucketInv` bounds what has passed since any
time by a burst and `Allowance`, which is `Earns` and `Renewals` gifts. `StrayInv`
bounds the strays: whoever holds a forgotten bucket takes one token, and to hold one
takes a bucket that was forgotten since. For Redis,
`WindowInv` bounds the present window by the limit and by its counter, and the
stretch of a window's length before it by the limit, whether or not the key is
still there. Both speak of stretches that reach the present; `Settled` keeps them
true once a stretch is over, since `HistoryOK` leaves the past alone. The
rounding is in lemmas on quotients by `Unit`.

*Shutdown.* `StopsInv`: after the cancellation, time waited and time left of the
present call make up no more than the longest call, and no call begins that would
add to it: a read's deadline is renewed only after the context was checked, and
the delay before a reconnect ends with the cancellation.

*Score.* `NoWorse` compares two inputs category by category and filter by filter;
`NoWorseScores` shows that weights, ceilings and labels preserve it. A lemma for
each field (`MoreVolume`, `MoreChange`, `MoreTarget`, `BetterReversal`, `Replaced`)
shows that a better value is no worse in any category; those for change, target and
support hold for any amount, not only for the steps that `Improvements` samples.

Only model-checked: `Finishes`, `Converges` and `CatchesUp`, which are liveness under
fairness and out of the prover's reach, as is ENABLED; and the type invariant of
`TickerFeed`, since that the delay of the recursive function `reconnectBackoff` is a
number is an induction over data. `DeadLetterCaptured` is false and has a run that
shows it.

## 5. Plan

1. `JobQueue`, its invariant and proofs; `JobLifecycle`, refinement and proof: done.
2. `JobQueueAdmin` and proofs: done.
3. `RefreshSessions`, `MailTokens`, `LoginFactors` and proofs: done.
4. `OrgMembership`, `OrgDirectory`, `OrgAccess` and proofs: done.
5. `UserCache` and proofs: done.
6. `WebhookDelivery` over the abstract queue, and proofs: done.
7. `RateLimiter`, `TickerFeed`, `OvernightScore` and proofs: done.

What would come next: webhook deliveries over a weaker queue, one that may run a
job twice at once; abstract specifications of sessions and of single-use rows, with their refinements; the
content of settings, the pages of listings, and trade plans.

## 6. Not modelled

* *Handlers and routes* translate between HTTP and the services; headers that report
  a limit, status codes and the text of answers are no state.
* *Events and audit* are appended, their errors dropped, and never read back.
* *Mail senders, logging, metrics counters* are output.
* *Configuration* is read once; only the resolution of the limiter's mode is
  modelled, and the rest appears as constants. The bootstrap of the first
  administrator is a sequential check at start.
* *Listings*, those of administrators included, read without changing anything.
* *Payloads, redaction, hashes, signatures and tokens* are abstracted: two are equal
  exactly if they are the same value.
* *Recovery codes* are created and deleted with a factor and never accepted by
  any route.
* *Rounding of floats* and the codes that explain a score; *trade plans*, which are
  one-row writes of products of floats, their overflow included.
* *Two executions of one delivery at once* (2.7), and a subscription write that
  blocks or fails by itself (2.13).
* *Which account an OAuth profile matches* is abstracted to the one user.
* *The React front end* keeps presentation state only.
