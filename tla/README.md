# Verification of fastapi-kit

TLA+ specifications of fastapi-kit (a FastAPI service with PostgreSQL, Redis,
Celery and a React admin console), the TLC configurations that check them on
small instances, and proofs of their main properties that TLAPS checks for every
value of the constants.

Every definition is a translation of code under `src/`; `PROJECT.json` maps each
one to its lines (`map`), lists the runs, the deliberately broken variants of the
code that each property is shown to catch (`mutants`), the hazards of the code,
the disagreements between code and documents (`findings`) and the theorems.

To repeat a check: `tlc -workers 2 -config <run>.cfg <module>.tla` for a run of
`PROJECT.json`, `tlapm <module>Proofs.tla` for the proofs.

## The system

Browsers run the admin console (a single-page application) and other clients call
the API directly. A proxy spreads requests over API containers, each one asyncio
process that runs requests concurrently, one await at a time. Requests read and
write PostgreSQL in one transaction each and count themselves in Redis. Celery
Beat publishes periodic tasks to a broker in the same Redis; worker processes run
them. One of these tasks checks the system's health and POSTs alerts to a webhook.

| Component | Code | State | Operations | Talks to |
|---|---|---|---|---|
| User administration | `app/services/admin_users.py`, `app/repositories/user.py`, `scripts/create_admin.py` | table `users` (active, role, password hash) | PATCH user, reset password, list; `create_admin` promotes or creates | audit log in the same transaction |
| Audit log | `app/services/audit.py`, `app/services/admin_audit.py` | table `audit_logs` | record; list, export CSV | user administration, alert settings |
| Health alerts | `app/services/alert_monitor.py`, `app/services/alert_webhook.py`, `app/tasks/` | Redis keys `alert:state:*`, `alert:dedupe:*`, `alert:worker_zero_since`, `beat:heartbeat`; table `alert_deliveries`; broker queue; Beat's schedule | heartbeat task, check task (settings, snapshot, three stages, commit) | PostgreSQL, Redis, Celery inspect, webhook |
| Alert settings | `app/services/admin_alerts.py`, `app/repositories/alert.py` | the single row of `alert_settings` | get or create, PATCH, test delivery, list deliveries | webhook, audit log, the check task |
| Rate limiting | `app/middleware/rate_limit.py`, `app/middleware/client_ip.py`, `app/cache/redis.py` | a Redis counter per client and minute; the connection pool | INCR, EXPIRE, verdict | every request under `/api/v1` |
| Authentication | `app/services/auth.py`, `app/core/security.py`, `app/api/deps.py` | users; tokens are signed and not stored | register, login, refresh, `get_current_user`, `require_admin` | all protected endpoints |
| Request lifecycle | `app/db/session.py`, `app/middleware/request_id.py`, `app/main.py`, `app/core/exceptions.py` | one session per request | middleware, handler, response, background tasks, commit or rollback | PostgreSQL |
| Background notification | `app/tasks/example.py` | broker queue | queue after the answer to a registration, run in a worker | Celery |
| Dashboard and readiness | `app/services/admin_dashboard.py`, `app/services/migration_status.py`, `app/api/v1/health.py` | none of its own; one database session per request | counts, checks of the services, migration and Beat status, metrics in a thread | PostgreSQL, Redis, the default executor |
| Celery overview | `app/services/admin_celery.py` | threads of the default executor | inspect the workers, within a time limit | Celery, Redis |
| Log and audit queries | `app/services/admin_logs.py`, `app/services/admin_audit.py` | none | query Loki, merge, cap, page; export with a row limit | Loki, PostgreSQL |
| Admin console session | `admin/src/api/client.ts`, `admin/src/api/auth.ts`, `admin/src/auth/AuthContext.tsx` | tokens in localStorage (shared by tabs); the user and `loading` of each tab | load user, login, logout, request with refresh and retry | API |
| Admin console pages | `admin/src/pages`, `admin/src/components` | page number, filters, dialogs | render, page through tables | API |
| Deployment | `scripts/rolling_update.sh`, `docker-compose.yml`, `docker/Caddyfile` | containers and their health, the addresses the proxy knows | start, stop, rolling update | Docker, proxy |
| Migrations and schema | `alembic`, `app/models`, `app/schemas` | the tables | - | - |

### What is hard here, and what makes each component correct

* **User administration.** Requests of several administrators interleave between
  any two statements; the guards against losing the last administrator count rows
  they do not lock; SQLAlchemy omits columns that already have their value; the
  commit comes after the response. Correct means: access is not lost by accident,
  a committed row is what its audit entry says, a temporary password that was
  shown works, no deadlock.
* **Health alerts.** The monitor depends on everything it watches. Two worker
  processes may run checks at once, each await can fail, a process can be killed
  between the POST and the key that prevents its repetition. Correct means: no
  repeated alerts within the dedupe time, no recovery without a failure, every
  delivered alert followed by a recovery, workers that do not answer noticed but not too
  soon. That all workers are gone cannot be noticed: the checks run in them.
* **Rate limiting.** Three awaits of many processes, keys that expire by another
  clock, a pool that raises when exhausted. Correct means: at most the limit
  passes, only a client's own requests use its limit up, counters do not stay.
* **Request lifecycle and authentication.** The client may act on an answer whose
  transaction is not yet committed; background tasks run before the commit; two
  registrations of one address overlap. Correct means: an address gets one account,
  whoever is refused is refused because its address has an account, an account that was
  found once is not rolled back, every registration ends.
* **Dashboard and Celery overview.** The parts of one answer are of several moments, on
  one connection that may break in between; threads that nobody waits for any more keep
  their places in the executor that both pages need. Correct means: the parts agree
  as far as they are documented to, and a page is answered.
* **Admin console session.** Refreshes, logins, logouts and page loads of several
  tabs share one localStorage; an answer may arrive after what it answers is over.
  Correct means: a tab acts as the user it shows, a logout holds, a failing page load
  signs out nobody else, and nobody is signed out while the refresh token is good.
* **Lists.** Rows arrive while pages are turned; a page is cut by offset from another
  table than it was counted in; answers come after the page has been left. Correct means:
  turning the pages misses nothing as long as each page is fetched for it, the page shown
  exists, what is shown catches up.
* **Alert settings.** A row whose empty URL is filled from the environment by whoever
  reads it; a form that sends every field, whether it was
  touched or not. Correct means: only what a request names changes, an answer is what
  will be committed, a save leaves alone what the administrator has not edited.
* **Rolling update.** Containers fail and are restarted while others are replaced, and
  the counts the script goes by lag behind. Correct means: traffic always finds a
  container that answers, and the script ends.

`PROJECT.json` lists these hazards one by one, each with its line and the
properties that would catch it.

## The modules

### `UserTable`: what user administration promises

The abstract table: accounts, flags, passwords and the audit log. A change of
flags or password happens atomically with its audit row and touches only the
columns the request named, in the row it named.

### `AdminUsers`: user administration

One action is one statement a request sends to PostgreSQL under READ COMMITTED,
or its response, or its commit:

| Action | Code |
|---|---|
| `Authenticate` | `get_current_user`, `require_admin`: one SELECT of the actor |
| `Load` | `get_by_id` of the target, existence and own-account guards, empty PATCH |
| `Count` | `_active_admin_count_after`: one COUNT, corrected by the loaded row |
| `Write` | `update_fields` and flush: the UPDATE, if a column differs; waits for the row lock |
| `Audit` | the INSERT into `audit_logs`, which fails on a `request_id` of 65 to 128 characters |
| `Respond`, `Commit` | the response, then the commit in `get_db` |
| `Crash` | the process or its connection dies: rollback |
| `Register`, `ScriptLookup`, `ScriptPromote`, `ScriptCreate` | registration and `scripts/create_admin.py`, which write the same table |

`seen` is the row as it is in the session's identity map; it is not reloaded when
another request commits, which is where stale decisions come from. Uncommitted
writes stay with the request (`Sets`, `Clears`), and `Holds` is the row lock.
`stale` and `shown` are history: whose data was overtaken, and which temporary
password an administrator saw last.

**Run `requests`** - two users, two requests, `AllInputs` (PATCHes that take
flags away or give them back, resets, about oneself or the other, with request ids
that fit and that do not). Two requests suffice for every hazard listed: each is
about a pair of overlapping requests, and the table may start in any state with
an active administrator, so longer histories start from states that are initial
here. `create_admin` and registration interleave with both.

* `LastAdminLostOnlyInRace`: the last active administrator disappears only if
  flags changed after the removing request had read its target and its own actor
  lost access before it committed. This is what the guards achieve. The requirements ask
  for more (see "Disagreements").
* `AccessLostToAnother`: an administrator's own requests, however they overlap,
  never take its access away.
* `CommitMatchesAudit`: a commit that was not overtaken leaves in the row what its
  audit entry says.
* `ShownPasswordWorks`: of overlapping resets of one user, the password shown last
  is the one stored. The row lock taken by the flush, before the response, is what
  makes this true.
* `RefinesUserTable`: the transactions implement `UserTable`.
* `RequestsEnd`: under `FairSpec` every request that has arrived ends. A request
  locks at most one row of `users`, so waits form no cycle.

### `AlertMonitor`: health alerts

Beat (`Publish`), the heartbeat task (`RunHeartbeat`) and worker processes that
`Start` a check and then take one await per step: settings, the four looks of the
snapshot, and for each of the stages ready, beat and workers the reads and writes
of its keys, the POST, the dedupe key and the delivery row, then one commit. The
conditions in `up` fail and resume at any time, within `Failing`; `Abort` is what
any exception does to a check, `Die` and `WorkersStop` kill processes. A command that
Redis executes but whose reply is lost is the command followed by `Die`. Expiring
keys are countdowns that `Tick` lowers.

`told`, `quiet`, `owed` and `lastSeen` are history: what the webhook was told last,
how long each process must not repeat itself, which failures are owed a recovery,
and when a worker was last noted.

* **Run `alerts_spaced`** - two processes, killed at any point, time passing
  between any two awaits, a failing webhook. `AlertsSpaced`: no process repeats an
  alert within the dedupe time, unless it was killed or lost Redis between the POST
  and the key. Two processes may each send it once.
* **Run `alerts_recovery`** - one process; Redis, the database and Beat stop and
  resume at any await. `RecoveryAnswersFailure`: a recovery of readiness or Beat
  answers a failure found since the last one. `AlertRemembered`: until the recovery of a
  delivered alert has been POSTed, its state in Redis stays bad, or the check that has
  overwritten it is about to POST. It assumes `Undisturbed`: one process, which is not
  killed and gets Redis' replies, and a webhook that answers; the code retries none of
  these. `RecoveriesTold`: once all works for good, a delivered alert is followed by its
  recovery.
* **Run `alerts_workers`** - one process; the worker stops and comes back, or runs and
  does not answer inspect, the URL is unset and set. `ZeroLasted`: `workers_missing` is
  sent only when no check has noted a worker for the configured duration.
  `WorkersMissingTold`: workers that go on running checks but never again answer inspect
  are alerted for good (its premise is that everything but inspect works). It says nothing
  of workers that have stopped: the check is a task that they run themselves, so with no
  worker process nothing is sent (see "Disagreements"). The constants (check interval 3, duration 2) make the check
  interval longer than the duration and shorter than twice it, the range in which
  the spare lifetime of `alert:worker_zero_since` matters.
* **Run `alerts_outage`** - `OutageTold` is violated: a check needs the database to
  report that the database is down, and Beat to report that Beat is down.

`RecoveryAnswersFailure` and `ZeroLasted` are stated for one worker process
(`Alone`); with two, the interleaved reads and writes of `alert:state` break both,
as the deployment's default of several worker processes allows.

*Bounds.* Durations are one to three ticks: every comparison in the code is between
two of the four durations or a duration and its double, and the chosen values make
each comparison come out both ways in some run. `QueueBound = 1`: a second queued
message only starts a check again.

### `RateLimit`: the rate limiter

`Arrive` reads the clock and computes the key, `Incr`, `Expire` and the verdict
follow; `Unavailable` is the 503 of an unreachable Redis or an exhausted pool,
`Crash` the death of a process; `Tick` expires keys by Redis' clock.

* **Run `limit`** - four requests of two clients, limit 2, windows of two ticks, a
  clock that covers three windows, a pool of two connections. `AtMostLimit`: at most
  the limit passes per client and window, not counting requests whose INCR came
  after their window. `LimitedOnlyByOwn`: a refusal needs as many other requests of
  the same client and window. `CountersExpire`: a counter without a lifetime has a
  request that is about to set it or has failed to. Four requests are twice the
  limit, so a window can be exhausted and still be asked for more while another
  client counts too.

With Redis down every path under `/api/v1` is answered 503 (`Unavailable`), the
dashboard's too, although the requirements give it a display for that state
(`docs/brainstorms/2026-05-18-admin-phase2-requirements.md:84`).

### `EmailClaims` and `Registration`: registration and its notification

`EmailClaims` is the promise: an address gets one account in one step and keeps it, and a
registration is refused only when the very address it names (`address[r]`) has an account.
`Registration` is the code,
one action per statement, answer, background task and commit:

| Action | Code |
|---|---|
| `Select`, `Insert` | `AuthService.register`: `get_by_email`, then the flush of `create`, which waits for an uncommitted row of the same address and fails on a committed one |
| `Respond` | the 201 with the tokens; a violated index is answered 500 |
| `Queue`, `QueueFails` | the background task: `send_notification.delay`; an exception of the broker leaves through `get_db` |
| `Commit`, `Fail` | the end of `get_db`; a statement, the commit or the process that fails |
| `Take`, `SendNotification` | the worker, which acknowledges a message when it takes it, and runs it or dies with it |
| `SetActive` | an administrator's PATCH that deactivates the account or activates it again |
| `Me` | `GET /auth/me` with the access token of the answer: 200, or 404 when there is no such user or it is not active |
| `MeExpired` | the same with the token expired: 401, from then on |

**Run `registration`** - three registrations of two addresses, each of which may fail at
any step.

* `ImplementsClaims`: the transactions implement `EmailClaims`, with the address of each
  registration as the abstract `address`: a 409, or the 500 of a violated index, is given
  only to a registration whose own address has an account. The unique index makes the
  single account true; the look before the insert alone does not.
* `SavedIsQueued`: no account is committed without its notification queued and its answer
  sent. This is the order the code has, background task first, seen from its good side.
* `AcceptedUnlessDeactivated`: after `/auth/me` has found a user, it answers 404 only
  while an administrator has the account deactivated; the row is there for good. A client
  may be answered 404 before its commit and 200 after it, never 200 for a registration
  that is then rolled back. Expiry is the other way a token ends (401), and is left out of
  the claim.
* `RegistrationsEnd`: under `FairSpec` no registration waits for ever for the row of
  another one.

*Bounds.* Two registrations of one address make every race of look, insert and commit;
the third is beside them with another address, or queues up behind both.

### `Overviews`: the dashboard and the Celery page

Both pages poll one API process. A dashboard request gathers coroutines over one session;
the connection runs one statement at a time in the order in which the coroutines ask, so
`pc` is the next statement (`CountAll`, `CountActive`, then those of `Checks`), and only
the Redis ping of `_check_services` (`PingServices`) floats beside them. `Connected` is
the request's connection: once broken it stays so, also when the database is back. The
metrics are collected in a thread, and a Celery overview inspects the workers in one, for
which it waits no longer than its overall time limit (`TimesOut`); `jobs` and `running`
are the default executor, which both share: a call that has a thread when its request
gives up goes on, one that waits is cancelled, keeps its place and is dropped when a thread
comes to it (`TakeThread`, `Cancelled`). Accounts, services, the revision and the
heartbeat change between any two steps. `since` and `together` are history: accounts
registered between the two counts, and whether both services answered at one moment of
the request.

**Run `overviews`** - a dashboard request, a Celery overview, one account that may appear
and be toggled, and an executor with a single thread.

* `DashboardHolds`: the active accounts exceed all accounts by no more than were
  registered between the two counts; "ok" is answered only if the database and Redis
  answered at one moment of the request, although they are asked one after the other; and
  a card that calls the database down is never beside a ready status other than "error".
  The last two hold because every check is on the connection that has been there from the
  beginning.
* `PagesAnswered`: the Celery page is answered whatever becomes of the threads; the
  dashboard is answered if threads return some time. Without that assumption TLC finds a
  dashboard that waits for ever behind an inspection nobody waits for any more.

*Bounds.* One thread is the executor at its limit, which a larger one reaches with more
requests; with two requests each finds it taken by the other. The counts differ by what
happens between them, so one account is enough.

With the database down before a request's counts, the dashboard is answered 500 rather
than shown with "database: error" (`CountFails`): only a connection that breaks between
the counts and the checks is reported.

### `RollingUpdate`: `scripts/rolling_update.sh`

`Script` is the script, one action per command: a wait succeeds or gives up (each polls a
bounded number of times), `Stop`, `Remove` and `Start` replace the container `cur`. Beside
it containers become `Healthy`, fail and are restarted by Docker (`Fails`), are found
`Unhealthy` after their retries, and the proxy looks up the addresses (`Lookup`, every
five seconds). `Reported` is what `docker compose ps` says, which calls a container that
has stopped answering healthy until its checks have failed.

The names of its state and specification (`line`, `RUInit`, `RUNext`, `RUSpec`, `RUInv`)
differ from those of the other modules because `OperationsProofs` extends it together with
`Overviews`.

**Run `rolling`** - three replicas.

* `TrafficServed`: in the loop the proxy always has a container that answers, unless one
  has failed by itself since the last full count. The guard is `count` before every stop;
  a count that took "unhealthy" for "healthy" breaks it.
* `UpdateEnds`: the script ends, whatever becomes of the containers; one that never
  becomes healthy ends it with an error.

*Bounds.* With three replicas one is replaced, one may fail and one is left, and the
fallback from `SCALE_API - 1` to 1 (line 76) is a different number; the theorem is for any
finite number.

The loop is preceded by `docker compose up -d --build` (line 61), which recreates every
container at once when the image has changed: `TrafficServed` speaks of the loop only,
although line 2 of the script promises no downtime for all of it. The first health check
comes ten seconds after the start, the proxy's look-up every five: a healthy container is
taken to be known to the proxy. The proxy does not retry: a request sent to a container
that has just been stopped is answered 502. Containers that are too many because
`SCALE_API` was lowered are not modelled.

### `AdminSession`: the console's session

Tabs of one browser share the tokens in localStorage (`storage`); each has the user it
shows and whether its first load is under way. A call (`call`) belongs to a tab and a
purpose: a page load, a login, or one of the calls of the pages. Between two awaits a
tab's code runs alone, so one action is what happens from one await to the next:

| Action | Code |
|---|---|
| `Reload`, `LoadUser`, `Loaded` | a page load: `loadUser` and what it does with its answer |
| `CallApi`, `Called` | `apiFetch` of a page: the fetch with the stored tokens, and its end |
| `Refresh`, `Renew` | `apiFetch` after a 401: `refreshAccessToken`, storing, the one retry |
| `Login`, `LoggedIn`, `Logout` | `login` and `logout` of the `AuthContext` |
| `Serve`, `ServeRefresh`, `ServeLogin` | the API: `get_current_user`, `AuthService.refresh`, `AuthService.login` |
| `Tick` | tokens age |

The API looks the user up for every request and the row may change at any time, so its
answer is a choice: only a good token is accepted, everything else may fail. `crossed`
and `apart` are history: calls under way when the stored session became another, and
tabs that show what they had before it did.

**Run `sessions`** - two tabs, two users, one page call each, at most two calls at a
time, tokens that live two ticks of which the access token has one. Every hazard is
about one call that crosses one login, logout or refresh; two users tell the sessions
apart, and two ticks let either token expire at any await.

* `ActsAsShown`: the stored tokens are those of the user a tab shows, or gone, unless
  another tab has logged in or a login was overtaken by an answer under way.
* `SignOutIsOwn`: a failing page load removes its own user's tokens, unless a login
  overtook it.
* `LogoutHolds`: only a login brings tokens back.
* `ExpiredOnly`: a call fails for the age of its tokens only if the refresh token had
  expired, or the answer to the refresh took an access token's life to arrive.
* `LoadsEnd`: under `FairSpec` a page load ends; a 401 of the retry is not retried. Its
  safety half, `CallsAdvance`, is proved for every call: no point of a call comes twice.

### `AlertSettings`: the settings of the alerts and their page

One action is one statement a request sends to PostgreSQL, its commit, or one callback
of the page:

| Action | Code |
|---|---|
| `Load`, `Insert` | `get_or_create`, and with it `_ensure_settings_row` and the assignments of `update_settings`, `send_test` or `run_check`, which change the row in the session |
| `Post` | the POST of a test, or the stages of a check |
| `Write` | a flush, explicit or by the commit: the columns that differ from the row as loaded |
| `Refresh` | `session.refresh` of the PATCH, from which the audit row and the answer are made |
| `Commit`, `Abort` | the commit in `get_db` or in the task, after the answer; a failure or death anywhere |
| `Fetch`, `Loaded`, `LoadFailed` | the page's query, whose function fills the form |
| `Open`, `Edit`, `Save`, `Saved`, `SaveFailed` | mounting the page, typing, the mutation and its callbacks |
| `Arrive`, `ArrivePatch` | other clients, the test button, the monitor |

`base` is the row as the session believes the database has it, `row` as it has been
changed, `wrote` the columns written and not committed, which hold the row's lock.
`overtaken` and `behind` are history: requests whose row was changed by others after
they had read it, and forms and saves older than the last change or never filled. A
form is never filled when the page is opened while its query's answer is still in the
cache (the query does not run, the form starts empty) or when the query fails.

**Run `settings`** - one page and one other request (a test, a check, or a PATCH that
turns recoveries off), two of them at a time, two URLs, an environment with and
without a URL, a row that does not exist yet or exists with any content. (Migration
`003_create_alert_tables.py` inserts the row; a database made
from the models, such as that of the tests, begins without it, which `get_or_create`
allows for.)

* `OnlyNamedChange`: a commit changes a column only to what its request names for it,
  or fills an empty one from the environment. A reader that loaded the row when it was
  empty may put the environment's URL over one that was saved meanwhile; the property
  admits this of `overtaken` requests, and of no other.
* `AnswerStands`: a PATCH that has written the row commits what it has answered.
* `UneditedKept`: a save leaves the fields alone that the administrator has not
  edited, unless the row has changed since the form was filled.

*Bounds.* Two requests at a time: each hazard is about one that overlaps another. One
edited field between two fills of the form; the page is not left while its calls are
under way. There are no secrets in the instance; the theorems cover them.

### `Listings`: the lists of the console

Three pages of the console list rows, newest first, a page at a time. `list` says
which list it is: users and the audit log come from PostgreSQL by a COUNT and a SELECT,
two statements that may see different rows; logs come from one query of Loki, which is
cut to `loki_max_lines` and then to the page. A page fetches through the cache of
react-query, one entry per page number and filter:

| Action | Code |
|---|---|
| `Count`, `Store`, `Fail` | the API's statements, and what the cache keeps of an answer or an error |
| `Correct` | the query function finds its page past the last one: `setPage`, and a second fetch |
| `NextPage`, `PreviousPage`, `Submit` | the buttons of `PaginationBar`, the filter form |
| `Poll`, `Focus`, `Invalidate`, `Collect` | the 30 seconds of the logs, refetching on focus, the invalidation after a user was changed, garbage collection of the cache |
| `Arrive`, `Expire` | rows appear, possibly after newer ones; logs leave Loki or the hour a query covers |

What the library does (`Observed`, `Cleared`, `Again`, `Focus`, `Collect`) is modelled
from its documented defaults and `main.tsx`: one retry while the query is shown, none
for the logs; data older than ten seconds are fetched again when shown. A row is the
number of its `created_at`; rows with the same `created_at`, which the ORDER BY leaves
unordered, are not modelled.

**Run `paging`** - all three lists, up to four rows in pages of two, a filter that
selects all and one that selects every other, a Loki limit of three, an export limit of
two.

* `WalkMissesNothing`: an administrator who turns the pages from the first to the last,
  each of them fetched for this walk, has been shown every row that the list had at the
  start and still has. Arriving rows push others to later pages, so a row may be shown
  twice, never skipped. Two things are exempt, and without either exemption TLC refutes
  the property:
  * The history `walked` ends where an answer has a total that its rows do not have: when
    a row arrives between COUNT and SELECT, the pages counted may be one too few, and the
    walk stops before the last row.
  * `kept` holds the pages the walk was shown as the cache had them. The console does
    skip rows there: `staleTime` (`admin/src/main.tsx:11`) keeps a page for ten seconds,
    so after a look at page 2 and a return to page 1, where a row has arrived and pushed
    another one to page 2, the button shows the cached page 2, and the row pushed off
    page 1 is on neither. (A page whose fetch had begun before, or that was left before
    its answer, is in `kept` too.)
* `ExportAgrees`: an export without the note at its end has every row the page shows.
* `CatchesUp`: the logs become those of the filter, of a page that exists, once the
  administrator clicks no more and fetches succeed.

*Bounds.* Two pages and a page number past the last are what every condition of the
code tells apart; four rows fill two pages, and with a limit of three the last page of
logs is not full. One row may arrive late. The administrator's clicks keep two queries
in use (`Queries`): the one shown and one that a late answer belongs to.

## Fairness

* `AdminUsers!FairSpec`: weak fairness of the steps of a request that has arrived.
  The event loop resumes what is ready, and PostgreSQL grants a free lock to a
  waiter. No request has to arrive, nothing has to crash or not crash.
* `AlertMonitor!FairSpec`: weak fairness of Beat publishing what is due, of the
  worker taking and running what is queued, and of time. Nothing that failed must
  ever be repaired: the liveness properties assume a final state of `up` where they
  need one. With `Prompt`, time passes only when no work is possible: a check takes
  less than a tick. The safety run `alerts_spaced` is without it.
* `AdminSession!FairSpec`: weak fairness of the steps of a tab's page load: a fetch ends,
  if need be with an error, and the tab takes its answer. Nothing need be answered well.
* `Registration!FairSpec`: weak fairness of each registration's steps and of the worker.
  Failures and deaths are possible and never required.
* `Overviews!FairSpec`: weak fairness of the event loop's steps, of the timer of
  `wait_for` and of a free thread taking the first call. Calls that run in a thread need
  not return: whether they do is the assumption `ThreadsReturn` of the dashboard's half of
  `PagesAnswered`. An inspection is bounded by its broadcasts' time limits, unless the
  broker's connection hangs.
* `RollingUpdate!FairSpec`: weak fairness of the script. Nothing is assumed of
  containers or the proxy.
* `Listings!FairSpec`: weak fairness of the polling of the logs and of the answers to
  it, again good or bad. react-query polls while the page is visible, which is assumed.
  The other two lists are fetched by the administrator's actions only; nothing is
  claimed to happen to them.

## Proofs

The `...Proofs` modules prove, for all values of the constants that satisfy the named
assumptions of the modules:

| Module | Theorems |
|---|---|
| `AdminUsersProofs` | `AdminUsersInvariant`, `AdminUsersType`, `ShownPassword`, `CommitIsAudited`, `LastAdmin`, `OwnAccess`, `Refinement` |
| `AlertMonitorProofs` | `AlertMonitorInvariant`, `AlertMonitorType`, `Spacing`, `Recoveries`, `ZeroDuration`, `OwedKept`, `NothingForgotten` |
| `RateLimitProofs` | `RateLimitInvariant`, `RateLimitType`, `LimitHolds`, `OnlyOwnRequests`, `CountersAreGivenLives` |
| `AdminSessionProofs` | `AdminSessionInvariant`, `AdminSessionType`, `ActsAsItShows`, `LogoutsHold`, `SignOutsAreOwn`, `OnlyExpired`, `CallsOnlyAdvance` |
| `AlertSettingsProofs` | `AlertSettingsInvariant`, `AlertSettingsType`, `AnswersStand`, `OnlyNamed`, `UneditedStays` |
| `ListingsProofs` | `ListingsInvariant`, `ListingsType`, `NothingMissed`, `ExportsAgree` |
| `RegistrationProofs` | `RegistrationInvariant`, `RegistrationType`, `SavedIsQueuedHolds`, `AcceptedHolds`, `RegistrationClaims` |
| `OperationsProofs` (`RollingUpdate`) | `RollingInvariant`, `RollingType`, `TrafficServedHolds`, `ScriptIsBounded` |
| `OperationsProofs` (`Overviews`) | `OverviewsInvariant`, `CallsAccounted`, `DashboardHoldsAlways` |

Each rests on an inductive invariant `IInv` (`RUInv` in `RollingUpdate`) in the component's
module, whose first conjunct is the type invariant `TypeOK`. Most runs check it as well; the
runs of `AlertMonitor`, `RollingUpdate` and `Overviews` check the properties only, and the
theorems cover the rest. None of the properties is inductive by itself:

* **AdminUsers.** `LastAdminLostOnlyInRace` speaks of the moment of a commit; what
  makes it true is decided at the COUNT. `OneRemains` carries the decision forward:
  past the count, a request that is not stale leaves an active administrator.
  `Fresh` says that what it loaded is still so, `SelfSafe` that a request about its
  own actor clears nothing, and so that the actor of another request is the one that
  remains. `OneHolder` and `ShownByHolder` carry the order of resets from the
  lock to the commit. The step of each action is proved conjunct by conjunct; the
  refinement then follows from the invariant and the definition of each action.
* **AlertMonitor.** `AlertsSpaced` compares the history `quiet` with a key that
  every process overwrites: `DedupeCovers` says that the key outlives every
  process's quiet time, except between its POST and its key. `BadIsOwed` ties a
  stored bad state to a failure that is owed its recovery, along a check that has
  read it; `ZeroIsYounger` orders `alert:worker_zero_since` and the last sighting of
  a worker. `StageShape` says where in the code a check can be in each stage.
  `AlertRemembered` speaks of `told` and `state`, which no step relates: a failed stage is
  written long before its alert is sent and perhaps several times. `OwedIsKept`, inductive
  beside `IInv`, goes through `owed`: what was told is owed, what is owed is bad in Redis or
  about to be POSTed, and what a check has read of the state is still so when it writes.
  For the stage of the workers, which sends before it writes, nothing is owed at the write.
* **RateLimit.** `CountsAll` says that a counter does not expire within its window
  and is at least every number handed out on time; `Distinct` that those numbers
  differ. `AtMostLimit` follows by an injection from the requests that passed into
  `1..Limit`. For `LimitedOnlyByOwn`, `Backed` says that a counter never exceeds the
  number of requests it has counted and that a refused request found `Limit` others among
  them; a counter only grows in the step that adds a request to that set (`IncrBacked`),
  and an expiring one only shrinks (`SameServed`).
* **AdminSession.** What a tab shows comes from a call that was sent before:
  `CarriesStored` says that a call which no login has overtaken carries the stored
  user's tokens, so what it stores, shows or removes is that user's. For `ExpiredOnly`,
  `Aged` says of every call that has kept a 401 how old its token is; tokens only age.
  `CallsAdvance` numbers the points of a call by what can still follow (`Ahead`).
* **AlertSettings.** A property of a commit is decided when the row was read, when the
  form was filled and when the flush took the lock. `SessionCurrent` and `AnswerCurrent`
  say that what a request and an answer have is what is stored unless it is
  `overtaken`; `FormCurrent` and `SaveCurrent` carry this to the form and what is sent
  from it; `Changes` and `Writes` say why a column may differ, first in the session
  and then in the database; `OneWriter` is the row's lock. The only step that changes
  the row is a commit, and it overtakes whoever else has read it (`ChangeStep`).
* **Listings.** `DueComesLater`: while every page was fetched for the walk (`kept = {}`), a
  row that it has still to show has at least as many rows before it as its pages hold. Arriving rows can only raise this number
  (`RowsStep`), a page that is shown takes the next rows off (`WalkOn`), and behind the
  last page there is none (`NoneBehind`). `FewAreAll`, by well-founded induction on
  sets, says that an export that stays below its limit is complete.
* **Registration.** `OneAccount` is kept by the wait of `Insert`; `AnsweredBy` orders
  answer, notification and commit; `RefusedForAccount` and `FoundIsSaved` tie what clients
  were told to rows that are there for good: an account may be deactivated, not undone.
  With them each action maps to a claim, a refusal or a stutter: a commit creates, since no
  saved row has its address.
* **RollingUpdate.** A full count says that every replica is reported, and by `Noticed`
  that each answers or `failed` is set; `Others` carries this through stop, remove and
  start for all but `cur`, of which there are at least one by `Enough`, and `Known` says
  that the proxy has them. `ScriptShortens` counts the commands left (`Left`): nine for each
  container on the list, and those of the round; only the script itself changes it.
* **Overviews.** The counts are compared when the answer is put together, but are of two
  earlier moments: `CountsInOrder` says at the second that the first and the registrations
  since make up all accounts, so the active ones cannot be more. A connection that is not
  lost has a database that answers now (`WorldSeen`), so if the two services never answered
  `together`, Redis is found down or the connection is broken, and then the migration status
  fails (`OutageFound`); a connection found broken is found broken again (`BrokenStays`).
  `Accounted`: the executor has every call once, in its queue or in a thread. The proof
  showed `ReadyStatus` to be ambiguous when it was written as a CASE, although the code
  tests in order; it is nested now.

What is only model-checked: the liveness properties `RequestsEnd`, `RecoveriesTold`,
`WorkersMissingTold`, `LoadsEnd`, `CatchesUp`, `RegistrationsEnd`, `PagesAnswered` and
`UpdateEnds`, which are beyond the prover. Of `LoadsEnd` and `UpdateEnds` the theorems
`CallsOnlyAdvance` and `ScriptIsBounded` prove what is safety: that the steps that fairness
makes happen are bounded in number. Every safety property that a run checks is proved, most
of them with no bound on requests, tabs, processes, accounts, containers or durations;
`RecoveryAnswersFailure`, `ZeroLasted` and `AlertRemembered` are about one worker process.

## Disagreements

Run `alerts_outage` refutes a claim of the requirements with a behaviour of the code;
`PROJECT.json` quotes the sentence. Other claims that the modelled code does not keep are
outside what the properties say, each for the reason given:

* `docs/brainstorms/2026-05-18-admin-phase2-requirements.md:94` asks that the system
  cannot be left without an active administrator. Two administrators who remove each other
  at the same time both count two (`app/services/admin_users.py:90`);
  `LastAdminLostOnlyInRace` admits exactly this race.
* `docs/plans/2026-05-18-002-feat-admin-phase3-ops-runway-plan.md:159` expects one alert
  within the dedupe time. Two worker processes that both read the key before either has
  set it send two (`app/services/alert_monitor.py:182`); `AlertsSpaced` is of each process.
* `docs/brainstorms/2026-05-18-admin-phase3-ops-requirements.md:58` (R4) asks for an alert
  when there has been no worker for the configured time. The check that would send it is
  itself a Celery task (`app/tasks/celery_app.py:23`): with no worker process it is not
  run, and nothing is sent. Only workers that run tasks and do not answer inspect are
  alerted, which is what `WorkersMissingTold` assumes and says so.
* An administrator who empties the URL to stop the alerts is told that the settings are
  saved (`admin/src/pages/AlertSettingsPage.tsx:79`), but the page sends null (line 73),
  which `update_settings` takes for a field that is not named, and the row keeps the URL.
* `docs/solutions/architecture-patterns/fastapi-production-scaffold-greenfield-2026-05-16.md:125`
  says that background tasks come after the commit. `get_db` commits after them, so the
  notification is queued, and may be sent, for a user that is not committed and may never
  be (`Registration`: `Queue` before `Commit`).
* `tests/api/test_auth.py:24` expects 200 of `/auth/me` with the tokens of a 201. The
  commit follows the answer, so it may be 404, and for good when the broker refuses the
  notification and the registration is rolled back (`QueueFails`, `Me`).
* `tests/api/test_auth.py:50` expects 409 for a duplicate address. When the other
  registration is committed after the look and before the insert, the violated index is
  answered 500 (`Insert`).
* `scripts/rolling_update.sh:2` promises no downtime; line 61 recreates all containers at
  once when the image has changed (`Up`).
* With Redis down the dashboard is answered 503 by the rate limiter, see `RateLimit`.

## Not modelled

* Rows of `alert_deliveries` and of the audit log of alert settings: no decision reads
  them. In `AlertMonitor` the settings row is its URL only, which may be set and unset.
* A fetch that an invalidation of the users' list has replaced and that still goes on:
  its correction of the page number may come after. Deliveries of alerts and the audit
  rows of one user, which are listed without paging.
* StrictMode's second load in development, and the export of the audit log, which
  sends the stored token without `apiFetch` and changes no session state.
* Loss of Redis data. An outage is modelled as Redis not answering while its keys
  stay; a restart that loses them would also lose counters, dedupe keys and the
  broker's queue.
* The lists of workers, tasks and metrics in the overviews. A task that moves between two
  of the four broadcasts of an inspection is listed in neither or both. When a count fails,
  `gather` raises and the other coroutines of the request run on; nothing of theirs is
  seen. `stale` and `unknown` heartbeats have the same consequence and are one value.
* `/health` and `/ready`, which ask the database and Redis once and keep no state; start-up
  and shutdown of the application.
* The other scripts: `start.sh`, `stop.sh` and the development set-up run commands in a
  fixed order. `start.sh` says that the stack is up also when its health check has not
  succeeded (lines 59-71).
* Migrations, which Alembic runs before the API starts; models and schemas are
  declarations whose constraints appear in the modules that meet them.
* Payload and signature of the webhook, string formatting of log queries, rendering.
* Password hashing and token signatures, which are taken to work.
* Clock skew between API processes.

## Plan

Done: `UserTable`, `AdminUsers`, `AlertMonitor`, `RateLimit`, `AdminSession`,
`AlertSettings`, `Listings`, `EmailClaims`, `Registration`, `RollingUpdate` and `Overviews`
with their proofs.

1. What several worker processes still promise together: how many alerts of one stage are
   sent within the dedupe time, and which recoveries may be missing, in `AlertMonitor`.
2. A proxy that gives up on a container after a failed request (`fail_duration` of the
   Caddyfile), and replicas that are surplus, in `RollingUpdate`.
3. Redis that restarts without its keys, in `AlertMonitor` and `RateLimit`.
