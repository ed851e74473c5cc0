# A TLA+ model of webshelf

webshelf is a web application template: a Rust server (Axum or Salvo, SeaORM
on PostgreSQL, optional Redis), a set of library crates, and Dioxus front ends.
This directory holds TLA+ modules that model the parts of it whose correctness
depends on order and interleaving, the TLC configurations that check them, and
TLAPS proofs. `PROJECT.json` is the index: which definition models which
source lines, what each run checks, which mutant each property catches.

Paths below are relative to the repository root.

## 1. Inventory

| Component | State | Operations | Hard because of |
|---|---|---|---|
| Sessions (`services/auth.rs`, `services/user.rs`, `services/password_reset.rs`, `lib.rs`) | `users` rows (password, role, `token_version`), `refresh_tokens` rows, `user:token_version:*` in Redis, signed JWTs | login, refresh, logout, logout-all, change-password, reset, update-role, delete, the check of every authenticated request | READ COMMITTED transactions of several handlers; a cached version; statement errors and lost answers |
| Password-reset codes (`services/password_reset.rs`) | reset hash, expiry, attempts, `sent_at` | forgot-password, reset-password | guesses and claims that race with new codes |
| Registration and verification (`services/verification.rs`, `handlers/auth.rs`, `services/user.rs`) | unverified rows, verification code, attempts, global send semaphore | register, create-user, verify-email, resend-code, background welcome email | failure between INSERT and code; permits of background tasks |
| Snowflake ids (`utils/snowflake.rs`) | last timestamp and sequence, two atomics | generate | threads between two atomics; clock set back; sequence overflow |
| Worker registry (`utils/snowflake.rs`) | `snowflake_workers` rows with heartbeats | clean up, scan, insert, heartbeat, unregister | instances that are late but alive |
| Cache and lock (`services/cache.rs`, `services/lock.rs`) | cache entry, null marker, lock key, guards | get_or_insert, get_or_insert_with_lock, acquire, release, drop | TTL of a lock still in use; lost answers; cancelled futures |
| Read-write router (`utils/db_router.rs`) | breaker per replica, round-robin counter | read with retries, health check | breakers shared by requests and the prober |
| User profiles, list, balances (`services/user.rs`) | `users` rows, positive, negative and count caches; balance | get, list, create, update, delete, set and adjust balance | cache fill against invalidation; two writers of one balance |
| WeChat login (`services/wechat.rs`, `crates/wechat-api`, `handlers/wechat.rs`) | captcha, reverse index, attempts, cooldown, access token | callback, generate, push, verify, consume, log in | several Redis keys changed one after the other |
| Rate limiter (`crates/distributed-ratelimit`, both middlewares) | counter per key with TTL | check | window edges, fail-open and fail-close |
| HTTP runtimes (`crates/webshelf-axum`, `crates/webshelf-salvo`, `routes/`) | none | routing, rate limit, authentication, admin guard, CORS | one behaviour translated twice |
| Client and browser session (`app/client-api`, `app/web/src/auth`) | token, expiry, `refreshing` flag, storage, cookies | retry, restore, refresh, login, logout, expiry guard | tasks that are dropped; lost answers; timers |
| Users and Dashboard views (`app/web/src/views`) | signals, spawned tasks | load, search, page, create, edit, delete, adjust, health check | answers that arrive after the view has moved on |
| Start-up (`bootstrap/`, `migrations.rs`) | schema, system account | migrate, register, seed, serve, stop | several instances at once, each of which may die |
| Config, passwords, JWT encoding, email transport, i18n, UI components | none of interest | | |

Interaction: handlers run concurrently on Tokio and share PostgreSQL (row locks
and unique constraints), Redis (single commands and scripts are atomic) and a
few process-wide values (semaphore, atomics, health mutex). The session check
reads the version cache that password, role and session changes delete; reset
codes and sessions meet in reset-password; registration, reset and
verification share the email transport; ids of new rows come from the
generator, whose worker id comes from the registry; every statement goes
through the router. The browser reaches all of this through the middlewares of
one of two frameworks, with cookies that only the browser sees and a token that
only the client library sees.

## 2. Modules

Each component module has CONSTANTS with a named assumption, one action per
SQL statement, Redis command or atomic operation (what runs without an await or
another shared access is one step), the properties at its end, and before each
mutated definition the mutant the property must catch. `MC*` modules and `.cfg`
files give the constants their values. `*Proofs` modules hold the theorems.

| Module | Models | State and actions |
|---|---|---|
| `Sessions` | sessions | a request picks an operation, then steps through the handler's statements; a transaction holds row locks until its commit, rollback or deadlock abort; inserted and deleted token rows show at commit. History: which version a request produced, which tokens its DELETE saw, which other role changes it overlapped (`rivals`) |
| `ResetCodes` | reset codes | requests that ask for codes and requests that present one; a clock for cooldown and expiry |
| `Registration` | registration, verification, email limiter | requests of four kinds; permits of the semaphore; crash of the process |
| `Snowflake` | `SnowflakeGenerator::generate` | the loads, compare-exchange, store and fetch-add of each thread, and a clock that may go back |
| `SnowflakeWorkers` | registry | instances that clean up, scan, insert, beat, stop; ages of rows in ticks, which each instance judges by a clock up to `Skew` off |
| `Bootstrap` | start-up, composed with `SnowflakeWorkers` by EXTENDS | the phase of `bootstrap()` per instance, the schema, the accounts by address, which visitors register, rename and delete; each step of the registry is taken in the phase that calls it. History: instances whose address a visitor took between their SELECT and their INSERT (`squatted`) |
| `CacheLock` | cache service and lock | callers of get_or_insert, get_or_insert_with_lock and LockGuard; a lock TTL in ticks |
| `AutoRouter` | router | reads in phases 1 and 2 and at the writer; the health check, if configured, collects, pings and then clears in three steps; replicas that come and go. History: which replicas a read was sent to (`asked`) |
| `Ledger` | what balances promise (abstract) | a balance per account that atomic operations change within `i64` and never below zero |
| `UserDirectory` | profiles, list, balances and their caches; implements `Ledger` | requests that step through the statements and Redis commands of `services/user.rs`; a replica that lags behind the table, from which `list_users` may count; expiry, failures of Redis. History: readings that are or became old (`old`) |
| `WechatLogin` | captcha login | callbacks and logins, every Redis command a step that may fail; expiry of every key |
| `Gateway` | both HTTP stacks | no state: the route table, and for each framework the chain limiter, authentication, admin guard, body as an operator from request and counters to verdict and counters |
| `ClientSession` | client library and browser session, composed with `Gateway` and the server's refresh and logout | one tab: storage, signals, cookie jar, mounted guard, tasks with their requests in flight; a server with one account's session; a clock |
| `AdminViews` | Users and Dashboard views | signals, queued effects, tasks and their answers; the server's table of users |

### Abstractions

* A hash, code, token or lock value is named by the request that made it; two
  of them are equal only if they are the same. Comparison of hashes is
  comparison of names.
* A SQL statement is atomic and sees the rows committed at its start
  (READ COMMITTED); `FOR UPDATE` and UPDATE wait for the row lock and then see
  the newest row. SeaORM updates write only the columns that were set.
* The time limits that only have to pass are flags (an entry that expires at any
  moment); where the amount matters they count ticks.
* Snowflake fields keep their widths, as constants: two bits of sequence make
  overflow happen within a few calls.
* Dioxus: an effect that reads a signal is queued again when the signal is set,
  equal value or not; a task belongs to the component that spawned it and is
  dropped with it, and the request it awaits may or may not have been served.
  Whether `use_resource` tracks reads after an await is left open
  (`tab.tracks`).
* A request over the network is served once, not at all, or served with its
  answer lost; the client library then repeats it.
* In `AdminViews` lists are read from the primary. The code's go through the router
  (`services/user.rs:723-751`); with a lagging replica, which `UserDirectory` has for
  the count, the newest answer can itself be old. `ShownPageIsCurrent` is about
  requests and answers that overtake each other, and says nothing of that case.
* Formatting, messages, logging and input validation are left out.

## 3. Runs

All runs explore the whole state space of the instance. "Passing" runs:

| Run | Instance | Shows |
|---|---|---|
| `sessions_all` | one account, three requests, each any of nine operations, all failures | rotation is single use; a committed revocation removed every token its DELETE saw; concurrent bumps of `token_version` are distinct; no JWT or cache entry is ahead of the row; a JWT the row honours carries its role, through any role changes of the account that do not overlap; the password in force is the last committed one; a request can always go on or waits for another that is still under way; admins delete only users |
| `snowflake_ids` | two threads, five calls each, three milliseconds of four numbers | calls that did not overlap get unique, increasing, well-formed ids, across threads; overlapping or not, a thread's own timestamps never go back |
| `server_start` | two instances of one or two configurations, ids 0..2, two migration statements, an address that no instance is configured with, any users at first, clocks one tick apart | live instances have different ids while no heartbeat is later than the staleness threshold less the clocks' difference, and a heartbeat finds its own row; the system address of a serving instance belongs to a system account, unless a visitor took it while the instance seeded |
| `reset_codes` | three requests for codes, three that present one | guesses per code stay bounded; there are never more resets than codes; the cooldown limits codes |
| `registration_all` | a registration or an admin's creation, a resend or a second creation, two verifications of one address; with or without an email service; one permit | guesses stay bounded; a registration answered with success left a verified account or a code that was mailed, and an accepted code leaves the account verified; queued emails drain |
| `cache_lock` | two calls, each of any kind and with any kind of cache service | a guard younger than its TTL owns the lock; an owner's value is not computed again; no lock stays; calls return |
| `router_reads` | two reads, two replicas, with and without fallback | a read gives up or goes to the writer only when every replica was tried or broken; with as many retries as replicas it has then been sent to all of them; recovered replicas return; reads end |
| `user_directory` | three requests of any kind on two accounts, one of which may still have to be created (its id is then unknown to others), with a replica that may be behind | every change of a balance is one atomic `Ledger` operation, whatever statements interleave; once its writers are through, a cached profile or count is the table's, unless a write overtook the reading that filled it, the count was read on a replica that was behind, or the invalidation failed; a null marker never belongs to an account |
| `wechat_login` | two messages of any users, two logins with any codes | a captcha opens one login; the session belongs to the captcha's user; a user whose message stored a captcha has seen its code, unless Redis failed after the SET and the answer was to try again later |
| `client_session` | one tab with any stored session, one operation, a revocation elsewhere, one lost message, windows of two requests, four ticks, a timer of two ticks and remembered sessions of three | no counter lets more than its limit through per window; the two frameworks decide alike on every request that occurs, for any role and with a limiter that is up, down, failing open or failing closed, and configure CORS alike exactly when each origin is a header value if and only if it has a scheme; restoring ends; a session that has expired and was within the timer's range is renewed or signed out |
| `admin_views` | a user, an admin or a system account, three clicks of any kind, one fault, one deletion elsewhere | the list on the screen is the selected page and includes every write that was answered; nothing spins for ever |

The "violation" run `sessions_revoke_race` shows that a rotation in flight
survives change-password's DELETE, which a comment of the code excludes;
PROJECT.json quotes it under "findings".

Further disagreements met while modelling, which no run states (the models'
actions show them; the passing properties are worded around them).

Server:

* `services/password_reset.rs:44` "used by the handler to issue a fresh JWT so the
  caller is auto-logged-in after resetting": reset-password does not delete the
  cached `user:token_version`, so until its 30 s are over the fresh JWT is
  rejected.
* `utils/snowflake.rs:91` "保证了在任意并发情况下不会产生重复的 (timestamp, sequence)
  组合": a thread that takes a number between another's compare_exchange and its
  `store(0)` gets a number that is handed out again. `SerialIdsAreGood` is about
  calls that do not overlap.
* `services/password_reset.rs:256` "the first request to commit wins": the claim asks
  for some stored code, not for the verified one; two requests with one code both
  succeed when a new code is stored in between. `ResetsNeedCodes` counts.
* `services/user.rs` "Cache is invalidated on every write operation": verify_email and
  auto_verify leave `user:{id}`; a change of role leaves `user:count:*`.
* `bootstrap/mod.rs:325` "race condition handled": a unique violation counts as the
  system account being there, also when a regular user registered the address
  between the look and the INSERT (at an instance with another configuration).
  This is the exception (`squatted`) in `ServingHasSystemAccount`.
* `crates/wechat-api/src/store.rs:50`, one-shot captchas: consume_captcha takes what is
  stored without comparing, so a code can pass after its captcha was consumed if a
  new one was stored meanwhile. `CaptchaOpensOneLogin` counts captchas.
* `handlers/auth.rs:115` checks the captcha first, "so that a failed captcha does not
  leave behind a stored refresh token"; a captcha that turns out to belong to another
  user is found out after the password login (`:194`), which has by then replaced the
  refresh token of its user.
* Wrong WeChat codes that are not in the reverse index are never counted.
* `migrations/001_init.sql:45` "at most one active refresh token per user": two
  remembered logins that both run their DELETE before either commits its INSERT
  leave two rows (`services/auth.rs:185`).
* `services/user.rs:368` "When role actually changes, it will be atomically
  incremented": of two role changes at once, the one that read the role it sets
  writes it back with the plain UPDATE at :442 and no increment. This is why
  `HonouredJwtHasCurrentRole` excepts accounts of which two role changes overlapped
  (one read the row while the other was between its read and its write); role
  changes one after the other are covered.
* `utils/snowflake.rs:17`, worker ids "不重复": an instance whose heartbeats fail
  for longer than the threshold loses its row and goes on with the id;
  `heartbeat()` does not look at `rows_affected`. The clean-up compares its own
  `Utc::now()` with times other instances wrote (:267, :286), so clocks that differ
  have the same effect. Hence `MaxLate + Skew <= Stale`.
* `services/verification.rs:27` "across all requests": `request_reset` sends its
  email without a permit.
* `handlers/auth.rs:352` "avoids orphan accounts": when `auto_verify` fails, the
  unverified row stays and the address is taken, though the answer says to try
  again. `NoOrphanAccounts` is about registrations that were answered with success.
* `services/cache.rs:287` "only one concurrent request recomputes": a request that
  polled `max_retries` times computes beside the lock's owner.
* `utils/db_router.rs:258` "Only clear if still marked as down": a breaker set
  again after the collection is `Some` too and is cleared, even when it was set
  after the ping was answered.
* `utils/db_router.rs:355` "retry previously-failed replicas": the index
  `(tried.len() + retry) % reads.len()` does not depend on which failed.

The two frameworks: an origin without a scheme is accepted by Axum's CORS and dropped by
Salvo's (in development Salvo then allows any), one with a scheme that is no header value
the other way round; `OriginsAgree`, a part of `FrameworksAgree`, says that these are the
only differences. What the CORS libraries make of "*" among other origins is left out.
Outside the requests of `FrameworksAgree`, PUT and DELETE of
`/users/me` are 405 in Axum and fall through to `/users/{id}` in Salvo; Axum's `RequestContext::client_ip` looks for an extension
nobody inserts.

Front end:

* `token_expiry_guard.rs:9` acts at `exp`: a remembered session's 30 days exceed the
  browser's 2^31-1 ms, and so do a refreshed one's; the timer fires at once, finds nothing
  expired and is not set again, and the shell stays open on the expired session until some
  request is answered 401. `ExpiredSessionIsSettled` excepts sessions that were beyond the
  timer's range when it was last set (`tab.missed`); the run has such sessions.
* `auth/mod.rs:3` says the 5 s leeway keeps users from being signed out early; with
  `now + 5 >= exp` the client expires 5 s earlier than the server.
* `refreshing` stays set when the guard's task is dropped in the middle of a refresh; the
  next caller waits 12 s and signs out. Under one reading of Dioxus the guard cancels
  its own task. `ExpiredSessionIsSettled` therefore allows signing out.
* A logout while a refresh is in flight ends with the refreshed token and cookies. After
  a lost answer the repeated refresh presents the old cookie and ends the session.
* `auth/state.rs`: a network error of `get_me` after a refresh sets `token_expires_at` to
  the old value, which the comment beside it rules out.
* `client.rs:500`: every request is repeated after a network error, adjust_balance too, so
  an adjustment whose answer was lost is made twice.
* `users.rs:756` "避免旧异步任务关闭新打开的模态框": a modal of the same kind that was opened after
  the old one was cancelled is closed by the old task. Cancelling clears `submitting`, and
  the old task clears it again while a new one is in flight, so a form can be sent twice;
  an adjustment's new balance is shown on whichever user is being edited by then; a page
  beyond the last stays selected after its only user was deleted.

### Bounds

One account is enough for Sessions: accounts share no row, lock or cache key
(the proofs cover any number of accounts and requests). Three requests make every conflict between two
with a third that observes; two calls and two threads suffice for the lock and
the generator because their hazards are between two actors (the proofs about
both cover any number). TTLs of 1 or 2 ticks, one or
two attempts and one permit put each limit within reach. Clocks stop at a bound
(`MaxTime`, `MaxMoves`, `MaxNow`). Two instances meet in every step of a start-up
(the proofs cover any number). The safety properties of codes, registrations,
captchas, profiles, balances, reads, limits and views are proved for any number of
requests, users, replicas and limits, so their instances only have to reach each step. One tab, one operation and one lost
message already put the guard, a view and a restore on the same cookie. `TimerMax` is
below `RememberLife` and not below `JwtLife`, as 2^31-1 ms are below 30 days and above
the life of a plain JWT. Two retries are as many as there are replicas, and a staleness
of three ticks leaves a heartbeat two ticks late with clocks one apart. Three clicks open,
submit and cancel a form, or turn a page twice, while loads are in flight. Which replica the strategy picks (`rr_counter`, random,
weights) is left open: any candidate. `CHECK_DEADLOCK FALSE` appears where every
request may have ended.

### Fairness

Weak fairness of each request's own steps: a future that is ready is polled, and
statements, commands and emails end by an answer or a time limit. PostgreSQL's
detector ends a deadlock. The health check, where `health_check_interval_secs` is above 0 (`HealthCheck`), and the
clock go on. In the browser
weak fairness is only of all system steps together: the event loop runs something
that is ready, and what is sent is answered. Nothing is assumed about users,
failures, expiry, replicas or the client's clock. Liveness is checked by TLC only.

## 4. Proofs

`tlapm` checks all of them; no constant has a particular value. Each theorem about
an invariant has the same form: an inductive invariant that holds at first, that
every action keeps (one step per action, or one per group of actions of the same
shape), and that implies the property. TLC has checked the inductive invariants on
the runs' instances as well.

* `SessionsProofs`. `TypeCorrect` rests on `TypeInv`, TypeOK with `Control`: what
  a control point says about a request's fields (which account, which locks).
  Every further invariant has a shape of step (`VersionStep`, `TokenStep`,
  `RowStep`, `RoleStep`, `PasswordStep`) that all actions have and that keeps it.
  * `BumpsAreNeverLost`, `VersionsNeverAhead`: `VersionInv`, what a request read or
    produced is at most the row's version.
  * `RotationIsSingleUse`, `RevocationIsComplete`: `TokenInv`, which follows a
    token from issue through the lock of its row to deletion.
  * `AdminsDeleteOnlyUsers`: `RowInv`. A users row is
    locked by a request exactly while the request is inside its writes; the row is
    then there, and the role an admin's DELETE asked for stays, for nobody else can
    write it.
  * `RolesFollowVersions`: `RoleInv`. A request that will sign a JWT has the role
    that goes with the version it read, and an UPDATE without a bump writes the
    role the row has. The latter needs that no two role changes of the account
    overlapped; that two which are both under way are in each other's history
    (`rivals`) is part of the invariant.
  * `LastPasswordWins`: the versions order the commits, and each commit of a
    password gets a version above all earlier ones.
* `BootstrapProofs`. `WorkerIdsAreUnique`, `HeartbeatsAreNotLost`, under
  `MaxLate + Skew <= Stale`, from `WorkersInv`: a registered instance's row exists and
  its age is the time since its heartbeat. `BootImplementsRegistry`: every step of
  a start-up is a step of the registry or none, so `WorkersInv` carries over.
  `ServersKeepTheirSystemAccount` adds `Progress`: from the phase in which an instance
  found or inserted the account on, its address belongs to a system account or the
  instance was overtaken by a visitor; no regular operation renames or deletes a
  system account, which is where the role checks of `update_user` and `delete_user` enter.
  The generator is in the same module: `OwnTime`, from `TimeInv`: the shared timestamp
  only grows and bounds what a thread has received. `SerialCallsGetGoodIds`,
  `SerialCallsGetLargerIds`, from `SerialInv`: while no two calls overlapped, every
  id is older than the pair of shared timestamp and sequence, also between the
  compare_exchange and the reset. Their hypothesis `FieldsAdd` says that the or of the
  shifted fields is their sum: true of all widths, but an induction over bits;
  `MCSnowflake` has TLC evaluate it for the widths of the run.
* `ResetCodesProofs`: `NoResetWithoutCode`, `GuessingIsLimited`, `CodesAreSpaced`,
  from `ResetInv`: a request is on one side of its effect (`Control`), clocks that
  were read are in the past, and `SeriesFits`: the codes since the last reset fit
  the time up to `sent`, those of earlier series the time up to now. The bound of
  the property alone is not inductive, because a reset clears `sent`.
* `RegistrationProofs`: `GuessingIsLimited` by the same counting over codes and
  verifications; `AnsweredRegistrationsAreUsable`, from `AnswerStep`: what each handler
  has done to the row or mailed by the step that answers with success, through every
  fallback; and `LimiterIsExact`, the safety half of
  `MailQueueDrains`: the permits out are exactly those of the requests that are
  sending, through failures, the second attempt and crashes.
* `DataAccessProofs`: `LockIsExclusive`, from `LockInv`: the TTL left on the lock
  and the age of its owner's SET add up to the TTL, so a lock cannot vanish or
  change hands while its owner's guard is young. A step either leaves lock and
  ages alone, releases the caller's own lock, takes a free lock, or is a tick.
  `OwnersComputeOnce` adds where a guard can be (`GuardPlaces`): an owner's value
  can only be stored by a caller whose own guard rules out the other's.
  The router: `RouterTriesAll`, from `RouterInv`: a request that has left phase 1 has
  tried or skipped every replica, and without replicas it never enters that phase, so
  what it does later cannot come too early. `RetriesReachAll`, from `AskedInv`: the rounds
  of phase 2 that are over have asked the replicas `(tried.len() + retry) % N`, and as
  `tried` no longer changes, N rounds in a row meet every replica.
* `UserDirectoryProofs`. `BalancesFormALedger` is the refinement of `Ledger`: the
  account is the row's role and balance, the answers are those of the balance
  requests; a refused change takes effect at its `FOR UPDATE`, any other at its
  commit, and `DirectoryInv` says that the row is still the one that was read.
  `ProfilesFollowRows`, `CountsFollowTable` come from `CacheInv`: an entry equals
  its row unless a writer of the account is between commit and invalidation or the
  account is marked late, and a reading that is about to fill a cache is what the
  table says unless it is marked `old`: a write has overtaken it, or it is a count from
  a replica that was behind. An account that is not created yet is untouched.
* `WechatLoginProofs`: `CaptchasAreOneShot`, `SessionsFollowCaptchas`,
  `CodesReachTheirUsers`, from `WechatInv`: the stored captcha of an openid was
  generated for it and not taken yet, and what each message and each login has
  read is related to the captcha it stored or took. `CodesReachTheirUsers` does not
  cover the messages answered "busy" (Redis failed after the SET,
  `handlers/wechat.rs:287`): their captcha is stored and its code is told to nobody.
* `FrontEndProofs`, about the views, the gateway and the browser's session.
  * `ScreenIsCurrent`, from `ViewsInv`: a load carries no version that is still to
    come, and an answer of the current version is not older than the last answered
    write (that write has raised the version, and a load that took the new version
    was served after it); a list that is shown is the selected one, or the load
    effect is queued or a load is still to start.
  * `SpinnersEnd`: a list that loads has its effect queued, a load to start or a load
    under way that is not stale (or the view is being left); a form that submits and a
    running health check have their task. Not inductive without `NewestLoad`: of the
    loads still to start, the last is for the selected page unless the effect is
    queued again; loads start in order, so the one that starts last is current.
  * `FrameworksAreOneGateway`: for each request the client library can make, both
    route tables find the same handler (`RoutesAgree`), both chains give the same
    verdict and counters for every role and limiter (`ChainsAgree`), and both CORS lists
    agree exactly for the origins that are header values if and only if they have a
    scheme (`OriginsDoAgree`); `TasksAreGood` says that no other request is ever under way.
  * `BudgetsHold`, from `LimiterInv`: what a window has admitted is at most its counter
    and at most its limit. The second does not follow from the first, because a
    counter goes on counting what it refuses.
  * `RestoreAlwaysSettles` and `SessionsAreWatched`, from `TabInv`: until `initialized`
    is set, the restoring task is at a call, a refresh or another task's refresh; while
    a session is open, the guard is about to be started again, sleeps until exactly
    the session's expiry, or is refreshing or signing out. Sessions that had more than
    `TimerMax` to go when the timer was last set are outside the second theorem: their
    timer fires at once (section 3), which is what the code does. Every remembered and
    every refreshed session is of this kind.

The assumptions are those the modules name (`SessionsAssumption`,
`SnowflakeAssumption`, `WorkersAssumption`, `BootstrapAssumption`,
`ResetAssumption`, `RegistrationAssumption`, `CacheLockAssumption`,
`RouterAssumption`, `DirectoryAssumption`, `WechatAssumption`, `LimitsAreNatural`,
`NoneIsAbsent`, `BrowserIsKnown`, `RefreshedTokensLast`): finite sets, a null value
apart from every other value, bounds that are naturals, a limit for the login route,
a browser with an address and an email, and a lifetime of remembered tokens (30 days)
above the leeway (5 s). `MaxLate + Skew <= Stale` and `FieldsAdd` are hypotheses of the
theorems that need them.

Proving found one fault of a model: two arms of the CASE in `AdminViews.Served` held at
once for some requests, so that its value was TLC's choice of the first; the arms
exclude each other now.

Every safety property of the passing runs is proved but one: `NobodyIsStuck` says
ENABLED and is only model-checked.
Only model-checked are also the liveness properties, which need fairness and ENABLED:
`MailQueueDrains`, `LockIsFreed`, `EveryCallReturns`, `RecoveredReplicaReturns`,
`EveryReadReturns`, `RestoreFinishes`, `ExpiredSessionIsSettled`,
`NothingSpinsForever`; and `FieldsAdd`, an induction over bits. For four of them the
safety half is a theorem: something that will bring the end about is always there
(`LimiterIsExact`, `RestoreAlwaysSettles`, `SessionsAreWatched`, `SpinnersEnd`). What
these theorems state is defined next to them; TLC has checked it on the runs'
instances. `TypeOK` is proved with the other invariants and not part of a run.

## 5. Not modelled

* `is_write_statement` and its helpers of `utils/db_router.rs`: lexical analysis of SQL
  text; `AutoRouter` starts where a statement has been found to be a read.
* Response rendering, compression, configuration, logging, SMTP, translations and UI
  components: no state whose order matters. Password hashing, JWT encoding, AES and XML
  are data transformations.
* The views register and verify-email of the front end, the desktop and mobile shells
  (templates), `bind_openid` (called by nothing).
* Tokio, PostgreSQL, Redis, Dioxus and the browser are modelled by what this code
  relies on, and marked external in PROJECT.json.

## 6. Plan

1. An abstract lock (a register with an owner) that `CacheLock` implements while
   guards are young.
2. The registration and verification views, composed with `Registration`.
3. `FieldsAdd` and the liveness properties, with provers that do induction over data
   and ENABLED.
