# PM2 Manager: verification project

PM2 Manager is a web panel for a PM2 daemon: an Express server over one synchronous SQLite
connection, one connection to the daemon, a sampling timer, and a browser client. This directory
holds TLA+ models of the server and of the client's behaviour, the TLC runs that check them on small
instances, and TLAPS proofs of the properties that matter most for every value of the constants. Paths below are relative
to the repository.

Contents: [inventory](#1-inventory), [modules](#2-modules), [runs](#3-runs-and-bounds),
[disagreements found](#4-where-the-code-and-its-words-part), [fairness](#5-fairness),
[proofs](#6-proofs), [not modelled](#7-not-modelled), [plan](#8-plan).

## 1. Inventory

The server is a single Node.js process, so what interleaves is not instructions but the pieces of
handlers between `await`s. `better-sqlite3` is synchronous: a query never yields. A handler therefore
runs atomically up to an `await` of work that is done elsewhere (argon2 in the thread pool, the QR
encoder, a PM2 RPC, a file read). Every module is built on this rule: one action per handler, or one
per piece when the handler has such an `await`, and what a later piece still holds from an earlier one
is part of the state. `create-admin` is a second process on the same database; a crash loses
everything except the database.

| Component (`src/...`) | State | Operations | What makes it hard | What makes it correct |
|---|---|---|---|---|
| Accounts and sessions: `controllers/auth`, `controllers/user`, `services/auth`, `services/totp`, `repositories/user`, `repositories/session`, `middleware/auth`, `middleware/csrf` | tables `users` and `sessions`, `SessionData` (user, pending challenge, candidate secret, CSRF secret), suspended handlers | login, 2FA, logout, change password, enrol and disable 2FA, create and delete users | rows and sessions are read before argon2 and used after it; roles are cached in sessions; deletion is two statements; sessions are written back whole | a session id keeps its user; cached roles are current; the last administrator stays; revocation is final; 2FA cannot be passed by |
| `scripts/create-admin`, `ensureInitialAdmin` | table `users` | create or reset an account from outside the server | races with the server and with first boot | the same invariants hold with it running |
| PM2 connection: `services/pm2` | `connected`, `connecting`, `bus`, `busInitializing`, waiting callers | connect with timeout, attach the bus, guarded calls, disconnect | callbacks come late, twice or never; many callers at once | one attempt at a time, no lost wakeup, no operation without a feed that was tried, every call ends |
| Log streams: `controllers/logs` | per request: described process, subscription, heartbeat | describe, backlog, subscribe, forward, close | the client may leave at each await; processes are renamed and their ids reused, and the bus is lost, while a stream is open | what a stream holds is released; what it misses and what it mixes in is bounded |
| Metrics and settings: `services/metrics`, `controllers/settings`, `repositories/metrics`, `settings`, `activity` | timers, sweeps in flight, tables `metrics`, `settings`, `activity_log` | sample, reschedule, prune, start, stop | settings change the timers while they run; restarts; slow daemons | one collector with the stored period; history kept for its window and no longer |
| Startup and shutdown: `index` | process phase | bootstrap in order, graceful shutdown | daemons that never answer, requests during shutdown | startup ends; nothing is served before the database is open; shutdown ends whatever clients do |
| Process control: `controllers/process`, the actions of `services/pm2` | the daemon's process list | single and bulk actions | the list changes between reading and acting; partial failure; PM2 reads a target in five ways | the log is true; a named process is the only one touched |
| History: `controllers/history`, queries of `repositories/metrics` | none | window arithmetic, bucketing | rounding, empty windows | each sample in one bucket, few enough buckets; zooming in is never coarser |
| Rate limiting: `middleware/rateLimit` | counters per address | count, take back, reset | requests in flight | the limit bounds failures, and only failures use it up |
| API client: `public/static/js/api.js`, `login.js` | cached CSRF token | requests, refresh, one retry | sessions regenerate under it | a mutation is performed at most once, its outcome is told truly, and one retry is enough for a stale token |
| Views: `public/static/js/app.js` | current view, poller, log stream | navigation, polling | answers that arrive after the view was left | one poller, of the current view; one stream; what is shown is what was chosen, in the end |

How they interact: every controller goes through the CSRF and authentication guards, which read the
session; the process, log and metrics parts share the one `pm2Service`; bus events fan out through its
`EventEmitter` to the log streams and to the activity log; the settings controller calls
`metricsService.reschedule`; every mutating handler calls `activityService.record`, which never throws: an entry that cannot be written is left out.

## 2. Modules

Each component has a module of its own; the proofs are in a module that extends it, and an `MC` module
exists where an instance needs definitions that a configuration cannot express. Definitions named
`Mutant: ...` in the comments are broken variants kept beside the definition they vary; no
specification uses them. They document which slip each property would catch.

**`Accounts`** models the first two rows of the table.

* `users` is a function on the ids of the rows, `sessions` one on the ids in the store. Passwords and
  secrets are values, `Hash` and `Code` wrap them, so that a plain password is not a hash.
* `inflight` holds the suspended handlers. `LoginBegin` reads the row and the session and suspends in
  `verifyCredentials`; `LoginChallenge` or `LoginSuccess` acts on what was read. The same split is made for
  `changePassword`, `setupTwoFactor` (which awaits the QR encoder with the candidate secret already in
  its session object), `disableTwoFactor`, `createUser`, the first boot and the two branches of
  `create-admin`. `verifyTwoFactor`, `enableTwoFactor`, `logout` and `remove` have no such await: one action.
* The session store is external. It is used as `express-session` offers it: `regenerate` deletes the old
  id and issues a fresh one, `save` is `INSERT OR REPLACE` of the whole session the request holds (and so
  can bring back a row that was deleted meanwhile), expiry deletes. `rolling` only moves the deadline, and
  expiry here may come at any time.
* `owner` records for which user each session id was issued; `issuedIds` is SQLite's AUTOINCREMENT
  sequence. Names are compared as `COLLATE NOCASE` does when an account is looked for, and as spelled when it is inserted.
* A request that fails a check on what it read changes nothing and is left out. A constraint violation of `INSERT` is modelled.
  The entries of the activity log are left out: `record` writes each after the change, in a transaction of its own, swallows its failure, and nothing here
  reads them.
* `CrashInRemove` is a crash between the two statements of `userController.remove`; `Crash` one anywhere
  else. Suspended handlers of the server vanish, those of the CLI do not.

**`Pm2Service`** models the third row. Each promise is an element of `Attempt` or `Bus`; `awaits` says
which caller waits for which. A step is one callback, timer or call together with the promise
continuations it releases, because these run before the next event. A timed-out attempt stays "late"
until its callback comes, if ever. `Boot` is bootstrap, which calls `connect` and `initBus`; requests and the
collector start when it is done. `Disconnect` is the shutdown handler: calls already running may still
come back to the service. A bus is "live" while the handlers hear it: one that reports an error is dropped by the service but neither closed nor
unsubscribed, so `BusEnds` lets it stay live, and any bus may report again when another is held. A bulk operation is a sequence of guarded calls, each of which is an operation here.

**`SharedLink`** is the abstract specification of `Pm2Service`: a connection that is down, being dialled or up, a feed of events that is
closed, being opened or open, and callers who wait for the one, then for the other, then for their own call. It has no promises, attempts,
timers or buses. `Pm2Service` maps to it by `link` <- what `connecting` and `connected` say, `feed` <- what `busInitializing` and `bus`
say, `caller` <- `pc`, `closed` <- `stopping`. Its `RefinesSharedLink` says that all who wait for a thing go on together when it is settled and
nobody else does, that a failure to dial reaches those who waited for it alone, and that the callbacks of abandoned attempts and of
buses that are gone are steps callers cannot see.

**`LogStream`** models the fourth row: the request goes through "describe", "backlog", "replay", "open". The guard
`res.writableEnded` after the backlog is faithful: it tells whether `end()` was called, which nobody has
done by then, so `Subscribe` has no condition on the client. Only an open stream has a `close` handler.
A line is its process and its number. The daemon appends it to the file (`AppendLine`) and sends it over the bus
(`LogLine`) at moments of their own, in either order; `backlog` says from where to where the file was replayed,
`since` how many lines had come over the bus when the stream subscribed. One file stands for the two of a process. A process of the model is
one from its start to its deletion; PM2 gives it a `pm_id` that is free (`Started`), may rename it (`Renamed`) and delete it (`Deleted`), after which the id
may be another's. The stream keeps the `pm_id` and name that `describe` returned (`pmId`, `name`), and `Matches` compares each line's with
them. `bus` is the reference of `Pm2Service`, `heard` the buses that reach its handlers: `BusEnds` drops the one and may leave the other, `Attach` is
what the next operation does. A line that comes while nothing is heard reaches nobody. `foreign` and `detached` are history. Assumed of PM2: the lines of a process come before
its `pm_id` is another's, and the end of a bus is reported. `sent` is a set, so a line heard over two buses is in it once, though it is written twice.

**`Metrics`** models the fifth row and the part of startup and shutdown that touches it. Time is in ticks,
timers count down and rows are known by their age, so that the state space is finite without a bound on
the length of a run. A sweep of the process list inserts one row per process with one timestamp; rows
of one instant are not told apart. The daemon may take any time to answer a list, so sweeps overlap.

**`ProcessControl`** models process control. A request goes through "list" (bulk only), "call" and "wait"; PM2
acts on the processes of a call one by one (`Act`, `ActFails`), as its client library does, and the handler
ends with the last of them or with the first failure. `calls` outlives the request: what was sent goes on
after a 502 or a crash. Statuses are abstracted to what the code tells apart - `launching` counts as up,
everything else that is listed as down; `reload` leaves a process up as `restart` does. `steady` is
history: the processes that were there when the request came and that nothing has touched since. `Resolved` is what PM2 takes a target for
(external): a `pm_id`, the word for all, a regular expression between slashes, a name, or, if no process has that name, a namespace. The
properties are about these, because about the others the code, deciding from a list, promises nothing.

**`SessionRegistry`** is the abstract specification of `Accounts`: accounts with a role, session ids that are
bound to a principal when they are issued, and what the store says each id speaks for. It has no passwords, second
factors, suspended handlers or crashes. `Accounts` maps to it by `accounts` <- the roles of `users`, `issued` <-
`issuedIds`, `bound` <- `owner`, `speaks` <- the users of `sessions`, and `RefinesRegistry` says that it implements it: the write-back
of a dead session is `PutBack`, which may restore an id but not change whom it speaks for, and a crash between the statements
of a deletion is `Remove` without the sessions.

**`ApiClient`** models `api.js` and `login.js` in the tabs of one browser, which share a cookie, against the session and CSRF
middleware. A call has two stages, the token and the request proper; each travels to the server (`Serve`), back
(`Arrive`, where the cookie of the reply is stored) and is resumed by the script later (`Resume`), so that replies overtake each other. `Begin`,
`TokenHere`, `MainHere` with `Refused` and `Retry`, and `Settle` are `request` between its awaits; `Settle` also does what the callers do with the
outcome (a 401 or the end of `logout` sends the tab to `/login`). `Rolling` is `rolling: true`: every reply to a live session sets its cookie again,
also one that arrives after a login has set another. A token is represented by the id of its session. A dead cookie and
none are alike. `performed` and `disturbed` are history. A 403 for lack of rights is retried once like one for the token, as in the code.
`Remaining` counts what a call has before it, at most two requests for a token and two proper.

**`History`** models the window and bucket arithmetic of the history routes (`WindowOf`, `BucketMsFor`, `SeriesForProcess`) and the page
that uses it: range selector, custom window, polling, and the chart's scale, hover (`NearestIndex`, the binary search) and brush. The pixels of a drag are turned
into times by what the chart shows when the button goes up, which may be another drawing than the one it went down on. `xAt` is scaled by
`PlotW` to stay in the integers; `Data` is the sequence of the points in the order of their times, and the loop of the search is a recursive function of its two bounds. SQLite computes with doubles, whose quotients round down exactly below 2^53.

**`RateLimit`** models the login limiter: `express-rate-limit` counts an attempt when it arrives and takes it back when
its response ends with success (`skipSuccessfulRequests`), in whatever window there is by then. `spent`, `refused` and `late` are
history: what used up the present window, and successes of earlier windows that were credited to it.

**`Lifecycle`** extends `RateLimit` with the process around it: bootstrap in its order, the exception guard, signals before and after there
are handlers, graceful shutdown, the forced exit, and event streams, which end only when their client leaves or the sockets
are cut. Exits and crashes empty the limiter, since its store is in memory.

**`Views`** models the signed-in page: views, the poll interval, the dashboard's and the metrics page's ranges, the log stream and the requests in flight
(`flight`, a bag, since equal requests may overlap), which are answered in any order or fail. `poll` marks the requests the interval's
`busy` waits for; an interval that is cleared leaves its requests running but orphaned. Activity and settings have no interval and are one view here.

How modules compose. `Lifecycle` extends `RateLimit`; `Accounts` implements `SessionRegistry` and `Pm2Service` implements `SharedLink`. `ApiClient` has the sessions of `Accounts` in their
abstract form (which of user and secret a session has); `Views` has the calls of `ApiClient` as requests that succeed or fail, and `History` the
queries of `Views` one at a time. The metrics, log and process modules use of `pm2Service` only that a call ends or fails (proved and
checked in `Pm2Service`) and that events arrive.

## 3. Runs and bounds

Deadlock is checked in every run but `logs` and `logs_leak` (lines and streams run out at their bounds) and `lifecycle` (the process
may stay down).

| Run | Instance | Question |
|---|---|---|
| `accounts` | 2 account ids, 4 session ids, 1 suspended handler, 3 names (2 of them one but for case), 1 password, 1 secret; 451 756 states, 2 min | the properties of `Accounts`, and the refinement of `SessionRegistry` |
| `accounts_revoked` | 2 accounts, 3 session ids | does deleting a user revoke at once? (no) |
| `pm2` | bootstrap and 3 callers, 3 attempts, 3 buses; 38 790 states | the properties of `Pm2Service`, with liveness, and the refinement of `SharedLink` |
| `pm2_boot` | bootstrap and 1 caller | does startup end when `launchBus` never calls back? (no) |
| `logs` | 1 stream, 2 processes, 2 `pm_id`s, 2 names, 2 buses; 2 lines each, tails of 1 and 2 lines; 959 790 states, 1 min | the properties of `LogStream` |
| `logs_leak` | the same, 1 line | is everything released when the client leaves? (no) |
| `metrics` | periods 1 and 2, windows 1 and 2, sweep every 2 ticks, audit floor 5, 2 lists in flight; 2.1 million states, 2 min | the properties of `Metrics`, sweeps overlapping |
| `process` | 1 request after another, any action on any target; 2 instances of one application and a process named `all`, 3 namespaces, an expression; 101 612 states | the properties of `ProcessControl`, with liveness |
| `client` | 1 tab, 2 calls at once, 3 sessions; 538 188 states | the properties of `ApiClient`, with liveness |
| `history` | 6 instants, presets of 2 and 4, 2 points per series, plot of 4 pixels with a margin; 696 662 states | the properties of `History` |
| `lifecycle` | 2 addresses, 2 attempts at once, limit 2, 1 event stream, 2 starts; 92 675 states | the properties of `RateLimit` and `Lifecycle`, with liveness |
| `views` | 2 preset ranges, 1 custom, 1 process, 2 requests in flight, charts every 2nd tick; 139 112 states | all properties of `Views`, with liveness |

Why these bounds suffice. In `Accounts` two accounts let an administrator be deleted by another
while a session still belongs to the first; four session ids let one user be logged in while a visitor's
session becomes another's, or a session pass from one user to the next while it holds a challenge; ids are
used up for good, so the runs are finite. `Req` bounds the handlers suspended at
once by TLC: with one, every operation that is a single action (logins by code, logouts, deletions, expiry, crashes) falls
between the halves of every handler; the proofs are for any number of suspended handlers. One password suffices since only its match
matters. Sets of interchangeable values are symmetric.
In `Pm2Service` attempts and buses are reused when their callback has come, so three of each bound only what is
outstanding at one time: one pending and two late. In `Metrics` a period longer than the other, a window
longer than the other and a sweep as long as the longer period give every relation of a sample to a sweep; ages
from `MaxAge` on are one, and `MaxAge` exceeds every age a property speaks of. `MaxPending` bounds the lists in
flight; with two, the second is asked for before the first is answered. In `ProcessControl` one request at a time is enough
for TLC: other requests act on it only through the processes, which change at any point by themselves
(`ProcessChanges`); the proofs are for any number. Three processes give a name with two instances, whose
second can fail, and a process that bears PM2's reserved word; the namespaces are one of their own, the reserved word and the name of the two instances, and the
expression matches every name. A `pm_id` is handed out once.
In `LogStream` streams only read what they share, so one is enough, and with two processes on two ids an id can pass from one to the other
and both can bear one name; two buses are one that is held and one that is still heard or reports late. A tail of two lines of which one is replayed, over files of up to two, makes lines fall before, into and after
the backlog; the initial files are of any length. In `ApiClient` two calls make every kind of overtaking; a call needs a second only to be disturbed, and the proofs
are for any number of calls and tabs; three sessions let a login replace the session of a cached token, and the old cookie come back late. In `History` windows of 0 to 5 with a target of two points give
buckets of 1 to 3, aligned and not. In `Lifecycle` the limit of two with two attempts at once lets the limit be reached by failures, by running attempts
and by both, `MaxRefused` bounds the refusals counted in one window, and a second start follows an exit. In `Views` two requests in flight suffice for one to overtake the other;
the same run with two processes (652 848 states) finds nothing more. `MaxFlight` is looked at before the user or the interval acts; answers may exceed it by what they ask for.

What the properties say:

* `SessionIdBoundToPrincipal`: a session id never becomes authenticated as anyone but the user it was issued
  to, in the store or in a handler that will write it back. This is the defence against session fixation,
  and it has to survive the write-back of `setupTwoFactor`.
* `CachedRoleIsCurrent`: `requireAdmin` never reads the row; the role in the session is right all the same,
  because no operation changes a role and ids are not reused.
* `LastAdminKept`: no step leaves a system without administrators that had one. A session of a deleted
  account may still delete others, so "you cannot delete yourself" does not suffice.
* `RevocationIsFinal`: once an account is gone from the table, the sessions and the suspended handlers, it
  never comes back. A 2FA challenge survives in a session (the deletion matches `user`, not `pending2fa`);
  what saves it is that `verifyTwoFactor` loads the account again.
* `SecondFactorEnforced`: with 2FA on, and no handler running that read the account before that, a session
  is authenticated only by using up a password-verified challenge.
* `SingleFlight`, `NoLostWakeup`, `AttachedOrTried`, `OperationsEnd`: one shared connect and one
  shared launch; who waits, waits for something pending; nobody reaches the daemon unless the bus that is held
  is heard, or an attachment was tried by the step that let the call through; every call ends.
* `RefinesSharedLink`: to its callers the service is one connection and one feed, which all of them share; see `SharedLink` above.
* `RefinesRegistry`: whatever handlers, crashes and write-backs do, a session id speaks for one principal for as long as it is known, account
  ids are not reused and roles do not change.
* `ResourcesBelongToOpenStreams`: what a stream holds belongs to an open stream.
* `ForeignOnlyAfterDeletion`: a stream shows a process under another name than the one it was opened on only when that process has been deleted (and its `pm_id`
  given away). As long as it is there, what is mixed in bears the name it had when it was described.
* `MissedOnlyInGap`: of the lines written from the beginning of the backlog on, an open stream has missed none but those that were written after the file was read and
  came over the bus before it subscribed, and those that came while the service held no bus, from the report of its end to the next operation. Duplicates are possible.
* `OutcomeTellsEffect`, `StaleTokenRecovered`, `CallsAdvance`, `CallsEnd`: the retry never repeats what was done; what a caller is told is what happened; one retry
  is enough unless the cookie changes or a session ends while it runs; no step takes a call back, so that it makes four requests at most, without any
  fairness; and calls end.
* `SeriesCoversWindow`, `HoverIsNearest`, `ZoomNeverCoarser`: no sample of a window is left out or counted twice, and there are at most one more points
  than the target; the binary search finds a nearest point; zooming in does not lose resolution.
* `FailuresBounded`, `RefusalsEarned`, `ShutdownEnds`: no more failures than the limit in a window, but for hits that late successes of an earlier window took back; nobody is
  refused for successes that are over; a process that was told to stop stops, streams or not.
* `NothingPilesUp`, `ShownCatchesUp`: one refresh at a time and one event source; answers that overtake each other do no lasting harm.
* `EntryMeansDone`, `NamedSparesOthers`, `StartAllSparesRunning`, `RequestsEnd`: what the activity log says was done
  was done; a request for a process that is there, and stays so, by id or name, is sent to no other; running processes are spared; every
  request is answered.
* `OneCollector`, `HistoryKept`, `SweptInTime`: exactly one collection timer with the stored
  period; nothing deleted before its window is over; nothing kept a sweep longer than the longest window.

## 4. Where the code and its words part

Each of these is a run that TLC refutes; the counterexample is the shortest history.

* `RevokedAtOnce` (README.md:230, "immediately revokes their active sessions"). A login that verified the
  password before the deletion establishes its session after it; `setupTwoFactor` writes a deleted session
  back; a crash between the two statements skips the revocation.
* `BootstrapEnds` (pm2.service.ts:212-214, "so bootstrap never hangs"). The timeout covers `connect` only;
  bootstrap then awaits `launchBus`, which has none.
* `ReleasedOnDisconnect` (logs.controller.ts:9-10). A client that leaves while the process is described or the
  backlog is read is not noticed.

More came up while modelling. The code does these things, the models have the behaviour unless it is said, and no property forbids it.

* schemas.ts:61-63 says that single-process routes "can never be used to act on (or delete) every process at once" (README.md:233-234 alike). Only the word `all` is refused: PM2
  takes `/./` for an expression on names, and a target that is nobody's id or name, `default` for one, for a namespace. `NamedSparesOthers` speaks of requests whose target is
  there.
* metrics.repository.ts:73, "summed across all processes per sample": `collectOnce` may overlap itself (metrics.service.ts:119), a sweep is stamped when its list
  arrives (:74), and the aggregate adds up two that were answered in one millisecond. The sums are abstracted.
* README.md:123-124, "one PM2 event-bus listener": a bus that reports an error is dropped but neither closed nor unsubscribed, and a report of any bus drops the one that is held
  (pm2.service.ts:439-446). Until the abandoned bus closes, two are heard and each line is emitted twice.
* logs.controller.ts:4, "tails a single PM2 process's stdout/stderr": `onLog` matches the name too, which instances share, and the `pm_id`, which another process has
  after a deletion. `ForeignOnlyAfterDeletion` is what is left of it.
* auth.controller.ts:6-7, "Every mutation records an audit-log entry": `record` runs after the change has been committed and swallows its own failure
  (activity.service.ts:36-38). The CLI and the first boot do not log at all. Not in the model of the accounts.
* auth.service.ts:100, "@throws ConflictError when the username is already taken": the check ignores case, the UNIQUE constraint does not, and the hash is awaited in between, so
  two creations at once can store `Bob` and `bob`. The repeated insertion of one spelling is refused.
* auth.service.ts:119, "Ensure at least one administrator exists": `ensureInitialAdmin` looks only for an empty table, so a first account made by `create-admin` without
  `--admin` leaves the panel without one.
* create-admin.ts:7 says that with `--admin` an existing account is promoted; :39 leaves its flag as it is, and says so.
* process.controller.ts:7-8, "every mutating action is recorded": the entry is written when the PM2 call has succeeded as a whole. An action by name or a start-all
  that was done to one process and fails for the next is answered 502 and leaves no entry; a start-all even goes on after the answer.
* rateLimit.middleware.ts:23, "a successful login resets": it takes back its own hit and no other. A success whose window is over takes a hit off the next one (`late`). An
  attempt that is refused or whose connection is cut stays counted, whatever its password.
* The page's comments speak of 0.5 s and 15 s (app.js:38-44); the interval is 1 s and the charts' 30 ticks are 30 s.
* A stream that `openLogsFor` starts after the view was left runs until the view is entered and left again (app.js:666). A custom window can stay overtaken by an answer for an
  earlier choice, since it is not asked for again.
* A drag that ends beside the plot is drawn clamped (chart.js:221) but not zoomed clamped (:262): it may select more than is shown. On a chart that was redrawn empty meanwhile
  the `mouseup` handler throws.
* Any 401 sends the page to `/login`, also one that a handler gave for a wrong password. The login page sends a visitor whose session survived its account
  back to `/`, whose first call answers 401 again. A late rolling cookie can undo a login in the browser.
* `setupTwoFactor` refuses when 2FA is enabled, `enableTwoFactor` does not: of two sessions that enrol at once,
  the later replaces the enrolled secret.
* Two changes of one password that were both verified against the old one both succeed, and the later write wins (auth.service.ts:86-95).
* Streams are not told when the bus is lost, and receive nothing until some other operation attaches it again (pm2.service.ts:439-446).
* `bulk` returns quietly when its list is empty; when the last process goes after the list, PM2 refuses "all"
  and the request fails. `startAll` restarts a process that came up after the list was read.

## 5. Fairness

Safety is checked and proved without fairness. `Pm2Service` has two liveness formulas. `CallFairness`: the
timeout timer of a pending attempt fires, bootstrap makes its calls, and the daemon answers or refuses a call made to
it (pm2 reports a broken socket as an error). Nothing is assumed about `pm2.connect`: the code does not
trust it either, hence its timer. `LaunchFairness`: `launchBus` calls back; the code relies on it
everywhere and guards it nowhere. `OperationsEnd` needs both (`FairSpec`); `BootstrapEnds` fails with
the first alone (`TimerSpec`), which is what the comment in the code promises. Requests, failures and bus
ends are never fair.

`ProcessControl` has `FairSpec`: the daemon answers the list, takes or refuses a call, and finishes or fails each
process of a call. That pm2 reports a broken socket as an error is the same assumption as above. Processes,
requests and crashes are not fair.

`ApiClient`: the server answers, the network delivers or fails, and scripts run; `fetch` has no timeout, so a server that never answers (as `BootstrapEnds` or a hanging
`launchBus` make it) is excluded here. Nothing makes the user begin or leave. `Lifecycle`: only the event loop, that is the callback of `close` when no connection is
left, and the timer of the forced exit; clients and the supervisor promise nothing. `Views`: requests are answered, well or badly, and the interval comes round;
`ShownCatchesUp` speaks of users who stop acting with the view open. `LogStream`, `History`, `Accounts` and `Metrics` have safety only.

## 6. Proofs

All proofs are checked by TLAPS from the assumptions named in the modules (`ConstantsAssumption`,
`Pm2Assumption`, `LogStreamAssumption`, `MetricsAssumption`, `ProcessAssumption`, `ClientAssumption`, `HistoryAssumption`, `RateLimitAssumption`,
`LifecycleAssumption`, `ViewsAssumption`), which TLC evaluates on every instance.

* `AccountsProofs`. `TypeOK` is inductive because it includes that row ids and session ids, also those held by
  handlers, have been issued. The lemma `Effects` then reduces the twenty-odd actions to what they can do to
  sessions, handlers and users; from it follow `SessionIdBoundToPrincipal` (inductive as it stands: a
  regenerated id is outside `owner`), `ReferencesIssued` (an id that INSERT hands out is in no session or
  handler), and with it `CachedRoleIsCurrent`, whose only danger is a new row under an old id.
  `RevocationIsFinal`, `SecondFactorEnforced` and `LastAdminKept` are proved for each step from these invariants;
  the last through `OnlyRemovalDeletes` and the cardinality of the administrators. `ImplementsRegistry` maps every step to one of `SessionRegistry` or none; it needs the same
  invariants: that an id speaks for its owner, and that every id in a session or handler has been issued.
* `Pm2ServiceProofs`. `SingleFlight` and `NoLostWakeup` are inductive over `TypeOK`; `ImplementsSharedLink` takes each step to one of `SharedLink` or to none.
  It needs `NoLostWakeup` and `SingleFlight`, so that who waits for the attempt or launch that is settled is who waits at all, and
  `DialingInv`: nobody dials while connected, so that the three values of `link` tell the two variables apart. `AttachedOrTried` is an action property
  from these and `HeldInv`: the bus the service holds is heard, because every report of an end, of whatever bus, drops the reference.
* `LogStreamProofs`. `ResourcesBelongToOpenStreams` is inductive. `ForeignNeedsDeletion` needs `IdentityInv`: no two processes have one `pm_id`, a stream's process still has the
  `pm_id` it was described with or has been deleted, and a stream that is not open has been sent nothing. A line of another process then passes the filter by its name, or by an id that the
  stream's own process has given up. `GapsAreAll` needs `GapInv`: a bus that is held is heard, and an open stream has been sent every line its process has emitted since it subscribed,
  or the line came while no bus was held.
* `MetricsProofs`. `OneCollector` is inductive with `TypeOK`. `HistoryKept` is a property of each step.
  `SweptInTime` needs `SweepInv`: until its first sweep a process's retention timer counts down with its uptime,
  and from then on the age of the oldest sample is bounded by the window and the time since the sweep - which
  is why restarting that timer with each settings update would break it.
* `ProcessControlProofs`. `OperationInv` ties the reserved word to the bulk requests. With it, `NamedFirst` (PM2 asks for ids and names first, and for a namespace only if there is
  no such name) gives `NamedSparesOthers`, where `ControlInv` says that the undisturbed process is still there when PM2 looks.
  `ControlInv` says what an old list is still good for: a handler that waits has told PM2 of each undisturbed
  process it owes the action, and a start-all of no undisturbed process that is up. `EntryMeansDone` follows, since an
  entry is written when no call is left, and `StartAllSparesRunning`, since only `Act` adds to `acted`.
* `ApiClientProofs`. `TypeCorrect` bounds sessions and calls. `ReportsTellEffects` is from `EffectsKnown`: what is known of `performed` at each place a call can be, with the retry
  starting at zero. `RetryRecovers` is from `RetriesMatch`: a retried call that nothing disturbed carries the cookie the browser has and a token of that session,
  whose secret is still there; session ids are issued in order, so a new one is nobody's. `CallsGoForward` shows for each step that `Remaining` decreases; it is
  the part of `CallsEnd` that does not rest on fairness.
* The same module extends `Views` too and proves `ViewsTypeOK` and `NothingPilesUp`, for any number of requests under way. `ViewsInv` adds that the interval
  waits for every poll under way (`WaitsForPolls`): a tick asks only whether the interval waits, and that no poll is out follows from that alone. The lemmas
  `Adding`, `Removing` and `Orphaning` say what happens to a bag of requests.
* `HistoryProofs`. Arithmetic lemmas on `CeilDiv` and on quotients (a time is in the bucket of its quotient and in no other; the bucket numbers of a window span at most `TargetPoints`)
  give `SeriesCovers` with the cardinality of an interval. `ZoomIsFiner`: its invariant `PointsNear` says that the points drawn are no farther apart than the buckets of the window they were fetched for
  reach; a drag in the plot maps between them, and `BucketLeast` gives the rest. `HoverNearest` is about the two recursive definitions a drawing needs: that the points have an ascending
  enumeration (`Enumeration`), that the loop of the search has a value (`SearchExists`), and that this is the first point not left of the pointer
  (`SearchFinds`). Each is by contradiction from a least counterexample, the smallest number of points or the shortest interval (`LeastOf`, from the
  well-foundedness of the natural numbers), since the library's induction rule cannot be instantiated.
* `LifecycleProofs`. `LimitHolds` and `RefusalsAreEarned` are from the balance of the limiter: the invariant `Balanced` bounds the hits of a window from both sides by what is spent, refused and running in it, but for late successes. Running attempts are counted by
  cardinality.

Only model-checked: `OperationsEnd`, `RequestsEnd`, `CallsEnd`, `ShutdownEnds` and `ShownCatchesUp`, since liveness under fairness is beyond the prover, and all refutations. Every invariant
and every action property of a passing run is proved, without further hypotheses. Only proved, not run: the type invariants of `Pm2Service`, `Metrics`, `LogStream`, `ApiClient` and `History`.

## 7. Not modelled

Drawing, theme, markup and styles; logging, security headers, host figures and configuration parsing (values
are CONSTANTS); normalisation of PM2's process descriptions; endpoints and views that only read (`me`, lists, the dashboard summary, the activity feed and its
paging); the forms of the settings page, each of which is one call of the client. Input
validation is in the sets the actions quantify over. SQLite's own durability and locking are assumed: a
statement is atomic and survives a crash. The absence of a sample for as long as someone keeps changing
the interval is real (each update restarts the countdown) and no property forbids it. In `readTailLines` a file that shrinks between `stat` and `read` gives a
line of zero bytes; that is left out. A query of a request that outlives its socket may open the database anew while the process shuts down; statements commit by themselves, so
nothing is lost by it.

## 8. Plan

Items 1-12 are done: `Accounts`, `Pm2Service`, `LogStream` with the log file, `Metrics`, `ProcessControl`, `ApiClient`, `RateLimit`, `Lifecycle`, `Views`, `History`,
`SessionRegistry` and `SharedLink`, all proved except liveness. Left:

1. The settings page's forms over `ApiClient`: a 2FA enrolment whose QR code is shown while the session changes.
2. The parts of the other liveness properties that do not rest on fairness, as `CallsAdvance` is of `CallsEnd`.
