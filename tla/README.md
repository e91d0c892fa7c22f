# TLA+ models of Cursor Tab Server

These modules specify the server in `src/`: a Go program that forwards the
requests of API-key holders to Cursor with one of a pool of Cursor tokens, keeps
an audit log in SQLite, may share its counters with other instances through
Redis, and is administered from a React console. TLC checks the models on small
instances; TLAPS proves for every instance what matters most of the pool, the
limiter, Redis, the gate, the login and the console. `PROJECT.json` lists every
run, mutant, theorem, hazard and finding, and the source lines each definition
stands for.

## 1. The system

| Part | State | Operations | Who uses it |
|---|---|---|---|
| cursor tokens (`store/cursor_tokens.go`, `tokenpool/pool.go`) | rows: enabled, disabled_at, last_error, ciphertext | `Add`, `Delete`, `SetEnabled`, `ActiveCursorTokens`, `MarkCursorTokenUsed/Error` | administrators; every proxied request |
| coordinator (`coordination/coordinator.go`) | in memory under one mutex: `inflight`, `sticky`, `unhealthy`, `windows`; the same in Redis | `AcquireToken`, `ReleaseToken`, `MarkUnhealthy`, `Allow` | pool, rate limiting |
| proxy (`proxy/proxy.go`) | the locals of a request: tokens seen, token held, token failed | `ServeForSubject`: acquire, send, report, one retry, stream, release | the gate |
| rate limiter (`ratelimit/limiter.go`) | limit and counters per subject | `Allow`, `Limit`, `SetLimit` | all four limited endpoints, settings |
| gate (`proxyOnly` in `httpapi/server.go`) | key presented, key found, status | authenticate, limit, mark, serve, record | clients |
| API keys and audit log (`store/keys.go`, `store/audit.go`, `audit/`) | `api_keys`, `audit_logs`, the foreign key between them | create, enable, disable, delete (single and batch); insert and delete records | gate, administrators, cleanup |
| settings (`store/settings.go`, `updateSettings`) | the table; the values of the running server | save and apply field by field; load at a start | administrators, gate, limiter, cleanup |
| cleanup (`startCleanup` in `main.go`) | a ticker | read the retention, delete old records | runs at a start and daily |
| login (`createCaptcha`, `login`, `adminOnly`, `logout`) | `login_captchas`, `admin_sessions` | make and consume captchas, make, find and delete sessions | administrators |
| start (`main.go`, `config/`, `secret/cipher.go`, `Pool.Bootstrap`) | key file, legacy setting | open, load key, import legacy token | once per process |
| console (`web/src/`) | the session a tab believes in, its route, the `useState` values of the page that is mounted | log in and out, load lists, create, enable, disable and delete one by one or in batches, save settings | administrators; calls the admin API |

The parts interact by calls within one request goroutine and by shared state:
the SQLite database (each statement or transaction is atomic, nothing is held
between two of them), the maps of the coordinator (one mutex, held for one
operation), Redis (each command or MULTI pipeline is atomic) and the unlocked
settings of the server. A restart keeps SQLite and Redis and loses the rest.

What is hard, and was what the properties are written for:

- a request works on a list of tokens, a clock, a limit and a key it read
  earlier, while administrators, other requests and the clock move on;
- five paths of the proxy release a lease, and each must do it once;
- the retry must avoid the token that stickiness prefers;
- checks and the writes they permit are separate statements (`Delete`,
  `SetEnabled`), and so are a save and its application (`updateSettings`);
- window boundaries: a call is decided in a later window than it began in;
- Redis operations are several commands, any of which may fail with or without
  having been executed, and the operation then goes on in memory;
- captchas and sessions expire, are consumed and are purged by each other's
  requests; audit records depend on keys that can be deleted under them;
- the pages of the console go on while their requests are in flight: answers come
  in any order, continue with the state of the render that sent them, and may
  find another dialog, another filter or another page.

What makes each part correct: the pool counts exactly its leases; refuses a
request only when the tokens could not be read, the one it was given cannot be
decrypted, or every one it may use is cooling; keeps a subject, which is an API
key at a client address, on its token unless there is a cause; and keeps one
token enabled as long as one administrator removes tokens at a time. The limiter
admits no more than the limit in a window, but for late calls, and refuses
nothing undeserved. The gate lets in only valid keys (or, when allowed, anonymous
requests) and records every answer under the right key. The cleanup deletes only
what is older than the retention. The server agrees with its settings table, but
for a save that failed half-way, as long as one administrator edits at a time. A
captcha is tried once and a session is earned by one. The console believes it is
logged in when it is, shows what its last load answered unless a later answer or
somebody else has intervened, says that it is busy only while a request of its
own is in flight, and sends neither a captcha twice, nor keys it does not list,
nor a number the server must refuse, unless it is the one the server gave.

## 2. Modules

| Module | Models | Built on |
|---|---|---|
| `TokenIds` | the token ids and their order in a list | |
| `CursorTokens` | the token table, the administrators' operations on it | `TokenIds` |
| `LocalCoordinator` | `AcquireToken`, `ReleaseToken`, `MarkUnhealthy` in memory | `TokenIds` |
| `ProxyPool` | `ServeForSubject` with `Pool.Acquire`, `MarkSuccess`, `MarkFailure`; clock, restarts | `CursorTokens`, `LocalCoordinator` |
| `LeaseLedger` | abstract: what the pool promises a request | instantiated by `ProxyPool` |
| `FixedWindow` | the two counting algorithms, as operators | |
| `RateLimit` | `Server.allow` in one process | `FixedWindow` |
| `RedisRateLimit` | `Coordinator.Allow` in several instances on one Redis | `FixedWindow` |
| `RedisCoordinator` | acquiring, marking and releasing through Redis, command by command | `TokenIds` |
| `ApiKeys` | the tables `api_keys` and `audit_logs` | |
| `Settings` | the table `settings`, the running values, `updateSettings` | |
| `ProxyGate` | `proxyOnly`, the cleanup, restarts | `ApiKeys`, `Settings` |
| `AdminAuth` | captchas, logins, sessions, `adminOnly` | |
| `ConsolePage` | what the pages share: view, requests, answers, the data behind | |
| `LoginPage`, `ApiKeysPage`, `ApiKeyDetailPage`, `TokensPage`, `SettingsPage`, `AuditLogsPage`, `StatusPage`, `DashboardPage` | one page of the console each | `ConsolePage` |
| `Console` | a tab: session, routes, sidebar, and the page that is mounted | instantiates every page |
| `ProxyPool_proofs`, `RateLimit_proofs`, `RedisRateLimit_proofs`, `RedisCoordinator_proofs`, `ProxyGate_proofs`, `AdminAuth_proofs` | theorems | the modules they name |
| `ConsolePages_proofs`, `Console_proofs` | what each page keeps, and the theorems of the tab | `Console` |
| `MC...` | instances for TLC | |

Conventions. Variables have the names of the maps, columns and fields they
stand for; an action has the name of the method or statement it models. An
operation that holds a mutex, one SQL statement or transaction, and one Redis
command are one action each. `pc[r]` is where a request's goroutine is between
two of them, and its other variables are its locals. An operation of a table or
of the coordinator is an operator over its arguments; the request that calls it
supplies `pc` and the locals. A request that is refused before it changes
anything (a malformed body, an unknown path) is not an action. Definitions with
an underscore (`Admits_OffByOne`) are mutants: a plausible bug in the definition
named before the underscore, which the property listed with it in
`PROJECT.json` must notice.

### 2.1 ProxyPool

`Start` is the arrival of a request of a subject (`keyID|clientIP`).
`ListActive` is `ActiveCursorTokens`; `Pick` the `AcquireToken` on the list and
the clock read by then; `Decrypt` or `DecryptFails` the rest of `Acquire`;
`Refuse` the 503; `Answer` or `SendFails` the upstream call; `Cool`, `Report`
and `ReleaseForRetry` are `MarkFailure` and the branch to the retry; `Succeed` is
`MarkSuccess`; `Stream` copies the body and runs the deferred release. Tokens
are numbered, which is the order `created_at` gives the list. `AcquireToken` of
the memory coordinator keeps the first of equally loaded candidates, as the loop
does. Whether the SELECT may fail is a constant; which tokens cannot be
decrypted is chosen at the start of a behaviour, among those a constant allows,
so that one run has both the pool with such a token and the one without.

`LeaseLedger` says the same in three variables: a request holds at most one
token, tries at most two, never the same twice, and the load of a token is the
number of its holders. The refinement maps `held` to the lease, `load` to
`inflight`, and `spent` to what the request has given back.

### 2.2 RateLimit and RedisRateLimit

A call takes the clock, reads the limit and decides in three actions. Windows
are numbered; the zero time is `Never`. `ratelimit.Limiter` runs beside the
coordinator on the same calls, so that the two implementations are compared on
every interleaving and not only on equal inputs. Each has the limit the code
gives it: the coordinator the one the call has read before, the Limiter its own
at the moment it decides. With Redis, a bucket and its expiry are two commands,
a failing INCR sends the call to the memory of its instance, and an instance may
stop between any two commands; any instance may be given a request.

History counts who was admitted: `admitted` per subject and window in one
process, `shared` and `own` (by Redis, by an instance) in several. `late` counts
the admissions of a subject decided after their window had ended, `stale` those
Redis decided two windows late or more, when the bucket may have expired. The
quotas are stated with them, so that they hold of every behaviour and say what a
late call costs: at most one limit in memory, one request in Redis. `raced` are
the subjects of which a call was decided, in the present window, across a change
of the limit; `stops` counts how often an instance has forgotten its counters;
`unset` are the buckets whose first INCR had no EXPIRE after it, because its
answer was lost, the EXPIRE failed or the instance stopped in between.

### 2.3 RedisCoordinator

One action for each command of `acquireRedis` (GET sticky, EXISTS, INCR, per
candidate EXISTS and GET, MULTI), of `MarkUnhealthy` (SET) and `ReleaseToken`
(DECR, DEL). Each may fail, a write possibly after it took effect, and then the
memory of the instance takes over. Instances may crash. What expires may expire
at any time. `leaked` is history: per token, the INCRs whose answer was lost, the
DECRs that were not executed, and the leases of instances that stopped. It is
what a count may exceed its holders by.

### 2.4 ProxyGate, ApiKeys, Settings

A request is authenticated, limited, served and recorded in separate actions;
the limiter may refuse anything and `ServeForSubject` answer anything in
`Served`. Statements may fail, and what the code does then (401, ignore, give up
half-way) is an action of its own. A request whose client went away is one way
for a statement to fail. Settings are saved and applied one by one; the cleanup
reads the retention from the table and deletes in a second step; a restart
reloads the settings and runs the cleanup once. Time is counted in days. `torn`
is history: the settings in which table and server differ because their last
save failed after it took effect, or because they could not be read at the
start. Left out: `last_used_at`, which nothing but the console reads.

### 2.5 AdminAuth

Captchas, logins and visits are requests with the time they took at their start.
`ConsumeLoginCaptcha` is one action: its transaction begins with a DELETE, which
takes SQLite's write lock. `FindActiveAdminSession` is two, a DELETE whose error
is ignored and a SELECT.

### 2.6 Console and its pages

JavaScript runs one handler or continuation at a time and React renders after it,
so that an action is what one handler does up to its next `await`. `view` is the
record of the page's `useState` values, `calls` its requests. A request is sent
(`Send`), answered by the server with what the data are then (`Serve` and the
like, `Refuse` for a lost or refused one) and continued from in a third action
(`Arrived`), in any order. What a continuation reads of its render (the closure)
travels with the request. `table` is what the server has; `OtherAdmin` and
`Others` are those who change it meanwhile. `changed` and `overtaken` are history:
the table has changed since it was last read for the page, by others or by a
write whose answer was lost; a load was served or applied before an older one.

`Console` mounts the page its route leads to and drops the one before with its
requests, as React does: a login in flight survives its form (`login` belongs to
the tab), the question at the start (`boot`) and a logout do too. `doubt` is
history: the tab has had a cause to be wrong about its session, such as its end
by time or by another tab, a logout whose request failed, or a refused question.

`ApiKeysPage` has the selection, the batches and the dialogs with the secret that
is shown once; `TokensPage` three dialogs that share one flag; `SettingsPage` the
form, of whose strings it keeps the number `Number()` makes of them, decimals and
negatives included, and whether they are the plain string of that number;
`AuditLogsPage` and `ApiKeyDetailPage` overlapping loads by query and page;
`StatusPage` and `DashboardPage` a button and an interval. A dialog covers its
page for the mouse only (`kit.tsx` neither traps the focus nor makes the page
inert), so that everything on the page can be used under it and a second dialog
opened; Escape closes all that are open. Left out: names, figures, the
clipboard, toasts, styles.

## 3. What the runs show

Runs that pass:

| Run | Question | Bounds |
|---|---|---|
| `pool_safety` | counts, retry, stickiness, refusals, removal of tokens, refinement of `LeaseLedger` | 2 requests, 2 tokens, one of which may be undecryptable, a SELECT that may fail, 1 administrator, 1 subject, clock 0..1, restarts |
| `pool_liveness` | do requests end and deleted tokens drain when every answer is a 429, also when `Acquire` fails | the same, no cooldown left at the retry, one token that cannot be decrypted, the SELECT may fail |
| `rate_limit` | the quota and what a late call costs of it, no undeserved 429, both algorithms alike but for late calls and a limit changed under a call | 2 calls at a time, 2 subjects, limits 1 and 2, 3 windows, no call of a subject begins after 4 admissions |
| `redis_rate_limit` | shared quota, degraded quota, what late calls and stops cost, which buckets have no expiry | 2 instances, 2 calls at a time, limit 1, 3 windows, 3 failures, 1 stop |
| `redis_coordinator` | what races lose of the shared counts and failures leave in them | 2 instances, 2 requests, 2 tokens, 1 failure or crash |
| `proxy_gate` | who is let in, what the audit log keeps, what the cleanup deletes, what a save that fails half-way leaves | 2 keys, 1 request, 1 settings request at a time, 2 settings, 3 days, 1 failure, restarts |
| `admin_auth` | one try per captcha, how sessions begin and end | 2 captchas, 2 logins, 2 visits, captcha life 1, session life 2, clock 1..3, 1 failure, restarts |
| `console` | what the tab believes and shows, what it sends, and when it is busy | 2 keys, 2 tokens, 2 numeric settings, 2 pages of records, 2 sessions, 3 captchas, 2 requests of a page, 1 write at a time, 1 dialog open when the user opens one |

Runs that find a violation, each a disagreement of the code with what its
documents or messages say (`findings` in `PROJECT.json`):

| Run | Property | What happens |
|---|---|---|
| `tokens_concurrent` | `OneRemainsEnabled` | two administrators, who only delete and disable, pass the check of `Delete` or `SetEnabled(false)` before either writes; no enabled token is left although both errors say one must remain |
| `rate_limit_late` | `Quota` | a proxied request takes its time before the key lookup and is decided after the window's end; it puts the old window back, and the newer window's count starts again |
| `redis_leak` | `CountsRequestsInProgress` | one failed command, and a lease is counted in Redis and released in memory; the key has no expiry, so the token looks busy for ever |
| `settings_concurrent` | `ServerAgreesWithTable` | two saves of one setting are applied in the other order; the server works with a value that is not the stored one until its next start |

Why these bounds are enough to meet the interesting cases. Two requests on two
tokens are what every race of the pool needs: one token is refused while the
other request holds, cools or drains it, and the retry has exactly one other
token. A clock of two instants makes a cooldown or a stickiness expire between
the reading of the clock and its use. Three windows let a late call of the first
meet an entry of the second and be followed by the third. One failing Redis
command or SQL statement is the smallest number that separates the two halves of
an operation; the violations found need no more. The gate's requests meet only
in the tables, and every property of `ProxyGate` speaks of one request, so one
request beside two keys, editor, cleanup and restarts shows its races. Three
days are needed for a record to be older than a retention of one day and not of
two. In `AdminAuth` two logins compete for one captcha, a second captcha request
purges the first, and one visit logs out under the other; the session outlives
the captcha as in the code.

In `console`, two requests of a page are what it takes for an answer to overtake
another, one write beside them for a load to be stale, two rows for a selection
that is not the whole list, three captchas for a form that has one, has used one
and asks for a third, and two sessions for a login under a logout. The bounds in
the guards: a page is used only in the first session of its browser, while the
tab is right about it and no login or logout is in flight (without a session the
server refuses every request, which `Refuse` may do anyway); logouts, visits and
expiries wait until the page has no request in flight (a page that is left drops
them); there is one login at a time, as the form's `loading` makes it; there are
fewer keys than the 50 the server lists. On the page of API keys, the user opens
a dialog only when it is the only one (`MaxDialogs`, of which the proofs know
nothing, so that their theorems hold of any number); the secret that a creation
brings may still open over another, and on the page of tokens all three dialogs
may be open.

Deadlock is checked everywhere but in `redis_rate_limit`, where the clock and
the bound on admissions stop the model, and in `tokens_concurrent`, whose
administrators stop when no token is left to take away. Symmetry is used only in
runs without liveness.

Fairness. `FairSpec` gives weak fairness to the steps of each request and to
nothing else: no administrator has to act, no new request has to come, the clock
need not move. A Go goroutine is scheduled until its handler returns; the wait
for upstream is ended by the 30 s timeout of the HTTP client (`main.go:61`). The
server sets no write timeout, so that a client reads its response or disconnects
is an assumption. `Bootstrap` after a restart belongs to the restart. The console
has no liveness property: a `fetch` has no timeout, and nothing in the code ends
a request the server does not answer.

## 4. What is proved

For any number of requests, tokens, subjects and administrators, any statuses
and cooldowns, from the assumptions named in the modules:

- `ProxyPool_proofs`: type correctness together with `Placed` (a request has a
  lease exactly at the locations where its handler holds one, and the token is
  one it has read). Then `InFlightIsLeases`, which is inductive over those two:
  a step that counts adds the request to the holders of that token, a step that
  releases removes it, and cardinalities change by one. The count cannot be
  proved without `Placed`, because the release has a floor at zero and only the
  lease says that the count is positive. From both, `RetryUsesAnotherToken`,
  `RetiredTokenDrains`, `RefusedForCause` and `AffinityForCause`, each by cases on
  the step that picks a token or refuses. `LedgerImplemented` is the refinement of
  `LeaseLedger`; it needs `InFlightIsLeases` for the load and `FirstRelease` (only
  a request on its first token is at the release before a retry) for the number
  of tokens tried. With one administrator at a time, `OneRemainsEnabled` holds
  (`OneRemainsAlone` for the table, `OneRemainsUnderTraffic` for the whole pool),
  through `RemovalLeavesOne`: the check an administrator passed is still true
  when the write follows. `tokens_concurrent` shows that one is necessary.
  `AcquireTokenDecides`: whatever the counts, there is one answer, a token if and
  only if a candidate is eligible; the least loaded of them is one because ties
  are broken by id. `RequestsAdvance`: `StepsLeft` counts the steps a request has
  before it, falls with each step of its own and is at most fourteen, so that
  there is one retry and no loop; `FirstRelease` is what keeps a request whose
  retry failed too from a third attempt.
- `RateLimit_proofs`: `TypeOK`, `QuotaPerLateCall`, `LimiterAgrees` and
  `NoFalseRejection` from one invariant, `IInv`. It relates the counter of a
  subject to the admissions counted in the history: what was admitted in a window
  before its counter started again is paid by a late call each time, and no entry
  is of a window to come. While no call of the subject has been late, the counter
  is the number of admissions, and so is that of the Limiter as long as none was
  decided across a change of the limit in this window: on this the two
  implementations agree. Late or not, the counter never exceeds the admissions,
  and this alone gives `NoFalseRejection`.
- `RedisRateLimit_proofs`: `SharedQuota`, `DegradedQuota` and `BucketsExpire`. A
  bucket that cannot have expired counts at least what Redis admitted
  (`BucketCounts`), and it outlives the window after its own (`InTime`), so that
  only a call two windows late can be admitted against an empty one: Redis admits
  at most `Limit + stale`. An admission in memory takes one of `Limit` slots of
  its instance (`SlotsCount`). A late call empties the slots of one instance at
  most, which is the limit it costs: the instances admit at most `Limit` times
  their number, the late calls and the stops (`OwnBound`). Nothing is assumed of
  lateness, of failures or of stops. `BucketsExpire` names the buckets that may
  stay for ever, those of `unset`, one by one: a failure elsewhere excuses none.
- `RedisCoordinator_proofs`: types (with the existence of what the loop's CHOOSE
  selects, by well-foundedness), `CountWithinLeases`, from which `DrainsToZero`
  follows, and `RetryExcludesRefused`. The invariant is one predicate on the
  locals of a request (`RowOK`) and every action is shown to be a move to locals
  that satisfy it; the counts follow the holders by cardinality, except DEL,
  which may only lower a positive count or lift a negative one to zero, and the
  failures and crashes, where `leaked` grows by what the holders lose.
  `LeaksPaid` has the rest: nothing leaks without a failure, and a failure adds
  at most one to the memory of an instance. `RequestsAdvance` is the same as in
  memory, with a bound that grows with the tokens (17 + 4 times their number):
  the loop has at most two commands for each candidate, per attempt. It needs
  `RowOK`: the token of a retry is not the excluded one, which is how the model
  tells the retry from the first attempt.
- `ProxyGate_proofs`: `GateInv` (types; the key and status of a request at each
  of its locations; only a request that is over has a record; a cleanup works
  with a retention the table has had; a record names its key) gives `TypeOK`,
  `AuditNamesItsKey`, `AnsweredIsAudited`, `RetentionHonoured` and
  `RevokedKeyDrains` for any number of keys, requests and editors. With a single
  editor, `AgreeInv` says that a value that was saved is in the table until it is
  applied, and that the server has every other value of the table but those of
  `torn`; `ServerAgreesWithTable` and `AnonymousOnlyWhenAllowed` follow, whatever
  fails.
  `settings_concurrent` shows that a single editor is necessary for the former.
- `AdminAuth_proofs`: `AuthInv` ties the captcha of a login that has it to a row
  that is gone (`TookOK`, `CaptchasOK`), a session to its login (`SessionsOK`) and
  a visit to its session (`VisitsOK`). From it `OneTryPerCaptcha`,
  `SessionIsEarned`, `AdmittedInSession`, `SessionEndsForCause` and
  `CaptchaEndsForCause`, whatever fails and however often the server restarts.
- `ConsolePages_proofs` gives each page an invariant that its own steps keep: its
  types, and which requests are in flight for which flags. `Console_proofs` puts
  them together (the page that is mounted satisfies its own) with one about the
  session, and proves `TypeOK`, `TabMatchesServer`, `FreshCaptcha`,
  `SelectedAreListed` and `BusyForCause` under `ConsoleAssumption`, with every
  bound a parameter. `BusyForCause` has one direction for every page (busy only
  while a request is in flight) and the other for the login form, the status page
  and the flags for a batch, a token and the settings being saved.
- `ShownIsCurrent` and `RefusedSaveIsUnchanged` need a second invariant per page,
  over the first (`StatusCurrent` and the like). For the latter it says that
  numbers which are not in range are those of the last settings received. For the
  former it says what the page will show once the last load has been applied:
  either that load is in flight, and it is not served or brings the table as it is; or it was applied, and the page shows the table as
  it is; or one of the causes the property names has occurred. Loads keep their
  order in the queue of requests until one overtakes another, which is why the
  queue has lemmas of its own (`LoadApplied`, `KeptOrder`, `TwoSent`).

Only model-checked: the liveness properties (TLAPS does not prove fairness
properties of this kind). The half of `RequestsFinish` that needs no fairness is
`RequestsAdvance`: a request runs out of steps, whatever the steps of the others.

## 5. Not modelled, and observations

Not modelled: the parsing of the configuration and the key file, which are read
once before anything runs (of a start, the models have `Pool.Bootstrap` and
`applyStoredSettings`); routing and static files; header filtering and body
copying; the drawing of captchas, hashing and encryption; the SQL of lists,
summaries and the dashboard; markup, styles, toasts and formatting of the
console. They are stateless, or reads, or libraries.

`RedisCoordinator` assumes that instances sharing a Redis see the same tokens;
token ids are random per database, so instances with databases of their own
share no token. go-redis may retry a command by itself; that is not modelled
beyond a command that took effect though its answer was lost. The limit is
constant in `RedisRateLimit`.

Met while modelling, at odds with a document or with what the program says, and
not shown by a run of its own:

- Stickiness is per key and client address (`server.go:600`), where
  `README.md:12` and `TokensPage.tsx:108` say per API key: one key at two
  addresses may work with two tokens. `AffinityForCause` is stated of the
  address too.
- A token stored under another encryption key is released when it cannot be
  decrypted, but neither cooled nor excluded. It has the lowest count and may be
  sticky, so it is picked again, and clients get 503 "no healthy cursor token
  available" (`proxy.go:82`) while another token works. `RefusedForCause` names
  this cause, and the failing SELECT that is answered with the same words.
- A GET of an unknown path returns the console with 200; `README.md:83` says 404
  of unknown proxy paths.
- The dialog that disables an API key says that this cannot be undone
  (`ApiKeys.tsx:119`), though a batch enables keys again.

Contradicted by no document:

- A 429 answered late shortens the five-minute cooldown of a 401 to 30 seconds.
- Through Redis, DECR, another request's INCR and DEL lose a count. The counts
  recover (`DrainsToZero`) but balance less well until then. Two requests of one
  subject that overlap may be given different tokens.
- Refused calls are counted in Redis too, so raising a limit has no effect on a
  bucket that is far above it until the window ends.
- The audit record of a request whose key is deleted while it is served is
  refused by the foreign key and lost without a trace.
- A cleanup that cannot read the retention takes 30 days, though an
  administrator may have chosen more.
- A logout whose DELETE fails answers 204 and leaves the session valid.
- A save of settings that fails after it took effect is answered with 500, and
  table and server differ until the setting is saved again or the server starts
  again. If the setting is the one for anonymous requests, the server goes on
  serving them although the table forbids it (`torn`).
- The console saves all fields of its form, so that an administrator undoes what
  another has saved since the form was loaded.
- A save that changes only whether anonymous requests are allowed sends every
  field too; the server refuses it when the environment set a number above the
  bounds of the form (a rate above 100000), which were checked at no start.
- Creating a key has no guard while its request is in flight: a second press makes
  a second key, and only the secret answered last is shown.
- The question a tab asks at its start is believed even when a login has been
  accepted meanwhile: a late refusal sends the tab back to the login form.
- Errors of a logout are ignored: the tab shows the login form and its cookie
  still opens the session.
- Loads of the audit log overlap and the one answered last is shown, whatever it
  was asked for. The first answer ends the note that it is loading for both
  (`AuditLogs.tsx:43`), so that the page is idle with a load in
  flight. Records of a detail page whose offset is past the end (they were
  deleted) leave no button to go back.
- Both answers of the settings form overwrite what was typed meanwhile.
- The list of API keys is the server's default of 50, the newest; older keys
  appear on no page.

## 6. Where the project stands

1. Modelled: pool, coordinator, limiter, both through Redis, gate, settings,
   cleanup, login, and the console with every page.
2. Proved: every invariant and action property of the runs that pass;
   `OneRemainsEnabled`, `ServerAgreesWithTable` and
   `AnonymousOnlyWhenAllowed` for a single administrator or editor.
3. What could follow: a composition of `Console` with `AdminAuth`, in which the
   server's side of a session is that module; abstract specifications of the one-time captcha and of the audit log
   beside `LeaseLedger`; a limit that changes under `RedisRateLimit`.
