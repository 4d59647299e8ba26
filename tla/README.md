# A TLA+ verification of nodejs-toolkit

The repository is a toolkit of TypeScript libraries (`src/src/lib`: cache, jobs
scheduler, logger, messages brokers, persistence, primitives) and of application
components built on them (`src/src/components`: webhooks management, rate
limiting, media management, authorization). Everything runs in one node process:
code between two `await`s is atomic, and everything else interleaves - event
handlers, HTTP requests, and the jobs the scheduler starts on an interval without
waiting for the run before.

The modules here model the parts that keep state across awaits, TLC checks them
on small instances, and TLAPS proves the safety properties of the runs, and two
refinements, for every value of the constants.

- [1. Inventory](#1-inventory): the parts of the system and what makes them correct
- [2. Modules](#2-modules): what models what
- [3. Runs](#3-runs): what TLC checks, with which bounds and which fairness
- [4. Proofs](#4-proofs): what TLAPS proves, and how
- [5. Where code and documentation disagree](#5-where-code-and-documentation-disagree)
- [6. Not modelled](#6-not-modelled)

## 1. Inventory

"Hard" says which behaviours tests hardly reach; `PROJECT.json` lists each of
them under `hazards`, at its line.

### Webhooks management (`components/webhooks-management`)

| part | state | operations | hard |
|---|---|---|---|
| outbox and delivery | the outbox events (a `Map`), and the records that senders and runs of the retry job hold across a `fetch` | create and send a batch (a broker handler), send one (test command), retry what is due (a job, every five minutes), each one ending with a write of the new record | a run starts while another, or the first sender, awaits an answer: duplicate POSTs, writes of stale records |
| registry and commands | the webhooks (a `Map`), copies that commands hold across awaits | create, edit, disable, enable, delete, each after a check of the assignee | the check, the read and the write are three steps |
| wiring | one flag | the initializer registers the events' handler and the retry job | `Init` called again, at once, or after a failure |
| queries, facade, factory | none | reads and construction | - |

Correct means: an event is stored as delivered or cancelled only if that is what
happened; the schedule of delays is respected; everything is settled in the end;
only the assignee changes a webhook; no command is lost.

The broker calls `AllEventsHandler`, which asks the registry which webhooks
registered for the event and hands a batch of new outbox events to the sender.
The jobs scheduler calls the retry job. Both read webhooks, or outbox events, and
act on them an await later, while commands go on.

### Messages brokers (`lib/messages-broker`)

| part | state | operations | hard |
|---|---|---|---|
| in-memory events broker (in use) | handlers by event name, universal handlers, failed events with their count of retries | register, publish, retry (a job, every fifteen minutes), clear | handlers fail half-way; handlers are registered or cleared while a publication iterates over their array; two runs of the job share the failed events |
| on node's EventEmitter | listeners, failed events | register, publish (nobody waits for the handlers), retry, clear | a failed event that two runs retry, and that a run writes after another |
| on RabbitMQ | one connection, one channel, queues and their consumers | register, publish, clear | two calls that set up a connection each; a message that is settled on another channel than its own |
| on Kafka | - | an empty file | - |
| sync broker | one answer per request name | register, ask, clear | - |
| facade, factory, initializer | one flag | delegation, registration of the retry job | - |

Correct means: whoever was subscribed when an event is published is called once,
whoever else throws; what failed is retried as often as its handler asked for,
and no more; nothing that can be retried is forgotten.

### Rate limiting (`components/rate-limiting-management`)

| part | state | operations | hard |
|---|---|---|---|
| leaky bucket | a queue of pending promises per user and token | request, quota, the interval that resolves promises, stop | queue at its capacity, the slice of what was resolved, promises at the moment of stop |
| token bucket | a redis counter per user and token | request, quota, the interval's script, stop | the counter is added to, and taken from again on refusal, in two commands; other requests, other processes and the interval come between |
| fixed window | a redis counter per window (second, minute, hour, day) | request, quota, the intervals | four counters are changed and taken back one after the other |
| sliding window | a redis sorted set per window | request, quota | ranges at their ends, members that coincide |
| quota limits, cache, throttle handler | limits per user in a repository and, for a day, in a cache | get, update, throttle | what was read before an update is cached after it |

Correct means: what is accepted stays within the capacity, or within a bound;
refused requests cost nobody any quota; whoever is made to wait waits for a
bounded time, in order; the quota that is reported exists.

### The other libraries

| part | state | operations | hard |
|---|---|---|---|
| jobs scheduler | timers | register: first execution, then an interval, with retries of a failing run | overlapping runs, a first execution that falls on the wrong day |
| cache (in memory, redis) | values with an expiry | get, set, setNx, delete, clear | two callers of setNx, expiry between two steps |
| persistence (MongoDB, redis) | connections, sessions by correlation id | connect, start and end of sessions, transactions, `@Transactional`, backup job | overlapping sessions of one id, aborts after a commit, several data sources behind one flag |
| logger | a memory cache of logs, a file, copies of it named by the millisecond; in `@Log`, one correlation id per method | log, commit, clear job | logs that come during a commit, a cache that outgrew its limit, copies of one name; a logger that fails inside a decorated call |
| media management | files, objects at a cloud provider, assets | upload, delete | a step that fails in the middle |
| authorization | none | permission matching in a decorator | matching of wildcards |
| primitives | none | retry, durations, pagination, query building | a countdown that passes its end; filters that replace each other; pages beyond the end |
| search engine, cloud clients | none of their own | calls to services | - |
| composition root (`managers.ts`) | a flag per initializer | `Init` of the libraries and of the components, one after the other; `Destroy` | two of them await; calls that overlap or come again, also after a refused connection or with an incomplete environment |
| stubs, scratch | - | empty components | - |

Correct means: a job runs when it is due and until it is cleared, and gives up after
its retries; one caller has the key that `setNx` gave it; a transactional method
writes all or nothing; no log and no asset gets lost but where the code says so; a call
passes the permission check exactly if its credentials cover it; what was set up is
complete, once.

## 2. Modules

| component | model | composed and instantiated in | proofs |
|---|---|---|---|
| webhooks: outbox | `WebhookOutbox` | `MCWebhookOutbox` | `WebhookOutboxProofs` |
| webhooks: registry | `WebhookRegistry` | `WebhookDispatch`, `MCWebhooks` | `WebhooksProofs` |
| webhooks: what reads the registry | `WebhookDispatch` (extends `WebhookRegistry`) | `MCWebhooks` | `WebhooksProofs` |
| in-memory events broker | `EventsBroker` | `MCEventsBroker` | `EventsBrokerProofs` |
| broker on node's EventEmitter | `NodeNativeBroker`, abstractly `Delivery` | `Brokers` | `BrokersProofs` |
| broker on RabbitMQ | `RabbitmqBroker` | `Brokers` | `BrokersProofs` |
| leaky bucket | `LeakyBucket`, abstractly `Throttle` | `RateLimits` | `RateLimitingProofs` |
| token bucket | `TokenBucket` | `RateLimits` | `RedisLimitsProofs` |
| fixed and sliding window | `FixedWindow`, `SlidingWindow` | `RedisWindows` | `RedisLimitsProofs` |
| quota limits and their cache | `QuotaLimits` | `RateLimits` | `RateLimitingProofs` |
| cache | `Cache` | `RateLimits` | `RateLimitingProofs` |
| jobs scheduler | `JobsScheduler` | `Scheduling`, `MCScheduling` | `ToolkitProofs` |
| primitives | `Retry`, `TimeCalculator` | `Scheduling`, `MCScheduling` | `ToolkitProofs` |
| primitives, search engine | `QueryBuilder`, `Pagination` | `DataAccess`, `MCDataAccess` | `PersistenceProofs` |
| persistence | `Transactions`, `Persistence` | `DataAccess`, `MCDataAccess` | `PersistenceProofs` |
| logger | `FsLogger`, `LogDecorator` | `Logging`, `Application` | `ToolkitProofs` |
| authorization | `Authorization` | `Logging`, `Application` | `ToolkitProofs` |
| media management | `MediaManager` | `Application` | `ToolkitProofs` |
| composition root, initializers | `Startup` | `Application` | `ToolkitProofs` |

A module that composes others (`Brokers`, `RateLimits`, `RedisWindows`, `Scheduling`,
`DataAccess`, `Logging`, `Application`) declares their constants and variables once, under
names of its own where two of them share one, instantiates them, and names their properties.
The runs check these names, and the theorems are about the same ones: `Token!Spec =>
[]TokensAreAccounted` is about the very definition that the run of `RateLimits` checks. What
a run needs beyond that (small values, a cut of a large state space) is in the composing
module where it is a definition or two, and in an `MC` module where it is more.

All of them follow one pattern: a step goes from one await to the next; what a
function keeps in local variables across an await is part of the state of the
process that runs it; variables marked *history* in a declaration record what
happened, for the properties only, and no guard reads them (except for ids that
are given out once, and the bounds). Operators and actions have the names of the
functions they stand for; `PROJECT.json` gives the lines. Operators whose name
has a suffix, such as `CanRetry_OffByOne`, are deliberate mistakes that no action
uses: each shows that some property notices it.

Redis, MongoDB, RabbitMQ, the file system and the cloud providers are external: a
command to one of them is an action, it may fail where the code can see a failure,
and what is claimed of them is in the comment of the action.

### WebhookOutbox

`repo` is the repository; a key's order is the order of insertion. `work[p]` holds
the records that process `p` (a sender or a run of the job) read before its first
await, `posting[p]` says that it awaits an answer. A sender creates its batch and
stores it (`CreateBatchOutboxEvents`, `SendEventToWebhook`), then sends the events
one after the other; `StartRun` reads `allToRetry()` once. `Answered` is
everything from an answer to the next `fetch`: the new record is computed from the
one in `work`, not from the one stored, and replaces it. `nextTryAt`, a date in
the code, is the time left until then, which `Tick` counts down. The status codes
and the exceptions of `fetch` are one Boolean: `FetchRestClient` answers 500 for
all that is not an answer, and the caller only tells 200 and 201 from the rest.
Payloads, signatures, urls and the remaining dates are left out.

### WebhookRegistry and WebhookDispatch

`map` is the repository; a command is checked (`assertWebhookAccessPossiblity`),
reads the webhook (`ofId`) and writes the changed copy (`editWebhook`, ...) in three
steps, or throws in one of them. `intended` is history: what the map would be if
every command took effect at once. Content (events and url) is one value.

`WebhookDispatch` is that module together with the two readers of the registry:
`publish` and `handle` are `AllEventsHandler`, which reads the webhooks of an event's
name and an await later creates one outbox event for each; the test command checks
the assignee, reads the webhook, and sends one event for each of its names, with
awaits in between. `ever` and `always` are history: who wanted the event at some time
and at all times from the call to the read. `ofEvent` does not look at `isActive`, so
neither does "wanted": disabled webhooks are sent events (section 5).

### EventsBroker

`universal` and `named` are the arrays the code keeps; `clear` empties the first
in place and forgets the second, so that publications under way go on over what
they have: hence one generation of `named` for each clear. `pub[e]` is the program
counter of `publish(e)`: which loop, which index, which handler it awaits. A
handler that settles (`HandlerSettled`) does so well or with an exception, after
which a failed event is stored. `run[r]` is a run of the job: the failed events it
listed and has not come to, and the one whose handler it awaits. The objects in
`failed` are shared by all runs, as in the code: `retries` is incremented before
the handler is awaited, on whatever is there.

### NodeNativeBroker and Delivery

`publish` only emits: all handlers are `running` at once and settle in any order
(`HandlerSucceeds`, `HandlerFails`). `todo[r]` and `at[r]` are a run of the job. Failed
events are named by event and handler, the order of a run's list is left open.

`Delivery` states what an events broker owes each handler: one call, retries as long
as it throws, giving up only after as many as were asked for. `NodeNativeBroker`
implements it under `status` and `attempts`, which are defined from its variables: an
event is *exhausted* once no run, listed or future, may retry it.

### RabbitmqBroker

Each of `publish`, `registerEventHandler` and `registerUniversalEventHandler` is a
sequence of requests to the server; `pc[c]` says which answer call `c` awaits. The checks
`if (!this.connection)` and `if (!this.channel)` come before an await, the assignment after
it, so that two calls may both find nothing. `host` and `open` are the server's side.
`Deliver`, `HandlerSucceeds` and `HandlerFails` are the consumer's callback, which settles
on `this.channel` whatever that is by then. A handler that throws has its message
rejected and not requeued: there are no retries.

### LeakyBucket and Throttle

`map[k]` is the queue of a key, `result[r]` the promise of the r-th request.
`request` and the interval's `handler` have no await where it matters, so each is
one step; `handler` is a pass over all queues. `calculateRemaining` models the key
that is taken apart at its colons: the constant `Colon` holds the keys whose user
or token contains one, and which therefore are looked up in vain.

`Throttle` states what callers may rely on, with sets instead of arrays: only what
does not fit is refused, the oldest pass first, as many as may. `LeakyBucket`
implements it: `ImplementsThrottle` instantiates it with the state of each promise
(a pending promise is *waiting* while some queue holds it and *abandoned* when
`stop` forgot it).

### TokenBucket, FixedWindow and SlidingWindow

Keys do not interact, so each module is about one. In `TokenBucket`, `request` is
`incrBy` and what it answers; `Reject` is the `decrBy` of a refused request and
`RejectFails` an error of redis in its place; `resetRates` is the script of the
interval. Any number of processes may share the counter: they are all `Slots`.
`admitted` is history: a bucket to which only accepted requests are added, refilled
at the same moments.

`FixedWindow` has one counter for each window and each interval of time
(`counter[w][b]`) with its time to live. A request is `3 * N` commands: `IncrBy` and
`Expire` for each of `N` windows and, if one was over its limit, `DecrBy` for each.
`SlidingWindow` has a set per window; a request removes what is too old, adds itself,
sums up and renews the time to live, for one window after the other. The members are
the pairs of time and score, as in `now:score`, so that two requests can be one member.
In both, every command is a step, and `Tick` comes between them; any command may fail, which
fails the call and leaves what it added (`Fail`). In a sliding window that may be a set
without a time to live: `stranded` is history, the members whose request failed after its
`zAdd` and before its `expire`, until some request sets the expiry again. `quota()` of the
fixed window takes the time at its call and reads the counters of that time later, so that
`quota(w, began)` is about any time of call before now.

### QuotaLimits and Cache

`stored[m]` is the in-memory repository of manager `m`, `cached` the one cache all of
them share, with the age of the entry. `GetMiss`, `ReadLimits` and `Fill` are the read
through the decorator, `update` and `Updated` the write through it. Limits are
represented by the smallest of their four numbers, which is what the check of the
update command looks at.

`Cache` has both implementations, of which `backend` is one from start to end: on redis `setNx` is one
command (`SetNxAtOnce`); in memory it awaits its own `get` before it stores (`setNx`,
`SetNxStored`), and takes a falsy value for none.

### JobsScheduler, Retry and TimeCalculator

Time is counted in hours. `calculateFirstExecutionTimeout` computes the wait from the
rhythm and the weekday and hour of the registration; `FirstExecution` fires, runs the
job and starts the interval; a run (`run[r]`) fails and is tried again while later ones
start. `clearJobs` clears the timers that exist by then.

`Retry` follows the recursion of `retry()`: `retries[c]` is the argument of the innermost
call, the call that finds exactly 1 is made outside the `try`. `TimeCalculator` is the
chain `days(2).hours(1)...`: an answer is kept as what the larger units contribute, in
the unit asked for, and what the smaller ones do, in milliseconds.

### Transactions and Persistence

`sessionRequestMap` is the map from correlation ids to sessions, `session[c]` the one that
call `c` started. `Transactional` is everything up to the first await of the decorator;
`commitTransaction` and `abortTransaction` are the return and the exception of the method,
`Committed`, `CommitFails` and `Aborted` the driver's answers, `Finally` the `finally` block,
which ends the session the map has for the id by then. `Write` is a write of the method in
the session it finds. `durable` is what the database has.

`Persistence` is `PersistenceInitializer` with the two data sources it has: `BeginInit`
reads the flag before the await, `EndInit` sets it after; `Destroy` leaves it set. The
redis client calls itself open as soon as it starts to connect, which `health` repeats.
`missing` is what the environment lacks: both sources are made from it before either is
looked at, so that `Setup()` and `Destroy()` throw where a URL is missing (`SetupThrows`). The
environment does not change while the process runs.

### QueryBuilder and Pagination

A condition is the set of values it matches, a query its conditions per field with its
`$or` and `$and`. Every filter is an action that also narrows `wanted`, the documents that
are meant; what the query finds is `build`. `Pagination` has both versions of the
arithmetic, that of `pagination.ts`, which refuses pages below one, and that of the
search engine, which replaces them; a reader follows `nextPage` and then `prevPage`.

### LogDecorator, FsLogger and Authorization

`LogDecorator` follows a call from its first line to its last; `correlationId[m]` is the
variable of the closure that all calls of one method share. `writing[c]` is the line for which
the call awaits the logger: it is in `lines[c]`, the log, only when the logger is through with
it (`Written`). The logger may fail with any line. Then that line is missing, and the catch
block logs a failure (`LoggerFails`); if it fails with that one too, its exception is
thrown and no line says so (`LoggerFailsAgain`). `lost[c]` is history: with which lines it did.

`FsLogger` has the cache, the file and what calls of `info` and `clear` still have to write,
with the file system's failures. `clear()` takes the millisecond when it is called and
copies the file under it three awaits later (`Copied`): two calls of one millisecond write
the same copy, `saved[date]`. `dropped` is history: the logs that came in one of the moments
in which the code may lose them, and those of a copy that was overwritten. The cache is
an option of the class; the toolkit's own factory turns it off.

`Authorization` takes a permission and the credentials of a session, and tests them in the
order of the code; a permission is the sequence of its parts, and whether two strings are
equal is whether two parts are.

### MediaManager and Startup

`upload` compresses (`Compress`, each compressor that supports what the last one made),
stores the object (`NameObject`, `Stored`, `Identified`, which two providers do in one and
one in several awaits), saves the asset and removes the file. A compressor and the
provider may fail, and `upload` throws; so does `delete` when the provider fails
(`DeleteFails`). The two removals from the upload folder may fail as well, but that is caught and
the upload goes on: `unlink` has both outcomes, and `stuck` is history, the files that stayed.
The repository of the assets is in memory and answers.

`Startup` is `Managers.Init`: every initializer looks at its flag first and sets it last,
and the two that await may be overtaken by other calls. Its flags, jobs and answers are
those of the initializers in `src/lib` and `src/components`. `missing` is what the environment
does not describe: with a data source among it `PersistenceSetup` throws, and without
Cloudinary's keys `MediaManagerSetup` does, whatever the flags say. `connected` are the data
sources that are connected: MongoDB at most, as redis comes second and finds the flag set.

## 3. Runs

Several modules are checked in one run where they belong to one part of the system and
do not share variables: the composing module chooses one of them in the initial state (a
variable such as `kind`, `part` or `algorithm`) and leaves the variables of the others as they
are. The state graph is the union of theirs, not their product, and a property that combines
those of several modules holds in each. Where a module has behaviours of several shapes (an
event that many processes work on, or many events), the same variable keeps them apart.

What is set up once and never changes is a variable that `Init` chooses and no action
changes, so that one run covers all of it and a theorem holds for each: `backend` of the
cache, `provider` of the media, `withMemCache` of the logger, `version` of the pagination,
and `managers`, the rate limiting managers that are handed out.

| run | shows | bounds, and why they suffice |
|---|---|---|
| `outbox` | what is stored of an event is justified by the answers the receiver gave, exact for events without overlaps; POSTs respect the schedule; every event is settled for good | *overlap*: one event, its sender and **two** runs, which is where stale writes come from (a sender and a run, and two runs). *batch*: two events and two senders with batches of one and two, and a run that meets a half-sent batch. Three delays of different length (a first, a middle and a last one); `MAX_RETRIES` one larger than the schedule, as in the code (7 and 6 entries) |
| `webhooks` | only the assignee changes a webhook; nothing is lost without an overlap; an event reaches who wants it, once; a test sends one content | two webhooks, users, names, urls and contents; *commands*: two at once, of each two kinds on one and on two webhooks, the wrong user; *events*: one publication among commands one at a time; *tests*: one test among them, whose webhook has two names so that there is an await between two sends |
| `events_broker` | every subscriber is called exactly once, universal ones first, whatever throws and is registered or cleared meanwhile; retries and successes are bounded, and nothing to retry stays behind | *publications*: one event of one of two names; a universal handler, two of the event's name, one of the other; one clear, which leaves publications with arrays of a former generation. *retries*: two overlapping runs, two failed events with two retries each, a clear that takes handlers away and their registration anew |
| `other_brokers` | the broker on EventEmitter implements `Delivery` and settles what it owes; RabbitMQ: the known connection is the open one, messages are settled where they came from, and are delivered | *emitter*: one event, three handlers that want two retries, one and none, two runs. *calls*: one publication and two registrations, two at a time, one lost connection. *queue*: two events in one queue |
| `rate_limiting` | leaky bucket: implements `Throttle`, waiting is bounded, the quota told is real, promises are resolved. Token bucket: over-admission is bounded, no token is lost, a quiet bucket fills. Limits: stale only when overtaken, and not for ever. Cache: one holder of a key | *leaky*: capacity 3 and two leaks per second: no multiple of the rate, and a queue is shorter than, equal to and longer than a batch; six requests fill one queue twice, or two; one key has a colon. *token*: three requests under way, two scores, one failure; a rate (3) that is neither a multiple nor a divisor of the capacity (4). *quota*: two calls, two updates, one or two managers. *cache*: on redis three callers and two keys; in memory two callers, one key and a falsy value; values that expire |
| `redis_windows` | members of accepted requests stay within the limit, counters hold what was accepted and is under way, keys expire unless a request failed between two commands, no quota promises too much | two windows of different length, so that one expires under the other; two calls at once, three in all (sliding), one failure of any command; the sliding clock runs from 1 to 5, in which the longer window passes and its set expires, as the shorter one's does twice |
| `scheduler` | a job first runs when it is due, then in its rhythm, until it is cleared; retries are as many as asked for, with the pause between; durations agree | three-hour days and three-day weeks: every hour and weekday of registration, every kind of rhythm the code has, runs that outlast the interval; two jobs of shorter rhythms and `clearJobs` for half a week; `retry` with one, two and four; up to two of each unit of time |
| `persistence` | transactional calls are atomic and leave no session unless they shared an id; the backup is registered once, a set-up succeeds only with a complete environment, `health()` tells the truth; a query finds what its filters mean; readers see each item once and come back | *one id*: two calls that overlap in every way, and a third that finds what they left; *two ids*; *setup*: three `Setup()`, a `Destroy()`, two failures, every incomplete environment. *query*: all sequences of three filters on two fields over all documents of four values. *pages*: both versions of the arithmetic, up to nine items, all page sizes to the maximum and beyond, and pages of -1 to 5 |
| `application` | an `Init` that returned found a complete environment and set up everything but redis, jobs are registered once, `Init` may be repeated; assets are served until deleted, no file stays but results that were replaced and what could not be removed, uploads end; lines of a decorated call carry its id, and agree with its answer but where the logger failed with one; logs are lost only at the moments that are named; a full cache is written unless a write failed; covered calls pass, and no others | *startup*: three `Init`, one after the other or overlapping, that MongoDB may refuse, a `Destroy`, every combination of what the environment may lack. *media*, for each of the three providers: two uploads of one name, also in one millisecond, two deletes; of three compressors two take part in one upload, the second because it supports what the first made, and one in the other. *logging*: three calls of one method, one without an id, and a logger that may fail with any line; three logs and two `clear()`, each called in the order of their numbers (they are alike), in two milliseconds or in one, a cache of two, one failure of the file system; two topics and actions, at most two of the three credentials with one permission each (a list passes if one of its members does) |
| `sliding_refusal` | *violation*: a request within the limit is refused | one call after the other, two windows |
| `jobs_backup` | *violation*: the backup does not run on its day | one registration of the backup job |
| `sliding_coincide` | *violation*: more is accepted than the limit | two requests of one score at one time |

Deadlock is checked in `outbox`, where something can always happen. In the others the
system really may stop: calls have returned, and what is bounded has been used up.

What every property says, and why it could fail, is stated where it is defined. In brief:

- *Exactness without overlaps.* Commands on one webhook, POSTs of one event, transactions of
  one correlation id, reads and updates of one user's limits: what no two processes
  worked on at once is exact (`ExactUnlessOverlapped`, `SoundUnlessShared`, `LimitsAreFresh`,
  `SourcesAreKnown`), for the rest the model promises only what survives every
  interleaving. `overlapped`, `shared` and `mixed` make precise which of the guarantees
  depend on scheduling.
- *Bounds under every interleaving*: `StatusIsJustified`, `CallsAreBounded`, `TokensAreAccounted`
  (the bound is reached, not just safe), `SetsAreAccounted`, `CountersAreAccounted`,
  `WaitIsBounded`, `SetNxIsExclusive`, `QuotaIsNotOverstated`.
- *Time*: `BackoffIsRespected`, `RunsAreOnTime`, `AttemptsAreAsAsked`, `OnlyNewMembersAreLost`.
- *Nothing is forgotten*: `EverySubscriberIsCalledOnce`, `WebhooksAreSentTheirEvents`, `LogsAreKept`,
  `CallsAreLogged`, `AssetsAreKept`, `ChannelsAreKept`, `StartupIsSound`.
- *It ends*: `EventuallySettled`, `EventuallyNothingToRetry`, `EventsAreHandledInTheEnd`,
  `PromisesAreKept`, `JobsRunUntilCleared`, `EveryCallerIsAnswered`, `CallsAndReadersEnd`,
  `FullCacheIsCommitted`, `UploadsEnd`.
- *Against a reference definition*: `QueriesFindWhatIsWanted` (the documents a filter means),
  `EveryItemOnce`, `ExactlyCoveredCallsPass` (what `is-permissions-matches.test.ts` says a
  permission covers), `MinutesAndSecondsAgree`.
- *Refinement*: `ImplementsDelivery`, `ImplementsThrottle`.

The type invariant of a module is part of a property of its run in `WebhookDispatch`, `RabbitmqBroker`,
`TokenBucket`, `FixedWindow`, `SlidingWindow`, `QuotaLimits`, `Cache` (on redis), `JobsScheduler`,
`LogDecorator`, `FsLogger` and `MediaManager`. No run checks it alone: in `WebhookOutbox`,
`WebhookRegistry`, `EventsBroker`, `NodeNativeBroker`, `LeakyBucket` and `Transactions` it is
the theorem `TypeCorrect` of the proofs, and in the others it is a part of the inductive
invariant that the proofs define.

**Fairness.** Liveness is checked under weak fairness of steps that the event loop
or a timer performs by itself: continuations of awaits, intervals, time. It
includes that `fetch` ends (node's own timeouts end it) and that redis, MongoDB, the
file system and the providers answer, if only with a failure. In the brokers it includes
that every handler settles, which is an assumption about handlers and not a fact: a
handler that never settles blocks its publication, for there is no timeout. No
fairness is assumed of requests, commands, publications, registrations or
`clear()`, nor of a choice between success and failure: a receiver may fail for
ever. Where a run combines modules, the fairness of those whose variables stay as they
are is satisfied trivially, their steps not being enabled.

## 4. Proofs

| theorem | states | by |
|---|---|---|
| `WebhookOutboxProofs!TypeCorrect` | `Spec => []TypeOK` | `TypeOK` is inductive, records being closed under the operations |
| `WebhookOutboxProofs!StatusJustified` | `Spec => []StatusIsJustified` | `JustifiedInv` |
| `WebhookOutboxProofs!ExactWithoutOverlap` | `Spec => []ExactUnlessOverlapped` | `ExactInv` |
| `WebhookOutboxProofs!BackoffRespected` | `Spec => BackoffIsRespected` | `ExactInv /\ WaitInv`, which implies the action property |
| `WebhooksProofs!TypeCorrect` | `Spec => []TypeOK` | inductive |
| `WebhooksProofs!AssigneeCorrect` | `Spec => OnlyTheAssigneeChanges` | `AssigneeInv`, which implies the action property |
| `WebhooksProofs!Exact` | `Spec => []ExactUnlessOverlapped` | `SingleInv` |
| `WebhooksProofs!EventsAreSent` | `DispatchSpec => []WebhooksAreSentTheirEvents` | `DispatchInv` |
| `EventsBrokerProofs!TypeCorrect` | `Spec => []TypeOK` | inductive |
| `EventsBrokerProofs!CallsBounded` | `Spec => []CallsAreBounded` | `RunsInv` |
| `EventsBrokerProofs!SubscribersCalled` | `Spec => []EverySubscriberIsCalledOnce` | `CallsInv` |
| `BrokersProofs!TypeCorrect` | `Spec => []TypeOK`, of the broker on EventEmitter | inductive |
| `BrokersProofs!Refinement` | `Spec => ImplementsDelivery`, that is `D!Spec` | `TypeOK` and `FreshOK`, and that each step maps to a step of `Delivery` or to a stutter |
| `BrokersProofs!ChannelsKept` | `MQ!Spec => []ChannelsAreKept` | `ChannelFacts` |
| `RateLimitingProofs!TypeCorrect` | `Spec => []TypeOK` (with the capacity of every queue), of the leaky bucket | inductive |
| `RateLimitingProofs!WaitBounded` | `Spec => []WaitIsBounded` | `BucketInv` |
| `RateLimitingProofs!ThrottleImplemented` | `Spec => ImplementsThrottle` | `BucketInv`, and that each step maps to a step of `Throttle` or to a stutter |
| `RateLimitingProofs!ToldQuotaReal` | `Spec => ToldQuotaIsReal`, a part of `PromisesAreKept` | `BucketInv` |
| `RateLimitingProofs!LimitsFresh` | `Quota!Spec => []LimitsAreFresh` | `QuotaInv` |
| `RateLimitingProofs!SetNxExclusive` | `Store!Spec => SetNxIsExclusive` | `CacheInv`, which implies the action property |
| `RedisLimitsProofs!TokensAccounted` | `Token!Spec => []TokensAreAccounted` | `TokenInv` |
| `RedisLimitsProofs!CountersAccounted` | `Fixed!Spec => []CountersAreAccounted` | `FixedInv` |
| `RedisLimitsProofs!SetsAccounted` | `Sliding!Spec => []SetsAreAccounted` | `SlidingInv` |
| `RedisLimitsProofs!OnlyNewLost` | `Sliding!Spec => OnlyNewMembersAreLost` | `SlidingInv`, which implies the action property |
| `RedisLimitsProofs!QuotaNotOverstated` | `Sliding!Spec => QuotaIsNotOverstated` | `SlidingInv`, likewise |
| `PersistenceProofs!TypeCorrect` | `Spec => []TypeOK`, of transactional calls | inductive |
| `PersistenceProofs!Sound` | `Spec => []SoundUnlessShared` | `IInv` |
| `PersistenceProofs!SourcesKnown` | `Sources!Spec => []SourcesAreKnown` | `SetupInv` |
| `PersistenceProofs!QueriesFind` | `Query!Spec => []QueriesFindWhatIsWanted` | `QueryInv` |
| `PersistenceProofs!EveryItemRead` | `Pages!Spec => []EveryItemOnce` | `ReadInv` |
| `ToolkitProofs!CallsLogged` | `Log!Spec => []CallsAreLogged` | `CallLogInv` |
| `ToolkitProofs!LogsKept` | `Fs!Spec => []LogsAreKept` | `LogsInv` |
| `ToolkitProofs!CoveredCallsPass` | `Auth!Spec => []ExactlyCoveredCallsPass` | `SessionInv`, and that the tests of the code are right about every permission |
| `ToolkitProofs!StartupSound` | `Start!Spec => []StartupIsSound` | `StartupInv` |
| `ToolkitProofs!AssetsKept` | `Media!Spec => []AssetsAreKept` | `MediaInv` |
| `ToolkitProofs!RunsOnTime` | `Schedule!Spec => []RunsAreOnTime` | `SchedulerInv` |
| `ToolkitProofs!TimersStop` | `Schedule!Spec => Schedule!ClearStopsTimers`, a part of `JobsRunUntilCleared` | `SchedulerInv` |
| `ToolkitProofs!AttemptsAsAsked` | `Tries!Spec => []AttemptsAreAsAsked` | `RetryInv` |
| `ToolkitProofs!DurationsAgree` | `Time!Spec => []MinutesAndSecondsAgree` | the types of what was added, and what products and quotients of numbers are |

They hold for every value of the constants that satisfies the `ConstantsAssumption` of the
module: any senders, runs, handlers, commands, calls, keys, windows, fields, any schedule,
capacity, rate, limits and lengths. The `Max...` constants bound how often something happens,
and are arbitrary numbers here. Apart from the types of the constants, the assumptions are:

- what is summed up or counted is finite: the runs of the in-memory broker, the requests under
  way (`Slots`) of the redis algorithms and their scores (at least one); uploads; and the
  webhooks and names of `DispatchAssumption`, where a set becomes a sequence of outbox events;
- names of things of different kinds differ, and `Null` or `None` is none of them;
- a window has a length, a size of a page and a pause between retries are positive; the
  sliding window's clock starts no lower than the highest score, as the milliseconds since 1970 do;
- bounds of a model are large enough to ask the question: `MaxTried` for what `retry` is asked for,
  `MaxAge` for the delays of the outbox.

**Outbox.** What is stored cannot be shown justified without knowing what the
processes hold, since that is what they will store: `HandsInv` says that every record
in hand may be retried and counts no more tries than POSTs failed. A failing POST
of it then makes at most one try more, and only a try beyond the schedule cancels.
For exactness, `SingleHolderInv` adds that an event that never overlapped is in at
most one hand, and that this hand holds what is stored; `FreshInv` that ids not given
out have no history; and `WaitInv` that the wait left and the time passed since the
last answer add up to the delay, so that a POST, which needs a wait of zero, respects it.

**Registry.** A command carries its user and a copy of the webhook over two awaits, in
which other commands may replace or delete the webhook. `AssigneeInv` says that the user of
every command under way created the webhook, and so did the assignee of every copy: creators
do not change, so what was checked before the awaits is still true after. `SingleInv` adds
that a webhook without overlaps has at most one command, whose copy is what is stored.

**What webhooks are sent.** A handler reads the registry once, between the publication and
the creation of outbox events, and commands go on before and after. `HandlerInv` keeps what
it will create, is about to create and has created between `always` and `ever`: commands only
take from the first and add to the second until the read, and after it neither changes.
That each target is sent one event needs the webhooks read to have different ids, and to be
finitely many, for they become a sequence. `TestInv` says the same of a test: it has sent
the events of the webhook it read but for those it has left (`SentButFor`).

**In-memory broker.** A run that listed a failed event may still add one retry to it: the
invariant has to count those runs. `ListingInv` bounds retries plus the runs that
list the event by `max + |Runs| - 1`: listing needs `retries < max`, so that even
with all runs listing it the sum is in bounds, and a retry moves one unit from one
summand to the other. `SuccessInv` does the same with the runs that list or await it,
once it has succeeded; `TryingInv` makes the two sets disjoint for a run.
For the calls of a publication, which walks through arrays that are appended to while it
awaits, `CallsInv` says how far it is (`Progress`): what it has called is a prefix of the
universal handlers, or all of them that were expected and then a prefix of those of the name,
and no array holds a handler twice. Appending keeps prefixes; clearing ends what is expected.

**Broker on EventEmitter.** The abstract status is defined from the broker's variables, and
what has to be shown is that it never takes a step `Delivery` does not have: that a failure
which is stored late does not take back a success, and that an event is not exhausted while
a run that listed it may still retry it. `TypeOK` says what runs hold (failed events that
are stored), `FreshOK` that nothing was retried before it failed. Each action is looked at
at the one pair of event and handler it touches.

**RabbitMQ.** That the open connection is the one the broker knows depends on who else is
connecting: `OneConnects` says that without overlapping set-ups one call at most awaits a
connection or a channel, and that there is no connection where one is awaited. `OneChannel`
adds, as long as no connection was lost, that every call and consumer uses `this.channel`, so
that a message is settled where it came from.

**Leaky bucket.** The place in the queue plus what has leaked since a request came
never exceeds the capacity. The step of the interval adds `leaksPerSecond` to the
second summand, and takes as much from the first *because* a request that stays
behind has a full batch before it (`PassedRequests`). That its counter is the one the
step advances needs the request to be pending and to be in the queue once:
`QueuesInv` says that queues are strictly increasing and hold pending requests of
their key; `FreshInv` that a new request starts with no seconds.
`Throttle` counts the requests that wait, as a set. `CountFirst` gives their number, by a bijection
from the first places of a queue to the requests in them, and so the number of those that a
leak resolves; refusals, leaks and the quota told then agree with what `Throttle` has.

**Quota limits.** A call puts into the cache what it read an await before. `CallsInv` says what
calls that no update overtook are about to put there: a read what the repository still has, an
update what was given last. It also says that such a read has no update under way, and
that the last one was cached more than a day ago: were it otherwise the read would have
found its entry. `AgeInv` says that an entry is no older than the update that was cached last,
`StoreInv` that the repository of the only manager is up to date. With several managers there are
several repositories behind one cache, and only what holds for a day is left.

**Cache.** On redis a key that is held has an entry that is not expired, and one holder
(`CacheInv`): `setNx` is one step, so whoever comes later finds the entry. In memory a
call finds nothing and stores an await later; then a value that is in its way was stored
after its look, and that is all there is to say.

**Token bucket.** `Consumed` is the counter without what refused requests are about to take off.
It is compared with `admitted`, what a bucket would hold that counts accepted requests only, from
both sides: it falls short of it by at most what was given back twice, which is what all
requests under way at once can have, and exceeds it only by what redis failed to take off.
Both sides are needed, for the interval changes one by more than the other when one is at zero.

**Fixed window.** Each window and bucket is examined by itself. `CounterInv` says that its counter
is what was accepted and what is under way, exactly so if no request took off from a counter
that had expired. A request is accepted after several more awaits than its `IncrBy`, so that
the invariant has to know what it relies on meanwhile: `Promised` is what calls that have
added within the limit may still make of `accepted`, and fits into it.

**Sliding window.** The scores in a set are those of `Counting(w)`, members whose requests
were accepted or have already been summed up within the limit, and of refused ones; a sum
finds them all because what was added is `Kept`: it is in the set, or out of reach, or lost
with the set. Whether a set is lost early is `LifeInv`: for each member the time to live
lasts beyond the member's window, or it is `Unrenewed`: its request is about to renew it, or
failed before it did. The last is remembered in `stranded` until a request sets the expiry,
which is when every member has its time to live again (`Renewed`); so a failure moves a member
from one alternative to the other (`SlidingFail`). Quotas are computed from times instead of
scores, which are greater, hence the promise is never too much.

The laws of sums which the redis proofs use (of a set without an element, of a union, of a
function that changed in one place, ...) are proved once, at their beginning: the library's
`SubsetInduction` style of argument is made with the set of all subsets for which a law holds.

**Transactions.** Atomicity is about the end of a call, and depends on what every other call
may do at each of its awaits. `Stage` says what is true of an unshared call at each of them:
before it has a session, nobody has one it started; in the method, its write is in the open
transaction found under its id and nowhere else; while the session is being ended, it is
decided whether the write is durable. That no other call disturbs a stage has two
reasons: a step only touches what belongs to its correlation id (`Local`, with `OfOneId`:
sessions, and the writes in them, belong to one id), and no other call of that id is
under way (`Alone`). So the step of a call is examined alone (`Keeps`, one lemma for each
action), and all other calls at once (`OthersKeep`).

**Data sources.** The flag is set together with the backup, after the connection
of MongoDB; so a `Setup()` that finds the flag never connects redis (`SetupInv`). One that is under
way has found both URLs in the environment, and one that is past its first source has found or
set the flag. Without overlaps one `Setup()` at most is under way, and it finds the flag as it left it.

**Queries and pages.** `QueryInv` compares the two sets of documents, what the query finds and
what the filters mean, after every filter: each way of adding a condition narrows
the two alike (`AddKeeps`), but for a second condition on a field, a second list of alternatives
and a bound of zero. `ReadInv` says that a reader on its way forth has had exactly the items
between its first page and the last one, whatever sizes it asked for, because a page's
`nextPage` is what it asks for next and the size stays. That readers come back is liveness.

**The toolkit.** `CallLogInv`: where a decorated call is says what it has told the log and
which line it waits for the logger with (`Told`); a line is missing where the logger failed, which
`lost` remembers, and nowhere else. With the id of the method, lines are those of their call as long
as nobody else sets it (`Identified`).
`LogsInv`: a log is with its call, in the cache, or kept, or dropped (`CallInv`); a commit
writes what the cache has but for what came since (`Covers`); what `clear()` is about to truncate is
in some copy, but for what came since and for what a copy of the same name took the place of
(`CopiedInv`), so that the logs of the file outlive it. Authorization: every test of the code is
compared with the permissions it stands for (`MatchesAreCovered`), over all forms that a
permission may have.
`StartupInv`: a call that came past a part left it set up and found what the part needs in the
environment (`Passed`), flags and what they say go together (`FlagsInv`) but for the webhooks'
handler, which is registered a step before its flag, and the backup, which two calls register if
they connect together; with its flag MongoDB is connected (`BackupInv`).
`MediaInv`: an object is named before it is stored, and known by that name afterwards (`Named`);
it is the last one stored under the name, but for another of the same name (`InPlace`); a
file is of the last compressor that took part, or of one before it, and gone when it should be
(`Gone`) or `stuck` (`Files`).
`SchedulerInv`: a job that waits is due at the right hour of the right day (`DueAt`), and one
that ran did so in its rhythm (`InRhythm`). The wait is computed from the hour of the day and the
day of the week of the registration; that it ends at that hour and day, for days and weeks
of any length, takes lemmas about quotients and remainders.
`RetryInv`: calls that failed and retries left make up what was asked for (`Counted`), and
the pause and the time since the failure the delay (`Waited`).

**Only model-checked**: liveness, which is out of the prover's reach (`EventuallySettled`,
`EventuallyNothingToRetry`, `EventsAreHandledInTheEnd`, `EveryCallerIsAnswered`,
`CallsAndReadersEnd`, `FullCacheIsCommitted`, `UploadsEnd`, and what `PromisesAreKept` and
`JobsRunUntilCleared` say beyond the theorems `ToldQuotaReal` and `TimersStop`). The
theorems are about the specification of each module; that a run of several modules is the
union of theirs is how the composing modules are written, and only TLC sees it. In the
same way the small constants of an `MC` module are one instance of what is proved.

## 5. Where code and documentation disagree

Three runs expect a violation of what the documentation or a test says:

| run | the code | what is said of it |
|---|---|---|
| `sliding_refusal` | a refused request is to be removed from the set by a range from `now` to `(now`, which is empty: it goes on counting, and a request is refused although the accepted ones are too old to count | `sliding-window-algorithm.test.ts:52`: "should accept more requests after 1 second" |
| `jobs_backup` | a weekly job registered on its weekday after its hour is moved by one day, not by a week, and stays on that day, since the interval starts there | `README.md:42`: "a cron job to generate persistence backups every Friday at 01:00 PM" (the job itself asks for '01:00', which is taken as given) |
| `sliding_coincide` | the member that a request adds is its time and score: two requests of one score in one millisecond are one member, count once, and are both accepted beyond the limit | `sliding-window-algorithm.test.ts:32`: "should accept and pass requests until reaching the per seconds limit of the user", after which one more is to fail |

The following are weaknesses which the modules contain and the properties make explicit by
what they exclude or bound. No run counts them as disagreements: where the repository says
anything about them, it is the name of a function, or the sentence that is quoted.

- *Retry jobs do not wait for the run before.* A pending outbox event is retriable while its
  first POST is under way, so that a receiver may get it twice (`StatusIsJustified`); two runs
  of the in-memory broker's job make one retry more than `config().retries` (`CallsAreBounded`).
- *Commands on one webhook.* `update()` stores a webhook whether or not it is still there: an
  edit that read it before a deletion brings it back (`ExactUnlessOverlapped`). Disabled
  webhooks are sent events: `ofEvent()` does not look at `isActive`.
- *Add, then take back.* In the token bucket and the fixed window a request that is about to be
  refused counts for the others, so that one within the capacity may be refused. If the
  token bucket's interval comes in between, what is given back is given back twice and
  more than the capacity is accepted (`TokensAreAccounted`). A `decrBy` after the expiry of a
  fixed window's counter leaves one that never expires (`CountersAreAccounted`).
- *A command that fails between two.* A request of the sliding window that fails after its `zAdd` and
  before its `expire` leaves a set that stays in redis until the next request of the user gives
  it a time to live (`SetsAreAccounted`, with `stranded`); one of the fixed window or the token
  bucket leaves what it added.
- *Sessions by correlation id.* A call that finds the session of another one of its id starts a
  transaction in it, which fails, or finds it ended by the other (`SoundUnlessShared`).
- *setNx in memory* answers `true` to two callers (`SetNxIsExclusive` holds on redis).
- *One flag for several data sources.* `README.md:40` calls the persistence "A simple persistence
  layer that you can use to initialize your different data sources". `PersistenceInitializer` is set
  up once the first source is connected: after an `Init` that returned, MongoDB is connected and
  redis is not (`ReadyIsComplete` in `Startup`; in `Persistence`, `BeginInit` skips it).
- *A missing variable of the environment* makes not only the first `Init` throw but every one, also
  where the flags say that there is nothing to do, and `Destroy` too (`InitMayBeRepeated`).
- *The logger* loses logs that come while a commit of its cache is in flight or between the copy
  and the truncation of the file, and those of a copy that another `clear()` of the same millisecond
  writes again; a cache that outgrew its maximum after one failure is never committed again
  (`LogsAreKept`, `FullCacheIsCommitted`). The cache is off in the logger that the factory makes.
- *A logger that fails inside a decorated call* makes it throw, though the method may have done its
  work; if it fails in the catch block too, no line says that the call threw (`CallsAreLogged`).
- *`retry` with zero retries* never gives up: its countdown only stops at exactly one.
- *The RabbitMQ broker* has no retries, and two first calls at once open two connections, one of
  which nobody closes (`ChannelsAreKept`).
- *Queries.* A second `$or` widens the first, and a bound of zero is ignored
  (`QueriesFindWhatIsWanted`).
- *Compressors.* When two of them take part in an upload, what the first one made stays in the
  upload folder. So does a file whose removal fails, of which the caller is told nothing
  (`NothingElseIsLeftBehind`).
- *Durations.* `inHours` adds a year's minutes where its hours belong, and nothing checks the two;
  `MinutesAndSecondsAgree` is about the units that agree.

## 6. Not modelled

- Formatting, signatures, dates and wording: of logs, of events, of identifiers. No property is
  about them.
- REST, cloud, search engine and database clients: calls to services, with an answer or a
  failure. The dumps of the backup job are external programs, the modules only register it.
- Queries of the webhooks manager only read, and two of them are not implemented; facades
  delegate, factories construct.
- `kafka-events-broker.ts` is an empty stub, as are several components; `src/scratch` and
  `index.ts` are experiments on their own. Nothing calls `Managers.Init` in the repository:
  `Startup` models what it does when it is called.
- Rounding in `TimeCalculator` and `inMilliseconds`, whose integers are beyond TLC's.
- A crash of the process is no action of its own: the state of the modules is in memory (the
  buckets' and windows' in redis, where a process that dies between two commands is a
  `RejectFails` or a `Fail`), so that a crash is the end of a behaviour. Nothing in the code
  recovers state at start.
