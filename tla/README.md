# OtusMS in TLA+

OtusMS is a news aggregator with keyword alerts, written in Go as five services
around Kafka, PostgreSQL, Redis, an S3 object store and Keycloak.  This directory
holds TLA+ specifications of its concurrent parts, the TLC configurations that check
them on small instances, and TLAPS proofs of the properties that matter most.
`PROJECT.json` relates every definition to the lines of code it models, and lists
runs, mutants, hazards, findings and theorems.

    tlc -workers 2 -config AlertDelivery_faults.cfg MCAlertDelivery.tla
    tlapm AlertPromiseProofs.tla

## 1. Inventory

The path of a news item: news-collector finds its URL in an RSS feed and writes it
to the topic `raw_news`; news-processor reads it, uploads its text, writes an alert
to `news_alerts` for every rule that matches, and saves the item through
main-service; alert-worker reads the alert, reserves the delivery with main-service,
sends it to Telegram and reports the outcome to main-service.

| component (code under `src/`) | state | operations | interacts with |
| --- | --- | --- | --- |
| alert-worker (`internal/services/alertworker`) | the event in hand, the attempt counter; offsets in Kafka | `Run`, `handleEvent`, `publishDLT`, `Send` | Kafka `news_alerts` and its dead letter topic, main-service (gRPC), Telegram |
| main-service, gRPC `NewsService` (`internal/handlers/news`) | none of its own: every handler is a goroutine over the tables | `ReserveAlertDelivery`, `FinalizeAlertDelivery`, `SaveProcessedNews`, `GetActiveAlertRules` | called by alert-worker, news-processor, news-collector |
| alerting store (`internal/store/alerting`) | tables `alert_rules`, `alert_events` with a unique key (rule_id, news_id) and cascading foreign keys | insert of a pending event, updates of its status, last sent_at, rules of a user | PostgreSQL |
| news store (`internal/store/news`) | `news` (unique url), `news_search_index` | `UpsertBatch`, `DeleteOlderThan`, queries | PostgreSQL |
| news-processor (`internal/services/processor`) | channels `tasks` and `results`, the batch, the cache of rules, closed/cancelled state | `readLoop`, `workerLoop`, `saveBatcher`, the shutdown in `Run`, the refresher | Kafka `raw_news` and `news_alerts`, object store, main-service |
| news-collector (`internal/services/collector`, `internal/store/collector`) | the source cache; in Redis `last_collected_at`, `error_count`, `deactivation_count`, the keys `nc:deact` and `nc:seen` | cron rounds, `collectFromSource`, `handleCollectError`, `filterDuplicates`, `RefreshSources` | feeds, Redis, Kafka, main-service |
| auth-proxy (`internal/handlers/auth`, `internal/keycloak`, `internal/ratelimiter`) | a counter per IP in Redis; accounts, sessions and tokens are Keycloak's | `Allow`, `Login`, `Register` (with a rollback), `Refresh`, `Logout` | Keycloak, main-service, Redis |
| main-service, middleware and JWKS (`internal/middleware`, `internal/jwks`) | the cache of Keycloak's keys | `ValidateJWT`, `RequireRole`, `UnaryAuthInterceptor`, `GetKeySet`, the refresh in the background | Keycloak; in front of every handler |
| main-service, users (`internal/services/user`) | `users` | create, get, list, soft delete | PostgreSQL; called by auth-proxy |
| main-service, rules API (`internal/services/alerting`) | `alert_rules` | `CreateRule`, `UpdateRule`, `DeleteRule`, lists of rules and events | PostgreSQL; read by the refresher of news-processor |
| main-service, personalization and news (`internal/services/personalization`, `internal/services/news`) | preferences, news events | get and put preferences, post an event, feed, latest news | PostgreSQL |
| retention (`internal/services/retention`) | two tickers, in two processes: `DBCleaner` in main-service, `S3Cleaner` in news-processor | delete old rows, delete old objects | PostgreSQL, object store |
| main-service, migrations (`internal/store/migrations.go`) | `schema_migrations` | `RunMigrations` at start | PostgreSQL |
| sources API, configuration, metrics, generated code, client, deployment | none that other parts depend on | | |

What is hard about them, and what makes them correct:

* **Delivery of alerts.**  Kafka's reader commits an offset before the event is
  handled; several matches of one (rule, news) pair and several copies of a match
  are handled at once; every gRPC handler takes several statements, between which
  other handlers run and parents are deleted; handlers outlive the worker that
  called them; Telegram may have got a message whose answer is lost.  Correct means:
  one event of a pair reaches the chat, the status column is true and final, the
  dead letter topic holds what was refused, the cooldown is kept, no worker hangs.
* **Alert against its news row.**  The alert is published before the item is saved,
  and the insert of its event retries for a bounded time.  Correct means that the
  retries outlast the item's way into the table.
* **The pipeline.**  Three kinds of goroutines, two bounded channels, a ticker, a
  cancellation at any moment, and a shutdown in which every stage waits for another.
  Correct means: an item is never copied nor forgotten, nothing is sent on a closed
  channel, `Run` returns, everything is saved while nothing fails.
* **Rounds of the collector.**  cron starts a round although the last one runs;
  counters are read and written in separate Redis calls; URLs are marked as seen
  before they are published; the client of Redis sends a command again when its
  reply is lost.  Correct means: a URL is published once, nothing marked as seen
  disappears unaccounted for, interval and backoff are kept, the semaphore lets
  every source through.
* **Registration** is a saga over two systems without a coordinator; correct means
  that accounts and rows agree, or that somebody can tell they do not.
* **Limits** (logins per IP, active rules per user) are checked and then used, by
  requests that run at the same time and in front of services that fail.  Correct
  means that whatever passes beyond the limit has a bound and a reason.
* **Admission** goes by tokens and keys that Keycloak gave out earlier.  Correct
  means that what has ended is refused soon, and what is valid is not.
* **What an answer promised.**  Handlers of main-service commit statement by
  statement and meet others between two of them.  Correct means that a deletion, a
  hidden item and a page hold whatever the others do, and that the matcher's copy of
  the rules is not older than its refresher allows.
* **Retention** deletes parents that deliveries and feeds in flight still refer to,
  and rows and objects by different clocks.  Correct means: nothing goes early,
  nothing stays for long.
* **Migrations** run in every instance that starts, without a lock.  Correct means
  that each is applied once and in order.

`PROJECT.json` lists these as hazards, each at its line, with the property that
would catch it going wrong.

## 2. Modules

| module | models |
| --- | --- |
| `AlertDelivery` | alert-worker, the gRPC handlers and tables behind it, Telegram, the two topics |
| `AlertPromise` | what that delivery promises: one conversation per rule and news item |
| `AlertFkRace` | the insert of an alert against the save batch of its news item, with time |
| `NewsProcessor` | the pipeline of news-processor, and `UpsertBatch` statement by statement |
| `Collector` | rounds of news-collector, breaker, dedup, publishing |
| `Registration` | `Register` over Keycloak and main-service, with its rollback |
| `RateLimiter` | the counter of login attempts per IP in Redis |
| `Access` | login behind the limiter, refresh and logout in auth-proxy; tokens, keys and admission in main-service |
| `UserApi` | the users API, and how handlers of main-service answer and fail |
| `AlertRules` | the rules API, and the cache of rules in news-processor |
| `Retention` | the two cleaners beside the pipeline that stores texts and rows |
| `Feed` | preferences, events, the feed and the latest news |
| `Migrations` | `RunMigrations` in several instances |
| `MainApi` | main-service: users, rules, feed, retention and migrations composed |
| `MC*` | the instances for TLC |
| `AlertDeliveryProofs`, `AlertPromiseProofs`, `AlertFkRaceProofs`, `NewsProcessorProofs`, `CollectorProofs`, `RegistrationProofs`, `AccessProofs`, `ApiProofs` | the proofs |

Which module builds on which:

    AlertDelivery  implements  AlertPromise (INSTANCE ... WITH)
    Access         extends     RateLimiter
    AlertRules     extends     UserApi
    Feed           extends     UserApi, Retention
    MainApi        extends     AlertRules, Feed, Migrations

`AlertDelivery` is what users see of the system and where most processes meet.
`AlertFkRace` composes news-processor and main-service where only time decides;
`AlertDelivery` takes the item's save as a step that may come at any moment, so its
safety results hold for every timing.  `Feed` shares the rows of news with
`Retention`, which deletes them under it.  `AlertRules` has the foreign keys to
users and the cascade from a rule to its alerts.  `MainApi` starts to serve when an
instance has migrated the schema.  `Registration` keeps its own view of the users
table, by account, because it needs the insert half done.

### Plan

The order was the way of an item (delivery, race, pipeline, collector), then the way
of a user (registration, limiter, access), then the API of main-service, and with
each module its properties before its proofs.  All of it is there.  Worth adding
next:

1. a composition of `NewsProcessor` and `AlertDelivery` through the topic of alerts,
   with a liveness property from a raw item to the chat; the states of the two
   multiply, so it needs an abstraction of one of them first;
2. the other liveness properties as theorems.  Their ranks are in section 6; the
   induction over them needs a temporal rule that the prover does not have.

## 3. How the modules correspond to the code

### AlertDelivery

| specification | code |
| --- | --- |
| `pc[w]`, `event[w]`, `attempt[w]`, `at[w]` | a worker in `Run`/`handleEvent`: its position, the event, the loop variable, `sentAt` |
| `rpc[c]` | a running handler of `ReserveAlertDelivery` (`insert`, `cooldown`, `lastsent`, `drop`) or `FinalizeAlertDelivery` (`sent`, `failed`) and the worker that waits for it, if any |
| `row`, `sentAt` | `alert_events.delivery_status` and `sent_at`; `"none"` is no row |
| `rule`, `news` | the parent rows |
| `inbox`, `dlt` | the two topics |
| `tg`, `toldAt`, `errs` | what the world saw: messages in the chat, when, and sends that returned an error |
| `ReadMessage`, `CommitFails` | `reader.ReadMessage` with its commit |
| `CallReserve`, `CallFinalize`, `TokenError`, `Disconnect` | the client side of the two calls |
| `Duplicate`, `InsertPending`, `InsertAgain`, `InsertRefused` | `createPendingEventWithRetry` around `CreatePendingEvent` |
| `GetRuleCooldown`, `CheckCooldown`, `MarkDropped` | the rest of `ReserveAlertDelivery` |
| `MarkSent`, `MarkFailed` | `FinalizeAlertDelivery` |
| `SendOk`, `SendError`, `SendTimeout`, `Backoff`, `PublishDLT` | the send loop and what follows it |
| `DeleteRule`, `DeleteNews` | the rules API and retention, with ON DELETE CASCADE |

A statement of PostgreSQL is atomic, a handler is not.  A send is one step: what
reached the chat, and what the worker learned of it, are decided together, and the
three outcomes (both, neither, only the chat) are different actions.  A handler
whose client is gone may stop before its next statement or go on.  Clocks of
processes are one clock.  Ids of deleted rules and news items do not come back.

### AlertPromise

An abstract machine over the same rows, chat and dead letter topic, with a `stage`
per event in place of workers, handlers and messages: `idle`, `deciding` (the
cooldown), `sending`, `told` or `exhausted`, `burying`.  `Reserve` is allowed while
all events of the pair are untouched, `BreakOff` at any stage, `Cascade` for any set
of rows.  The refinement mapping (`Stage` in `AlertDelivery`) finds the stage of an
event from the place where its reservation is: in which step of a handler, or of a
worker.  `KeepsPromise` is that instance's `Spec`.  What the abstract machine leaves
no room for: a second conversation about a pair, a status that changes after the
conversation, a row that comes back after a cascade, a dead letter without as many
refusals.

### AlertFkRace

Time in units of 50 ms (`race_asbuilt`) or 150 ms (`news_faults`), so that the five
attempts of the code span 45 or 15 units.  The item walks through `processing`,
`published`, `batched`, `saving`, `saved` or `lost`, each at the latest at `due`;
the ticker of the batch fires every `FlushPeriod`; the handler inserts at `wakeAt`,
with the five attempts and the doubling, capped pause of the code.  One item that is
no duplicate, one alert, and no failure but that of the save call (`SaveFails`),
after which there is nothing to alert about: the module asks only whether the
settings fit together.

### NewsProcessor

`tasks` and `results` are the channels, `wpc`/`witem` the workers, `spc`/`batch` the
batcher, `run` the place of `Run` in its shutdown (`TasksClosed` and `resultsClosed`
are the two `close` calls), `ctx` its context.  A select with several ready cases is
a disjunction.  `fate` records what became of an item that left the pipeline; every
value but `saved` and `duplicate` is a loss, named for its cause.  A save is one
gRPC call which main-service executes item by item (`InsertNews`, `DuplicateNews`,
`UpsertIndex`), outside a transaction; a call that fails ends main-service's work on
it.  What is extracted from a text is abstracted to whether there is a text
(`HasContent`) and which rules match (`Match`); the rules cache may at any time be
replaced by any set of rules.

### Collector

A round (`round[r]`) checks the breaker and the interval of one source after the
other, launches a goroutine (`job[r][s]`) for each due source, and ends when all
have.  Rounds are started once per minute by `StartRound`, into any free slot, so
they overlap.  Every Redis call is one step, with its failure as another; the
pipeline of `LocallyDeactivate` is no transaction, so its failure may come after
either write.

The client of Redis is go-redis with its default of three retries
(`cmd/news-collector/main.go:77` sets none): when a reply is lost it sends the
command again.  So an HINCRBY that succeeds may have counted several times
(`Resent`), a call that fails may have been applied up to `RedisRetries + 1` times
(`Applied`), and a SET NX that set the key and is sent again finds the key, which
makes a new URL a duplicate (`DedupResent`).  Only a call that fails to the end
fails open (`DedupError`).

`SetLastCollectedAt` stores whole seconds (`Unix`), and `CheckDue` compares with
them; `collectedAt` keeps the time that was cut off, which only the property reads.
Redis keys with a TTL are the time they end.  Feeds are fixed sets of normalised
URLs.  Items without a URL pass `filterDuplicates` unseen
(`src/internal/services/collector/service.go:235`) and are left out.  `MaxWorkers`
is at least 1, which the configuration does not enforce: with 0, which `max_workers`
may be, the semaphore lets nobody through and a round never ends (see the hazards).

### RateLimiter

One key per IP: `count` and `expireAt`, the end of its TTL.  `Allow` is INCR, EXPIRE
and the comparison; `AllowError` is a pipeline that failed, after which none, the
first or both commands may have been executed and the middleware lets the attempt
pass.  go-redis sends the pipeline again when its replies are lost, so one call may
be counted several times, answered or not.  `called`, `passed` and `refused` record
what came and what the limiter answered; an attempt that passed because of an error
is not counted among those it let pass.  Commands of two calls may interleave in
Redis, which changes nothing because the EXPIREs set the same TTL; the model lets no
key end between the INCR and the EXPIRE of one call.  A Redis that loses its data is
not modelled.

### Access

A login is two steps or more.  `Attempt` is the middleware: what passes, or could
not be counted, is in the hands of the handler (`handling`).  Keycloak opens the
session (`OpenSession`) or the login fails (`LoginFails`) any time later, because
the call has no deadline (`src/internal/handlers/auth/handler.go:136`).  A session
is named by its login; `role` is the realm role of its user, and every access token
carries the role and the signing key of the moment it was issued.  `Refresh` and
`Logout` are the handlers with Keycloak's effect; `Demote`, `RotateKey`,
`WithdrawKey` are administrators of Keycloak.

`keys` is the JWKS cache of main-service, jwk.Cache: fetched by the first request
(`GetKeySet`), then kept until its ticker, every `CheckPeriod`, finds that they are
due (`CheckKeys`).  The code gives jwk.Cache no refresh window, so its ticker has
the default of 15 minutes, and the configured `cache_duration` of 10 minutes is only
the least age at which keys are fetched again (`src/internal/jwks/manager.go:50`,
`:53`).  A max-age that Keycloak sends makes that age longer; `KeyPeriod` is the
longer of the two.  The fetch (`RefreshKeys`) takes any time, brings the keys, or
fails and leaves the old ones for another round.  `ValidateJWT` with `RequireRole`
is the chain in front of the HTTP routes, whose groups are `RolesOf`;
`UnaryAuthInterceptor` the one in front of gRPC.  A token with a claim `azp` counts
as a service account, as in `jwt_claims.go`, and Keycloak puts that claim into every
token.

### Registration

A request is named by the uuid Keycloak gives it, and its email is a constant; a
retry is another request.  `pc` is the handler in auth-proxy with the calls of
`keycloak.Client.CreateUser` inlined (`create`, `password`, `undo`, `role`), `ms`
the handler in main-service, which goes on when its client has left.  `account`,
`roles` and `rows` are what the two systems hold.  Each call succeeds, fails without
effect, or is executed and its answer lost (`Ok`, `Fails`); fetching a token of the
service account is the first half of the call that needs it.  `gone` is a client
that left: its request's context is done, so every later call fails, the rollback
too.  `late` is a main-service that took longer than the 10 s of the client
(`src/internal/clients/mainservice/client.go:31`).  The server of auth-proxy has a
WriteTimeout of 10 s too (`src/cmd/auth-proxy/api-server.go:90`), which began before
the calls to Keycloak, so the handler of a late request ends, with its rollback, and
its 500 is not delivered.  `pc` says where the handler ends and not what the client
hears.  Requests that auth-proxy's own validation refuses change nothing and are
left out.

### UserApi, AlertRules, Feed

A request that executes one statement is one step, one that executes two is two
steps with a slot in between (`creating`, `reading`).  `answer` is the last answer
of any handler; `Refuse` answers before any statement, `Reply` after the last one,
and loses that answer as an alternative, `Fails` instead of one.  `UserStatus`,
`RuleStatus` and `FeedStatus` are the tables of status codes.  A user's row is
`"none"`, `"live"` or `"deleted"`; the foreign keys of rules, preferences and events
want a row, and a deleted one will do.

A rule is its owner and whether it is active.  `CreateRule` counts and `InsertRule`
inserts; `UpdateRule` counts nothing.  `age` is the time since a rule was last
switched, which only the property reads.

The refresher starts with a call, `ListActiveRules` and `SetRules` or
`RefreshFails`; its ticker is made when that first call has returned
(`src/internal/services/processor/service.go:316-317`, `Return`), and every tick
starts another (`StartRefresh`).  A tick during a call waits in the channel of the
ticker (`fired`), which holds one.  Calls have no deadline
(`src/internal/clients/mainservice/grpc_client.go:126`): `CallTick` lets time pass
in them, which `lasting` and `calling` add up.  `Match` uses the cache.

`Feed` has the score of the query in tenths of a point, its WHERE clause
(`Eligible`), its ORDER BY (`Precedes`) and its page.  ORDER BY has no id and rows
may tie, also in `created_at`, so that a page is any that some order of the ties
gives (`Firsts`, `FeedPages`).  Preferences are categories, sources, language,
keywords or none, and a window; ranks of the full text search are constants.
`hidden` records what a 202 promised.

### Retention

`StoreText` stamps an item and uploads its text, `SaveRow` comes later, perhaps on
another day; two rows may have one `created_at`.  `DBCleaner` deletes by
`created_at` of the row, `S3Cleaner` by the day in the key, which is the day the
item was processed.  `ListOld` lists everything first and `DeleteObjects` takes it
away in batches; an error ends the run with a part of a batch deleted.  Each cleaner
runs at once when its process starts (`Restart`) and from then on at its interval.
A run and a restart take no time of the clock: in the code the ticker is made after
the first run (`db_cleaner.go:44-46`, `s3_cleaner.go:46-48`), so what the first run
takes, and how long a process is down, adds to the bound of `CleanedInTime`.  Runs
are short against the interval of a day.  Ticks are fractions of a day
(`DayLength`), so that the truncation to days is in reach.

### Migrations

An instance goes through `create`, `check`, `sql`, `record`, `commit` for each
version embedded in its binary, and serves behind the last.  The record of a version
is its primary key: the insert waits for one that is not committed yet, and fails
when it is.  The SQL of a migration that another instance has applied may fail or
not (`AppliedMeanwhile` from `sql`, or from `record`).

### MainApi

`Next` composes the parts: a request is served while some instance is up; the
refresher belongs to news-processor, and the pipeline of news goes on without
main-service up to its own calls.  Cascades cross the parts: `NewsStep` is a step of
`Retention` with `CascadeEvents`.

## 4. Runs

| run | instance | shows |
| --- | --- | --- |
| `alert_faults` | 2 workers, 2 handler slots, two matches of one pair, 2 copies each, 2 faults, 1 crash, rule and news deleted at any time, 3 sends, 2 inserts | `TypeOK`, `OneAlertPerPair`, `StatusTruthful`, `DeadLettersExhausted`, and `KeepsPromise`: it implements `AlertPromise` |
| `alert_fair` | 1 worker, two news items of one rule, half-second clock, 1 fault, 2 sends, 2 inserts, fairness | `TopicDrained`; before the fault `CooldownKept`, `PendingResolved` |
| `alert_dlt` | 1 fault | violates `ExhaustedIsDeadLettered` (finding) |
| `race_asbuilt` | flush period 5 s, latency 0 | violates `AlertSurvives` (finding) |
| `news_faults` | 3 items (two share a URL, two have no text), 2 workers, channels of 1, batch of 2, 1 fault or crash, cancellation at any time, fairness; and `AlertFkRace` in units of 150 ms with a flush period of 1.8 s | `TypeOK`, `OnePlace`, `NoLossWhileRunning`, `RowsSound`, `NoSendOnClosed`, `RunReturns`, `EverythingSaved`, no deadlock; `AlertSurvives` |
| `news_stop` | no faults | violates `FlushedOnClose` (finding) |
| `collector_rounds` | 2 overlapping rounds, 2 sources sharing a URL, a key that expires, 1 error or lost reply, 1 restart | `TypeOK`, `PublishedOnce`, `SeenAccounted` |
| `collector_serial` | one round at a time, 2 sources behind a semaphore of 1, a clock of thirds of a second, a minute of one second, an interval of two, fairness | `IntervalKept`, `BackoffDoubles`, `RoundsEnd` |
| `auth_proxy` | a registration and its retry with one email, 2 failing calls, 1 crash, disconnects and timeouts at any time; one IP, limit 2, window of 2 s, 4 attempts in 5 s, two sessions, two keys, 1 error; fairness for the handlers of auth-proxy only | `CreatedMeansBoth`, `RowHasAccount`, `AllOrNothing`, `RequestsEnd`; `SlidingWindow`, `LoginsLimited`, `EndedSoonRefused`, `ValidAdmitted` |
| `limiter_window` | one IP, limit 2, window of 3 s, no errors | violates `RefusedWithinWindow` (finding) |
| `rules_limit` | one user, two slots, limit 1, no errors | violates `WithinLimit` (finding) |
| `api` | two users, two concurrent creates, two rules, limit 1, one reader of the feed, two items and both cleaners, two instances of different versions, an error and a restart in each part | `TypeOK`, `AcksHold`, `CacheFresh`, `HiddenStays`, `KeptLongEnough`, `CleanedInTime`, `SchemaSound` |

`MCMainApi`, `MCAuthProxy` and `MCNewsFaults` add a variable `part`: a behaviour of
these instances picks a part and takes no step of the others.  The parts of the API
meet in the users, whose row they only read (two parts that share rows are picked
together); registration and login share nothing but the client of Keycloak; the
pipeline and the race are two abstractions of one program.  The product of the parts
is beyond TLC, and the proofs of `ApiProofs` are about the whole `Next` of
`MainApi`.  No step reads the last answer: the VIEW leaves it out, the properties
that speak of it are action properties and see it in `answer'`.

The flush period of `AlertSurvives` in `news_faults` is not that of the code, which
`race_asbuilt` has.  It shows what a setting would have to be: 1.8 s and two
latencies of 150 ms stay below the 2.25 s of the retries.

### Bounds

Two of everything is where a race needs them: two workers and two handlers for two
events of one pair, two overlapping rounds, two items with one URL, two creates at
the limit, two instances that migrate.  A third adds states, not kinds of
interleaving: the unique key, SET NX, a primary key and a channel each decide
between the one that came first and the others.  The proofs remove the bound for
AlertDelivery, AlertFkRace, NewsProcessor, Collector, Registration, RateLimiter,
Access and MainApi. One IP is enough for the limiter: keys of different IPs never
meet.  Retries run as often as in the code in `alert_faults` (three sends) and
`AlertFkRace` (five inserts); elsewhere a loop of two is enough to take its body
again and to leave it.  Two faults let an error hit the handling of an error.  Times
are as small as they can be with the boundary cases in reach: a cooldown of two
seconds in half seconds, a TTL that ends inside the run, a backoff that reaches its
maximum, a retention of two days of two ticks, a token that outlives its session, a
key that is withdrawn while it is in the cache, and a check of the keys that comes
before they are due.  Limits of the feed are 1, 2 and 3 in place of 50, 100 and 500,
with two items, so that a page can be cut.  A second is three ticks in
`collector_serial`, enough for a fraction to be lost, and one of them for the
boundary of the interval; a call of the refresher may last as long as two of its
periods together with those before it.

`CHECK_DEADLOCK FALSE` is set where the instance runs out of messages, time or
rounds; `news_faults` checks deadlock, with `Terminated` for a `Run` that returned.

### What a property does not claim

* `CooldownKept` is for one worker, or for workers that share no rule, up to the
  first fault.  The code reads the last `sent_at` before a delivery that another
  worker may be making, so two workers can overlap; no document promises more.  It
  exempts a message whose row the cascade of retention deleted: with cooldowns of
  minutes and a retention of days this does not meet.
* `PendingResolved` is for the time before the first fault: the offset is committed
  before the event is handled, so after a fault a row may stay `pending` for good.
* `CooldownKept`, `PendingResolved`, `NoLossWhileRunning` and `OnePlace` exempt what
  a fault does, or give it a name.  They do not say that a lost finalisation, an
  offset committed too early or a crash between two saves does no harm.
* `PublishedOnce` counts faults and lives of the key on the other side: Redis errors
  make the filter fail open by design.
* `SeenAccounted` says where the URLs are that carry the mark.  `dedup.go:30` has
  the filter fail open when Redis fails; it does, but a SET NX whose reply was lost
  and that go-redis sent again does not come back as an error, and its URL is among
  the lost ones.
* `IntervalKept` is for one round at a time: two rounds that overlap may both find a
  source due.  And it is less a second: `redis_state.go:51` promises that not less
  than `FetchInterval` has passed, while the time it compares with lost its fraction
  when it was stored.  It shows when a round falls into that second.
* `BackoffDoubles` is for one round at a time and the time before the first fault:
  an HINCRBY that go-redis sends twice skips a doubling.  Two overlapping rounds
  that both see a source fail read the same `deactivation_count`, deactivate it for
  the same backoff and raise the count twice; cron does let rounds overlap, and
  nothing in the repository says what the backoff should be then.
* `RoundsEnd` is for `MaxWorkers` of at least 1.
* `EverythingSaved` assumes that nothing fails; a failure is a loss with a name,
  which `OnePlace` and `NoLossWhileRunning` account for.
* That a user has at most 20 active rules holds only as `LimitBound`, which no run
  checks: each slot for concurrent creates can carry one past the check, and
  `UpdateRule` switches rules on without counting (finding `rules_limit`).
* `EndedSoonRefused` says how long what has ended is still admitted, not that it is
  refused at once.  The description of the logout handler
  (`src/internal/handlers/auth/handler.go:213`) says that tokens become invalid
  after a logout; the refresh token does, an access token lives on to its end.
  `JWT_SETUP.md:22` and `:105` have the keys refreshed every 10 minutes; the lag of
  a healthy cache is up to 25, and 15 from then on.
* `LoginsLimited` is about the logins since the start.  It does not bound the
  sessions that Keycloak opens within one window: it may answer late for attempts of
  several windows at once.
* `RequestsEnd` says that the handler ends.  The client of a request that
  main-service keeps waiting hears nothing of it (see `late` in section 3).
* `AcksHold` and `HiddenStays` are about what was answered; a statement whose answer
  was lost may or may not have been executed.
* Nothing is said of two pages of the feed.  Rows come and go between two requests,
  rows that tie have no order, and OFFSET then skips or repeats items.
* `CacheFresh` allows one more period for each refresh that failed in a row, and the
  time that calls took, for which the code sets no bound.
* The handlers of rules and personalization answer 400 also when the database fails
  in a write.  It is in the tables of status codes and no property judges it.
* `SlidingWindow` counts what the limiter let pass.  Attempts that passed because
  Redis failed come on top, by design of the middleware.
* A client that keeps trying is refused for ever: every call, a refused one too,
  renews the TTL.  `RefusedForReason`, which no run checks, says what a refusal
  still takes; that it is not what the comment promises is the finding
  `limiter_window`.
* `AllOrNothing` is for requests that nothing disturbed.  The overview of the
  services (`docs/feat-AgregatorService-overview.md:29-32`) calls registration
  transactional with a rollback; a client that leaves during the call to
  main-service makes that rollback fail, because it uses the request's context, and
  a role that cannot be assigned leaves the account without any.  Both are steps of
  the model (`RollbackError`, `AddRoleError`).
* `RowHasAccount` is about accounts by uuid.  main-service's table has no unique
  email, so a ghost row of a late answer does not block a retry.

### Fairness

Weak fairness for each process, worker, handler and goroutine: the Go scheduler runs
what can run.  gRPC calls of alert-worker and news-processor have no deadline, so
liveness assumes that handlers return, which the handlers' fairness gives; the
parser has a timeout of its own.  Strong fairness for reading each message, since
Kafka hands out a partition in order and a worker that comes back reads it.  In
NewsProcessor the stop of the reader and its reading are fair apart, since
`ReadMessage` and select notice a context that is done even while messages keep
coming.  `Access` and `MainApi` state no fairness and no liveness: their handlers
are one or two statements long, and what must happen in time (a check of the keys, a
tick of the refresher, a cleaning) is a guard of the clock, which waits for it; what
may take any time (a call, a fetch) is not.  Faults, crashes, the user, retention,
cancellation, the refresher and cron are never fair.  In `news_faults` the fairness
is that of the pipeline, and in `auth_proxy` that of `Registration`.  There only the
handler in auth-proxy is fair, so `RequestsEnd` rests on the timeout of its client
and not on main-service; it assumes that calls to Keycloak return, for which gocloak
sets no limit.

## 5. Findings

1. **Dead letters.**  When `FinalizeAlertDelivery(failed)` fails, `handleEvent`
   returns before `publishDLT`: the row stays `pending` for good and the event is
   never dead-lettered, although the design says that three refused attempts end in
   the dead letter topic (`alert_dlt`).
2. **Alert before row.**  The insert of an event is retried for 2.25 s, the batch
   may wait 5 s: an alert is lost with nothing having failed (`race_asbuilt`).
   `WindowCoversFlush` says what is enough: flush period + 2 * latency < retry
   window.
3. **Flush at shutdown.**  The flushes that `saveBatcher` makes on its way out use
   the context whose end stops it, so they fail before they reach main-service and
   the batch, whose offsets are committed, is lost (`news_stop`).
4. **The window of the limiter.**  `limiter.go:14` has the window run from the first
   request.  `Allow` renews the TTL at every call (`limiter.go:57`), so the counter
   ends only when an IP has been quiet for a whole window, and a call is refused
   although it and those of the last window are within the limit (`limiter_window`).
5. **The limit of rules.**  `Feat_AlertingMVP.md:189` has no more than 20 active
   rules per user.  `CreateRule` counts and inserts in two statements without a lock
   (`services/alerting/service.go:87-113`) and `UpdateRule` (`:131-177`) does not
   count (`rules_limit`).

## 6. Proofs

`AlertDeliveryProofs` proves, for any number of workers, handlers, rules, news
items, events, copies, faults, crashes and times, and with `DeliveryAssumption`
only:

* `TypeCorrect`, `OneAlert`, `Truthful`, `DeadLetters` and `Final`, which are `Spec
  => []TypeOK`, `[]OneAlertPerPair`, `[]StatusTruthful`, `[]DeadLettersExhausted`
  and `TerminalIsFinal`.

None of these is inductive.  `OneAlertPerPair` speaks of the chat, and the unique
key is about rows, which a cascade may delete while the send still runs.  The
argument is one of tokens: an insert gives its event the right to send, and that
right is at every moment in one place: a handler after its insert, or the worker it
answered.  `IInv == TypeOK /\ ClientInv /\ DeliveryInv`:

* `ClientInv`: a handler's client is waiting for it with the handler's event, and no
  two handlers have one client, so that an answer moves one worker and to the right
  place;
* `OneToken`: no two tokens for one pair;
* `CallInv`, `WorkerInv`: what holding a token in a given step says of `row`, `tg`,
  `errs`;
* `UsedUp`: once a token was used, the pair's row exists, or a parent is gone for
  good, so that no insert can make a second token.

`TypeNext` and the lemmas after it go action by action, with a lemma for each way a
step moves clients and handlers (`ReplyClients`, `StepClients`, `MoveClients`,
`OrphanClients`).

`CooldownHolds` is `Spec /\ []OneWorkerPerRule => CooldownKept`, for any number of
workers and any times.  `OneWorkerPerRule` says that no two workers handle events of
one rule at a time.  The code comes close to it: news-processor writes alert events
with the rule as key through a hash balancer
(`src/internal/services/processor/service.go:343` and `:84`), so the events of a
rule are in one partition and one worker at a time reads them.  It is a hypothesis
because a rebalance of the group may hand a partition on while its last event is
still handled.  With one worker it is no hypothesis (`CooldownOfOne`).  The
invariant (`CooldownInv`) is about the rows, because a handler sees them and not the
chat: what was sent is recorded with its time, less the fraction of a second, or the
worker that sent it is about to record it (`Told`); whoever may send has found every
recorded time over (`Allowed`); and every handler has its client (`Attended`).
`CutOff` is the arithmetic of the second that `time.Unix` cuts off.

`HandlingEnds` is the part of `TopicDrained` that is no matter of scheduling: while
a worker handles an event, every step that touches it, faults included, leaves it a
smaller number of steps, at most `2 * RetryAttempts + 5`, and the same holds for a
handler, with at most `InsertAttempts + 3`.  `AnswersArrive`: a worker that waits
has a handler at work for it.  The invariant (`EndInv`) bounds the tries.

`AlertPromiseProofs` proves `Implements` (`Spec => KeepsPromise`).  The token of
`OneToken` is what the refinement mapping looks at: `HandlerStage` and `HolderStage`
read the stage of an event off the place of its token, `IdleStage` says that without
one it is `idle`.  Then every action of `AlertDelivery` moves at most one token
along an edge of the abstract machine, or none and changes nothing it sees (a
stutter), with one lemma per kind of move.  `UsedUp` gives the guard of `Reserve`; a
late or orphaned handler has no token, so its updates are not allowed to change
anything, and do not.

`AlertFkRaceProofs` proves `RaceTypeCorrect` (`RaceSpec => []RaceTypeOK`) and
`WindowCoversFlush`: if `FlushPeriod + 2 * Latency < RetryWindow` then `RaceSpec =>
[]AlertSurvives`.  The invariant ties both sides to one time, the first insert:
`SleptBefore(attempt)` after it the handler wakes (`HandlerInv`), and at most
`Latency`, `+ FlushPeriod`, `+ Latency` after it the item leaves each stage
(`ItemInv`).  At the last attempt the retry window has passed, so the item was saved
or its save failed.  The code's 5 s do not meet the condition, which `race_asbuilt`
turns into a trace.

`NewsProcessorProofs` proves `PipelineTypeCorrect`, `InOnePlace`,
`NothingLostWhileRunning`, `RowsAreSound` and `ClosedInOrder` from
`ProcessorAssumption`, for any number of items, workers and faults and any sizes.
`OnePlace` counts places, and counting does not carry through a step; the invariant
instead names the place: `Located` says of every item that there is one place,
position and worker at which it is and nowhere else (`At`).  A step moves the items
it touches to the next place and renumbers those behind them (`Taken`, `Appended`),
with one lemma per kind of move.  `Control` ties the program counters to the
variables beside them, `Uploaded` puts the upload before everything that follows,
and `FatesGiven` shows that a fate is given once, to an item that was held, and is a
loss only if the context is done or a fault happened (`FatesFinal`).
`NoSendOnClosed` follows from the order of the two closes (`Control`).

Two theorems stand behind `RunReturns` and `EverythingSaved`.  `PipelineNeverStuck`:
with at least one worker, which `GetWorkers` sees to
(`src/internal/config/config.go:321`), there is no state in which `Run` has
something left to do and everybody waits for somebody else.  With full channels the
saver moves first, on the way out the goroutines stop in the order of the closes
(`Stopping`).  `Moves` spells out when a goroutine can move, because ENABLED is out
of the prover's reach.  `NothingGoesBack`: each step brings an item to the next
goroutine or channel or to its fate, never back.  Each place takes its items from
the one before it (`ComesFrom`), and by `Located` an item is in no other.

`CollectorProofs` proves `CollectorTypeCorrect`, `OncePerLife` and `NoneDisappears`
from `CollectorAssumption`.  `PublishedOnce` divides the time by the TTL, which no
step does.  The invariant (`Lives`) has the number k of lives that the key of a URL
has had so far: what was published and what jobs are about to publish (`Holders`) is
at most k plus the errors, k TTLs fit before the end of the present life, and that
end is at most a TTL from now.  SET NX starts a life only after the last one ended,
which is where k grows; only an error adds a copy within a life.  `LivesFit` does
the division.  `NoneDisappears` counts what lost replies do: a URL whose SET NX was
sent again is among the lost ones in the step that marks it.  `Workers` is the
semaphore, with finite sets.  `TypeOK` leaves `deactUntil` an integer: that `2^n` is
not negative takes an induction.

`IntervalsHold` and `BackoffHolds` prove `IntervalKept` and `BackoffDoubles` for
rounds that do not overlap (`Serial`), the second up to the first fault, as the
property has to be (section 4).  Between the check of a source and the note of its
collection other goroutines take any number of steps; `StillDue` says that a job
that has not noted its collection yet is as due as when it was checked, `Cut` that
the time stored is that of the collection without its fraction, which is where the
second of `IntervalKept` goes, and `CountCurrent` that the count it has read is the
present one.  `CalcBackoff` stops doubling after ten deactivations, so
`BackoffHolds` assumes that the longest backoff is reached by then; 15 minutes and
24 hours, the defaults, reach it after seven.  `RoundsComeToEnd` is for all rounds,
overlapping or not: every step that touches a round leaves it fewer sources to
check, or a goroutine of it fewer steps or fewer URLs, whatever fails.

`ApiProofs` proves every property of the run `api`, and `LimitBound`, about the
whole of `MainApi` and not the parts that the run takes one at a time, from
`RulesAssumption`, `FeedAssumption`, `RetentionAssumption` and
`MigrationsAssumption`:

* `LimitKept`: `LimitBound` counts rules and slots together, which makes it
  inductive: a handler that passes the check adds a slot below the limit
  (`MoreCounted`), its insert turns a slot into a rule (`SlotToRule`), an update
  that switches a rule on adds a rule and a switch (`OneMoreRule`), everything else
  removes (`FewerRules`, `FewerCounted`).
* `AnswersHold` rests on ids that are never given out again (`RulesInv`) and on the
  guard of the soft delete (`UsersInv`).
* `SchemaInOrder`: at most one instance is about to commit a given version, and this
  version is the next one, because an instance checks its versions in order and
  those it has passed are recorded (`MigrationsInv`).
* `CacheNotBehind`: between two refreshes the bound of `CacheFresh` grows with the
  clock, so the invariant (`Behind`, `CacheInv`) states it from the call that
  fetched the rules: what the cache, or the answer on its way to it, has wrong was
  switched since that call started.  Outside a call the ticker is less than a period
  from its next tick, or has fired (`TickerDue`); a call adds the time it takes, a
  refresh that fails a period.  Before the first return there is no ticker and
  nothing but calls.
* `NothingGoesEarly` and `NothingStaysLong`: `RetentionInv` looks ahead. What is
  left now is not too old when its cleaner runs next, which is within an interval,
  and what `S3Cleaner` has listed is old enough although it is deleted later.
  `DayIs` and `EarlierDay` turn the comparison of two days, a division, into one of
  times.
* `HiddenForGood`: the event that hides an item goes only with the item's row, a row
  that is gone does not come back because no item is saved twice (`RowsLeave`), and
  a request carries only items that were hidden when it started (`HiddenInv`).
* `ApiTypeCorrect`: `TypeOK` with its references. A user's row is never removed
  (`UsersStay`), and what refers to a rule or an item goes in the same step
  (`RulesTypes`, `FeedTypes`).

`AccessProofs` is about the limiter alone and about `Access` around it.  It proves
`LimiterTypeCorrect` and `LimiterSlides` (`Spec => []SlidingWindow`) from
`LimiterAssumption`, for every limit, window and number of errors.  The property is
about a log of times and the state about one counter, so the invariant (`Split`)
cuts the log in two: times of earlier lives of the key, a window before everything
later (`Earlier`), and times of its present life, of which the counter is an upper
bound and which the key outlives by a window (`Present`).  Time moves the cut to the
end when the key dies (`TickSlides`); a pass adds to the present life
(`PassSlides`), so the time `MaxAttempts` before it is in an earlier one.  A step of
`Access` is a step of the limiter or a fault elsewhere (`LimiterPart`), so
`LoginsSlide` has the same for `AccessSpec`.

The theorems about `AccessSpec` use `LimiterAssumption` and `AccessAssumption`.

From there `LoginsBounded` proves `LoginsLimited`.  Attempts that Keycloak has not
answered make the sessions of a window useless as a measure, so the invariant
(`LoginsInv`) counts attempts: the logins of an IP, opened or in the hands of the
handler, are at most its passes and the faults, which neither a late answer nor a
failed login breaks.  `Few` counts the passes: by the sliding window, the i-th pass
comes no earlier than the windows that hold i passes allow.  `RefusesForReason`
proves `RefusedForReason`: without faults the counter of a living key counts a chain
of calls, each less than a window after the one before (`Chained`).  `EndsSoon` and
`ValidGetsIn` prove `EndedSoonRefused` and `ValidAdmitted`: no token is issued to a
session that has ended or with a role that was lost (`TokensInv`), and what the
cache of keys has wrong, in either direction, is younger than `KeyLag` (`KeysInv`):
keys are due after `KeyPeriod`, found due at most `CheckPeriod` later, fetched after
what the fetch takes, and a fetch that fails begins the round again.

`RegistrationProofs` proves `RegistrationTypeCorrect`, `Created`, `RowsHaveAccounts`
and `Atomic` for any number of requests, emails, failing calls and crashes.  The
invariant says what each step of the handler knows of the account (`Step`), how far
main-service is (`Row`), and how the two handlers belong together (`Both`), each up
to `Trouble(q)`, which is never taken back.  A step of one request leaves the others
alone (`HandlerOthers`), so `HandlerKeeps` looks at one request only.

`HandlersAdvance` is the part of `RequestsEnd` that is no matter of scheduling: a
handler has at most six steps before it (`StepsLeft`), every step that touches it
leaves it fewer, and none takes it back once it has ended.

Only model-checked: the liveness properties (`TopicDrained`, `PendingResolved`,
`RunReturns`, `EverythingSaved`, `RoundsEnd`, `RequestsEnd`). Their proofs would
take ENABLED, which the prover does not expand, and most of them an induction over
temporal formulas, because their rank has no bound independent of the constants; the
prover has neither.  What is proved of them is that the rank falls (`HandlingEnds`,
`NothingGoesBack`, `RoundsComeToEnd`, `HandlersAdvance`) and that not everybody
waits (`AnswersArrive`, `PipelineNeverStuck`); what TLC adds is that fairness then
reaches the end.  What an induction over data would show, such as the growth of the
powers of two in `CalcBackoff`, is not provable here either.

## 7. Not modelled

* The URL normaliser, the HTML stripping, summaries, categories and snippets:
  functions on strings without state.  The models take URLs after normalisation, and
  what a text is about as an input.
* The read API for sources: one query on a table that nothing in the repository
  writes to.  `Collector` takes its answer, which may change between rounds, as an
  input.
* The mode of the middleware that skips the verification of tokens, for local tests.
* What the SQL of a migration does, and full text ranks: they belong to PostgreSQL.
* Configuration, logging, metrics, the debug server and the wiring in `cmd`: they
  format and count.  What of the wiring decides order (`main.go` of main-service:
  migrations, then servers) is in `MainApi`.
* Generated code (`docs.go`, `news.pb.go`), the Streamlit client, load tests,
  deployment.
* Kafka, Redis, PostgreSQL, Keycloak, S3 and Telegram themselves: as far as the code
  uses them.
* Data inside a message, except the ids and keys that decide something.
