# A formal model of StudentSystemGo

TLA+ modules for the REST API of this repository: how its instances start, what
its requests do to MariaDB, Redis, RabbitMQ and S3, step by step, with the
interleavings, failed calls, crashes and late messages that the code has to live
with. TLC checks small instances; TLAPS proves the main safety properties for
every value of the constants.

All paths below are relative to the root of the repository.

## 1. The system

Two API processes stand behind nginx; one or more worker processes consume a
queue. They share five servers:

| server | used for | state the models keep |
|---|---|---|
| MariaDB primary (pool `Write`, 50 connections) | every write, login, read-before-write, migrations | rows, row locks, what open transactions made of them, the schema and its version |
| MariaDB replica (pool `Read`), asynchronous | lists, single reads, photo keys | how far it is behind |
| Redis | list cache, rate-limit counters | keys, values, time to live |
| RabbitMQ | password-reset mail | queue, failed queue, unacked deliveries |
| S3 + CloudFront | profile photos | which objects exist |

A request goes through the middleware chain of `cmd/api/server.go:133-145`
(from the outside: CORS, response time, metrics, global rate limit, login rate
limit, JWT, XSS, HPP, compression, security headers) into a handler of
`internal/api/handlers`, which calls one function of
`internal/repository/sqlconnect`, and after a mutation invalidates the cached
lists of its table. `POST /execs/forgotpassword` also publishes a message that
`cmd/worker` turns into a mail.

### Inventory

| component | state | operations | what is hard | what makes it correct | model |
|---|---|---|---|---|---|
| List cache, `internal/cache/cache.go` | Redis keys `cache:<table>:list:<query>` | `GetOrFetch`, `Invalidate`, `InvalidatePattern` | loaders under way while a writer invalidates; replica lag; calls that fail; clients that hang up | staleness is bounded; an invalidation that ran is complete; the cache converges | `CacheAside` |
| Photos, `internal/storage/photo`, `*_photo.go` | column `photo_s3_key`, objects in the bucket | presign, PUT (client), confirm, delete | two stores without a transaction; key read from the replica; clients that stop half-way | a key belongs to its entity; only a confirm that comes at the wrong time leaves a row that names a missing object | `PhotoFlow`, `PhotoRaces` |
| Mail queue, `internal/queue/rabbitmq`, `cmd/worker` | queue, failed queue, publisher channel, deliveries | publish and confirm, consume, ack, nack | crashes of API, broker and worker; late and lost confirms; redelivery | at-least-once; an accepted message is lost only with the queue, or for want of one | `Mail`, `Delivery`, `EmailQueue` |
| Accounts: login, password change, forgotten password, reset, PATCH and DELETE of an exec | columns of `execs`, JWTs, what each handler holds | seven handlers, each one SELECT and one UPDATE | no transaction spans the two statements; links arrive late or twice; sessions outlive what they say | a code dies with its use; the newest link works; passwords do not come back; sessions end | `Accounts` |
| Mutating requests, `*_crud.go` | tables, transactions, connection pool | PATCH and DELETE batches, PATCH/PUT/DELETE of one row | early returns, panics, lock waits, two connections per batch | all-or-nothing, told or not; locks end; a row is deleted once; requests end | `AtomicTable`, `BatchWrites` |
| Request pipeline: nginx, middlewares, JWT, roles, field checks, POST of rows | what a request has become, metrics | every way through the chain | `Compression` calls its handler twice; nginx repeats; HPP removes parameters; a copy of the request | one effect per request; answers say what happened, with exceptions that are named | `RequestChain` |
| Rate limiter, `rate_limiter_redis.go` | counters in Redis | `RedisRateLimit`, `PathOnly` | INCR and EXPIRE apart; a client library that repeats INCR; edge of the window; fail-open | at most the limit per window; no 429 before it is used up | `RateLimiter` |
| Start and migrations, `cmd/api/server.go`, `internal/dbmigrate` | `schema_migrations`, the lock, the schema | `main`, `dbmigrate.Run` | several instances and releases; a crash between two ALTERs; services that come later | nobody serves half a schema; no statement twice; all serve in the end | `Startup` |
| Metrics | labels of requests | `metrics.Middleware` | what it sees of the request | bounded labels | in `RequestChain`, partly |
| Single-row reads, logging, in-memory limiter, `ModernRoutes` | — | — | — | — | not modelled |
| Docker, Helm, Terraform, monitoring, load tests | — | — | — | — | not modelled |

How they meet:

- `RequestChain` is the outside of every request. A call of a handler is one step
  there, or two where it reads a row before it updates it; `BatchWrites`, `Accounts`
  and `PhotoFlow` show the steps of those handlers, and `RateLimiter` the counting
  behind its action `TooMany`.
- The writers of `CacheAside` are the mutating requests of `BatchWrites`: its
  action `Commit` stands for a request whose repository function returned no
  error.
- The forgotten-password requests of `Accounts` are the messages of `EmailQueue`.
  `EmailQueue` implements `Delivery`, `Delivery` implements `Mail`, and `Accounts`
  takes the steps of `Mail`: what it checks of late and repeated mails holds of
  the broker and the workers.
- `Startup` comes before all of them: an instance that takes requests is one that
  is "serving" there.

`PROJECT.json` lists the components with their sources, the hazards with the
line where each one bites and the properties that watch it, and, for every
definition that models code, the lines it stands for.

## 2. Modules

| module | what it is |
|---|---|
| `CacheAside`, `MCCacheAside`, `CacheAsideProofs` | cache-aside lists |
| `PhotoFlow`, `PhotoRaces`, `MCPhotoFlow`, `PhotoProofs` | photos; with a history of confirms that came at the wrong time |
| `Mail`, `Delivery` | abstract: what somebody who reads mail sees; what the mail path promises |
| `EmailQueue`, `MCEmailQueue`, `EmailQueueProofs` | publisher, broker, workers; implements `Delivery` and `Mail` |
| `Accounts`, `MCAccounts`, `AccountsProofs` | credentials of execs, composed with `Mail` |
| `AtomicTable` | abstract: what a reader of the tables sees of the requests that change rows |
| `BatchWrites`, `MCBatchWrites`, `BatchWritesProofs` | those requests, statement by statement; implements `AtomicTable` |
| `RequestChain`, `MCRequestChain`, `RequestChainProofs` | nginx, the middlewares, one or two steps per handler call |
| `RateLimiter`, `MCRateLimiter`, `RateLimiterProofs` | fixed-window limiters |
| `Startup`, `MCStartup`, `StartupProofs` | `main()` and the migrations |

An `MC` module gives the sets and symmetries of the small instances. The
definitions marked "Mutant" put a plausible bug in the place of one definition
each; `PROJECT.json` names, for every property, a mutant that violates it.

### CacheAside

`GetStudentsHandler` and its two siblings, `GetOrFetch`, and the invalidation
at the end of every mutating handler.

- The contents of the table are the number of commits they include: `primary`
  on the primary, `replica` on the replica, `list` and `total` for the two
  queries of a loader. That is all the properties tell apart, and it makes
  "older than" a comparison of numbers. `intact` records a loader that lost
  rows or the count without an error: `rows.Err()` is not asked, a failing
  COUNT becomes 0.
- Reader: `Miss` (GET without a value, an error, or a value that does not
  parse) -> `LoadList` -> `LoadTotal` -> `Populate`. `Hit` changes nothing, in
  particular not the time to live.
- Writer: `Commit` -> one `Scan` per key -> `Del`. SCAN and DEL are separate
  calls, and SCAN sees a key only if it is there when the cursor passes.
- Failures: any call, a client that hangs up (its context cancels the Redis
  calls, not the database calls), an instance that dies: `ReadFails`,
  `InvalidateFails`, `CommitUnreported` and the failing branches. Their number is
  bounded by `MaxFaults`.
- `settled` and `age` are history: how the handler of each commit ended, and how
  long ago the commit was.

Properties: `NeverAheadOfReplica`, `InvalidationEffective`,
`StaleEntriesExpire`, `CacheConverges`; and `FreshAfterInvalidation`, which the
docs say and the code does not do (section 6).

### PhotoFlow and PhotoRaces

The handlers of `students_photo.go`, `teachers_photo.go` and `execs_photo.go`,
which are copies of each other, so a row is just an entity. A key is the pair of
its entity and what follows the prefix: presign issues keys with an allowed
extension only (`BuildKey`), confirm takes any suffix (`Suffixes`).

- Upload: `Presign` (no database call) -> `Put` by the client -> `Confirm`,
  `ConfirmRejected` (prefix test) or `ConfirmFails`. The prefix is all that confirm
  looks at (`students_photo.go:174`), so `Asks` lets a confirm come from the session
  that uploaded the key or out of turn, from anybody, with any key: nothing was
  uploaded, or it was confirmed before, or deleted meanwhile. `MaxStrays` bounds
  these. A client may also go away.
- Delete: `Request` -> `FindKey` on the replica (or `NothingToDelete`,
  `UnknownEntity`) -> `ClearRow` on the primary (or `ClearFails`) ->
  `DeleteObject`, best effort.
- `Changes` is the test for `RowsAffected`: MariaDB counts the rows that an UPDATE
  changed, and the DSN of `sqlconfig.go:62` does not set `clientFoundRows`.
- `Replicate` applies the oldest write that the replica has not applied yet.
- `MaxInFlight` is how many sessions and deletes overlap.

That no row names a missing object is false, in two ways. A confirm may come while
the object is not there: nobody asks S3, and the client may not have uploaded, or
repeats a confirm after a DELETE (204 again). And a confirm may come between the two
steps of a DELETE, which then removes the new object. `PhotoRaces` keeps, in a history
variable, the rows that such an *untimely* confirm has written, until the row is
written anew or its object is there again. `BrokenOnlyByUntimelyConfirm` says that
nothing else takes the image of a row away: no crash, failed call, replica lag,
abandoned session or overlap of other requests does, which is what the order
"DB-first" of DELETE is for (`students_photo.go:248-259`).

Properties: `KeysStayWithTheirEntity`, `BrokenOnlyByUntimelyConfirm`;
`UploadCanBeConfirmed` is violated (section 6).

### Mail, Delivery and EmailQueue

`Delivery` is the promise that `POST /execs/forgotpassword` relies on: a message
is *held*, *sent* or *parked*; its caller was told *accepted* only if it was
taken; only what was sent may be forgotten; it may be sent again; a refused one
may have been taken. `Mail` is what is left of it for somebody who only opens
letters: a message that was asked for may be sent, in any order, repeatedly, or
never.

`EmailQueue` is how the code keeps it: `Publish` (mandatory, persistent), the
five seconds of `WaitContext` (`GiveUp` may happen at any moment, which covers
every timing), the broker's `Enqueue`, `Unroutable` and `BrokerNacks`, workers with
prefetch 1 that `Deliver`, `Send`, `Ack` or `Nack`, and the deaths and broken
connections of each of them. A worker that lost its connection goes on with the
delivery it has (`link` and `worker` are separate variables), which is where
duplicates come from. `DefaultPublisher` has one channel that nothing reopens. An
operator may delete the queue with what is in it: until a process declares it
again, the broker returns what is published and confirms it all the same, and
nobody listens to returns. `destroyed` names these messages, in the promise too. So
`KeepsThePromise` does not say that what is answered 202 arrives: the code loses
an unroutable message after the 202, against what `publisher.go:85` says
(section 6). It says that nothing else loses one: `Delivery`'s `Lose` takes only a
message that is submitted while there is no queue, its `Withdraw` only what is
in one.

The refinement mapping takes *held* for what is ready or unacked, *sent* for what
was mailed at least once. `KeepsThePromise` is `Delivery`'s specification under this
mapping.

Properties: `OnePlaceAtATime`, `DuplicatesNeedFaults` (every mail beyond the first
is paid for by a fault), `KeepsThePromise`, `QueueDrains`;
`RetryCanSucceed` is violated (section 6).

### Accounts

The requests that read or write credentials in `execs.go` and `execs_crud.go`. Each
is one or two statements on the primary, without a transaction, and every
statement is an action:

- forgotten password: `Find` (SELECT by email), `StoreToken` (UPDATE WHERE id),
  `Publish`; the mail is `Mail`'s step `Send` (`Deliver`).
- reset: `FindCode` (SELECT by code and expiry), `ResetPassword` (UPDATE WHERE id,
  which clears the code column whatever it holds by then).
- login: `Verify` (one SELECT, then activity and password), `Sign`; change of the
  password: `VerifyCurrent`, `ChangePassword`.
- PATCH: `ReadRow` reads five columns, `UpdateRow` writes seven of the row that the
  *body's* `id` names: role and activity are what the body says, or Go's zero
  value. DELETE: `DeleteRow`. An UPDATE of a row that is gone changes nothing and
  reports no error.
- `ForgotFails`, `ResetFails`, `LoginFails`, `ChangeFails`, `PatchFails` are the
  refusals, failed statements, and an instance that dies between two statements.

Passwords are named after the request that set them and reset codes after the
request that made them; Argon2, SHA-256 and HMAC are taken to do what they
promise. `Tick` lets no login wait for more than one tick between its SELECT and
its signature: a tick is longer than a request whose client still waits.

Properties: `SpentTokensAreDead` (a used code is in no row, so that it works twice
only for two resets that had both found it before); `OnlyResetsKillTheLastLink`
(the newest link works until a reset takes it away, perhaps one that used an
earlier link: it clears the column WHERE id); `MailedLinksWereStored`;
`NewestPasswordStays`; `StaleSessionsEnd` (a deactivated, changed or deleted
account keeps a token for one lifetime at most).

### BatchWrites

All functions of `*_crud.go` that change existing rows, with their handlers.
Students, teachers and execs run three copies of the same code; there is one
table.

- A request has a body (`job`), a next step (`pc`), the item it works on (`at`)
  and the rows it read (`seen`). A cell is abstracted to where it came from: the
  request whose body had it, or the row of the start. An UPDATE writes every
  column, the ones the body does not name from `seen`.
- The row that is read and the row that is written are two fields of an item, `id`
  and `into`. A batch skips the key `id` of an item (`students_crud.go:204`); a PATCH
  of one row does not (`students_crud.go:282-296`), so that its UPDATE goes to the row
  the body names, with the columns of the row in the path.
- `patch`: `Begin`, then per item `Read` and `Update`, then `Commit`. The SELECT of
  an item is `db.QueryRow`, not `tx.QueryRow`: it needs a second connection and
  does not see what the batch has changed.
- `delete`: `Begin`, one `Delete` per id, `Commit`; one missing id undoes all.
- `patchOne` (PUT is the same with a full body) and `deleteOne`: no transaction;
  `Acquire` is the wait for a connection, `Exec` the statement. `ExecMissing` is the
  one that finds no row: an error for DELETE, 200 for UPDATE, since RowsAffected is
  not asked (`students_crud.go:149, 296`).
- What takes effect and what the client is told are two steps: after `Exec` or
  `Commit` comes `Reply`, and the instance may die in between (`Crash`). When a
  connection breaks, the server may have carried the statement out (`ExecCutOff`,
  `CommitCutOff`) or not (`StatementFails`, `CommitFails`).
- Every early return has its action, with the answer that the code gives:
  `ReadMissing`, `DeleteMissing`, `LockFails`, `Mistyped` (rollback, but a nil error and so 204) and `Panic` (a JSON null:
  net/http recovers, the transaction stays open, with its locks and its
  connection).
- InnoDB, as far as it matters: a statement locks the rows it changes until its
  transaction ends, a plain SELECT locks nothing and sees committed rows, and a
  wait ends with an error if there is a deadlock or the timeout passes
  (`LockFails`). That MariaDB closes idle connections after hours, and thereby a
  leaked transaction, is ignored.

Properties: `OnlyAppliedIsVisible`, `LocksEndWithTheAnswer`, `DeletedOnce`,
`ChangesAreAtomic`, `RequestsEnd`. `ChangesAreAtomic` is `AtomicTable`'s
specification. On it a request changes the table in one step, once at most, whether
its client hears of it or not; to be answered is another step. A DELETE takes
every row of its body. A PATCH leaves in each row it goes to, if that is there,
what the last item for it makes of the row that this item has read (`Made`). These
are weak promises, because the code keeps no more, and they are exact:

- an item that a later item of the same body follows on the same row is lost, because
  the SELECT of the later one does not see it (`IsLast`);
- a column that the body does not name is what the SELECT saw (`seen`), perhaps an
  older version, and with an `id` in the body another row's;
- a success means that the change was made, with two exceptions (`Excused`): a batch
  with a value of the wrong type is undone and answered 204
  (`students_crud.go:216-218`), and a PATCH of one row that is gone by the time of
  its UPDATE is answered 200.

`RequestsEnd` carries its exception in the statement: as many PATCH batches as there
are connections wait for each other for ever.

### RequestChain

What happens around a handler. A request is a record of what the chain and the
handlers look at: method and route (`op`, batches included), the id of its path, the
rows its body names, whether a value of it is flawed, token, whether gzip is
accepted, the parameters of a list, the records of a body, and one obstacle at
most.

- nginx: `Send`; when the instance dies or panics (`Crash`, `Panics`), `Retry` on
  the other one for an idempotent method, else `BadGateway`. `proxy_next_upstream_timeout`
  is 10 s and the read timeout 30 s, so that nothing is repeated after a timeout
  and no two tries overlap (`nginx/nginx.conf:82-91`).
- Middlewares: `AnsweredByCors`, `TooMany`, `Unauthorized`, `Unsupported` answer
  themselves; `Admit` goes on, with two calls to make if the client does not
  accept gzip (`compression.go:16-31`). The first call takes the body.
- Handlers: `List`, `Create`, `Delete`, `Confirm`, `Unlink`, `Forgot` run in one
  step, PUT and PATCH in two, `Select` and `Update`, between which another request
  may delete the row; `Forbidden`, `Invalid`, `Missing`, `Mistyped`, `NoPhoto`,
  `Fails`, `Panics` change nothing. `Reply` keeps the first status, which is the one
  the client gets. A batch changes its rows at once, as `BatchWrites` shows; a batch
  with a null keeps its locks there, which this module does not have.
- `Key` is what HPP leaves of the query, for the cache as for the handler.
- `Return` records the label: the template of the route, or the raw path.

Properties: `AtMostOneEffect` (with the two exceptions it names); `AnswersAreTrue`: a
failure changed nothing unless there was a fault, and a success changed something
unless it is one of the five of `Empty`: a list, OPTIONS, the photo of a row without
one, an UPDATE of rows none of which is there any more (200: nobody asks how many
it matched), and a PATCH batch with a value that does not convert (204 with nothing
stored). The last two are no faults of the system around the code, two requests
are enough; that they are the only ones is what the property says;
`NothingIsCreated`, `ShownIsFirstPage`; `LabelsAreTemplates` is violated
(section 6).

### RateLimiter

`RedisRateLimit` twice: "global" and, behind it, "login". A request works out the
window from its clock (`Enter`), calls INCR (`IncrFirst`, `IncrAdmits`,
`IncrRejects`, `IncrFails`) and, when the count is 1, EXPIRE (`Expire`,
`ExpireFails`). When the connection breaks after Redis has counted, go-redis sends
INCR again (`IncrRepeats`, up to `MaxRetries` times: `redis/client.go:38-52` keeps the
default of 3), and the limiter sees only the later count. Both calls share a context of 200 ms: `Tick` lets no request under
way pass its `Timeout`. An instance that dies (`Crash`) takes any of the requests
under way with it. There is one client address, since counters of different
addresses do not meet, and one clock; the skew between clocks of instances is
not modelled.

Properties: `LimitHolds` for the requests that INCR inside their window;
`TwiceTheLimit` for all requests of a window, since one that arrives late may find
the key expired and create it again, once at most as long as the timeout is no
longer than a window; `NoEarly429`: no 429 before the limit is used up by what was
let through and by the counts whose answers were `lost`, also next to counters that
were left without a time to live. A repeated INCR does make a 429 come early, by what
it counted in vain and no more. Nothing is claimed for a stretch of time that is not a window: a
fixed window lets twice the limit through around its edge, and late requests of
the window before add to it.

### Startup

`main()` of the API from `InitDB` to `ListenAndServe`, in every instance:
`Connect` or `CannotConnect` for each service in turn, and `dbmigrate.Run` in
between: `Lock` (GET_LOCK, for as long as the session lives), `ReadVersion` or
`CannotMigrate` (dirty, or a version this release has no file for), then for each
migration `Mark` (dirty), one `RunStatement` per statement, because MariaDB commits
each CREATE and ALTER by itself, `Clean`, and at last `Unlock`. `Crash`, `Restart`
(`restart: unless-stopped`), `Deploy` of a later or an earlier release, and
`Down`/`Up` of the services may come in at any step.

Properties: `ServedSchemaIsWhole`, `NoStatementTwice`, `DirtyMeansCutOff`,
`AllServe` (every instance serves in the end and stays, unless a migration was cut
off or the schema is newer than its release).

## 3. Runs

| run | checks | bounds | what it shows |
|---|---|---|---|
| `cache` | `TypeOK`, `NeverAheadOfReplica`, `InvalidationEffective`, `StaleEntriesExpire`, `CacheConverges` | 2 readers, 2 writers, 1 key, 2 commits, TTL 2, 1 fault, fairness | lists never run ahead of the replica, a completed invalidation is complete, staleness is bounded by the TTL even if an invalidation was lost; when writes and faults stop, the cache is complete and current in the end |
| `cache_fresh` | `FreshAfterInvalidation` | 1 reader, 1 writer, 1 key, no fault | **violated**: a stale list comes back after the deletion |
| `photo` | `TypeOK`, `KeysStayWithTheirEntity`, `BrokenOnlyByUntimelyConfirm` | 2 entities, 2 extensions and a third suffix, 2 sessions, 2 deletes, 3 of them at a time, 2 uploads, 3 DELETEs, 1 confirm out of turn, 1 fault | no row and no delete ever has another entity's key; only an untimely confirm breaks an image |
| `photo_reupload` | `UploadCanBeConfirmed` | 1 entity, 2 uploads | **violated**: the second upload cannot be confirmed |
| `queue` | `TypeOK`, `OnePlaceAtATime`, `DuplicatesNeedFaults`, `KeepsThePromise`, `QueueDrains` | 2 messages, 2 workers, 2 faults, the deletion of the queue among them, fairness | `EmailQueue` implements `Delivery`; a message is in one place; duplicates are paid for by faults; queued mail is sent or parked in the end |
| `queue_retry` | `RetryCanSucceed` | 1 message, 1 worker, 1 fault, fairness | **violated**: the publisher never comes back |
| `accounts` | `TypeOK`, `SpentTokensAreDead`, `OnlyResetsKillTheLastLink`, `MailedLinksWereStored`, `NewestPasswordStays`, `StaleSessionsEnd` | 2 accounts, any 4 requests out of 2 forgotten passwords, 2 resets, a login, a change and a PATCH, DELETEs, 2 ticks, 1 fault | what becomes of links, passwords and sessions when the statements of these requests interleave |
| `batch` | `TypeOK`, `OnlyAppliedIsVisible`, `LocksEndWithTheAnswer`, `DeletedOnce`, `ChangesAreAtomic`, `RequestsEnd` | 3 requests out of 7 bodies, 2 rows, 2 columns, 2 connections, 1 fault, fairness | `BatchWrites` implements `AtomicTable`; requests leave no locks, and all end |
| `chain` | `TypeOK`, `AtMostOneEffect`, `AnswersAreTrue`, `NothingIsCreated`, `ShownIsFirstPage` | 2 requests out of 51 kinds, 2 instances, 2 rows, 1 fault | repeating nginx and the double call change nothing twice and no answer lies, with the exceptions stated; POST creates nothing; every page is the first |
| `chain_labels` | `LabelsAreTemplates` | the same with 1 row | **violated**: ids become labels |
| `rate` | `TypeOK`, `LimitHolds`, `TwiceTheLimit`, `NoEarly429` | 4 requests, limits 2 and 1, 2 windows, 1 retry, 1 fault | the limits hold across instances and crashes; a 429 is early only by what was counted in vain |
| `startup` | `TypeOK`, `ServedSchemaIsWhole`, `NoStatementTwice`, `DirtyMeansCutOff`, `AllServe` | 2 instances, 2 releases, 3 statements per migration, 1 deployment, 2 faults, fairness | nobody serves half a schema, nothing runs twice, everybody serves in the end |

### Why these bounds are enough to be interesting

- Two commits let one be invalidated while the other is under way, and let a
  replica be one and two commits behind. Two writers with two readers let a list be
  SET and found between the SCAN and the DEL of another writer; for the loop of SCAN
  over several keys there is the proof. A TTL of two ticks separates "about to
  expire" from "fresh".
- Two entities are needed for a key of another one; two extensions for a row that
  changes from one key to another, a third suffix for a key that nothing was issued
  for; two sessions and two deletes for the races. One confirm out of turn is a
  confirm without a PUT, or one that is repeated after a DELETE.
- Two messages and two workers are what redelivery to somebody else takes. Two
  faults cut a worker off in the middle and crash the broker, or delete the queue
  under a message that is being published.
- Four requests on the accounts are two links and the two resets that use them, or
  a link, its reset, a login and a PATCH in between. Two accounts make a PATCH
  whose body names another row than its path. Lifetimes of one tick end within
  the behaviour.
- Three requests on a pool of two connections make the pool the scarce resource,
  with every kind of failing body: at the second item, mistyped, null, a row
  named twice, no ids. Two rows in opposite orders give the lock cycles, and a body
  with the id of the other row. The fault hits a statement or COMMIT before or after
  it took effect, or the instance before or after that.
- Two instances behind nginx are what `nginx.conf` has; the one fault is a crash
  with the request in it, before or after the handler acted, or a call that
  fails. Two requests are what crosses a repeated one, a photo confirmed between
  the two calls of a DELETE, or what crosses a single one, a DELETE between SELECT
  and UPDATE. Two rows are what a batch, or an id in a body, needs.
- Limits of two and one are reached by four requests; two windows of two ticks and
  a timeout of one put requests on both sides of the edge. With limits that small
  one repeated INCR is enough for an early 429; the proofs cover any number.
- Two migrations of three statements (as many as 000002 has) leave a start in the
  middle of the first or the second, in instances that know one or both.

Only the cache runs check deadlock: there Redis' clock never stops. In the others
(`CHECK_DEADLOCK FALSE`) the bounds let a behaviour come to its end (all requests
answered, the clock at its bound, no fault left). That nobody waits for ever is
what `QueueDrains`, `RequestsEnd` and `AllServe` are for.

Symmetry is declared only in runs without temporal properties, over sets whose
elements appear in no definition.

## 4. Fairness

Nobody has to send a request, and no fault has to happen: `Miss`, `Commit`,
`Publish`, `Arrive`, `Deploy` and every failing action are without fairness.

- `CacheAside`: weak fairness of each step of a request under way (a goroutine
  runs on; the calls have timeouts), of replication and of the clock.
- `EmailQueue`: weak fairness of `Confirm`/`GiveUp` (the five seconds pass), of the
  broker's steps and its restart, and of each worker's steps including `Connect`:
  docker-compose restarts both (`restart: unless-stopped`,
  `docker-compose.prod.yml`). The handler is among the steps that end: the mock
  mailer only logs. Restarting the *API* is not fair: as long as it serves
  requests Docker has no reason to, which is why `RetryCanSucceed` fails.
- `BatchWrites`: strong fairness of each request's steps, since a step may be
  enabled only from time to time: `database/sql` hands a freed connection to a
  random waiter (`connRequests` is a set from which an arbitrary one is taken), so
  none is passed over for ever; a wait for a lock ends, with the lock or an error.
- `Startup`: weak fairness of each instance's steps and of the services' return,
  for the restart policy again; strong fairness of `Lock`, because an instance
  that waits in GET_LOCK is served when the lock is free, in whatever moments that
  is.

`Accounts`, `PhotoFlow`, `RateLimiter` and `RequestChain` state safety only.

## 5. Proofs

TLAPS checks these for all values of the constants, from the named assumptions
of the modules, such as `CacheAssumption` or `AccountAssumption` (numbers are
naturals, the special values differ from the ordinary ones; bodies have the
shape of a body). No set needs to be finite.

| module | theorems |
|---|---|
| `CacheAsideProofs` | `TypeCorrect`, `NeverAhead`, `InvalidationIsEffective`, `StaleReadsBounded` |
| `PhotoProofs` | `PhotoTypes`, `KeysStayHome`, `NoOtherBrokenImage` |
| `EmailQueueProofs` | `QueueTypes`, `OnePlace`, `DuplicatesArePaidFor`, `Refinement`, `MailIsImplemented` |
| `AccountsProofs` | `AccountTypes`, `SpentTokens`, `LastLinkStays`, `MailsAreTrue`, `PasswordsStay`, `SessionsEnd` |
| `BatchWritesProofs` | `TypeCorrect`, `OnlyAppliedIsVisibleCorrect`, `LocksEndWithTheAnswerCorrect`, `DeletedOnceCorrect`, `ChangesAreAtomicCorrect` |
| `RateLimiterProofs` | `RateTypes`, `WindowsHold`, `NoThirdLife`, `NobodyIsTurnedAwayEarly` |
| `RequestChainProofs` | `ChainTypes`, `NothingTwice`, `ClientsAreToldTheTruth`, `PostInsertsNothing`, `OnlyFirstPages` |
| `StartupProofs` | `StartTypes`, `ServedSchema`, `StatementsOnce`, `DirtyIsCutOff` |

Every property without fairness that a passing run checks is stated by one of
these theorems: the run shows it on a small instance and rules out that it is
wrong for a simple reason, the theorem holds for every instance.

Hardly any of the properties is inductive. What each proof adds:

- *Cache.* `HistoryOK`: no entry was SET at a version the primary has not reached,
  commits that have not happened have no history. `ScanCovers`: while a writer
  scans for commit v, every entry older than v is either still to be visited or
  already in `found`; this is what makes SCAN + DEL complete although readers and
  other writers go on. `TTLCovers`: the remaining time of an entry older than v
  and the age of v do not add up to more than the TTL.
- *Photos.* The property has to hold of the writes on their way to the replica
  (`LogOK`) and of the key a delete carries (`DeletionsOK`), since `FindKey` takes it
  from the replica long after the primary has changed. For the broken images, the
  DELETEs that are past their UPDATE must be followed as well: none of them holds the
  key of a row unless an untimely confirm has written that row since (`DoomedOK`). A
  row that names a `Safe` object therefore keeps it, whatever step comes
  (`SafeStaysSafe`).
- *Queue.* `WorkersOK` ties the phases of a worker to its delivery, `WireOK` says
  that a message on the wire is nowhere else and that a confirm on its way
  belongs to a message that was taken. From these every step is a step of
  `Delivery` or a stutter: a crash moves messages from unacked to ready, which
  leaves *held* alone, and an ack forgets only what was sent. Since every step
  of `Delivery` is one of `Mail` or a stutter (`MailStep`), a chain of two
  refinements leads from the broker to what `Accounts` assumes of mails
  (`MailIsImplemented`). That duplicates are paid for is a balance (`PaidInv`):
  the mails of a message that were sent, one for each handler that goes on after
  its connection broke (`Orphaned`), and one more if the message is on the wire,
  queued or with a connected handler (`Due`), are at most 1 + `faults`. A delivery
  and a mail that is sent move a mail from one side to the other; only a fault makes
  an orphan of a handler and its message due once more.
- *Rate limiter.* The properties count requests that passed, the code reads a
  counter that expires. They are tied by the lives of a key (`LivesOK`): in the first
  the counter misses nothing (`FirstLife`); the key does not expire before its
  window is over (`ExpiresOK`), so that only requests still under way then can begin
  a second, which adds a limit at most (`SecondLife`); and when that expires, at
  least a window later, the deadline of each of them is over (`TimesOK`), so
  that nothing is left to begin a third (`Over`). `WindowsHold` follows from the
  first life, `NoThirdLife` from both. For `NobodyIsTurnedAwayEarly` the counter is
  bounded from the other side (`CounterOK`): it is no higher than what was let through
  and what was counted in vain (`Used`), or these two have reached the limit already.
  Every INCR either passes, or is rejected at the limit, or is one of those whose
  answer is lost (`Countings`), and none of it is ever taken back when a key
  expires.
- *Request chain.* A request that was sent has one current try: the ones before
  are dead, the ones after unused, and only it takes steps (`Current`). `Counts`
  bounds what the request may still change by the calls left in that try and by
  the body while one of them can read it; `Balance` does so for the DELETE of a
  photo, over all requests: what it took and may still take is no more than the
  first photo and those confirmed since. `Truth` says what the first answer of
  the two calls commits to: after a failure without a fault no later call changes
  anything (`Spent`: no body to read, not authorised, or no row, and rows only
  go away), and after a success either something has changed or the request is
  one of `Empty`, which it stays, again because rows only go away. So the answer
  remains true until the client has it.
- *Accounts.* A token is stored once and in one row (`FreshUntilStored`, `OneRow`),
  a code in a row is the latest of its account (`CodeIsLatest`), and a reset under
  way knows that its token is the latest of its account, or that the latest was
  used or stored while it ran (`ResetKnows`). Sessions need a second bound: a login
  that has read the row is at most a tick old when it signs (`SessionInv`). No row
  that is gone comes back, since an UPDATE WHERE id inserts nothing.
- *Batches.* The argument goes through the open transactions: who may hold a lock
  (`LocksOK`), where the cells of a draft come from (`DraftsOK`), and that the
  drafts are what the items done so far ask for (`DeletesOK`, `PatchesOK`). With
  these, a commit applies exactly its own body, and a rollback at any item
  leaves nothing. For the implementation of `AtomicTable` three facts are added
  (`MapInv`): a transaction holds only rows of its body (`TakenOK`), the items a
  DELETE batch is done with are different rows, because the second DELETE of a
  row finds nothing (`DistinctOK`), and a request that is over has been answered
  (`OnceOK`). That a request which has changed the table has nothing left to do but
  reply is in `PhasesOK`. The step `Apply` of `AtomicTable` is taken by the COMMIT or
  by the single statement, whether its result arrives or not (`CommitDeletes`,
  `CommitPatches`, `ExecChanges`, `EffectApplies`), `Look` by a SELECT, `Answer` by
  replies and crashes; all other steps stutter (`StepIsAtomic`).
- *Start.* Only the holder of the lock migrates (`LockHeld`); a clean version is
  exact about the schema and a dirty one leaves one migration open
  (`VersionTells`); and the step of an instance says how far that one is
  (`StepsFit`).

Only model-checked: everything with fairness (`CacheConverges`, `QueueDrains`,
`RequestsEnd`, `AllServe`), which TLAPS does not do. The violated properties
have no proofs; TLC's counterexamples are their evidence.

## 6. What the code does otherwise than it is said to

| run | says | does |
|---|---|---|
| `cache_fresh` | `docs/architecture.md:195`: after a mutation the key is deleted, the next reader repopulates | a loader that was under way, or that reads the replica before it has the write, puts the old list back for a TTL (`cache.go:93`) |
| `photo_reupload` | `photo.go:160-162`: a new upload overwrites the old one | same extension, same key, no row changed, confirm answers 500 (`students_photo.go:50`) |
| `queue_retry` | `execs.go:529-531`: if RabbitMQ is down, tell the user to retry | the publisher's channel is never reopened; no retry succeeds until the API restarts (`publisher.go:81`) |
| `chain_labels` | `docs/architecture.md:255`, `metrics.go:85`: the label is the template of the route, not the raw URL | `JWTMiddleware` passes a copy of the request on, and the mux sets the pattern of the copy (`jwt_middleware.go:98`) |

Seen on the way, and in the models as the code does it, without a run that checks
the sentence itself:

- `rate_limiter_redis.go:66-67` and `docs/architecture.md:166`: INCR and EXPIRE are
  neither one pipeline, nor is there a `maxmemory` that would evict a counter whose
  EXPIRE failed: it stays for ever. `NoEarly429` shows that it does no harm.
- `docs/architecture.md:281-290`: an unreachable replica or Redis is said to be
  survived by the start ("fail-open"); `main()` ends with `log.Fatalf`
  (`CannotConnect`).
- `migrate.go:55`, "safe to call on every app startup": not on a dirty version, nor
  with a release older than the schema (`CannotMigrate`): every start then fails
  until somebody intervenes.
- `server.go:141`, "record HTTP metrics for every request": what CORS answers and a
  handler that panics are not recorded, and for a client without gzip the status
  of the second call is.
- `students.go:116` and the load tests ask for `?limit=` and `?page=`, which HPP
  removes: `ShownIsFirstPage`.
- Every POST of a row is rejected: `NothingIsCreated`. A PATCH of an exec writes an
  empty role and activates the account unless its body says otherwise, and goes to
  the row that the body's `id` names (`UpdateRow`).

- `publisher.go:85`, "mandatory: error if no queue matches the routing key": the broker
  returns such a message and then *acks* it. Nobody listens to returns, so
  `PublishJSON` returns nil and the client is told 202 for a mail that will never be
  sent (`Unroutable`). This takes somebody who deletes the queue while API and broker
  run; `Delivery` has it as `Lose`.
- `rate_limiter_redis.go:22-23` and `58`, "FAIL OPEN", "Don't punish users for our infra
  problem": an INCR that go-redis sends again after a broken connection counts twice
  without an error, and the client's 429 comes that much earlier (`IncrRepeats`,
  `NoEarly429`).
- A PUT or PATCH that crosses a DELETE, or names an `id` that no row has, answers 200
  with the row it did not store (`students_crud.go:149, 296`), although
  "Student not found" is an error of the SELECT before; a PATCH batch with a value of
  the wrong type answers 204 (`students_crud.go:216-218`), although the log says that
  it cannot be converted. `AnswersAreTrue` and `ChangesAreAtomic` have both as
  exceptions (`Empty`, `Excused`).
- A PATCH of a student or a teacher, too, goes to the row that the body's `id` names,
  with the columns of the row in the path (`students_crud.go:282-296`); the batch skips
  the key (`students_crud.go:204`).
- `students_photo.go:164-173` accepts "only keys that match the expected prefix": confirm
  does not ask whether anything was uploaded, and a row may name an object that
  never was (`Asks`, `BrokenOnlyByUntimelyConfirm`).

Others are part of the statements of the properties: the own write that a batch
loses, the pool that PATCH batches can block, the
photo that a second call of DELETE takes, the link that dies with an older one.

## 7. Abstractions, in one place

- One table for three; one key space of photos for three.
- Contents of rows, lists, mails and pictures are versions, origins or names;
  passwords and codes are named after their requests.
- `RequestChain` has what happens before and behind a handler, the other modules
  the handler in its steps. They are not multiplied: `AtMostOneEffect` and
  `AnswersAreTrue` are about handlers that act in one step, or in two where a row
  can go away in between, and the modules of the handlers take requests as
  independent of each other, a second call being one more request.
- Replication applies commits in order and never loses one.
- The clocks of instances agree.
- Bounds (`MaxVersion`, `MaxFaults`, `MaxPuts`, `MaxRequests`, `MaxStrays`, `MaxTime`,
  `MaxDeploys`) are guards of the actions, with the proofs for all of their values.
  `MaxRetries` of `RateLimiter` is go-redis's own limit, 3; the run has 1.

## 8. Where it could go from here

1. `BatchWrites` with the UNIQUE and foreign keys as their own causes of a failed
   statement; at present any statement may fail.
2. The read side: the filters and sort orders that HPP leaves, and the single-row
   reads, next to the lag of the replica.
3. Clocks of instances that differ, for `RateLimiter` and `Accounts`.

## 9. Not modelled, and why

- Single-row GETs (`GET /{table}/{id}`, a teacher's students and their count): one
  SELECT on the replica, no state.
- Durations and log lines: nothing reads them. Metrics other than those of HTTP
  requests are registered and never incremented.
- Sanitising of values, security headers, compression itself, the SQL text of
  filters: conversions that no property is about.
- Argon2, SHA-256, HMAC, URL signing: cryptography.
- Docker, Helm, Terraform, replication set-up, monitoring, load tests:
  configuration and scripts. What the models take from them is named where it
  is used: nginx's retries, restart policies, asynchronous replication, Redis
  without `maxmemory`.
- `rate_limiter.go` (nothing constructs it) and `ModernRoutes` (a separate sample).

## 10. Running

```
tlc -config MCCacheAside.cfg MCCacheAside        # and so for the other runs
tlapm CacheAsideProofs.tla                        # and the other *Proofs modules
```

The passing runs take between a few seconds and three minutes, the proofs a few
minutes together.
