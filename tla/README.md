# A verification project for the resource management backend

The repository is a C++ HTTP backend: an epoll loop and a pool of
worker threads serve users' resources from PostgreSQL, through a Redis
read-through cache and with files in an object store (MinIO/S3). Several
backends run behind an Nginx proxy. This directory holds TLA+ models of its
core, the TLC runs over them, and proofs checked by TLAPS. Source paths below are
relative to the repository; `PROJECT.json` and the modules write them below a checkout named
`src/`.

## 1. The system

| Part | Source | State | Operations |
|---|---|---|---|
| Worker pool | `src/thread/threadpool.h` | `m_workqueue`, semaphore `m_queuestat`, atomic `m_stop` | `append`, `run`, destructor |
| Event loop | `src/main.cpp` | the epoll registrations, `users[max_fd]`, `m_user_count` | accept, read, write, close, leaving the loop |
| HTTP connection | `src/network/http_conn.cpp/.h` | read buffer, three indices, parser state, `m_iv`, `m_linger` | `read`, `process` (`process_read`, `process_write`), `write`, `init`, `close_conn` |
| PostgreSQL pool | `src/db/connection_pool.cpp` | `conn_list`, `reserve`, `free_conn`, `cur_conn` | `init`, `get_connection`, `release_connection` |
| Resource service | `src/service/resource_service.cpp`, `src/dao/resource_dao.cpp`, `src/cache/resource_cache.cpp` | table `resources`, Redis entries, the static `ResourceDAO::msg` | list, get, create, update, delete, download URL |
| Redis client | `src/cache/redis_client.cpp` | contexts, `available_` | get, set, del; discard and replace |
| Object storage | `src/service/storage_service.cpp`, the upload of `frontend/src/features/files` | objects, the URLs in rows | upload URL, upload, download URL, delete |
| Users and tokens | `src/service/user_service.cpp`, `src/dao/user_dao.cpp`, `src/utils/jwt_utils.cpp` | table `users`, the secret and the clock of a backend | register, login, logout, verify |
| Logger | `src/utils/logger.cpp` | queue, worker, `running` | `log`, `worker_loop`, flush at exit |
| Migrations | `scripts/run_migrations.sh` | `schema_migrations` | check, apply, record |
| Frontend, proxy, deployment | `frontend/`, `nginx.conf`, `docker-compose*.yml`, `infra/` | configuration, browser state | - |

How they interact. The main thread waits in `epoll_wait`; on input it calls
`read()` of the descriptor's `http_conn` and appends the object to the pool. A
worker runs `process()`: it parses, calls a handler (service, DAO, cache,
storage; all blocking calls), lays out the answer and re-arms the descriptor.
Main writes the answer. An `http_conn` has no lock; the program relies on
`EPOLLONESHOT` to give it one user at a time. Threads share the two pools, the
static `msg` strings and the logger; backends share only the database, Redis
and the object store.

What is hard here, and what makes each part right:

- **Worker pool**: the semaphore is operated outside the mutex, by `append()`
  after it and by `run()` before it. Right: permits and requests agree, no
  wake-up is lost, the destructor wakes everybody.
- **Event loop**: ownership of a connection passes between main and workers
  through the kernel; objects and descriptor numbers are reused. Right: never
  two owners, never none, no byte of one client in another's connection, nor of one
  request in the next where requests are answered when they are whole.
- **HTTP connection**: requests come in arbitrary segments and answers leave
  in arbitrary pieces. Right: neither shows in the outcome.
- **PostgreSQL pool**: semaphore and list change at different moments; a DAO
  call leaves on many paths. Right: a permit stands for a connection, each is
  leased once and comes back.
- **Resource service**: cache and table are changed by different steps of
  different threads and processes, each of which may fail; an error is told
  from an empty result by a string all threads share. Right: the cache agrees
  with the table, but for reasons that can be named, and does again in the end; users
  see their own rows.
- **Redis client**: a context is leased under a mutex, used, freed and replaced
  outside it, and any thread may give the whole pool up meanwhile. Right: every open
  context is in one place, no sleeper is forgotten.
- **Logger**: lines are queued under a mutex and announced after it, while the
  process may be ending. Right: every line once, in order, and the process ends.
- **Object storage**: bytes and row are written and removed one after the other by
  different parties, and only a text ties them. Right: a row shows the bytes of its URL,
  a delete leaves none behind, and one that was interrupted can be repeated.
- **Users and tokens**: no session; what a token means is decided by any backend,
  on its own clock and secret. Right: it opens its owner's account, for its lifetime.
- **Migrations**: the runner may stop between two commands and need not be alone.
  Right: the table tells the truth, and no backend runs ahead of its schema.

`PROJECT.json` lists the hazards one by one, each at its line.

## 2. The models

Every critical section is one action and every operation outside a lock
another. Definitions whose comment starts with *Mutant* are deliberately wrong
variants of the definition that follows them; none is part of a specification.
They show that the property they break depends on the code.

### ThreadPool
Variables have the names of the members; `workerPc` is a worker's place in
`run()`, `mainPc` the main thread's in `append()` or the destructor.
`AppendPush` and `AppendReject` are the two outcomes of `append()`'s critical
section, `AppendRelease` the `release()` behind it; `LoopTest`, `Acquire`,
`CheckStop`, `Pop`, `Processed` are the steps of `run()`; `DestructorStop`,
`DestructorRelease`, `DestructorJoin` those of the destructor. `PermitAccounting`
is the law of the pool: queue length = permits + workers woken for a request +
the release `append()` still owes.

### EventLoop
One process: main's loop, the table of connections, the workers inside
`process()`, the kernel (registrations, socket buffers) and the clients. It
uses ThreadPool through `INSTANCE` with the connections as requests, and
`PoolInside` states that the pool inside the process implements ThreadPool's
specification with its fairness. A request is `ReqLen` segments, an answer
`RespLen` bytes, a send buffer `SndBuf` bytes. `ProcessAnswer` may come before the request is
whole, as `process_read()` does for a request line it cannot parse, a route that takes no
body, or a body that is not there yet; after the answer `init()` empties the buffer, and
what the client still sends of that request (`ClientSendLate`) is read as the start of the
next. `early` counts these answers. `close_conn()`'s guard, `accept()`'s
lowest free descriptor, the order of the tests on the event mask, a `modfd()`
that fails on a closed descriptor, and a `process()` that has re-armed but not
returned are all there.

Branches of the code that no input reaches are left out: `write()` with nothing
to send (main is armed for output only after an answer was laid out), and the
worker's `close_conn()` (`http_conn.cpp:130`). `process_write()` has room for every
answer it writes and a case for every code it is given, so only an exception
inside it leads there. If it were reached it would be a race: the worker would
close the descriptor before it sets `m_sockfd` to -1, and `m_user_count` is a plain
`int` that main changes too.

### HttpConn
One connection in detail, as EventLoop shows it to have one user at a time:
`Read` (with its full-buffer case: the next `recv` has length 0 and either returns 0,
which is taken for the end of the stream, or finds nothing more and says `EAGAIN`), one action per iteration of
`process_read()`, `Advance` for the way `write()` moves the two buffers. Bytes are
tokens: line ends are kept, a request line or header is any number of `"x"` and a
last token that names what the parser makes of it (`Line`), and the constant
`ContentLength` gives each length header the integer `atol()` reads in it. `m_content_length`
is an `int`: `ToInt` wraps what does not fit, and the sum in `parse_content()` may overflow,
after which its test may come out either way (`BodyTest`). The NUL behind the body may
then fall outside `m_read_buf` (a negative or overflowing length): the connection is `"lost"`,
and nothing more is said of it. `Request` says which sequences of
tokens are requests with CR LF lines, with a length that is the body's or not; it is the
hypothesis of the theorems, and `MCHttpConn` has TLC evaluate it on the requests of the run.
Handlers are a choice of outcome. The branch of `parse_line()` for a line feed whose
carriage return was seen earlier is kept in `LineStatus`, but the code never
reaches it, because an open line is scanned again from its carriage return.

### ConnectionPool
`init()` (one connection at a time, `exit(1)` when one cannot be opened), then
DAO calls: `Acquire` (semaphore), `Take` (critical section of
`get_connection()`), the query, `PutBack` (critical section of
`release_connection()`, run by the `ConnectionPtr` guard on every way out) and
`Release` (semaphore). The destructor runs at the exit of the process, after
`main`, and is not modelled.

### ResourceService
Each thread handles a request step by step: cache look-up, `msg.clear()`,
`SELECT`, the service's look at the result and at `msg`, the storage call,
the writing statement, the two `DEL`s, `SETEX`. Faults: a Redis command without a
reply, a statement that fails, a statement that commits and whose result is lost.
`Backend` says which threads share a process, and so a `msg`; in every run two threads do.
Two history variables keep the reasons why an entry may be stale: `overtaken` has the
readers whose rows are no longer the table's, `excused` the keys whose `DEL` failed, whose
write lost its result, or that such a reader has stored. A row's title and
content are the number of the write that made them. An entry's time to live is
`Expire`, which may happen at any time. The `MC` modules give
values to constants that a configuration file cannot express.

### Logger and ProcessLife
`Logger` has the critical section and the notification of `log()` as two actions,
the worker's wait, its taking of the list and its writing, spurious wake-ups, and the
three steps of the destructor. `ProcessLife` composes it with ThreadPool the way
`main()` does. The workers log from inside `process()`; main logs while it starts,
when it rejects a request (with the pool's mutex held) and when its loop fails. Then
it deletes the pool, and the static logger is destroyed after `main()` has returned,
or by the `exit(1)` of `connection_pool::init()` while the workers are
still waiting. A line is known by its number.

### RedisClient and Leases
`RedisClient` is `init()` and the life of a command: `RedisLease` is the critical
section of `get_connection()`, `RedisReply` and `RedisNoReply` the outcome of
`redisCommand`, `RedisReplace` and `RedisReplaceFails` that of `create_connection()` in
`discard_connection()`, `RedisPut` and `RedisNotify` the two halves of
`release_connection()`, `RedisGiveUp` and `RedisNotifyAll` those of giving up.
`opened` is the set of contexts that are allocated: freeing and opening change it, so
a double free, a use after free or a leak shows as a disagreement with pool and
leases. `Leases` puts both pools into one backend, in `main()`'s start-up order,
with threads that are inside one of them at a time, which is how DAO and cache calls
follow each other in the service.

### FileStorage
An upload is known by its place in `uploads`; `store` says whose bytes are under
a key. The key is user, millisecond and cleaned name, as in the code; the clock readings
of two backends need not agree or advance. `FileUploadPanel` takes the steps in the order
URL, `PUT`, row, but nothing holds a client to it, and the model does not: the bytes may be put
before or after the row, never, or again (`PutObject`); `CreateRow` and `UpdateContent` take any
content, as `handle_post_resource()` and `handle_put_resource()` do, a URL of this or
another endpoint, of an upload of one's own or of another row, or none at all.
`delete_resource()` is three steps per thread (`DeleteSelect`, `RemoveObject`, `DeleteRow`)
with, at each, failure, success nobody hears of, and the stop of the backend. History variables
say which uploads have arrived, which keys a row has carried, which deletes were asked for,
which keys a delete has emptied and which of them were put again.

### Auth
Registration is one INSERT that is executed or refused (an answer may be lost, so the client
may repeat it). Login is `LoginSelect` and `LoginSign`, between which the backend may be
replaced. `CreateJwt` cuts its claims to whole seconds; the verifier (`ClaimsHold`,
modelled from jwt-cpp's documented default of no leeway) compares them with the full
clock. A password is known by its owner, SHA-256 by what it is used for: no plaintext,
different for different passwords. `secret` stands for the secret and the issuer together, which a
token must match both. `main()` refuses to start without a secret, so a
backend replaced with `NoSecret` is down.

### Migrations
`run_migrations.sh` psql by psql; release n ships the files 1..n. A file is
not applied, applied in part (only outside a transaction) or applied. A deployment
updates the service after the script has exited with 0, and the
backends are replaced one by one by the release asked for last. Someone may also deploy an older
release. A file outside a transaction runs again over what an earlier try has left only if it is
in `Repeatable`; otherwise psql fails each time (`ApplyAloneRefused`), which is what the
`CREATE INDEX CONCURRENTLY` of `db/migrations/README.md` does without `IF NOT EXISTS`.

## 3. The runs

| Run | Instance | Shows |
|---|---|---|
| `process_life` | 2 workers, 2 requests, queue of 2, 4 lines before the end | `PermitAccounting`, `PopFindsRequest`, `JoinersHavePermits`; a queued request is taken; `LinesInOrder`, `LineIsWritten`; `ProcessEnds` |
| `event_loop` | 2 workers, 2 connections, queue of 1, requests of 2 segments, 1 early answer | `SingleOwner`, `UserCountExact`, with rejected requests and refused clients |
| `event_loop_live` | 2 workers, 1 descriptor that is reused, queue of 2, requests of 2 segments, answers of 2 bytes, 2 early answers | `StreamConservation`, `AlwaysAttended`; a complete request is answered, a hang-up is closed; the pool is ThreadPool (`PoolInside`) |
| `leases` | 4 threads, 2 connections, 2 Redis contexts and a spare | exclusive leases, none lost, a permit finds its connection, blocking only under real shortage, some waiter is served; `ContextsConserved`, `NoLostWakeup`, `GiveUpFreesWaiters` |
| `resource_cache` | 2 users, 2 threads of one process, 1 row, 2 writes, every fault, any overlap | `CacheCoherent`, `OwnerIsolation` |
| `resource_live` | 1 user, 2 threads, 2 writes, every fault, any overlap | every request is answered, the cache is right again in the end |
| `resource_shared_msg` | 2 users, one process | violation: finding 1 |
| `http_conn` | 18 requests, 7 with a length that is not their body's, buffer of 12, `int` of 6 bits, 2 per connection | `BodyIsHandedOver`, `OutcomeIgnoresSegments`, `CompleteIsAnswered`, `AnswerInOrder`; a request is answered |
| `http_body_split` | those with a true length, 1 per connection, body in a later segment | violation: finding 2 |
| `file_storage` | 2 uploads, 1 row with any content, 2 names that clean to one, 2 clock readings, 2 deletes at a time, 2 endpoints | `RowShowsItsUpload`, `DeleteLeavesNoObject`, `DeleteSucceeds` |
| `auth` | 2 clients, 2 emails, 2 backends half a second apart, tokens of 2 seconds, a restart | `TokenIsOwners`, `TokenLifetime`, `EveryoneGetsIn` |
| `migrations` | 2 runners, 2 backends, 3 files, two without a transaction and one of these not repeatable, 2 stops | `TableIsTrue`, `BackendHasSchema`, `DeploymentCompletes` |

**Bounds.** Two workers and main give one thread in each of the places a race of the
pool needs (waiting, woken, at the mutex), with a queue that fills; the pool is also
proved without bounds. Four threads on two connections and two contexts leave two waiting in
either pool while the others give one back and give the pool up; the third context is the
replacement. `event_loop` has two connections and two workers, which give the overlap of two
owners, and a queue of one that rejects. `event_loop_live` has one connection at a time and its
successors on the same descriptor and object; two segments and two bytes
with a send buffer of one give every partial read and write, and two early answers the case
where the late rest of a request is itself answered early. A descriptor
number outside the table makes `accept()` refuse. Twelve tokens hold the largest
request that fits and make the next one overflow by one. Two writes, two
threads and one fault are the shortest histories in which a read, a write and
a failure overlap; that the two threads share a process is the code's configuration, where
`main()` starts ten workers. One user is the hard case of FileStorage, because keys of different
users differ; two uploads meet in one key, and the one row stands for what other rows do to
its object, since it may itself carry any URL, change it and be deleted twice at once. Rows that
share a URL are in the theorems, which have any number of rows. Two ticks to the second and a
skew of one are the least at which cutting to
seconds and the skew differ; six ticks outlast a token. Two stops reach both halves
of a file without a transaction, for one runner or for each. `MaxWrites`, `MaxId`, `MaxEarly`, `MaxRows`,
`MaxFaults`, `MaxMessages`, `MaxBacklog`, `MaxLines`, `MaxUploads`, `MaxMillis`, `MaxClock`,
`MaxRestarts` and `MaxStops` are bounds of the model, not of the code.

**Symmetry.** `event_loop` and `resource_cache` treat the worker threads as interchangeable; no
definition tells them apart, and neither run checks a liveness property.

**Deadlock** is checked everywhere but in `HttpConn` and `FileStorage`, where a connection
may be closed or its client silent, and all uploads may be over. The end of a process is a stuttering action.

**Fairness.** Every thread that can take a step takes one (weak fairness per
thread): they are preemptively scheduled, and the calls into libpq, hiredis and
curl return. No request, connection, close or failure is ever assumed. A client
that is owed an answer reads what arrives (`EventLoop`), Redis drops an entry whose
time is over. Where something fails and is repeated, the repetition is assumed not to fail
for ever: strong fairness of the storage and the statements in `FileStorage`, of the
answers in `Auth`, of the deployment of the newest release in `Migrations`; and the user or
the team does repeat it. Nobody is assumed to wake up spuriously. Semaphores are not fair: which waiter is served is open, so
ConnectionPool only promises that some waiter is.

**Assumptions.** `http_conn` is modelled for clients that wait for an answer before
they send the next request, as Nginx does; `init()` would wipe the bytes of a
pipelined one. A client that is answered early may still send the rest of its request. Default configuration in `main.cpp`: 10 workers, queue of 10000,
`MAX_FD` 4096, 10 PostgreSQL connections.

## 4. Findings

1. `get_resources()` recognises a failed query by the static `ResourceDAO::msg`.
   Another thread's DAO call clears it in between, and the failure is answered,
   and cached, as an empty list.
2. A body in a later segment than its headers is refused with `BAD_REQUEST`
   (`http_conn.cpp:484`), although "NO_REQUEST" stands for "Request not complete,
   continue reading request" (`http_conn.h:49`).

Behaviour the models have, that a reader of the code should know, and under which the
properties are stated:

- `main()` ignores what `append()` returns. A rejected request
  (`threadpool.h:84`) is neither answered nor is its connection closed, and not even its
  hang-up is seen. With the default limits (4096 connections, a queue of 10000) the
  queue cannot fill; `event_loop_live` therefore has a queue as large as the table, and
  `event_loop` checks the safety properties with a smaller one.
- A request that is answered before it is whole leaves its rest to be read as the start of the
  next one. `StreamConservation` therefore promises the conservation of request bytes to
  connections without an early answer, and whole answers to all.
- `m_content_length` takes any `int`, and one that is negative or near `INT_MAX` may make
  `parse_content()` write a NUL outside `m_read_buf` (`http_conn.cpp:465`). The properties of
  HttpConn speak of what happens before that (`"lost"`).
- A read that overlaps a write may cache the old row after the write's `DEL`, and a list
  whose SELECT failed may be cached as empty (finding 1). Both stay until they expire.
  `CacheCoherent` lists every way an entry can disagree with the table; `resource_live`
  shows that each ends.
- `LINE_BAD` ends `process_read()` with `NO_REQUEST`, so a bare CR or LF leaves the client
  without an answer (`ParseMore`). Nginx does not send one.
- Two uploads of one user with one clean name in the same millisecond share a key; the
  second overwrites the first. `RowShowsItsUpload` excepts exactly these.
- A file row whose content is no URL of the configured endpoint can be neither downloaded
  nor deleted; `DeleteSucceeds` excepts these. A row that is given another URL is deleted
  with the object of that one, and its first object stays; a row that shares its URL with another
  loses its object when the other is deleted. `DeleteLeavesNoObject` speaks of rows that carried
  one URL, `RowShowsItsUpload` of the time before a delete is asked for of a row with that URL.
- A `PUT` to a presigned URL that is still valid brings an object back after its delete.
- A no-transaction migration that cannot run twice and was interrupted, or applied and
  not recorded, makes every later deployment fail until someone repairs the database
  (`Wedged`); `DeploymentCompletes` names it as the one exception.
- A backend that fails once to replace a Redis context works without cache until it
  is restarted. Its writes then invalidate nothing while other backends go on
  reading; their entries are stale until they expire (`EventuallyFresh`).
- A token may be refused up to a second before its time, and right after it was issued
  by a backend whose clock is behind.

In EventLoop and ProcessLife, though nothing in the repository promises otherwise:
`main()` deletes `users[]` before it stops the pool (`LeaveLoop`, then `DeletePool`),
so a worker may be inside `process()` of a deleted object when `epoll_wait` has
failed. The model lets it go on with the contents the memory had, and the
properties of EventLoop speak of the time before.

## 5. The proofs

Every theorem is proved by TLAPS for every value of the constants that meets the named
assumption of its module (`PoolAssumption`, `LoopAssumption`, `HttpAssumption`, ...). These
say little more than what a constant is: sets of workers, threads, connections and contexts
are finite, a pool has at least one worker and one context, buffers, queues and
messages have a positive length, the marker for *nothing* is not one of the things it stands
for. The bounds of the models (`MaxLines`, `MaxUploads`, `MaxFaults`, ...) are arbitrary numbers
in the proofs. Where a theorem needs more, it says so in an `ASSUME` of its own or in its
antecedent; these are the theorems of RequestProofs about requests (requests with CR LF lines whose
body comes with the end of their headers, `WholeRequests`), and `AnswersInOrder`.

Each proof has one argument: an inductive invariant, named `...Inv`, whose parts are
definitions with a sentence each; a lemma per action, or per group of actions that touch
the same state; and the theorem, which follows from the invariant. Where TLC can evaluate
an invariant, it has been checked on the instance of the component's run.

| Module | Theorems that state a checked property | Others |
|---|---|---|
| ThreadPoolProofs | `PermitsAccounted`, `PopAlwaysFinds`, `JoinNeverStarves` | `PoolTypeCorrect` |
| ProcessLifeProofs | `LinesKeepOrder` | `LifeImplementsPool`, `LifePermitsAccounted` |
| EventLoopProofs | `OneOwner`, `AlwaysAnOwner`, `CountIsExact`, `StreamsConserved` | `LoopImplementsPool`, `LoopPermitsAccounted` |
| LeasesProofs | `LeasesAreExclusive`, `NoneIsLost`, `PermitAlwaysFinds`, `AcquireIsFree`, `ContextsAreConserved`, `NoWakeupIsLost` | `LeasesImplementPools`, `LeasesAreSafe` |
| ResourceServiceProofs | `UsersAreIsolated`, `CacheStaysCoherent` | |
| FileStorageProofs | `NoObjectIsOrphaned`, `RowsShowTheirUploads` | |
| RequestProofs | `TokensAreOwners`, `TokensLiveLong`, `BodiesHandedOver`, `OutcomesIgnoreSegments`, `CompleteRequestsAnswered`, `RequestsAnsweredInOrder` | `AnswersInOrder` |
| MigrationsProofs | `TableIsAlwaysTrue`, `BackendsHaveSchema` | |

**ThreadPoolProofs.** The inductive invariant `PoolInv` has five parts. Two are needed
only for induction. `PopsHaveRequests` (the queue is at least as long as the number
of workers at the critical section) replaces `PopFindsRequest`, which one of
two workers could falsify by taking the only request; before shutdown it follows
from the accounting, and once `m_stop` is up no worker comes to the critical
section any more and nobody pushes. `StopIsFinal` ties `m_stop` to the destructor's
progress, so that a worker that passes `LoopTest` while joining is impossible.
Counting is reduced by `AtMoves` to adding and removing one element of a finite set.

**ProcessLifeProofs.** Every step of the process is a step of the pool or leaves it alone,
so the pool's theorems hold from start-up to exit. For the logger, the lines written, taken
and queued are together the lines logged (`AllLines`); that the destructor leaves none behind
needs that it runs when nobody can log any more (`LoggerOutlives`), which in turn
needs that `join()` has seen every worker leave (`PoolOutlived`, from the pool's invariant).

**EventLoopProofs.** An `http_conn` can be touched from four places: armed in epoll, in an
event, in the queue, in a worker that has not yet returned. `PlacesExclude` and
`PlacesUnique` say that it is in at most one of them, and there once. This holds
because `EPOLLONESHOT` disarms before an event is reported and a worker's last act before
it returns is to arm again; in the model those are different steps of different
actors, and the invariant has to survive every order of them. `OwnedIsOpen` is what
`close_conn()` relies on, `OpenIsOwned` (when the queue has room for the table) what
`AlwaysAttended` needs. `DirectionExact` ties the direction a connection is armed for to
`m_iv`, without which `StreamsExact` is not inductive. `StreamsExact` follows the answers through
early ones too: one is laid out only when nothing is left in `m_iv`, so what is under way is
always a whole number of answers; the request bytes are counted while `early` is 0. After `main()` has deleted `users[]`
only the types and the place of the workers are claimed. `LoopImplementsPool` is the
safety part of `PoolInside`; the theorems of ThreadPoolProofs are then cited for the pool
inside the loop through an instance of that module.

**LeasesProofs.** For the PostgreSQL pool, `ConnInv` adds to the checked properties that nobody
calls before `init()` is done, that exactly the querying threads hold a lease, and
that idle and leased connections together are as many as were opened. That the
list holds all connections when `init()` is done is a pigeonhole argument
(`FullList`). For the Redis pool, `RedisInv` adds that a context is in one place
(`ContextExclusive`), that the open ones are those in a place (`OpenedIsSomewhere`), and the
sum of pooled, held and being replaced (`SizeKept`), from which the cardinalities of
`ContextsConserved` follow; `NoLostWakeup` is inductive beside them. A backend with
both pools implements each (`LeasesImplementPools`), so all six properties hold of it
(`LeasesAreSafe`).

**ResourceServiceProofs.** Neither theorem has a hypothesis: any interleaving, any
failure, any number of threads in a process and of overlapping requests of a user.
`CacheStaysCoherent` rests on what a reader holds between its `SELECT` and its `SETEX`: the
table's rows, or it is in `overtaken` (`CoherenceInv`). A statement that changes what a reader has
read puts it there; a `SETEX` of any other reader makes the entry right again, whatever was the
matter with it. Beside this an entry for a single row names an id the sequence has given out
(`KnownKeys`): the INSERT invalidates no such entry, and need not. The history variables guard
no action, so they exclude no behaviour; the run `resource_live` shows that the exceptions end.

**FileStorageProofs.** Bytes lie under the key of the upload that put them there
(`StoredUnderKey`). A thread that deletes has a URL its row has carried, whatever the row was
given since (`CarriesContent`, `RequestsAreOfRows`); so a row that is gone has lost the object of
one of its keys (`GoneIsRemoved`), the only one if it carried one. What was removed is
empty or was put again (`RemovedIsEmpty`), and was asked for (`RemovedWasAsked`). Bytes that have
arrived are therefore there until then (`OwnBytes`), unless another upload has the same key,
which needs the same user, clean name and millisecond, whatever `sanitize_filename()` does.
`FilesFairness` is not used.

**RequestProofs.** A token is what some backend signed for a row whose password the
client knew (`TokenIsSigned`, `LoginIsOwners`), and emails stay unique; the bounds of
`TokenLifetime` are arithmetic on whole seconds (`SecondsCut`).

`BodiesHandedOver`, `OutcomesIgnoreSegments` and `CompleteRequestsAnswered` (the safety half of
`RequestIsAnswered`: no complete request ends in `NO_REQUEST`) are about what `process_read()`
makes of a request. They assume `WholeRequests`: everything in `Messages` is a `Request`, of any
length, with any number of headers and any Content-Length, and no segment ends between the
headers and the end of the body (finding 2 is what happens otherwise). The invariant `RequestInv` does not follow the parser
through the request by induction; it describes its place by what is around it. `Pieces`: what
was read, what waits in the socket and what is unsent are together the request. `Scanned`: from the
start of the current line on the buffer holds the request's own bytes, for the NULs
`parse_line()` writes are all before it, and no pass has gone beyond a CR. `AtHeader`: the byte
before the line is an LF, the route is one read from this request, and `m_content_length` is
what the headers declare if one of the lines so far does and 0 otherwise. `AtContent`: all has been
read. From these, a line that `parse_line()` completes is a line of the request
(`LineStopsAtCr`, `LineIsOfRequest`), an empty one is the end of its headers (`EndOfHeaders`), and
with the whole request in the buffer no line is open (`LineIsWhole`). `Fresh` carries the argument
over `init()` to the next request on the connection.

`AnswersInOrder` proves the writer for all lengths, wherever only complete requests are answered
(`[]OutcomeIgnoresSegments` as its antecedent, whatever the requests are): `m_iv` always names the
rest of the answer (`RestIsNamed`), and what a `writev` takes of it is what comes next
(`SentIsNext`). `RequestsAnsweredInOrder` puts the two together.

**MigrationsProofs.** `MigrationsInv` adds to `TableIsTrue` that a runner has only passed
recorded files and records what it has applied, and that a service is only asked for a
release whose files are recorded; the table never shrinks, so both stay true under
another runner.

The type invariants of the modules are there for the proofs (`PoolTypeCorrect` is the pool's);
no run repeats them.

**Only model-checked.** All liveness properties (`QueuedIsTaken`, `LineIsWritten`,
`ProcessEnds`, `RequestIsAnswered`, `HangupIsClosed`, `SomeWaiterIsServed`, `GiveUpFreesWaiters`,
`EventuallyFresh`, `DeleteSucceeds`, `EveryoneGetsIn`, `DeploymentCompletes`) and the fairness
part of the refinement `PoolInside`: TLAPS does not reason about fairness and `ENABLED`
here. Every invariant and every action property of the runs is a theorem. Where a least element
was needed (`Min` in EventLoop, `LineStop` in HttpConn) the proofs use that the naturals are well
founded, since induction rules with an operator as parameter are out of the prover's reach.

## 6. Not modelled, and the plan

Not modelled for good: rendering and form state of the frontend, deployment
and infrastructure beyond the order of a deployment (configuration), the wording of answers
and log lines, the parsing of environment variables, the routing table and the JSON checks of the
handlers (pure tests of one request), the cryptography of JWT and of signed URLs, the
static destructors of the two connection pools (they run when no thread is left or after
`exit`).

Open: most liveness properties have no theorem for their safety half yet, as
`RequestIsAnswered` of HttpConn has in `CompleteRequestsAnswered`; next would be that the delete of a
file row can always be repeated, and that a runner of migrations can always be restarted.
A client that pipelines requests is outside the models: `init()` drops what it sends ahead.
