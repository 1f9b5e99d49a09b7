# Verification of constituent_server

TLA+ models of the server's own logic, checked by TLC on small instances, and
theorems about them proved with TLAPS for every value of the constants. Paths
below are relative to the repository; `README.md:95` is line 95 of its README.

`PROJECT.json` lists the runs, the properties of each with a mutant that breaks
it, the source lines of every definition, the hazards and the findings.

    tlc -config MCPool.cfg MCConnectionPool      # one run
    tlapm ConnectionPoolProofs.tla               # one module of proofs

## 1. The system

Two executables over one PostgreSQL database: `server`, an HTTP service in which
devices log in with an Ed25519 key and keep lists of "constituents", and
`migrate`, which evolves the schema.

| component | state | operations | interacts with |
|---|---|---|---|
| connection pool, `app/db` | stack of free connections, mutex, condition variable | `acquire` with a 30 s timeout, `release` by a guard's destructor | every repository call of every worker thread |
| rate limiter, `services/rate_limits`, `rate_limit_middleware` | table `rate_limits` (unlogged): tokens and refill time per key | `hit`, one upsert guarded by a CHECK | in front of `POST /constituents/enrich` |
| device login, `services/auth`, `repos/auth` | `devices.challenge`, `challenged_at` | challenge, response; each reads, decides and writes in separate statements | wipes of the device; the clocks of app and database |
| user data, `repos/auth`, `repos/constituents` | tables `users`, `devices`, `constituents` with foreign keys | register, add, edit, remove, list with a cursor, wipe all (two transactions) | concurrent requests of one user |
| request pipeline, `middlewares`, `utils/request_context`, `errors` | a thread-local context | authentication, context, limiter, mapping of exceptions to statuses | all handlers; the HTTP library's thread pool |
| validators | none | throw 400 before the service is called | handlers |
| LLM client, `services/llm` | none | up to 3 attempts, then a check of the answer | `enrich` |
| asynchronous log, `utils/log` | queue, mutex, condition variable, a stop flag | enqueue from every thread, one writer thread, `shutdown` | `main` after `listen` returns |
| start and stop, `server.cpp` | where `main` is, the signal handlers | build everything, listen, stop on a signal, shut the log down | listener, log |
| listener and thread pool, vendored `httplib.h` | `svr_sock_`, `is_running_`, a job queue, base and dynamic threads, an idle count | accept, enqueue, take a job, time out, shut down, `stop` | `main`; every handler runs on its threads |
| migrations, `migrate.cpp`, `migrations` | database, ledger `_migrations`, tables | create what is missing, run what is not in the ledger | other `migrate` processes; the server starts on its exit status |
| environment, `shared/env` | static `Env` | read once at start | `POOL_SIZE` is narrowed on its way to the pool |
| CORS, crypto, JSON types | none | headers, OpenSSL calls, conversions | - |

What is hard in it, and what makes each part correct:

- **Pool.** Notifications race with timeouts and with threads that never slept
  (barging). Correct: connections are conserved; no thread sleeps beside a free
  connection; `acquire` ends.
- **Limiter.** `NOW()` is fixed when a statement starts and used when it has
  the row. Correct: no over-admission in any order, no lock-out.
- **Login.** Time of check to time of use across three statements; two time
  limits; two clocks. Correct: a used challenge never comes back, both limits hold.
- **User data.** Transactions at read committed interleave with each other and
  with tokens that outlive their users. Correct: a wipe is final, a walk through
  pages is exact, users touch their own rows only.
- **Pipeline.** Reused threads, nested use of the pool, retries, shutdown.
  Correct: contexts do not leak, no connection is held across calls, every
  accepted request is answered.
- **Thread pool.** Threads come and go while jobs arrive; `shutdown` races with
  threads that time out. Correct: jobs start in order, none is left or dropped,
  the number of threads stays in its limit, `shutdown` returns.
- **Start and stop.** Signals may come in every phase, twice, and beside a failing
  `accept`. Correct: every accepted connection is served, `listen` returns, no
  log line is lost however the process ends.
- **Log.** A lost notification; the order of stop flag and queue. Correct:
  nothing lost, nothing reordered, shutdown returns.
- **Migrations.** Overlapping processes and crashes. Correct: ledger and schema
  agree at every moment; repeated runs converge.

## 2. Modules

| module | models | checked by |
|---|---|---|
| `PoolPromise` | what users of the pool rely on: atomic grant, block, refuse, give back | as `PromiseSpec` in `MCPool`; proved |
| `ConnectionPool` | `acquire`, `release`, the guard, the constructor | `MCConnectionPool` / `MCPool`; `ConnectionPoolProofs` |
| `RateLimits` | `RateLimitsService::hit` on the table | `MCRateLimits` / `MCRateOverlap`, `MCRateEarlyRefusal`; `RateLimitsProofs` |
| `LogSink` | a queue of lines that is written out and closed | as `SinkSpec` in `MCServer`; proved |
| `AsyncLog` | `enqueue`, `process_queue`, `shutdown`, the end of `main` | as `LogSpec` in `MCServer`, `MCAsyncLog` / `MCLogShutdown`; `ServerProofs` |
| `TaskQueue` | what the server relies on in httplib's thread pool: jobs start in order, each once, and end before `shutdown` returns | as `QueueSpec` in `MCThreadPool`; proved |
| `ThreadPool` | httplib's `ThreadPool`: `enqueue`, `worker`, `shutdown`, dynamic threads | `MCThreadPool`; `ThreadPoolProofs` |
| `Server` | `main`, signals, the accept loop, keep-alive connections; composes `AsyncLog` (`EXTENDS`) and `TaskQueue` (`INSTANCE`) | `MCServer` / `MCServer`, `MCSecondSignal`; `ServerProofs` |
| `DeviceAuth` | the two login handlers over `devices` | `MCDeviceAuth` / `MCAuthOverlap`, `MCAuthTimeZone`; `DeviceAuthProofs` |
| `UserData` | the requests on users, devices and constituents | `MCUserData`; `UserDataProofs` |
| `RequestPipeline` | worker threads, middlewares, handlers, LLM retries; composed with `ConnectionPool` by `INSTANCE` | `MCRequestPipeline` / `MCRequests`; `RequestPipelineProofs` |
| `Migrations` | `migrate` processes | `MCMigrations`; `MigrationsProofs` |

`Consistent` (in `Server`, `ServerConsistent`) is in each module the type
invariant with the structural invariant beside it: which lists a thread is in,
that ledger and schema agree, that every user has one device, and so on.

A definition named `X_Something` before `X` is `X` with a bug a programmer might
make there (a dropped guard, a swapped order, a missing reset); it is used by
nothing but the mutation runs, in which it takes the place of `X`.

### ConnectionPool

`stack` is the vector, `conn[t]` what the guard of thread `t` owns, `pc[t]` where
the thread is: `asleep` in `wait_for`, `woken` by a notification, a spurious
wakeup or its deadline and waiting for the mutex, and so on. Everything done under the mutex is one
step. `Acquire` is the call up to its first test of the predicate, `Resume` a
return from the wait with the re-test, `Release` the destructor's push and
`notify_one`. `Int8` is the narrowing of `POOL_SIZE` to `int8_t`.

### RateLimits

`Begin` is the instant of `NOW()`, `Admit` / `Refuse` / `Fail` the instant at
which the statement has the row. `Refill` is the floor of the quotient in SQL,
`Tokens` and `RefilledAt` the two SET expressions. `Crash` empties the unlogged
table and fails the statements in progress, at most `MaxCrashes` times. The rest is
history: `born` and `charged` belong to the row that is in the table, `earlier` has the
hits charged to the rows a key lost in crashes, `crashes` when these were.
`WindowBound` counts all of a period's hits, so it has a term for the crashes in the
period: each hands out a full bucket again.

### AsyncLog

`Push` and `Notify` are the two halves of `enqueue`; `Test`, `Park`, `ReadStop`,
`WriteLine`, `EndBatch` are the writer's loop; `StoreStop`, `NotifyStop`, `Exit`
are `shutdown`. Producers come (`Spawn`) and go (`Join`) as the threads of the
pool do; in `Next`, `StoreStop` waits for all to be gone, and `Server` shows that
`main` does. `Test` and `Park` are separate because `wait(lock, pred)` tests the
predicate and then waits: holding the mutex excludes `Push` in between, but not
`StoreStop`, which takes no lock.

### ThreadPool

The listener calls `Enqueue`, `Spawn` (only when nobody is idle and the pool may
grow), `NotifyOne`, and at its end `BeginShutdown` .. `Sweep`. A thread enters its
wait or takes a job (`Enter`), wakes (`Resume`, `WaitAgain`), or, if it is dynamic
and `Expire`s, leaves (`TimeOut`) unless there is work by then. `Spawn` and `Sweep`
join finished threads while they hold the mutex, as the code does. The bound on
queued jobs is left out: `server.cpp` does not set it.

### Server

`place` is where `main` is until `log::shutdown()`, `main` (of `AsyncLog`) where it
is from there. `Signal` is the handler in any phase: the default action before
`std::signal`, nothing before `is_running_`, else `stop()` with its assertion, which
`Asserts` compiles in or out. A worker serves the requests of a connection one
after the other (`BeginRequest`, `EndRequest`, at most `MaxRequests`) and logs inside
of them. What `ThreadPool` promises is taken from `TaskQueue`; which threads exist
is kept by `Spawn` and `Join` of `AsyncLog`. `ServerNext` stops when the process has
ended.

### DeviceAuth

A request reads (`GetDevice` in `Ask` and `Respond`), decides (`GiveCached`,
`Draw`, `Reject`, `Accept`) and writes (`Store`, `Clear`) in separate steps, on
the copy it has read. Time is in ticks of which `TicksPerSecond` make a second,
since `parse_timestamp` drops the fraction; `Skew` is the offset of the database
session's time zone. `Wipe` removes the device once somebody has logged in with
it. The history has what each device was given (`known`, `latest`), which challenges
were stored and when (`stored`), which of them while no other request of the device
was in progress (`sole`), which logins have used up (`spent`), and how many tokens
each was good for (`tokens`). `FreshAnswerAccepted` is about two losses: requests that
overlap the storing of a challenge may overwrite it (each stores its own) or clear it
(`ClearChallenge` goes by device and not by value), and nothing else may. For a
challenge in `sole` a correct answer is refused only when it is used up or old: past
its life, or past the cache's limit once a newer one has taken its place.

### UserData

A request is one step where the code has one statement, and several where others
can come between: `CheckKey` / `Register`; `Add` (id taken) / `Insert` (row
visible); `WipeConstituents` / `WipeAccount`; `FindCursor` / `ListPage`. `Fail`
ends a request between its steps with 500. `walk` is a client that pages from
the newest row to the end; a page is any sequence that `Descending` accepts, of which
there is one. Callers are all users that ever were: a JWT is not
revoked when its user goes.

### RequestPipeline

A worker takes a job (`Begin`: context, authentication, the validator's
exception), makes its repository calls (`Connect`, `Wait`, `GiveUp`, `Execute`,
all with the pool's own actions), and, for `enrich`, attempts to reach the LLM.
Requests differ by route (how many calls the handler makes, whether it is public,
whether the limiter stands in front), token and input; one input passes the
validator and is then refused by the database (a path parameter that is no UUID). `Stop` closes the
listener; a worker joins when the queue is empty.

### Migrations

One step per statement of `init_database` and of the loop in `run_migrations`.
What a transaction has not committed is not in the state, but for the lock it
holds (`Blocked`). `Crash` ends a process anywhere; `Start` runs it again.

## 3. Runs

| run | question | bounds and why they are enough |
|---|---|---|
| `MCPool` | Are connections conserved, are wakeups kept, does the pool implement `PoolPromise`, does every `acquire` end? | 5 threads, 2 connections: sleepers, a holder, a barging thread and two free connections can meet. Unbounded in time. |
| `MCRateOverlap` | Can overlapping statements gain or lose budget? | 1 key (keys are independent rows), 2 statements, 2 hits per 3 ticks, 6 ticks, 2 crashes: floor, cap, empty bucket, out-of-order `NOW()` and two crashes in one period all occur. Without the crash term `WindowBound` is violated, and with it the bound is attained. |
| `MCRateEarlyRefusal` | Is `hit` false only when the bucket is empty? | violated, see findings |
| `MCLogShutdown` | Does `shutdown` return? | violated, see findings |
| `MCAuthOverlap` | Do overlapping requests of a device keep the limits, never revive a challenge, get no more tokens than overlap, and lose a fresh challenge only by the overlap? | 1 device (rows are independent), 2 requests, 2 challenges, cache 3 and life 5 of 7 ticks, 2 ticks a second. |
| `MCAuthTimeZone` | Does the expiry hold as documented? | violated, see findings |
| `MCUserData` | Is a wipe final, is paging exact, are rows private? | 2 worker threads, 1 key, 3 users, 2 constituents, pages of 1: a cursor can be removed, a row added in between, a wipe overtaken by an add, a duplicate be followed by a third registration. |
| `MCRequests` | Do contexts leak, are connections held too long, are all answered? | 2 threads, 1 connection, 2 requests of 10 kinds, 3 attempts: a thread is reused after another user and after an anonymous one, one thread waits for the other's connection. The server stops, so deadlock is not checked. |
| `MCMigrations` | Do ledger and schema agree, does one get through, does it converge? | 3 processes, the 4 registered migrations with their references, 2 crashes. |
| `MCThreadPool` | Does the pool implement `TaskQueue`, count its threads, keep its limit, run every job, shut down? | 2 base threads, 2 names for dynamic ones of which one at a time fits under the limit, 4 jobs: a job arrives as a dynamic thread times out, a finished thread is joined for a new one, `shutdown` meets a thread that leaves. The pool ends, so deadlock is not checked. |
| `MCServer` | Is no line lost or reordered and every connection served however the process ends, and does `listen` return? | 1 base and 1 dynamic worker, 2 connections of up to 2 requests, 1 line each, 2 signals: a connection waits for a worker, a signal comes in each phase and again while workers are drained. The process ends, so deadlock is not checked. |
| `MCSecondSignal` | The same with assertions compiled in | violated, see findings |

`SYMMETRY` is used only in runs without liveness properties, over sets whose
members are never compared.

### Fairness

- `MCPool`: a thread that was woken gets the mutex (`Resume`). For `BoundedWait`
  also deadlines pass (`Deadlines`). No holder is made to release, and nobody is
  made to call `acquire`.
- `MCThreadPool`: the listener inside the pool's methods and the threads run, and
  jobs end (a connection is served up to 100 requests, each with time limits).
  Nobody is made to enqueue or to shut down; no wakeup without a cause and no
  time-out is relied on.
- `MCServer`: `main`, the log thread and a worker that has to notify run; a worker
  takes jobs and ends requests and connections. No client is made to connect or
  to send, none to stop sending, no signal to come, nobody to log.
- `MCLogShutdown`: the writer, a producer that has to notify, and `main` in
  `shutdown` run.
- `MCRequests`: runnable threads run; statements and LLM attempts end (the HTTP
  client has timeouts; that the database answers is an assumption, the code sets
  no statement timeout); deadlines pass. No request need arrive, and no signal.
- `MCMigrations`: processes run, and `migrate` is run again after a failure.
  Crashes are bounded (`MaxCrashes`).
- The other runs are safety only and assume nothing.

### Findings

Each is a run that checks one property and is violated.

1. `MCLogShutdown` / `ShutdownReturns`: `log.cpp:65` stores the flag and notifies
   without the mutex. Between the writer's test of its predicate and its wait
   both are lost; the writer sleeps for ever and `main` in `join` with it.
   `README.md:117` says shutdown lets no lines be lost on SIGINT / SIGTERM.
   (`SpuriousWake` could end the wait; nothing makes it happen.)
2. `MCRateEarlyRefusal` / `RefusedOnlyWhenEmpty`: a statement whose `NOW()` is
   older than the row's `refilled_at` gets a refill of FLOOR(negative) and is
   refused with a token left. `RefusedWhenEmptyOrOvertaken` in `MCRateOverlap`
   shows that this is the only exception.
3. `MCAuthTimeZone` / `AcceptedInTime`: `challenged_at` is a `TIMESTAMP` in the
   session's time zone and parsed as UTC. It holds with `Skew = 0`, in
   `MCAuthOverlap`; the code does not set the time zone.
4. `MCSecondSignal` / `LinesWrittenAtEnd`: `stop()` asserts that the socket is open
   (`httplib.h:10975`), but `is_running_` stays true until the workers are joined.
   A second SIGINT or SIGTERM in that time aborts the process with lines in the
   log's queue. The build that `README.md:177` describes does not define `NDEBUG`;
   one with `CMAKE_BUILD_TYPE=Release` does, and for it `MCServer` shows, and
   `NoLineLost` proves, that no line is lost.

Noted while modelling, without a run of its own:

- `README.md:144` says that repeated challenge requests within the window return
  the same value; two that both read before either stores get different ones, and only
  the one stored last can be answered.
- `README.md:127` says that the LLM client retries up to 3 times. The code makes at
  most 3 attempts, that is 2 retries; "up to" is not contradicted, so this is no
  finding.
- `README.md:200` gives the limit as 60 / hour, which is the rate of the refill: a burst
  and the refill fit into one hour, and one more burst for each database crash in it
  (`WindowBound`).
- `EveryRequestAnswered` is about requests that were sent. A connection that waited
  in the queue and on which nothing has come when its worker looks after the stop is
  closed without an answer (`keep_alive`, which `Server` models).
- `README.md:104` says that services and repositories never see unvalidated data;
  path parameters and cursors are not checked to be UUIDs. Such requests are
  answered all the same (`EveryRequestAnswered`).
- `README.md:170` lists `LLM_API_KEY` and `LLM_PROMPT_ID`; `env.cpp:88` requires
  `OPENAI_API_KEY` and `OPENAI_PROMPT_ID`, so the documented `.env` does not start
  the server.
- A signal between `std::signal` and `is_running_ = true` is swallowed; `Signal`
  has the step.
- httplib counts a thread that was notified and has not run yet as idle: of two
  connections that arrive together the second may wait for the first although
  more threads are allowed. It is served (`EveryJobRuns`).
- After a failed `accept` the number of the closed socket stays in `svr_sock_`
  (`stale`), and a later signal closes it again.
- A listener that cannot bind or whose `accept` fails ends the process with exit
  status 0: `server.cpp` ignores what `listen` returns.

## 4. Proofs

TLAPS 1.4.5 with Z3, Zenon and LS4.

**ConnectionPoolProofs.** For any finite set of threads and any integer
`PoolSize` (also those that narrow to a negative number): `TypeCorrect`,
`ConnectionsAccounted`, `WakeupsNotLost`, `KeepsPromise`. Neither the types
nor `NoLostWakeup` are inductive alone: `release` pushes what its guard owns,
which is a connection only because exactly the threads past `acquire` own one,
and adds one entry for one thread it wakes. The invariant is
`Inv == TypeOK /\ Accounted /\ NoLostWakeup`, with one lemma per action
(`TakeStep`, `MoveStep`, `ReleaseStep` for the first two conjuncts;
`AcquireWakes`, `WakeWakes`, `ResumeWakes`, `ReleaseWakes` for the third, by
counting the awake threads). `StepPromise` maps each step to one of `PoolPromise` or
to a stutter, under the same invariant.

**RateLimitsProofs.** For any limit, period, clock bound and sets of keys and
workers: `TypeCorrect` (tokens never negative), `NeverOverAdmits`,
`NeverLocksOut`, `BurstsAreCounted`, `RefusesRightly`. The invariant is
`Inv`: the types, no history without a row, and for each row `Bounded` (the
account of `NoOverAdmission`) and `Stamped` (its `refilled_at` is the `NOW()` of
some charged hit). `NeverLocksOut` follows from `Stamped`: a refused statement
found less than one token of refill since `refilled_at`, hence since a hit that
was charged, and changed nothing. `Account` is the arithmetic of one hit: the floor may
lose budget and not gain any. `BurstsAreCounted` says that a period sees two bursts and
one for each crash in it, all hits counted. Its invariant `Periods` has an account for
each start of a period in which a hit was charged: the period's hits (`Hits`, over
`earlier` and `charged`) and the tokens left are less than one burst, one more for each
crash since the start (`Since`), the refill from the start to `refilled_at`, and one
token; while a crash has left the key without a row, the refill up to that crash.
`PeriodAccount` is its step for a hit on a row that is there, `InsertAccount` for one
that inserts a row, `PeriodsCrash` the crash. `Chronology` has that no time lies ahead of
the clock and that a statement in progress started after every crash. A statement that
comes late is charged the negative refill from the row's time to its own; `refilled_at`
itself moves only with a positive refill, so never back.

**DeviceAuthProofs.** For any devices, any finite set of requests, any numbers of
challenges, limits and ticks: `UsedIsGone`, `LoginsAreFew`, and with a hypothesis on
the session's time zone `AcceptsInTime` (`Skew <= 0`), `AcceptsFresh` and
`ExpiresLate` (`Skew >= 0`; all three hold for UTC). The two limits are assumed to be
ordered and at least a second (50 s and 60 s in the code: `TimesAssumption`). The hypotheses are needed:
`MCAuthTimeZone` is the counterexample to the first without it, and a session behind
UTC shortens a challenge's life in the same way. `SpentIsGone` is not inductive: a
request that is about to store a challenge could bring a used one back. The
invariant says that a challenge is drawn once and used nowhere before it is stored
(`DrawnOnce`), is stored once, with every copy that a request holds true to that
(`StoredOnce`), that a request's copy fits its place in the handler (`InProgress`,
`Answerable`), and that the tokens of a challenge are paid for by the requests that
had read it before it left the table (`Spent`, by counting them). `AcceptsFresh` adds
`Kept` and `Patient`: a challenge of `sole` that is not used up is what the row and
every request in progress on the device have, as long as no newer one was stored, and
was too old for the cache when a newer one was, because who stores has read it and
found it so. `ExpiresLate` adds `GivenYoung`: a challenge that came from the cache was
younger than `CacheFor`.

**UserDataProofs.** For any finite set of requests at a time, any keys, fields, page
size and numbers of users and rows: `TablesAgree`, `KeysAreFew`, `WipedStaysGone`,
`ListsExactly`, `TouchesOwnRows`. The invariant adds that a number is reserved for
each registration under way (`Room`), a place among the devices of a key for each
request that found none (`Places`; this bounds duplicates), that only users that
were can be wiped and no number comes again (`WipedBefore`), that an id is one request's
until its row is visible (`Reserved`), and how far a walk is: no row it has seen lies
below its cursor, and each row above that was there all the time has been seen
(`Walking`). A row added meanwhile may be missed or seen, and `Covered` survives it
because its id was not there at the start.

**ThreadPoolProofs.** For any finite sets of base and dynamic threads and any jobs:
`AccountIsRight`, `ThreadsAreFew`, `NobodyOversleeps` and, if `MaxThreads # 0`,
`PoolIsTaskQueue`. The invariant adds `Bounded` (when the listener is about to spawn,
the pool has room and nobody is idle), `OneJob`, `Stages` (how far `shutdown` has come,
list by list) and `LastToLeave`: a thread on a list the pool still counts has left its
loop only after `shutdown_` with the queue empty. `NoLostWakeup` is proved by counting
threads that are about to look; the case that decides it is a thread that times out
as it is notified, which tests the queue again. The refinement needs `Served`: while
jobs are queued some thread is at work or about to be. The hypothesis is what the
code leaves open: with `POOL_SIZE` and `QUEUE_SIZE` both 0 there is no thread and
`shutdown` returns with jobs left.

**RequestPipelineProofs.** For any threads, any pool size, any set of requests and any
number of attempts: `RequestsHaveOnePlace`, `ReadsOwnContext`, `RetriesOnlyLost`,
`UsesPool`. That an unanswered request is in the queue or with a thread is inductive
only with `OnePlace` (in the queue once, or with one thread: otherwise an answer of one
would leave the other behind) and `AtWork` (a thread has a request, and nothing was
thrown before its first call, which is why its context has a user). `Retrying` has the
attempts of a loop in progress. `HandlerEffect` reduces the actions of a thread to
three: it begins, moves on, or ends with an answer. Each of `Way` (the requests'),
`Own` (the thread's) and the pool's part of the invariant is then preserved by itself.
`UsesPool` shows that the handlers use the pool as `ConnectionPool` lets any threads
use it, so that its theorems, for finitely many threads, are about these handlers.

**ServerProofs**, first about `AsyncLog`. For any set of producers and any number of
lines: `StopComesLast`, `KeepsLines` (`LogSink` is implemented). `StopIsLast` is not
inductive: that the queue is empty when the writer has read the flag holds because
it was emptied under the same lock, and stays so because nobody is left to push
once `should_stop` is set. `LogInv` says both; it also ties the flag to where `main`
is, and `writer = "returned"` to `stop`.
Then about `Server`, for any numbers of workers, connections, requests and signals:
`StaysConsistent`, `UsesLog`, `ServerKeepsLines` and, if assertions are compiled out,
`NoLineLost`. `StepLog` shows that each step of the process is a step of `AsyncLog`
or leaves the log alone; the point is `CallShutdown`, for which `ServerInv` says
that there are no workers when `listen` has returned. What was proved of the log
then holds of the process (`LogStep`, `KeepsLines`). An early end is harmless
because the process is `Silent` before its loop. Two theorems are about connections:
`UsesTasks` (every step is one of `TaskQueue`, which `ThreadPoolProofs` shows the pool
to implement, or leaves the queue alone) and `ServedInTurn`, with the invariant
`InTurn`: the queue holds exactly the last connections accepted, in order, and each
worker one of those before them that nobody else has.

**MigrationsProofs.** For any processes, any number of migrations and of crashes:
`LedgerMatchesSchema`, `SuccessIsComplete` and, if there is a process and no table
refers to a later one (as in `register_migrations`), `LeaderGetsThrough`. The
invariant adds `Passed`: what a process has behind it is in the ledger. `OneLeads` is
the argument for the last: as long as none has died there is a process that
nothing done so far can make fail, and one that takes this from it does so by
getting ahead of it.

The assumptions are the named `ASSUME`s of the modules, which TLC evaluates on its
instances; a hypothesis beyond them is written in the theorem.

**Not in the prover's reach**, and left to TLC: liveness under fairness
(`BoundedWait`, `EveryLineWritten`, `StopWorks`, `ConnectionsServed`, `EveryJobRuns`,
`ShutdownReturns`, `EveryRequestAnswered`, `Converges`), anything about `ENABLED`,
and what a recursive definition computes for every input. These are the only
properties of the passing runs that no theorem states; the properties of the runs
that expect a violation are false, or true only under the hypotheses above.

## 5. What is not modelled

- Vendored code: about 53,000 of the repository's 55,561 lines are third-party
  headers (`json.hpp`, `httplib.h`, jwt-cpp). The JSON and JWT libraries are
  conversions without state. Of httplib the parts that the server's behaviour
  hangs on are modelled (thread pool, accept loop, `stop`, `keep_alive`); parsing,
  routing, TLS, its client and websockets are not.
- CORS headers, the structs of `app/types` and OpenSSL: they keep no state. A
  signature is taken as correct for exactly one challenge.
- libpqxx and PostgreSQL are modelled as the code uses them: statements that
  succeed or throw, read committed with row locks and foreign keys. Broken connections
  that are put back into the pool stay usable to the model; the code has no check for
  them either.
- The size limits of the validators and the cutting of the LLM's text: an input
  or answer is good or not.
- The largest value of an id: a list starts below `numeric_limits<int>::max()`
  (`repos/constituents.cpp:14`, strict at line 40), so a row with that very id would not
  be listed; `StartWalk` starts above every id of the model.
- Reading `.env` is single-threaded text handling; `Server` has that it may end
  the process. In what order the objects are built is left out.
- The fields of the request context that only the log reads.
- A JWT's expiry after seven days, and that it stays valid after its user was
  wiped, beyond what such requests can do to the tables.

## 6. Plan

Modelled, in this order: (1) pool, limiter, log, login, with proofs for the pool
and the limiter; (2) user data and the request pipeline; (3) migrations; (4) the
thread pool, the process as a whole and the use it makes of the log, with proofs
for the log, the process and the migrations; (5) proofs for the login, the user data,
the thread pool, the pipeline, and for what was open about the limiter and the
migrations. Every safety property that a run checks is now a theorem. Worth adding:

- that the theorems of `ConnectionPool` hold of the pool in `RequestPipeline`, stated
  there by name (`UsesPool` gives the step, not yet the instance of each theorem).
