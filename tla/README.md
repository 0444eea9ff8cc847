# Verification of the HAB judge backend

TLA+ specifications of the online judge in this repository: a Gin server that
stores submissions in MySQL, queues their ids in a Redis stream, and judges them
in a pool of workers that run the programs in Docker containers. The modules are
translated from the Go source; `PROJECT.json` maps each definition to its lines.

## Inventory

| Component | State | Operations | Talks to |
|---|---|---|---|
| Submission intake (`handlers/submission.go`, `repositories/code.go`) | rows of `submissions` | `CreateSubmission`: validate, INSERT, XADD, answer 202 | MySQL, stream `code_submissions` |
| Worker pool (`workerpool/pool.go`) | consumer group `judgers` (position, pending entries), what each worker holds | `Start`, read loop, `processCodeJob`, `Stop` | stream, repositories, code runner |
| Code runner (`services/code_runner.go`) | directories `submission_<id>`, containers | `Execute`: write the file, start a container, build, run the test cases, clean up | file system, Docker |
| Cached reads (`repositories/code.go`, `services/cache.go`) | Redis keys with a one-hour TTL | `GetTestCases`, `GetSystemCode`, `GetLanguageImports` | Redis, MySQL |
| Problem catalog (`repositories/problem.go`, `handlers/problem.go`) | Redis keys with a four-hour TTL | list, details with statistics, solved marks | Redis, MySQL |
| Submission views (`GetSubmission`, `GetUserSubmissions`) | none of their own | row, then the failed test case by id | MySQL |
| Authentication (`handlers/user.go`, `repositories/user.go`, `services/jwt.go`, `middlewares/auth.go`) | refresh-token keys, cookies | register, login, logout, verify | MySQL, Redis |
| Wiring (`server/server.go`, `configs`, `dbs`, `cmd`) | process up or down | start the pool, then the router; end by `log.Fatalf` | all |
| Recovery, logging, runner images | none | | |

What makes each of them correct:

- intake and pool together: a submission is recorded once, judged at most once,
  decided for good, never forgotten while the parts work, and never acknowledged
  to the client without a row;
- code runner: the verdict is the one the program deserves as long as one worker has
  the submission, what several can do to it is bounded, and every path out removes its
  directory and the container it knows of;
- cached reads: what a run combines was current at some point within the TTL;
- catalog: marks of one user never reach another, statistics are bounded in age, and
  absence is never cached;
- views: a result and its test case are as close in time as the request is long;
- authentication: a session ends with its logout or its refresh token, whatever
  requests are under way, and ends no other session;
- pool: `Stop` returns when every worker has ended its job, and nothing is lost by
  stopping and starting.

Hard behaviours: requests and workers interleave; every call to MySQL, Redis or Docker
can fail before or after it took effect; the entry is acknowledged before the work; the
Redis client repeats commands; workers that hold one submission write to one file; the
process has no orderly shutdown; programs have no time limit. `PROJECT.json` lists these
hazards at their lines.

## Modules

| Module | What it is |
|---|---|
| `Verdicts` | the columns a worker writes, and the results `Execute` can report |
| `SubmissionLifecycle` | abstract: record, acknowledge, decide once |
| `JudgePipeline` | intake, stream, group and workers, with failures; implements `SubmissionLifecycle` |
| `CodeRunner` | inside `Execute`: directories, containers, build and test loop |
| `JudgeService` | `JudgePipeline` and `CodeRunner` in one process; implements both |
| `CachedReads` | everything the server reads: repository calls over cache and MySQL, for handlers and workers, beside authors and verdicts |
| `AuthSessions` | the handlers of `/auth`, the cookies of browsers, the refresh keys in Redis, the clock |
| `PoolShutdown` | `Start` and `Stop` of the pool, and the deferred calls around them |
| `MCCodeRunner`, `MCJudgeService`, `MCAuthSessions` | symmetry of interchangeable constants for their runs |
| `JudgePipelineProofs`, `CodeRunnerProofs`, `JudgeServiceProofs`, `CachedReadsProofs`, `AuthSessionsProofs`, `PoolShutdownProofs` | theorems checked by TLAPS |

The modules meet at these places. `JudgePipeline!Execute` is the whole of
`CodeRunner!Execute`, and `JudgeService` shows that the two fit. The others are
matched by reading only: `PoolShutdown!ProcessCodeJob` is the whole of
`JudgePipeline!ProcessJob`; `JudgePipeline!Fetch` is a call of `CachedReads`, which in turn
takes from `JudgePipeline` that a submission is judged once. The user for whom
`CachedReads!Ask` asks is the one of a token that is `Valid` in `AuthSessions`.

### JudgePipeline

`request[s]` is the POST handler that creates submission `s` (`new`, `inserted`
after the INSERT, `queued` after XADD, `accepted` after the 202, `refused` after an
error or a lost connection). `verdict[s]` is the row. `stream` is every entry ever
added, `lastDelivered` the position of the group in it, and `pending` its pending
entries. `pc[w]` is the call a worker is at, `job[w]` the entry it holds.

| Action | Code |
|---|---|
| `StartPool` | `CodeWorkerPool.Start`: the group is created at `$` unless it exists |
| `Crash` | the process ends; the deferred `Stop` is unreachable |
| `Insert`, `Enqueue`, `Respond` | `SubmissionHandler.CreateSubmission` |
| `Read`, `LoseRead` | XREADGROUP with `>` in `CodeWorker.Start`, and its reply lost |
| `Ack` ... `Execute` | the calls of `processCodeJob` in their order, each error branch included |
| `UpdateSubmissionStatus` | the UPDATE at the end of every branch |
| `Flush` | Redis loses its data (external) |

`Faults` says which failures may happen; the comment at its declaration names the call
each of them hits. `Enqueue` is one attempt of XADD: the client repeats an attempt whose
reply is lost (`xaddRetry`) at most `MaxRetries` times, which is three where
`dbs/redis.go:13` leaves the default. Others may publish and read between two entries of
a submission, and the last attempt may still end in an error. `Execute` reports a failed
build only of a language that is built (`CompiledLanguages`). A handler that finishes
after the crash of its process is `refused`: the row stays. The parse errors of
`processCodeJob` have no producer in this code, since the only XADD writes an integer;
`Ack` stands for those lines too.

### CodeRunner

`dir[s]` is what is at `<workDir>/submission_<s>`: nothing, an empty directory, a file
`main.*`, or a directory that `docker run -v` made in the place of the file
(`mountpoint`). `file[s]` is every file there ever was under that name, with what is in
it: the name goes to the last one, but a container keeps the one it has mounted
(`mount`, 0 for a directory), also when the name is gone, and sees what others write to
it. `os.WriteFile` is two steps: `OpenFile` makes the file or takes the content of the
one that is there, `WriteFile` writes to the file that was opened (`fd[w]`). So a second
call for the submission empties the source under the first one's container; an empty
file does not build, and prints nothing if it is run. What is built stays in the
container (`solution`). A write to a full disk leaves a part, which may do anything.
`docker run` may fail before or after it started a container; one that it started and did
not name is `lost`, and nobody stops it. Standard error in the output of `docker run`,
which `startContainer` takes for the id, is a case of `exec` with `cleanup`: nothing that
follows reaches the container. `os.RemoveAll` is two steps as well, the file and the
directory.

`program[s]` says in which language the program is, whether it builds and how each test
case ends, and which test cases expect no output (`blank`); it is chosen once, in
`Init`, over all programs with at most `MaxTests` test cases. Each return statement of
`Execute` is a `Return` with the first deferred call to run: `stop`, then `remove` and
`rmdir`. `startContainer` stops the container itself when the build fails, which is the
same sequence of steps.

On its own the module lets any idle worker call `Execute` for any submission, once, or
up to `Retries + 1` times if `twice` is a fault, at once or one after the other. That
callers do no more, and what becomes of a result,
is `JudgeService`.

### JudgeService

The state is that of both modules; the pipeline's `pc` is `at` here. Outside `Execute`
the actions are those of `JudgePipeline` (`Serve`). Where a worker is at Execute,
`CallExecute` begins it in the runner, `Run` is any step inside it, and `ReturnExecute`
hands the result to what `processCodeJob` does with it: the update of the result, or of
the error branch. `End` is the end of the process for both.

Neither module restricts the other. `CallExecute` uses `Begin`, which is `Call` without
its bound on the number of calls: that the bound is kept is `RunnerSpec`.
`ReturnExecute` accepts any outcome: that it is one the pipeline allows for is
`PipelineSpec`. `PipelineFaults` translates the failures: one of the disk or of Docker
in the runner is an error of Execute in the pipeline, and `twice` is its `xaddRetry`.
Two calls for one submission can fail on the directory they share, so `twice` is an
error of Execute too. The runner's `exec` is no failure to the pipeline: it comes back
as a result, and so does an empty file that does not build, which is why the pipeline
has to know which languages are built. A client's `program` is in the language it names,
if that is a supported one.

### CachedReads

Every repository call is data: its key, whether it is cached, and the tables its
queries read in order. `Marked`, `ListProblems`, ... and `Judge` are the calls a
handler or `processCodeJob` makes in order; `reads[r]` is what is left of them,
`todo[r]` the queries left of the current call, `fill[r]` what it has read, `parts[r]`
what earlier calls returned. A value that has been read is its key, table, whether a
row was there, whether it came out of the cache, and its `age`: the ticks since the
table has changed under it, `Current` if it has not. That keeps what the properties
tell apart and leaves out contents.

| Action | Code |
|---|---|
| `Ask`, `Respond` | a GET handler of `handlers/problem.go`, `submission.go`, `user.go` from its first call to its answer |
| `TakeJob`, `Run`, `Decide` | `processCodeJob` before the three reads, `Execute`, the UPDATE at the end of every branch |
| `CacheGet`, `CacheSet` | `redisCache.Get` and `Set`; an error of `Get` is a miss, the error of `Set` is dropped |
| `Query`, `QueryFails` | one SELECT: `sql.ErrNoRows` (`Lacks`), the next query (`Rest`), a value to cache, or the return; only the solved marks survive an error |
| `Submit` | the INSERT |
| `Edit`, `Tick` | authors, and the clock (external) |

One hour and four hours are one constant `Ttl`, since no key of the one kind is
related to a key of the other. The code sets no time-out, so that a handler takes at
most `MaxSpent` ticks is an assumption about MySQL and Redis: without it nothing
bounds the age of a slow fill. `Decide` may write any verdict: which one is
`CodeRunner`'s.

### AuthSessions

A token is its claims, so two logins of one user within a second make the same one:
`shared` records those. `keys` are the refresh keys with their time to live,
`access[b]` and `refresh[b]` the cookies of browser `b`, `request[c]` what goroutine
`c` is at and the tokens it read when it began. A tick is a second, to which
`NewNumericDate` cuts an expiry. Verify reads the clock twice, to check the refresh token
(`ValidateToken`) and to make the access token (`Renew`), and a tick may come between the
two. (`GenerateTokens` itself reads it for each of the two tokens, jwt.go:26 and 41; the
model has one reading, because of a tick between them Login would only get an access
token that ends earlier in its session, and Verify drops the second token.) `revoked` is
the tokens whose key was deleted and not stored again, `answered` those whose logout was
answered, whether DEL worked or not. The session an access token was made in is recorded
in it for the properties; the code cannot see it.

| Action | Code |
|---|---|
| `Register` | `AuthHandler.Register`: the INSERT that unique columns refuse a second time |
| `GenerateTokens`, `StoreRefreshToken`, `AnswerLogin` | `AuthHandler.Login` |
| `RevokeToken`, `AnswerLogout` | `AuthHandler.Logout`; the error of Redis is dropped and the answer is 200 |
| `GetRefreshToken`, `ValidateToken`, `Renew`, `AnswerVerify` | `AuthHandler.Verify` |
| `LoseAnswer` | the connection is lost behind the last step of a handler |
| `Send`, `Tick` | browsers, and the clock (external) |

`AuthMiddleware` and `OptionalAuthMiddleware` change no state: they let `Valid`
tokens through.

What `LogoutEndsSession` says of a logout whose DEL failed rests on the browser: the key
is good for fourteen days, and the session ends because the answer takes the cookies of
the only browser that has the token. If the answer is lost too, nothing has ended, and
the property claims nothing; nor does it for the token of two logins within a second,
which another browser still has.

### PoolShutdown

`at` is where `StartGinServer` is, `next` the worker that the loop of `Start` or of
`Stop` is at, `worker[w]` where a goroutine is. `Stop` hands a value over on an
unbuffered channel: `Asked(w)` says that it waits for `w`, and `Select` takes the
value in the same step in which `Stop` goes on. `finished` and `lost` say what has
become of an entry. Today `router.Run` returns only to `log.Fatalf`, which runs no
deferred call, so `Stop` is never reached and the process always ends by
`JudgePipeline!Crash`. The module says what the pool's own interface does, for
whoever adds an orderly shutdown. Handlers under way may still publish while `Stop`
waits.

| Action | Code |
|---|---|
| `StartGroup`, `StartWorker`, `Serve` | `CodeWorkerPool.Start`, the router |
| `Publish` | XADD of a handler |
| `Stop`, `StopReturn`, `CloseRedis`, `CloseDB` | the deferred calls of `StartGinServer`, in reverse order |
| `Select`, `Deliver`, `ReadNothing`, `ProcessCodeJob` | the loop of `CodeWorker.Start` |

## Runs

| Run | Question | Bounds |
|---|---|---|
| `pipeline_faults` | At most one judge for a submission, whatever fails? Life cycle implemented? | 2 submissions, 2 workers, language ids 0 (refused), 2 and 3 (not supported), every failure but `xaddRetry` |
| `pipeline_no_loss` | Does every PROCESSING row have an owner, and is every acknowledged submission decided, when nothing loses work and programs end? | 2 and 2, failures that lose nothing |
| `pipeline_restart` | Are waiting entries picked up after any number of restarts? | 2 submissions, 1 worker, crashes, 1 retry of XADD |
| `runner_faults` | Pipeline and runner in one process: does a row say ACCEPTED or WRONG_ANSWER only of a program that deserves it, what can calls that share a file do to it, and does each module allow for what the other does? | 1 submission, 2 workers, up to 1 test case, 2 containers, 3 languages; every failure of `Execute` but a full disk, 1 retry of XADD, crashes, a row that cannot be read, a Redis that loses its data |
| `runner_verdict` | Is the verdict of concurrent calls the deserved one, failed test case included, and does every path out clean up what it knows of? | 2 submissions, 2 workers, up to 2 test cases; disk and Docker failures, containers that are started and not named, programs without end, crashes |
| `catalog_reads` | Are answers and the judge's input bounded in age, absence never cached, and marks one's own? | 1 user (and nobody), 1 handler, 1 worker, `Ttl` 2, `MaxSpent` 1, the system code edited, Redis and MySQL failing |
| `auth_sessions` | When does a session end, and whose? | 1 user, 2 browsers, 2 requests at once, 2 logins, `AccessTtl` 1, `RefreshTtl` 2, 4 seconds, Redis failing, answers lost |
| `pool_shutdown` | Does `Stop` return, and leave nothing behind but what hangs? | 3 workers, 4 entries, lost replies, programs without end |
| `claim_*` | Does the code keep these statements of the repository's README? | the smallest instance that shows it |

Two submissions and two workers are the smallest instance with a race of each kind: two
workers for one submission, two submissions for one worker, a waiting entry behind a
held one. A third adds no new pair of actors, and the theorems cover every number. Two
test cases distinguish first, last and after the last, and a failure that hides a later
one. Two containers are one for each call, plus the case that leaked ones use them up
(`docker run` then waits: the bound named `Containers`). `runner_faults` has one
submission, because the only thing two submissions share in Execute is the set of
containers, which `runner_verdict` has; an id that is queued twice makes two workers
meet in one directory, file and mount. One test case is enough for that: it passes,
blank or not, fails, or is run empty; that the loop goes over several is
`runner_verdict`. A full disk has no part in what the two calls do to each other but to
leave part of a file, of which nothing is claimed; it is in `runner_verdict` as well.
The pipeline's other failures are in `pipeline_faults`; those kept here are a job that
ends before Execute (`load`), and what could change how often Execute is called
(`flush`: only with it is the group made anew). Where XADD is repeated, the runs have
one retry, and the code has three: with two workers two calls are under way at most, and
a third entry adds calls that come after. The theorems hold for every `MaxRetries`. The
`claim_*` runs have three. `pipeline_restart` has one worker, so that entries wait
behind a held one when the process dies.

`catalog_reads` has one handler and one worker, whose calls use different keys, so
that two fills of one key do not overlap in it; the theorems cover any number of
both. What is edited is the system code, the one table whose absence is an error of
the judge; a verdict supersedes rows of `submissions` under readers besides. `Ttl` 2
and `MaxSpent` 1 are the smallest times at which a value is older than a fill and
younger than its end.
`auth_sessions` has two requests because every race here is between two handlers, two
browsers because sessions are to be kept apart, and four seconds with refresh tokens
of two, so that tokens expire and a key outlives its token. Its bounds on the time
are tight: each property is violated when `MaxSpent`, the exception for shared tokens
or a tick is taken out of it.
`pool_shutdown` has a worker before, at and behind the one `Stop` waits for, and one
more entry than workers.
Deadlock is not checked where the run ends on its own: ids of submissions are used up.

### Claims the code does not keep

- `claim_polling`: polling ends (README.md:88). Not after a process that ended
  between XACK and UPDATE.
- `claim_isolation`: a submission cannot affect others (README.md:94). One without
  end keeps its worker.
- `claim_message`: COMPILATION_ERROR carries a message or stderr (README.md:84). The
  build output is never stored. The run sends a Go program, since Python is not built.
- `claim_workdir`: COMPILATION_ERROR is a build failure or a runtime error
  (README.md:139). When the Redis client has repeated an XADD, workers hold one
  submission at once and share a directory; the first to return removes it under the other.

Two more divergences are visible in the models and need no run. After a failed XADD
the row stays in PROCESSING although it is neither "Queued or currently being
evaluated" (README.md:136): `xadd` is therefore one of the `LossyFaults` that
`ProcessingHasOwner` excludes. And a worker that cannot read test cases, system code or
imports, or cannot start the container, writes COMPILATION_ERROR (README.md:139) for a
program it never ran: the `Failure` verdicts of `Fetch` and `Execute`.

## Fairness

`JudgePipeline!FairSpec`: the supervisor starts the process again (`StartPool`), a
handler that has begun goes on, a worker that holds an entry goes on; all weak,
since Go schedules every runnable goroutine and the calls return. Clients are under
no fairness. Reading is strongly fair: XREADGROUP is in an unconditional loop, and a
process is assumed not to be killed before its first read every time. A program that
does not end is the state `hung`, which no fairness leaves. Read is one action for
all workers: which of them gets an entry is up to Redis. The modules with safety
properties only, `CodeRunner`, `JudgeService`, `CachedReads` and `AuthSessions`,
state no fairness.

`PoolShutdown!FairSpec`: `StartGinServer` goes on where it does not wait, and so does
every goroutine of a worker, all weak: XREADGROUP blocks for five seconds at most, and
a program that does not end is the state `hung`. Nothing has to be published, and
nothing has to stop the server. Each worker has a fairness condition of its own,
because `Stop` waits for one after the other.

## Proofs

All theorems hold for every set of submissions, workers, languages, containers, users,
browsers and requests, every number of test cases, entries and retries, and all times.
The only assumptions are the named ones of the modules (`FaultsAssumption`,
`LanguagesAssumption`, `MaxRetriesAssumption`, `TimesAssumption`, ...) and what a
theorem states of `Faults`.

- `TypeCorrect`, `RunnerTypeCorrect`: `TypeOK` of both modules is inductive as it
  stands. In `CodeRunner` it includes that two calls never use one container.
- `AtMostOnce` and `ImplementsLifecycle` (no `xaddRetry`). `JudgedAtMostOnce` is not
  inductive: to know that the row a worker writes is undecided, one needs that its id
  is in the stream once (`PublishedOnce`, which needs that published ids belong to
  handlers past XADD), that no other worker holds the entry (`OneWorkerPerEntry`,
  which needs that the group has passed what is held, `HeldIsDelivered`), and that
  a decided submission is neither held nor ahead of the group (`DecidedIsOver`).
  `IInv` is their conjunction. Most steps only let go of entries; `LetsGo` says so
  once, and `LetsGoStep` treats all of them. Insert, Enqueue, Read and
  UpdateSubmissionStatus have a lemma each. The refinement follows from `UpdateStep`:
  the row a worker decides was in PROCESSING.
- `NoLossNoOrphan` (no fault of `LossyFaults`). `ProcessingHasOwner` is inductive
  together with `GroupBeforeRows`: as long as there is no group there are no rows, so
  the group made at `$` skips nothing. A repeated XADD is allowed
  here; `pipeline_no_loss` leaves it out, because two submissions queued twice make
  too many states.
- `EntriesInv` is what remains of `IInv` when XADD may be repeated: an id has at most
  `Retries + 1` entries, wherever they are (`FewEntries`), none before its row is
  inserted (`NewIsUnpublished`), and an entry one worker. `JudgeService` needs it for the
  number of calls.
- `RunnerTypeCorrect` rests on `Shape`, which says once what a step inside `Execute`
  does to files, containers and the loop; the later proofs go through it where they can.
- `AcceptedOnlyIfEarned` (all faults). `SInv` says how calls meet: a submission that is
  called once has no other worker and no result before that call returns (`Once`), what
  was never called has no file, open or mounted (`Unwritten`), and a call that is alone
  finds its file as it wrote it, from WriteFile into its container (`Sourced`). Without a
  full disk no file and no build is a part (`NoParts`). `EInv` adds that a call in the
  loop has built the program and passed what is behind it, or passed it on an empty file
  on blank test cases after a second call (`Earned`). What is acceptable only grows with
  the calls (`MoreCalls`), so another call that begins breaks nothing.
- `VerdictOnlyIfEarned` (without `exec`). `VInv` adds to `EInv` that a result about to
  be returned, and one that was, is what `Judge` says as long as there was one call
  (`Deserved`, `ReportedDeserved`), and of ACCEPTED and WRONG_ANSWER also with `exec`
  (`Sure`). `JudgeFailed`: the loop stops where `Judge` chooses the first failure.
- `ExecuteCleansUp` (neither `cleanup` nor `twice`). `Tidy`: a container of a submission
  is its call's own or `lost`, and there only between `docker run` and `docker stop`, and
  its directory is gone when the call begins and when it returns. After a crash nothing
  is claimed but that there is no result.
- `ErrorsHaveCause` (all faults). `CauseInv`: a call that returns has a result or an error
  (`Returned`), an error only with `disk`, `docker` or `twice` among the faults
  (`ErrorHasCause`, from `Sourced`: a call that is alone finds its directory and file),
  and BuildFailure only of a language that is built (`BuildFails`).
- `RunnerImplemented` and `PipelineImplemented` (all faults): `JudgeService` implements
  `CodeRunner` and `JudgePipeline`. The invariant is `JInv`: `EntriesInv`, `CauseInv` and
  `Links`. `Link`: a call is under way in the runner just where the worker is at Execute
  or hung in it, for the submission of its entry. `CallsSpent`: there are no more calls
  for a submission than it has entries that the group has passed and that no worker holds
  before Execute; with `FewEntries` these are `Retries + 1` at most. `Supported` and
  `SentAs`: a call is for a row with a supported language, in which its program is
  written, so that a failed build is one of a language that is built. That the runner's
  outcomes are those of the pipeline is `CauseInv`. `RunnerStep` and `PipelineStep` show a
  step of the one or a stutter, action by action. `JudgePipelineProofs` is instantiated,
  so that its theorems hold of the service (`ServiceJudgesOnce`).
- `RowsAreDeserved` (all faults). `RInv` adds to `JInv` and `VInv` that a verdict about to
  be written, and one in a row, is one that the runner could return for the submission of
  the entry after the calls there were (`Just`, `ResultsJust`, `RowsJust`). An error may be
  written as COMPILATION_ERROR whatever the program, and so may, with `exec`, a failure of
  Docker: `claim_workdir` shows one that is not deserved.
- `RowsAreEarned` (without `exec`): the same invariant, with all results.
- `DecidedIsTidy` (neither `cleanup` nor `twice`). `DInv` adds to `JInv`, `IInv` of the
  pipeline and `LInv` of the runner that what a worker is about to write, and what is
  decided, is of a submission with no directory and no container but a `lost` one. It
  holds across crashes: what a dead process leaves is of submissions that are
  acknowledged and not decided, and without a repeated XADD nobody will decide them.
- `ReadsTypeCorrect`, `RecentAnswers`, `FreshAbsence`. The properties speak of answers;
  `Young` bounds age everywhere on the way there: a cached part is at most as old as
  its entry and the fill that stored it (`EntryYoung`), and what a reader holds at most
  as old as its request, plus that if it came out of the cache (`ReaderYoung`). An
  older list stored over a newer one is covered, since a fill is bounded by its own
  request.
- `OwnMarksAlways`. `Marks`: cached entries carry no marks, and the marks are the last
  call of a request, made for a user who is logged in. `Jobs`: a queued or held
  submission is PROCESSING and held by one worker, so that a row that is ACCEPTED
  stays so until the answer that shows it.
- `SessionsTypeCorrect`, `SessionsSeparate`, `LogoutEnds`, `SessionsEnd`. `Genuine`
  says that a request past its checks carries a refresh token and has a browser.
  `Separate`: a token that is not shared is held by one browser or request at a time
  (`OneHolder`, which needs that a token that ends `RefreshTtl` from now is one of
  `made`, `Fresh`), its key lives at least as long as the token (`KeyOutlivesToken`),
  and a token in a cookie, or about to be in one, has its key or was logged out by
  that browser (`KeptIsAlive`). `Out`, for the logouts that are answered: a token that
  one login made and whose answer was given is in no cookie and in no request that
  starts later (`OutOfUse`; `OutFresh` and `OnlyLogin` rule out a login that brings it
  back).
  `Ending`: an access token ends at most `AccessTtl` from now (`AccessIsRecent`), a
  refresh token was revoked or answered in the past (`RevokedInTime`), is not stored and
  revoked at once (`KeyOrRevoked`), a Verify that found its key before the logout began
  at most `MaxSpent` before (`BeganBefore`), and one past its check had a valid refresh
  token no longer than `MaxSpent` ago (`WasValid`).
- `PoolTypeCorrect`, `StopDrainsAlways`, `OneMoreAlways`, `EntriesKeptAlways`.
  `Launched` says that workers from `next` on do not run yet, `Stopped` that workers
  before `next` are gone, `LateOnce` that a worker that got an entry while `Stop`
  waits for it will look at quit before it reads again, `GroupFirst` that there are no
  entries as long as there is no group.

`RowIsEarned` and `DecidedLeavesNothing` have a theorem and no run: they need two
submissions and fewer failures than `runner_faults` has, and the runs of the two modules
alone show what they rest on (`VerdictIsEarned`, `NothingLeftBehind`).

Only model-checked: `AcceptedIsDecided`, `QueuedIsPickedUp` and `StopReturns`, which are
liveness under fairness and out of the prover's reach.

## Not modelled, and the plan

Not modelled: the text of messages and programs, comparison of outputs beyond how a
test case ends, logging, HTTP routing, configuration, the set-up of connections,
bcrypt, field validation of users, panic recovery, the container images. None of them
keeps state of the judge. Test cases of a submission are independent of each
other in `CodeRunner`, although they share a container; their order is given, although
MySQL may choose it. The connection pool of the Redis client is not modelled: a call
that waits for a connection is one that takes long. Nor is a pool of no workers, which
`configs/config.go` makes of a number that does not parse, anything but an instance of
`PoolShutdown`.

Every part that keeps state of the judge has a module, and every safety invariant
and refinement the runs check has a theorem. What would add most from here:

1. abstract specifications of `AuthSessions` (sessions that open and end, without
   tokens and keys) and of `PoolShutdown` (a queue that keeps its entries across
   stops), each with its refinement proved, and action properties of both, such as
   that a revoked key never comes back;
2. test cases that see what earlier ones left in their container, and a list whose
   order is MySQL's choice, in `CodeRunner` and `CachedReads`;
3. a TLC instance of `CachedReads` with two fills of one key (the theorems cover it,
   the run does not) and larger instances of the others;
4. the connections of the Redis client as a bounded resource: workers hold one for as
   long as XREADGROUP blocks;
5. `PoolShutdown` composed with `JudgePipeline`, once the server has an orderly end.
