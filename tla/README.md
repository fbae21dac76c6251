# paw: a TLA+ verification project

paw ("personal AI wiki", `src/src/paw`) is a FastAPI application over PostgreSQL (pgvector and
Apache AGE), Redis and an LLM provider. Users upload sources; background jobs turn them into wiki
articles; queries and chats answer from the articles' chunks; answers are cached. This directory
models the parts in which several processes share state, and the two algorithms (the agent's budget,
the views of the link graph) that others rely on.

- **The core:** background jobs (`Jobs`, which implements `DomainWork`), article writers
  (`Articles`), queries and the cache beside those writers (`QueryCache`).
- **Beside it:** users, keys and the first setup (`Accounts`), signing in (`Login`), chat turns and
  housekeeping (`Chat`), progress streams (`Progress`), settings, vectors and reindex
  (`Embeddings`), the agent loop (`Harness`), links (`Graph`), uploads (`Sources`).
- **Proved for every value of the constants:** every invariant and every safety property of a step
  that a run checks, the refinement of `DomainWork`, and that the components of the services run keep
  apart: 44 theorems in eight proof modules. Only liveness is left to TLC alone.
- **Disagreements found between code and documentation:** four, each with a run whose counterexample
  shows it; what else was met on the way is in section 7.

The layout of this file: the system (1), the modules and their correspondence to the code (2), the
runs (3), bounds (4), fairness (5), proofs (6), what the work has shown (7), what is not modelled
(8), the plan (9). Paths of the code are relative to `src/src/paw/` unless they begin with `src/`.

## 1. The system

| Component | State | Operations | Interacts with | Hard behaviour |
|---|---|---|---|---|
| Background jobs (`jobs/`, `worker.py`, `services/jobs.py`, `services/maintenance.py`) | `jobs` rows, arq's queue, Redis locks `domain:*`, `llm:*` | create, enqueue, cancel; six handlers; reconcile at a worker's start; gc when an administrator asks for it (`POST /admin/gc`) | everything that writes articles or chunks | two sessions per job, crashes, redelivery, timeouts, locks without owner |
| Job progress (`jobs/progress.py`, `api/routers/jobs.py`) | Redis pub/sub, `jobs.log` | replay, subscribe, publish | jobs, browsers | gap between the replay and the subscription |
| Articles (`services/articles.py`, `services/ingest_write.py`, `db/repos/articles.py`) | `articles`, `article_revisions`, blobs | create, update with expected_rev, rollback, upsert by a job | jobs, cache, graph | READ COMMITTED, identity map of a session, unique constraints |
| Query-answer cache (`services/query_cache.py`, `services/cache_seam.py`, `api/routers/query.py`) | `query_cache`, `query_cache_articles` | lookup, touch, upsert, mark stale, delete expired | articles, chunks, LLM | answers stored long after they were retrieved; DDL inside requests |
| Ingest, lint, fix, format (`harness/ops/`) | chunks, entities, links, issues, articles | stages with model calls between writes | articles, cache | cancel and failure in mid-batch |
| Vector index (`vector/`) | `chunks`, `embedding_version` | embed, search, reindex | ingest, queries, settings | new chunks with an old version, DDL on a shared table |
| Provider settings (`services/provider_settings.py`) | one JSON row | get, change the provider, PUT, bump the embedding version | reindex, queries | read-modify-write of a whole row |
| Agent harness (`harness/loop.py`, `harness/limits.py`, `harness/tools.py`, `providers/structured.py`) | budget, signatures seen | step, call tools, stop, ask again | LLM | termination, a model that answers anything |
| Chat and retention (`services/chat.py`, `services/retention.py`) | sessions, messages | turn, delete, prune | gc | turns of one session at the same time; pruning a session in use |
| Accounts, setup, API keys (`services/users.py`, `services/setup.py`, `services/api_keys.py`) | users, keys, the settings row, audit rows | create, set role, delete, issue, revoke, first setup | everything | the last administrator; two first setups; an actor who is deleted |
| Login guard (`security/`) | Redis counters, locks, sorted sets, sessions | check, hit, fail, reset, sign in | users | attempts past the check when the lock is set; two expiries |
| Sources and storage (`services/sources.py`, `api/routers/sources.py`) | `sources`, blobs, `jobs` | upload a file, upload an archive, start ingest | jobs | one checksum in two archives; a failure among many jobs |
| Graph (`graph/`) | `article_links` | link, neighbourhood, tree | ingest, web pages | links in cycles; two reads of one view |
| LLM providers, HTTP and web, MCP, observability | | pure I/O | | little of their own |

What makes each modelled component correct:

- **Jobs.** Two mutating jobs of a domain never overlap; one model key is used by one run at a time;
  a job's writes land completely or not at all, and the row's verdict agrees with what landed; a
  cancel asked for in time stops the job; no lock and no queue entry stays for ever.
- **Articles.** A history is a chain of revisions 1..`current_rev`; no revision overwrites one that
  its writer had not seen; row locks cannot deadlock.
- **Cache.** A job's write and the staleness of the answers that cite it become visible together;
  table locks are never waited for indefinitely; a job that has marked, with all its model calls behind
  it, is in a deadlock with nobody but a run of gc.
- **Accounts.** Requests one after the other keep an administrator; of setups that saw no settings row
  one commits; nothing is done in the name of a user who is gone.
- **Login.** Of the sign-ins timed and taken within one window no more than the limit get on; a lock ends
  before its time only through an attempt that was past the check when it was set.
- **Chat.** A prompt has the turns before it; a session is pruned only if it was old or beyond
  the newest when gc listed it, or got a turn after that; a turn that overlaps no
  other leaves title and age of its session as they should be.
- **Progress.** What a stream does not show is only what was published while it subscribed, could
  not be published, or came with a success; events come in order, however often the job is run.
- **Embeddings.** Every chunk that a query may meet can be compared with the query, until a PUT
  of the settings takes the provider or its dimension away or the version back, or two changes of the
  provider overwrite each other; a reindex leaves nothing behind.
- **Harness.** Whatever the model answers, a run stays within its budgets and ends.
- **Graph, Sources.** Views are whole whatever cycles the links have; an archive is stored whole or not
  at all.

The hazards behind these properties are listed, each at its line, in `PROJECT.json`.

## 2. Modules

```
DomainWork  <--implements--  Jobs  <-- MCJobs, JobsProofs (with the proof of "implements")
Articles  <-- MCArticles, ArticlesProofs
   ^
QueryCache (EXTENDS Articles)  <-- MCQueryCache, QueryCacheProofs (EXTENDS ArticlesProofs)

Accounts, Login      <-- AccessProofs       Chat, Harness        <-- AnswerProofs
Progress, Graph      <-- ViewProofs         Embeddings, Sources  <-- StoreProofs
Accounts, Login, Chat, Progress, Embeddings, Harness, Graph, Sources  <-- MCServices
MCServices and the four proof modules above it  <-- ServicesProofs
```

`Jobs` justifies the one thing `Articles` assumes of it: jobs of one domain take turns (`turn`).

### DomainWork and Jobs

`DomainWork` is the promise, without queue, processes, locks or time: jobs of a domain take turns, a
turn lands its writes in one step or not at all, a job is called succeeded only by a turn past its
landing and called off only by a turn that landed nothing.

`Jobs` is the implementation. State and code correspond as follows.

| Variable | Code |
|---|---|
| `status`, `cancelReq`, `hbAge` | columns `status`, `cancel_requested`, age of `heartbeat_at` (`db/models.py` Job) |
| `msg`, `tries` | the entry in arq's queue and its `job_try` (external) |
| `pc`, `runOn`, `runAge`, `todo` | the handler's await point, its worker, its age, the loop's items left |
| `staged`, `landed` | uncommitted and committed writes of the data session `data_s` |
| `held`, `lockAge` | the Redis keys of `jobs/locks.py` and their age against `EX` |
| `doomed`, `reconciled` | history: a cancel was asked for before the run; `reconcile_stuck` failed the row |

An action is the code between two awaits at which another process can see or change something. One
program counter serves all six handlers, since they share their shape:

`start -> begin -> trace -> setup [-> vision -> ocr] -> model -> (poll, work)* -> leave -> commit ->
finish -> release -> exit`, with `failing` and `cancelling` for the `except` blocks and `release`
for `domain_lock`'s `finally`. `lint` and `graph_rebuild` skip the model lock; `reindex` and
`graph_rebuild` poll after the work and not before it; `lint` commits nothing. Every await may also
be interrupted: by arq's job timeout, a graceful shutdown or a killed process. A cancelled
coroutine runs its `finally` blocks, and each DELETE of these may or may not reach Redis; a killed
process runs none.

### Articles

Transactions of requests (`create`, `update`, `rollback`) and jobs (`ingest`, `fix`, `format`) over
the rows of one domain. `mem` is SQLAlchemy's identity map: a later SELECT returns the session's own
object and does not refresh it, which is what turns `format_articles`' list into the expected
revision of its whole loop. `lock` are the row locks that an UPDATE or INSERT takes to the
transaction's end; `Taken` are the two unique constraints. A revision carries `base`, which the
database does not store: the revision its writer had before it.

### QueryCache

Queries are transactions too. A miss holds one transaction from its lookup to its store, through
retrieval and the model call, because the request's session is one and nothing commits in between;
it keeps ACCESS SHARE on `query_cache` and, once it has searched, on `chunks`. Every store begins
with `ALTER TABLE query_cache ... ADD COLUMN IF NOT EXISTS`, every ingest's stage E with the same on
`chunks`: PostgreSQL takes ACCESS EXCLUSIVE before it looks whether the column is there. `WaitsFor`
is the resulting waits-for relation, and a newcomer queues behind a waiter for ACCESS EXCLUSIVE.
`VictimQuery` and `VictimSweep` are the deadlock detector; that it picks a job instead is one of the
ways of `Fail`. `Deadlocked` looks for cycles of two or three transactions, and with up to two runs of
gc there are no longer ones: only one job is under way in a domain, a request never waits while it holds
a row, and a chain of queries that store can be shortened, as each of them waits for every query that
holds `query_cache`.

gc's sweep is a transaction too (`Sweeps`): `BeginSweep` is what its DELETE finds expired (`due`),
`SweepRow` each row it reaches, in any order and only when nobody else has it locked, `gone` the rows
that it has deleted and keeps locked to its one commit (`CommitSweep`). A job's UPDATE marks its entries
one by one in the same way (`MarkEntry`, and `MarkCache` when it is through), so that each may hold what
the other asks for.

An entry is abstracted to `made` (the newest revisions that its text can come from; not in the
database), `rec` (`query_cache_articles.rev`) and `stale`. A lookup with ANN similarity may hit any
entry when there is no exact one.

### Accounts

A request is one transaction from `current_user` to its commit: `actor`, `target` and `to` are what it
was asked, `step` its next statement, in the code's order (`set_role` updates before it audits,
`delete` audits before it deletes). `Blockers` are the row locks of PostgreSQL: an UPDATE, a DELETE,
and the foreign keys of `audit_log` and `api_keys`, which lock the row of the user they name.
`ReadTarget` finds the actor's own row in the session even if it is gone from the table. `raced` is
history: the requests during which another one committed a change of users.

### Login

One action per Redis call of `POST /auth/login`: the check of the e-mail's lock and that of the
address's, the two hits of the sliding-window limit, the password, the script that counts failures and
sets the lock, the DELs of a success, the session, the audit row. A key with a time to live is its end
on a clock; the sorted set of a limit has one too (`hitEnd`), which each hit moves on. The time of a hit
is the client's and may be old when Redis takes it; `WithHit` is what the set is then. Two variables are
history: `inside`, the attempts that were past the check when a lock was set, and `passed`, the hits that
were let through, with both times.

### Chat

A turn's transaction begins before it reads the history and commits after the model has answered, which
changes nothing and is the end of the step `model`;
PostgreSQL's `now()` is the time at which it began, which is what `created_at` and `last_active_at`
get. `gc_housekeeping` lists the sessions, deletes by id, and commits after its sweep of the cache;
`listing` is the list in its hands. `Inserted`, `Titled` and `Pruned` are the row locks between them.

### Progress

The task commits an entry or a verdict and then publishes it; a stream reads the row, then subscribes,
then follows. Redis keeps nothing: `Deliver` reaches those who are subscribed at that moment. A success
appends entries with its status that are never published: one, or two of a lint (`lint`), which reports
nothing before. If the worker dies before arq has noted the result the job is delivered again, even after
its end: the status is running again (`RunAgain`), or failed as the domain is busy (`FindBusy`). Two
variables are history: `untold`, what a stream cannot have heard, and `silent`, the entries of successes.

### Embeddings

`conf` is the settings row, read, changed and written whole; `column` the dimension of the vector
column; a chunk has the version under which it was written and the model of its vector. A transaction
has the settings that it has read in its hands (`model`, `version`, `seen`), and `Awaited` are the locks
on the settings row, on `chunks` and on `query_cache` that the DDL, the searches and the stores take.
`PutSettings` stores any provider and version, or none, in one statement, as PUT `/settings` takes any
body. `disturbed` is history: such a PUT has taken the provider away, or its dimension, or the version
back, or `update_provider` has overwritten settings, or acted on a dimension, that it had not read.

### Harness

`run_loop` with `Budget`, `_execute` and `run_tool`, and `coerce_structured`. The model is the
environment: any calls, any number of them, any tokens, or a failure. `LimitExceeded` of the tokens
leaves the loop; that of a tool call or a write is an error message for the model, and the counter has
been raised nevertheless. `asked`, `spent`, `ran` and `wrote` are history.

### Graph

Jobs add articles and links; `build_subgraph` and `build_tree` are machines that take one round, or
one call of `attach`, at a time, over what they have read. The tree lists the articles in one snapshot
and the links in a later one. The definitions they are checked against are in the properties: walks of
at most that length, and sets of articles closed under the links to children.

### Sources

One file or an archive, whose files are inserted in one transaction and then taken in one by one, each
by a job of its own. A document is its checksum; `Waits` is the wait for the transaction that has
inserted the same checksum. `sent` is history: what the request had to store.

### MCServices

These eight share no state, so an instance of all of them at once would only multiply their states.
`focus` says which one runs; the others stay as they begin. So one run checks each of them by itself,
with all of its properties. `ComponentsKeepApart` proves that this is no more than that: what
`ServicesSpec` does is, for each component, what its own specification allows.

## 3. Runs

| Run | Kind | States | Question and answer |
|---|---|---|---|
| `jobs_domain` | pass | 1.1M | Two jobs of one domain, two deliveries each, cancels, timeouts, shutdowns and crashes anywhere. Locks are held by those who think they hold them; verdict and data agree; the handlers implement `DomainWork`. |
| `jobs_model` | pass | 186k | A format and a reindex of two domains share a chat model: the model lock excludes; a cancel is seen by loops of either polling order. |
| `jobs_live` | pass | 14k | One image ingest (all three locks) on two workers: keys come free, entries are disposed of, restarts fail stuck rows. |
| `jobs_terminal` | violation | | A verdict is overwritten after a redelivery or a reconciliation. |
| `jobs_stuck` | violation | | A run that arq cancels leaves its row running while the worker stays up. |
| `articles` | pass | 241k | A create, an update, a rollback, an ingest, a fix and a format on two articles: chains, no lost update, no circular wait, and only overtaken writers are refused. |
| `cache` | pass | 390k | Two ingests, a fix and an edit beside two queries and two runs of gc: jobs' writes invalidate; a job that has marked is in a deadlock with a run of gc only. |
| `cache_live` | pass | 51k | The same without the edit and with one run of gc, under fairness: queries, writers and gc end. |
| `cache_stale` | violation | | A fix commits between a query's search and its store: the old answer is stored as fresh at the new revision. |
| `cache_victim` | violation | | Two misses at a time deadlock on their ALTER TABLE; one is aborted after its model call. |
| `services` | pass | 449k | Each component of `MCServices` by itself: two requests of the accounts, three sign-ins, three turns beside gc, a stream of a job that may be run again, two transactions about vectors with two changes of the settings, be they updates of the provider or PUTs, any model of four calls, three linked articles, two uploads of up to three files. |
| `services_live` | pass | 114k | The same with fewer of each, under fairness: whatever is begun ends (a sign-in waits for nothing and has no loop; it is left out). |

Deadlock checking is off in every run: jobs, requests and queries are finite in number and nobody has
to come, so a state in which all have ended is a legitimate end. What must end is stated as liveness.

Each property of a passing run has a mutant in `PROJECT.json`: a small fault in one definition (an
operator named after it, marked `Fault:` in the module) under which that very run finds the property
violated. So the instances are large enough for each property to fail.

## 4. Bounds

| Bound | Where | Why it is enough |
|---|---|---|
| `MaxTries` 1 or 2 (arq: 5) | Jobs | the second delivery is the one that meets the first's rows, keys and data; a third meets the same kinds |
| `StaleAfter`, `JobTimeout` 1, TTLs 2 ticks (120 s, 300 s, 3600 s and 600 s) | Jobs | only the order of these limits matters; `TimeoutAssumption` states it, and the proofs are for all values |
| `IngestStages` 1 or 2, `MaxItems` 1 | Jobs | a poll before and after a write; the loop over no item is included |
| two jobs, one or two domains, one or two workers | Jobs | the locks' properties are about pairs (proved for any number) |
| `MaxFixes` 2 (articles), 1 (cache) | Articles | two issues of one fix may be of the same article, or of two in either order |
| two slugs, one writer of each kind | Articles | a circle of waits needs two rows; every pair of kinds meets (proved for any number) |
| one slug, two queries, two questions, two runs of gc (one under fairness, none in the violations) | QueryCache | a cycle needs two queries, or two and an ingest, or a job and a run of gc with two entries; two runs of gc meet each other's deleted rows; an article must exist before the ingest that marks it, so there are two ingests (the safety properties are proved for any number) |
| two users, two requests | Accounts | a race needs two; a third user would be an actor of no other kind (proved for any number) |
| three attempts, one e-mail, `Limit` 1, `Threshold` 1, windows and lock 1 tick, `MaxClock` 1 | Login | the second attempt is one too many and the third comes late; one failure sets the lock while others are inside; the tick opens a new window and ends a lock (proved for all values) |
| three turns, two sessions, `Depth`, `MaxSessions`, `MaxAge` 1, `MaxHour` 4 | Chat | a turn that sees one of two earlier ones; a session that is pruned by number, one by age, and one that gets a turn after the list (proved for any number) |
| one stream, `MaxEntries` 3, `MaxRuns` 2 (runs after the first) | Progress | streams write nothing that another reads; an entry before, one between and the end after a subscription; a lint's two; runs after a success, a death or a lost end (proved for any number) |
| two models of different dimension, two chunks, `BatchSize` 2, two transactions, `MaxChanges` 2, `MaxVersion` 2 (of a PUT) | Embeddings | a batch that is full and one that is not; a bump, and one that is lost to an update at the same time; a PUT between any two steps; every pair of transactions (proved for any number, and any batch) |
| four calls, one not listed, `MaxSteps` 3, `MaxToolCalls` 2, `MaxWrites` 1, `TokenBudget` 2, `Retries` 2, answers of up to 2 calls and 1 token | Harness | every budget can be used up, and before each of the others (proved for all values) |
| three articles, `MaxDepth` 2, one link type that both settings know, one that only one of them knows | Graph | a cycle with a tail; an article beyond the depth (proved for any links and any depth) |
| three documents, one of them not accepted, two uploads, `MaxFiles` 3 | Sources | two archives with the same documents in either order; a document twice in one archive (proved for any number) |

`services_live` has one attempt, two turns, two streams, one entry (so no lint succeeds there), one
chunk, one change of the settings, two articles and archives of two files: still two of whatever can
wait for another, but for two updates of the provider.

Symmetry sets, in the runs without liveness only: the slugs of `MCArticles`; in `services` the attempts,
turns and articles (one set) and the users, requests, transactions, sessions and uploads
(another); in `cache` the two ingests, the two runs of gc, and the two queries together with their
questions. No action or property tells their members apart.

## 5. Fairness

`Jobs!Fairness`: weak fairness of each job's own steps (API process, arq, handler) and of time.
Nobody has to create or cancel a job, start, stop or crash a worker. A worker that is up executes
its coroutines; every await of a handler ends, since the provider's client has a timeout
(`request_timeout_s`, `providers/config.py:39`) and arq cancels what lasts longer. The two
properties about workers state their own condition: `EntriesAreDisposed` if from some time on a
worker is up, `RestartsFreeStuckRows` if workers are started again and again.

`QueryCache!CacheFairSpec`: weak fairness of each query that is under way, of each writer that is
under way, of each run of gc that has begun its sweep, and of the deadlock detector
(`deadlock_timeout`, which is on in PostgreSQL by default).
Weak fairness is enough for the locks: a waiter for ACCESS EXCLUSIVE makes newcomers queue behind it,
so those it waits for get fewer. A user who has a page open does not have to save, and nobody has to
ask or to start gc; `Fail`, `FailSweep` and `Abandon` may but need not happen.

`MCServices!ServicesFairSpec`: weak fairness of each turn, stream and upload that is under way, of
gc, of a publication, of the agent loop and of a view: they are code that runs, and what they wait for
ends by itself. Strong fairness of each transaction of `Accounts` and `Embeddings`: these wait for
locks whose holders change, and the modules do not have PostgreSQL's queue of a lock; strong fairness
is what the queue gives, that a waiter is not passed over for ever. Nobody has to begin a request, to
PUT the settings or to deliver a job again.

## 6. Proofs

No proof takes anything on trust but the assumptions on constants that the modules declare:
`TimeoutAssumption` (a run never outlives a key's EX, as 300 s is less than 600 s and 3600 s), and one of
each module that says what its constants are: `JobsAssumption`, `ArticlesAssumption`,
`QueryCacheAssumption`, `AccountsAssumption` (finitely many users), `LoginAssumption` (limits and times are
positive, an address is no e-mail), `ChatAssumption` (natural numbers; the clock has begun),
`ProgressAssumption` (at least one entry), `EmbeddingsAssumption` (finitely many chunks, positive dimensions
and batch size), `HarnessAssumption`, `GraphAssumption` (a depth; two marks that are no articles),
`SourcesAssumption`.

| Theorem | Module | States |
|---|---|---|
| `TypeCorrect` | JobsProofs | `Jobs!Spec => []TypeOK` |
| `LocksExclude`, `HoldersHaveKeys` | JobsProofs | `Jobs!Spec => []KeyExclusion`, `[]HolderHasKey` |
| `PartialWorkNeverLands`, `SuccessIsLanded` | JobsProofs | `Jobs!Spec => []AbortedLandsNothing`, `[]SucceededLanded` |
| `CancelStopsRun`, `VerdictsChangeOnRetry` | JobsProofs | `Jobs!Spec => []CancelBeforeBeginStops`, `VerdictChangesOnlyOnRetry` |
| `JobsImplementDomainWork` | JobsProofs | `Jobs!Spec => ImplementsDomainWork`: every step is a step or a stutter of `DomainWork` |
| `ArticlesTyped`, `HistoryIsAChain`, `NothingIsLost`, `NoRowDeadlock` | ArticlesProofs | `Spec => []` of `TypeOK`, `RevisionsFormAChain`, `NoLostUpdate`, `NoCircularWait` |
| `ConflictsWereOvertaken` | ArticlesProofs | `Spec => ConflictMeansOvertaken` |
| `ArticlesBesideCache` | QueryCacheProofs | `CacheSpec => Spec`: every step of the composition is a step or a stutter of `Articles` |
| `CacheTyped`, `MarkerDeadlocks`, `JobWritesInvalidate` | QueryCacheProofs | `CacheSpec => []` of `CacheTypeOK`, `MarkersMeetOnlySweeps`, `FreshSinceJobWrites` |
| `AccountsTyped`, `LastAdminNeedsRace`, `SetupsExclude`, `ActorsStay` | AccessProofs | `AccountsSpec => []AccountsTypeOK`, `AdminsLostOnlyByRace`, `SecondSetupSawFirst`, `ActorOutlivesRequest` |
| `LoginTyped`, `LimitHolds`, `LocksEndFromInside` | AccessProofs | `LoginSpec => []LoginTypeOK`, `[]TriesWithinLimit`, `LockEndsOnlyFromInside` |
| `ChatTyped`, `PromptsHaveEarlier`, `ActiveSessionsSurvive`, `SerialTurnsKeepSession` | AnswerProofs | `ChatSpec => []ChatTypeOK`, `[]PromptHasEarlierTurns`, `ActiveSessionSurvives`, `SerialTurnKeepsSession` |
| `HarnessTyped`, `BudgetBounds` | AnswerProofs | `HarnessSpec => []` of `HarnessTypeOK`, `BudgetBoundsRun` |
| `RunsGetShorter` | AnswerProofs | `HarnessSpec => [][ComesCloser]_harnessVars` |
| `ProgressTyped`, `StreamsInOrder`, `StreamsMissOnlyUntold` | ViewProofs | `ProgressSpec => []` of `ProgressTypeOK`, `StreamInOrder`, `StreamMissesOnlyUntold` |
| `GraphTyped`, `ViewsWholeAlways` | ViewProofs | `GraphSpec => []` of `GraphTypeOK`, `ViewsAreWhole` |
| `ViewsGetShorter` | ViewProofs | `GraphSpec => [][ViewComesCloser]_graphVars` |
| `EmbeddingsTyped`, `VectorsFit`, `ReindexCovers` | StoreProofs | `EmbSpec => []` of `EmbTypeOK`, `VisibleVectorsFit`; `ReindexLeavesNoneStale` |
| `SourcesTyped`, `ArchivesWhole` | StoreProofs | `SourcesSpec => []` of `SourcesTypeOK`, `ArchiveStoredWhole` |
| `ComponentsKeepApart`, `ServicesTyped` | ServicesProofs | `ServicesSpec` implies the specification of each of its eight components; `[]ServicesTypeOK` |

`LoginHolds`, `ChatHolds`, `ProgressHolds` and `GraphHolds` state the inductive invariants that the
theorems of these modules are read off.

**TypeCorrect.** `TypeOK` is not inductive: `todo` must not be decremented at 0, and `landed` must
not pass `MaxTries`. `LoopInv` (where a run takes an item there is one left) and `TriesInv` (a live
run has taken its entry, and a job whose run can still land has landed less often than it was
delivered) make it so.

**LocksExclude, HoldersHaveKeys.** The keys carry no owner and expire, so exclusion alone is not inductive:
a DELETE could remove somebody else's key. `LockInv` adds `HolderHasKey` (a run inside a body still has the
key) and `AgeInv` (the key is not older than the run that set it). With `TimeoutAssumption`, a key that a
live run holds has not expired; so SET NX fails for others, and the DELETE in a `finally` is of the run's
own key. `OneRunStep`, `TakeKey`, `DropKeys`, `KeepKeys` and `RunsEnd` are the shapes that all actions
reduce to.

**PartialWorkNeverLands, SuccessIsLanded.** What the row says and what the data says are written by
two transactions, so neither property is inductive. `OutcomeInv` says what a run in the middle can
count on: while it can still land, its row is `running`, or `failed` by a reconciliation (so a verdict
it finds is not one of its own); a row that its own run called off belongs to a job that landed less
often than it was delivered; and an ingest has something staged by the end of its loop, hence has
landed when it is at the last status.

**CancelStopsRun.** Polls are in the middle of a run, so the property, which speaks of its end, has to
be carried there: until a run's loop nothing is staged; a doomed run that works polls only afterwards;
and past the loop it has staged nothing unless it rebuilds a graph (`Doom`). What the loops of the kinds
have in common and in what they differ is `LoopShape` and `AfterLoopShape`.

**VerdictsChangeOnRetry.** `VerdictInv`: before its first delivery a job is queued and nobody runs it,
and the first delivery finds it queued still. So whoever meets a verdict is a later delivery, or comes
after `reconcile_stuck`; and that a run's own two writes of the row are not two verdicts follows from
`OutcomeInv`.

**JobsImplementDomainWork.** A turn is the body of `domain_lock` (`inside`); it is `fresh` until its
data commits or its handler gives up. `TakeDomain` is `Enter`, and the guard of `Enter` follows from
`HolderHasKey`: a job inside would hold the key that SET NX found free. `Begin` is `Reopen`,
`CommitData` is `Land`, the end of lint's loop is `Land` of nothing, `Succeed` is `CallSucceeded`,
`Abort` is `CallOff`, `DomainBusy` and `Startup` are `CallFailed` from outside, and every end of runs
(timeout, shutdown, crash) is `Leave`. All other steps stutter.

**Articles.** `ArticlesInv` says of what is not yet committed: the pending revisions of an article
belong to the holder of its row and number on from the committed ones (`PendingInv`); an object of a
session is never ahead of the table unless its row is locked (`SessionInv`); and a writer about to
write has in hand the revision that its object remembers (`HandInv`). `HistoryInv` is the chain, row
by row. So a writer that was overtaken numbers its revision with a number that is taken: the unique
constraint does what the comparison with `expected_rev` cannot (`NothingIsLost`), and it refuses nobody
else (`ConflictsWereOvertaken`). `NoRowDeadlock` uses `TurnInv`: whoever holds a row and is about to
write another is the job whose turn it is.

**QueryCache.** `ArticlesBesideCache` gives all of the above for the composition. `OriginInv` says
which revisions come from jobs, `LocksInv` who can hold which table lock in which phase, and
`MarksInv` that a job has updated every entry that cites an article it wrote, but for the article it
is at. No entry can be stored in between, because the store's ALTER TABLE waits for the marker; so
at the job's commit the entries become stale together with the revision. `FreshSinceJobWrites` is
inductive together with `MarksInv` and `OriginInv`. `MarkerDeadlocks` follows from `LocksInv`
and `TurnInv`: a job that has marked has every table lock that it needs, so it waits for rows only. The
row of an article is a request's, which waits for nobody; the row of an entry is a run of gc's, and of
those whom runs of gc wait for only the marker itself is no run of gc.

**Accounts.** `AccountsInv` adds to the types that users come with the settings row, and which field a
request has at which step (`BegunInv`); that at most one setup has written the settings row and not
committed, and that there was none, or it saw it (`SetupInv`); that the actor of a request past its audit
row is there, because the reference locks the row against a deletion (`ActorInv`); and that a request past
its count which nobody raced has an administrator beside its target (`RaceInv`). The three action properties
are read off it at the commit.

**Login.** `PassInv`: a hit that was let through is in the sorted set as long as its window lasts, since
the key lives for a window after the last hit and only older scores are dropped; and it is the only one
of its attempt. So the hits of a window that ends at a given moment are all among those that the script
counts when it takes the last of them, and `RateInv` bounds their number for every such moment.
`GuardInv` says of each attempt past a check that it is `inside` the lock that was set since, which gives
`LocksEndFromInside` at the DEL.

**Chat.** Of turns that began at different moments, the window keeps the newest (`WindowIsLatest`), and
`BeginInv` orders the moments. `TurnInv` says at which step a turn can have what in its hands, that a turn
gives the title only if no earlier one was committed; `RowInv` that a session was last active in the past,
and for a turn which has seen all its session, not after it began; `GcInv` that what the list names is
still so, but for sessions that are revived, and that nothing can be inserted under a row that is deleted
and not committed. The two action properties are read off at the commits.

**Progress.** `OrderInv`: what a stream has sent and has in its queue increases up to the first end, from
its replay on, and does not have the event that is to be published; after an end it sends nothing, so a
run that is delivered again cannot spoil the order of what was heard. `MissInv` is the property for a
stream that has not subscribed yet as well: between its reading of the row and its subscription every
publication is one that it is not told of, and an entry that nobody publishes is `silent`.

**Graph.** The definitions speak of walks and of closed sets, the algorithms of frontiers and of a stack.
`SearchInv`: what is visited is what walks of as many links as there were rounds reach, and whoever is
not in the frontier has its neighbours visited. If the frontier is empty before the depth is reached, an
induction over the length of a walk shows that no longer one leaves what is visited. The induction is
by a least counterexample (`LeastOf`, from the well-foundedness of `<`), because the provers cannot
instantiate an induction rule. `PlaceInv`: whoever has a place has it below one that was placed before,
stated without an order (no set of placed articles has all their places in itself), and whoever is off the
stack has all children placed. Hence when a child is put at the top no root is above it (`TopInv`): the
places are closed under children by then. `ViewsGetShorter` is the half of `EverythingEnds` that needs no
fairness, for every set of links: a view goes forward in an order with no endless descent (rounds left;
articles without a place, then calls of attach). A job's write may come between the list of a tree and
its pairs; it is no step of the view and is left out.

**Embeddings.** Whoever has rebuilt or ensured the column has `chunks` to itself until it commits
(`OwnersInv`), so a vector always has the dimension of the column (`VectorInv`), and what a reindex has
embedded still fits at its commit (`BatchInv`). Until a PUT or an overlapping change has `disturbed` the
settings, no version of a chunk or a transaction is ahead of them, and as long as there is no column all who
are under way embed in their dimension (`ConfInv`); so after a bump no chunk has the new version. For
`ReindexCovers`, `PlanInv` says that the batches left still cover what is stale, as the column and the rows
cannot change under a reindex; the arithmetic of `plan_batches` is a lemma for every batch size.

**Harness.** `HarnessInv` ties each history variable to the counter that bounds it: calls of the model to
`steps` or to the passes (`AskedInv`), tokens to the counter as long as the loop goes on, which it does
only after an answer that found the budget not used up (`TokensInv`), and what was run to `toolCalls`,
`writes` and the signatures seen (`ToolsInv`). `RunsGetShorter` is again the half of `EverythingEnds`
that needs no fairness: steps of the loop, or passes, then the phase, then the calls left.

**Sources.** `SentInv`: what an upload has inserted and what it has left make up what was sent, but for
files that are not accepted. `ApartInv`: what a transaction holds is neither stored nor held by another. So
a commit overwrites nobody's source.

**MCServices.** A step of `ServicesNext` is one of the component in focus, and the others stutter
(`StepsAreApart`).

Out of the prover's reach, and left to TLC: liveness under fairness and ENABLED, that is `KeysComeFree`,
`EntriesAreDisposed`, `RestartsFreeStuckRows`, `EverythingEnds` and the liveness of `cache_live`. The
violated properties (`VerdictIsFinal` and the other three) are of course not theorems. All other
properties of the runs are proved.

## 7. What the work has shown

- **The locks hold**, but only because the job timeout is shorter than every EX: nothing in
  `jobs/locks.py` compares owners. Whoever raises arq's timeout past 600 s may lose exclusion.
- **A terminal status is not terminal** (`jobs_terminal`): `set_status` writes over anything.
- **Heartbeats do not end a stuck row by themselves** (`jobs_stuck`): only a worker's start does.
- **The unique (article_id, rev_no) carries the whole burden of concurrent edits.** `expected_rev` is
  compared in Python and written later; without the constraint two saves that both passed the
  comparison would both land (mutant `TakenNever`).
- **`domain_lock` is what keeps PostgreSQL's row locks free of deadlock**: fix and format take rows in
  unrelated orders (mutant `BeginJobAnyway`).
- **The ALTER TABLE in every store is what makes invalidation sound, and what deadlocks.** Marking
  sees committed entries only. Without the table lock a store could slip in between a job's mark and
  its commit, and the entry would stay fresh (mutant `StoreUnfenced`). With it, two misses at a time
  deadlock (`cache_victim`). A repair that only moves the DDL to startup, where
  `src/docs/wiki/db.md:84` says it is, would open the first hole.
- **An ingest cannot overtake a query that has searched**, since its ALTER TABLE waits for it; a fix
  or a format can, and then an old answer is stored as fresh (`cache_stale`). Recording the revision
  at the search would show it.
- **An ingest embeds before it marks.** Were the marks first, a query that has searched could wait
  for the marks while the ingest waits for the query, and PostgreSQL might abort the ingest after its
  model calls (mutant `MarkingFirst`). Before its marks an ingest can still be in a cycle of three
  (a store, a search that queues behind the ingest, the ingest), and be the victim.
- **gc can abort a fix, and a fix gc.** The sweep deletes all expired answers of a domain with one statement
  and keeps their rows locked until every domain is swept (`jobs/tasks.py:277`), while a job marks item by
  item, and neither takes the rows in an agreed order (`db/repos/query_cache.py:151`, `:186`). So a job that
  has marked one expired answer and must mark another, which gc has deleted, is in a cycle with gc, and
  PostgreSQL may pick the job, after its model calls. A commit after each domain narrows this, a sweep that
  skips locked rows (or takes the domain's lock) removes it. Nobody else can do that to a job that has
  marked (`MarkersMeetOnlySweeps`).
- **Users' edits mark nothing** (`services/articles.py:98`, `:120`): only jobs invalidate. The
  invariant is therefore about jobs' writes; `src/README.md:66-68` promises more.
- **The last administrator can go, but only by overlapping requests.** `count_admins` locks nothing:
  two demotions at a time both count two (`services/users.py:55`). `AdminsLostOnlyByRace` says exactly
  when.
- **A second setup is excluded by the primary key of the settings row**, not by `needs_setup`
  (`services/setup.py:33`): a setup which did not see the row inserts it and is refused. One that has
  passed `needs_setup` before the first setup committed, and looks for the row after it, commits, and
  there are two administrators.
- **The audit row keeps the actor alive** (mutant `AuditUnchecked`): its foreign key locks the row of a
  user who acts, and refuses one who is gone. Two administrators who delete each other deadlock on it,
  and one is told so.
- **A lock of the login can be lifted early**, by an attempt that passed the check before it was set and
  has the right password; not otherwise. A hit over the limit stays in the window and counts.
- **The limit of the sign-ins is that of the client's clock** (`security/ratelimit.py:40`). A hit that
  Redis takes after the window it was timed in may be let through beside others of that window, as these
  are dropped or expired by then; of hits timed and taken within a window there are never too many. A
  first form of `TriesWithinLimit` without the time of arrival held on the small instance and fell when
  its proof was attempted.
- **gc deletes what it listed** (`jobs/tasks.py:266`): a session that gets a turn between the list and
  the delete goes, with that turn. Overlapping turns of one session may move `last_active_at` back and
  give the title twice.
- **A stream may stay open for ever**: it subscribes after it has read the row (`jobs/progress.py:37`),
  a failed publication is not repeated, and `reconcile_stuck` publishes nothing. The log entries that
  come with a success (one; of a lint two, its issues and its end, `jobs/tasks.py:654-660`) are never
  published; they show on the next replay only. A job that is delivered again after its end runs again,
  and adds to its log; the streams that sent the first end have closed.
- **Writers of the settings lose each other's changes** (`services/provider_settings.py:186`), the version's
  bump among them; then chunks of another dimension may carry the current version, and queries fail. One
  administrator is enough for that: PUT `/settings` (`api/routers/settings.py:23`) stores any body, without
  a rebuild and without a bump, so an edited `embedding_dim` or a dropped `embedding` (which puts the
  version back to 1) has the same effect. A change to a model of the same dimension is not bumped at all,
  though `providers/config.py:85` names the model too: old vectors are compared with new ones. New chunks
  are written with version 1 (`vector/embed.py:19`), hence are invisible after a bump until a reindex, which
  does find them all.
- **The token budget is overrun by up to two answers**: it is compared before an answer's tokens are
  added (`harness/limits.py:51`), and the answer that finds it used up was paid for. It also leaves
  `run_loop` as an exception, where `src/docs/wiki/harness.md:41` says that the loop makes a clean early
  return of every `LimitExceeded`. In the code, as in the model, only the limit of steps is returned
  (`harness/loop.py:41-46`); those of tool calls and writes become the result of a call. Only tests call
  `run_loop`; the pipeline uses `coerce_structured`, which is bounded by its retries alone.
- **Two settings name link types and barely agree**: wiki settings (`related`, `prerequisite`, `part_of`,
  `see_also`) say what jobs write, graph settings (`related`, `parent`, `child`, `references`,
  `depends_on`) what GET `/graph` shows. A tree has levels only if the wiki's settings name `parent` or
  `child`. Whatever the cycles, no page is lost from the tree.
- **A duplicate fails a whole archive**, and nothing of it is kept. A broker that fails among its
  `start_ingest` leaves stored sources without a job; they cannot be uploaded again, but can be started
  one by one.

## 8. What is not modelled

Within the modelled parts: a database or Redis that is down for good; titles, citations, shared entities and
the AGE projection of links (best effort, in a savepoint); blobs (written in the transaction of their
source); similarity and ranking (real numbers); the cache's time to live as time (an entry may expire at any
moment), gc's sweep of other domains before and after this one's in the same transaction (they lengthen the
time its rows are locked), its suggestions, its `TRUNCATE` after a change of dimension, and the settings
form's ALTER TABLE of `query_cache` (the lock it takes is in `Embeddings`); other domains' traffic on the
two tables: `query_cache` and `chunks` are shared by all domains, so what waits here waits there too;
passwords, the language of a user, `last_used_at` of a key; the limit on `POST /setup` (the same
`RateLimiter` as in `Login`, of one address); the text that tools read and write; chunking, loaders and
prompts (text to text); Python's limit of recursion (`attach` in `graph/tree.py` calls itself, so a chain of
about a thousand parents raises RecursionError and there is no tree); the cache of query embeddings;
keep-alive frames; `upload_text` and `upload_url`, which have no callers.

Not planned, with the reason in `PROJECT.json`: HTTP routing, templates and the body limit, MCP (a layer
over the same services), metrics and traces (write only), the HTTP clients of the providers (network;
that a call may fail is in `Harness`).

## 9. Plan

Written in this order because the jobs decide what may run at the same time, the writers decide what
the cache has to follow, and the rest stands beside them.

1. `DomainWork`, `Jobs`, `JobsProofs`: done.
2. `Articles`, `ArticlesProofs`; `QueryCache`, `QueryCacheProofs`: done.
3. `Progress`, `Embeddings`, `Accounts`, `Login`, `Chat` (with gc), `Harness`, `Graph`, `Sources`, and
   their run in `MCServices`: done.
4. `AccessProofs`, `AnswerProofs`, `ViewProofs`, `StoreProofs`, `ServicesProofs`: done.
5. Worth stating and proving next: an abstract specification of the cache (an answer is fresh until a
   job's write of what it cites) that `QueryCache` implements; the half of the other liveness
   properties that needs no fairness, as `RunsGetShorter` and `ViewsGetShorter` have it for two of them.
6. Pure functions against reference definitions: `chunking` and `budget_by_score`.
