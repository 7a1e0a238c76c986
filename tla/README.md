# A verification project for ydb-qdrant

ydb-qdrant is two TypeScript programs over one YDB database:

* the **server** (`src/index.ts`, `routes/`, `services/`, `repositories/`, `ydb/`): a
  Qdrant-compatible API that keeps collections and points in YDB tables;
* the **code indexer** (`src/code-indexer/`): a GitHub App. Webhooks become jobs of a
  durable queue, a job indexes a repository into a collection of the same database through
  the server's own repositories layer, and an MCP endpoint searches it.

The TLA+ modules of this directory model the parts in which an order of events that nobody
tested can go wrong. Paths below are relative to the repository's `src/`.

## Inventory

| Component | State it keeps | Operations | Hard behaviour | What makes it correct |
|---|---|---|---|---|
| Durable queue, `code-indexer/stateStore.ts` `YdbIndexingQueue` | YDB: job rows (status, attempts, claim_id, repo_key, created_at), progress rows. Memory: worker slots, claim lock, `runningRepoKeys`, `drainRequested`, idle waiters | `enqueue`, `start`, `drain`, `claimNextPendingJob`, `processStoredJob`, `deleteRepositoryJobs`, retention | workers interleave at every await, several processes, crash between two statements, a claim executed twice, wake-ups | jobs of a repository never overlap, every job settles, attempts are bounded, progress rows tell the truth, a deletion ends and revives nothing |
| Full index, `code-indexer/repoIndexer.ts` `fullIndex`, `indexRepositoryRef`, `createEmbeddingBatcher` | the collection, the manifest; per run: next file, workers, `currentBatch`, `active` | drop and create, read, chunk, batch, embed, upsert, save manifest | file workers share the batcher across awaits, batches outlive the run | the manifest never promises chunks that were not written, no chunk twice, every run ends |
| Incremental, pull request and delete jobs, `repoIndexer.ts` | the collection by path, manifests with fingerprints, repository status | `incrementalPush`, `pullRequestUpdate`, `deleteRepoCollections` | retries of a half-done diff, renames and prefix deletion, `before` not being what is indexed | after any sequence of jobs the index is that of the manifest's commit |
| Progress, deliveries and manifests, `stateStore.ts` | three tables | `updateJobProgress`, `reserve`, `save` | one write lock per job, read-modify-write | status agrees with the job (modelled), counters never go back |
| In-memory queue, `queue.ts` | arrays and promises | as the durable one | one job at a time, delete during a run | the same ledger |
| Webhook intake, `webhooks.ts` | delivery ids, installation and repository rows | verify, reserve, map to jobs, enqueue, record, release | crash between reserve and enqueue, redelivery, status written after the job has started | no accepted delivery is lost, none runs twice |
| SaaS stores, dashboard API, access control | installations, users, tokens, quotas | CRUD, manual reindex, delete-my-data | deletion in many steps, each of which may fail, against webhooks | nothing of the user remains when the call has succeeded, and a failed call can be repeated |
| MCP search, `mcpHttp.ts`, `searchAdapter.ts`, `quota.ts` | daily usage row | search | rows read one after the other while access changes, a lost answer of the counter | a search reads only what its user may read, counts once, and no more than the limit |
| Chunker | none (pure) | split a file into windows | boundaries, zero-length, overlap | every line is in a chunk, chunks are bounded |
| Points, `repositories/pointsRepo*` | points table and by-file lookup table | upsert, delete by id, by filter, by path, search | two tables without a transaction | lookup and points agree, or the disagreement is harmless |
| Collections, `collectionsRepo*`, `CollectionService` | collection rows, last-access cache | create, delete in chunks, touch | check-then-act, deletion in two steps | a created collection has the configuration its creator was told |
| Driver and schema, `ydb/` | driver, session pool, refresh cooldown | `withSession`, retry, refresh, ensure tables | refresh against use, cooldown after failure | a broken driver is replaced |
| HTTP server, `middleware/upsert*` | two timers per upsert | answer or 503 | timer against answer | one answer per request |

The components interact in one direction: webhooks and the dashboard *call* `enqueue` and
`deleteRepositoryJobs`; the queue *calls back* the indexer's `processJob` and, when it gives
up, `reportFinalFailure`; the indexer calls the collections and points layer and writes
manifests and progress. Only the tables are shared between processes.

`PROJECT.json` lists every component with its status and every hazard at its line, with the
property that covers it or the reason why none does.

## Modules

| Module | What it is |
|---|---|
| `JobLedger` | abstract specification: the life of a job and the serialisation of a repository, without processes |
| `IndexingQueue` | the durable queue; implements `JobLedger` |
| `FullIndex` | successive full indexes of one repository, with their file workers and batches |
| `RepoIndex` | every job of one repository in the order of the queue, and what its collections hold afterwards |
| `Chunker` | how a file is cut into chunks |
| `Service` | webhooks, the tables of users, installations and repositories, sign-in, dashboard, delete-my-data |
| `CodeSearch` | a search over MCP or HTTP against changes of every row it reads |
| `Store` | collections and points: two tables, several clients, upsert timers |
| `MC<module>`, `*.cfg` | the TLC instances, see Runs |
| `IndexingQueueProofs`, `FullIndexProofs`, `RepoIndexProofs`, `RepoIndexHeadProofs`, `CodeSearchProofs`, `StoreProofs`, `ServiceProofs`, `ChunkerProofs` | theorems |

How they fit together. `IndexingQueue` promises that the jobs of a repository run one at a time,
in order, and again after a failure or crash (`JobLedger`, `RepoSerialized`, `JobsSettle`).
`RepoIndex` and `Service` rest on that promise and not on the queue's steps: `RepoIndex` has one
job at a time and repeats it from its start, `Service` has a queue per repository. `RepoIndex`
takes the file workers of a full index as one step per file, in any order, which is what
`FullIndex` shows about them; `Service` keeps of an index only whether its collection and its
manifest exist. What the indexer expects of a store (`deletePath` deletes what a search under
the path finds, a deleted collection holds nothing) is what `Store` is checked for. `Chunker`
gives what `RepoIndex` calls the chunks of a file, distinct and complete.

Operators marked *Mutant* in the modules are not part of the specifications: each is a
plausible bug, named in `PROJECT.json` together with the property that TLC finds violated
when it takes the place of the operator below it.

### IndexingQueue

One action per YDB statement, including the code up to the next await. The rows are
`jobs[j]` and `progress[j]`; `before` is the order of `created_at`. A worker slot is
`worker[p][w]`, whose `pc` names where it is:

| Steps | Code |
|---|---|
| `claim` | `claimNextPendingJob` inside `withClaimLock`: `SelectJob`, `SelectNextPage`, `SelectNone` |
| `mark`, `adopt` | `markJobRunning` sent; committed, with its answer to come |
| `start` ... `failed` | `processStoredJob`, a step for each statement and for each throw |
| `done`, `off` | the promise is resolved; its `finally` has run |

`deletion[p]` walks through the loop of `deleteRepositoryJobs`, `house[p]` through start-up
and retention. What is abstracted:

* The claim lock is a FIFO chain of promises; in the model any waiter may be next. This
  allows more orders for safety, and strong fairness of `ClaimNext` gives back what FIFO
  gives for liveness.
* A YDB call that throws during a claim or in the catch clause rejects a promise nobody
  handles (there is no handler in `index.ts` or `server.ts`), so the process ends: `Crash`.
* The sleep of the retry backoff belongs to `ReportRetry`, which releases the repository;
  `reportFinalFailure`, whose errors are swallowed, belongs to `ReportFailed`; the end of
  `processJob` belongs to `markJobCompleted`.
* A progress write that throws is one that did not commit. The statements of the retention
  cleanup are one step, as are the two inserts of `enqueue`, which share a transaction.
* A claim id is a fresh UUID per claim; `<<p, w>>` is as good, since a worker has one claim
  in flight and every settle clears it.
* Rows older than the `repo_key` column and table creation are left out.

### FullIndex

`phase[a]` is how far run `a` has come; `fileWorker[a][w]` where one of its
`forEachWithConcurrency` loops is; `batch[a]` and `active[a]` are `currentBatch` and `active`
of its batcher. A batch *is* its set of chunks, a chunk is `<<file, index>>`, a point a chunk
with its commit, as the point id hashes commit, path and index. A worker that waits keeps the
set it races on (`race`), `flush` the set it waits for (`awaited`). What is abstracted:

* A batch is full by its number of chunks; the limit on characters has the same shape.
* The progress write after a file or batch throws like the work before it, and so does the
  quota check after reading. Failing to fetch the configuration or the tree is a failure
  before the collection is dropped.
* The snapshot is closed when a run fails, so a read that comes later throws.
* An upsert looks up the collection and writes in one step; dropping a collection is two
  steps, points first, as in `collectionsRepo.storage.ts`.
* Nothing is retried within a run; a crash ends the run and the queue starts the next one.

### RepoIndex

One job of `RepoIndexer.processJob` after the other. `job` is the job that runs: `pc` is the call it
awaits, `req` what it was asked, `tries` its attempts, `todo` the files, changes or collections
still to do. `points[k]`, `exists` and `manifest[k]` are the default branch's collection and that
of a pull request; a point is `<<path, blob, fingerprint, index>>`, so that a wrong version, a
stale layout and a leftover can be told apart. `Push`, `PullRequestPush`, `Deliver`, `Lose`,
`Request` and `Deploy` are the world.

| Steps | Code |
|---|---|
| `begin` | `processJob`, `markIndexing` (`Start`) |
| `config`, `tree`, `reset`, `files` | `fullIndex` and `pullRequestIndex` (`LoadConfig` ... `IndexFile`) |
| `manifest`, `settings`, `compare`, `apply` | `incrementalPush` and its fall-backs to a full index (`GetManifest` ... `ApplyChange`) |
| `files` or `apply` with nothing left, `finish` | manifest (`SaveManifest`), `markReady` (`Finish`) |
| `list`, `drop`, `unlist`, `gone` | `deleteRepoCollections`, `markDeleted` |

* `StepThrows` is any call that throws; `HalfDone` is what the collection may hold then: some of the
  chunks of the files under way, or a path deleted and not indexed again.
* Paths are sequences of segments, and `Without` deletes by prefix as `deletePath` does. `Rank` is the
  order in which a comparison lists its files.
* A configuration is invalid or a pair of limits and excluded paths; a fingerprint is the build and
  the limits.
* `mishap` is a history variable: a push was lost or overtaken, a job of that collection was given up,
  a rename wiped a path, or the build was rolled back between two attempts of a push (`RolledBack`).
  The code does not notice any of these before the next full index, so the properties say what holds
  without them.

### Chunker

A line is a sequence of characters that know their place and whether they are blank, so that chunks
can be compared with the file. `NextLine` is one turn of the loop in `pushBoundedLineChunks`,
`EndWindow` the end of one in `chunkFileWithLineWindows`, `NextSection` and `NextNode` the loops over
sections and nodes. Tree-sitter is external: a file comes with any set of nodes that do not overlap, none if it
has a syntax error.

### Service

`hook[h]` is a webhook request, `login[u]`, `request[u]` and `erase[u]` the requests of a user,
`work[r]` the job of repository `r`, and each step is one call of a store. `markRepositoryStatus` is a
read and one or two writes for its callers alike, so it has steps of its own (`mark`). What is
abstracted: the signature of a webhook and the session cookie are checked without state; a job
indexes or drops its collection in one step and saves the manifest in the next; a job that throws has
been retried before. The history variables say why a property may not be expected: `failed` and
`lost` deliveries, `astray` repositories whose row was written out of order, `touched` users and
installations for which something was written while they were being erased.

### CodeSearch

`request[q]` goes through token, installations, repository, usage, embedding and points. The rows it
reads change under it by the statements of `saasStore.ts`, any of them at any time. The day changes too.
`held[q]` remembers what was true at some moment since the request arrived: the code reads one row
after the other, so nothing can be said of a single moment.

### Store

`slot[s]` is a request with the statement it is at. `points` and `lookup` are the two tables of one
collection, `meta` its row. `Executed` says that a statement may be executed although its answer is
lost, and is then executed again; `Rerun` that the callback of `withSession` starts from its first
batch; `Fail` that the error is final; `Crash` that the process dies. Chunks of a delete by paths run
in parallel (`DeleteChunk`), each until it finds no row. The body and processing timers of an upsert
may fire whenever they are armed. What is abstracted: vectors are their dimension, payloads their
path; distances, scores and signatures are left out, as are the statements that only read
(retrieval, `getCollection`) or only write a time stamp (`touchCollectionLastAccess`).
History: `raced`, `clash` and `was` name what two requests at once can do to each other, `due` what an
answer speaks for.

## Runs

| Run | Asks | Instance |
|---|---|---|
| `queue_live` | Do jobs settle, within `maxAttempts`, with truthful progress rows and no lost wake-up? | 1 process, 2 workers, 3 jobs of 2 repositories, jobs and both kinds of writes may throw, 2 calls of enqueue |
| `queue_crash` | Do the tables implement `JobLedger`, with one running row of a repository? | 2 processes of 1 worker, 2 jobs of one repository, a crash, lost replies, stale rows, retention |
| `queue_delete` | Does `deleteRepositoryJobs` end, and leave locks and rows sound? | 1 process, 2 workers, 2 jobs of the repository, failing jobs, enqueue that throws after its commit |
| `full_index` | Is every chunk of a finished run written once, and does every run end? | 2 runs, 2 file workers, files of 3, 2 and 0 chunks, batches of 2, 2 concurrent batches, failing files and store, crash |
| `repo_index` | Is the index the tree its manifest names, for the branch and a pull request, and does the row tell the truth? | 7 commits (edit, file to directory, configuration changed, broken, too many chunks), 2 pushes, 1 other request or deployment, 2 errors, 2 attempts |
| `chunker` | Do chunks fit, keep all text and name their lines? | every file of 1 to 4 lines of 6 kinds, 4 sets of options, 4 chunkers |
| `service` | Is erased data gone, do rows settle, are deliveries neither lost nor doubled? | 1 installation, 1 repository, 2 users, 2 deliveries, 2 handlers, 2 actions, 1 failure or crash |
| `store` | Do lookup and points agree, are answers kept and given? | 10 requests to choose from, 3 in all and 2 at a time, 2 ids, 3 paths, 2 dimensions, 1 error or crash |
| `search` | Is a search confined to what its user may read, and counted exactly? | 1 user and token, 2 installations, 2 repositories, 2 names, 2 searches, 2 days, 1 change, 1 error |
| `lost_batch`, `rename_wipes`, `erase_retry` | counterexamples to what the docs or tests say; see below | the smallest instance that shows each |

Why the bounds are enough for what is asked.

* Queue. Two workers on one repository and one on another are what the claim lock,
  `runningRepoKeys` and the page scan distinguish; `ScanLimit = 1` makes every scan cross a page.
  `MaxAttempts = 2` has both a retry and a final failure. `MaxEnqueues` counts calls, of which two may
  name the same job, so a duplicate enqueue, one job after another and two jobs at once all occur.
  One crash leaves every kind of row behind and its successor can crash no more, which is what the
  ledger needs: it relates tables and live workers, not the number of crashes.
* Full index. Three, two and no chunks with batches of two give a batch that spans files, one filled
  from one file, a rest for `flush` and an empty file; two runs let work outlive its run. The proofs
  remove the bounds for the safety properties of these two modules.
* Repository. Two pushes make a difference that is not against the indexed commit when one is lost or
  its job fails; two errors make an attempt fail after another, or a job be given up; one more job
  before, between or after them covers a full index, a pull request and a deletion. The quotas are
  low enough for a commit to exceed them.
* Chunker. Lines that are empty, blank at the left, longer than a chunk, headings and fences, with
  windows of one to three lines, an overlap that is larger than the window, and chunks of two to four
  characters: every branch of the loop meets every other within four lines.
* Service. A delivery, another one or its redelivery, against a user's request and a second user who is
  linked as well; one failure at any call of any of them. Several repositories differ only in which
  of them a loop has reached when the failure comes, which one repository with two collections shows.
* Store. Two overlapping requests and a third before or after them; batches, limits and sweeps of one
  make each loop go round; two parallel chunks out of three make a second round.
* Search. `Limit = 1` with two searches has the last place taken twice; two repositories and names let a
  name move; one change between any two statements.

Fairness. Every await is answered (YDB, GitHub and embedding calls have timeouts) and every
job ends, so `Process`, `DeleteNext`, `HouseNext`, `EnqueueDrains`, `Work`, `RepoIndex`'s `Job` and the steps
of `Service`'s handlers, jobs and requests are weakly fair; `ClaimNext` is strongly fair because of
the FIFO lock; `Restart` stands for a supervisor. In `Store` only the timers are fair: nothing is
assumed of the database. No call is forced on the environment: `Enqueue`, `DeleteRequested`,
`Crash`, `RowAges`, `CleanupTimer`, `NextRun`, pushes, deliveries and users' requests have no fairness
of their own. `CHECK_DEADLOCK` is off because a bounded instance stops when the bounds are used up.

### What the counterexamples show

* `lost_batch` - a batch that rejects while nobody races on it or awaits it is removed from
  `active` with its error (`repoIndexer.ts:701`). The run succeeds, and its manifest lists
  files whose chunks are missing. A single file worker with `embeddingConcurrency` 1 is the
  only configuration in which somebody waits for every batch: with two workers even 1 is
  not enough, since one batch that ends wakes both.
* `rename_wipes` - when `cli` becomes `cli/args` and `cli/main`, and GitHub reports the second as a rename
  of `cli`, the deletion of the old path (`repoIndexer.ts:801`) removes everything under `cli`, also
  the file that was indexed before it. The push succeeds and the manifest lists both.
* `erase_retry` - the link is the first thing delete-my-data removes (`publicApi.ts:647`) and the only
  way it finds the installation. After a failure the user can only succeed in deleting nothing.

### Divergences found while modelling, without a run of their own

* After a crash and a restart within `runningJobTimeoutMs` the interrupted job stays `running` until
  another start-up (`stateStore.ts:2346`), though `docs/github-app-code-indexer.md:150` says that
  interrupted jobs are reset on startup.
* `resetRunningJobs` puts a job back whatever its attempts are (`stateStore.ts:2346`): one that ends its process
  at every attempt is tried for ever.
* The claim adds one to the attempts in the table (`stateStore.ts:2204`), the retry decision adds one to the
  attempts of the row as it was selected (`stateStore.ts:1889`). When a second process claims the job, fails and
  puts it back between the first one's `SELECT` and `UPDATE`, that count is one short and the job is tried once
  more than `maxAttempts`, though `docs/github-app-code-indexer.md:150` says that failed jobs are retried up to
  that number. TLC shows it when `AttemptsBounded` is added to `QueueCrash.cfg`.
* A claim that `markJobRunning` refuses ends the worker (`stateStore.ts:2139`): pending jobs of other
  repositories behind a row that is running elsewhere, or nowhere any more, wait.
* A job claimed between `hasRunningStoredRepositoryJob` and the answer of its claim is wiped and runs on
  after `deleteRepositoryJobs` has returned (`stateStore.ts:1670`; `stateStore.test.ts:1314` says it waits).
* File workers start a batch before they wait: more than `embeddingConcurrency` batches are active
  (`repoIndexer.ts:703`).
* A failed run does not wait for `active` (`repoIndexer.ts:639`): its points can land in the collection that
  the next job has created.
* A full index that fails after the reset leaves the manifest with its old fingerprint
  (`repoIndexer.ts:401`). When the build or the settings are rolled back, the fingerprints agree again and
  pushes are applied to the partial collection; between two attempts of one push even a single
  failure is enough. `RepoIndex` counts both as mishaps (`Throws`, `RolledBack`); the second was found by the
  proof of `IndexIsHead`, whose invariant a deployment did not keep.
* A Markdown preamble that begins with blank lines and is too long is trimmed before its lines are
  numbered (`chunker.ts:997`): its chunks name lines that are too early, though
  `docs/github-app-code-indexer.md:396` says that line numbers are preserved.
* Top-level syntax nodes of a type that is not listed are in no chunk (`chunker.ts:711`), as the
  repository intends; `NothingLost` asks only for the nodes.
* delete-my-data leaves the usage rows, though `docs/github-app-code-indexer.md:173` lists "audit/usage
  data"; the audit log is never written. The install-time callback without a state is not
  exchanged for a session (`server.ts:160`), though line 64 of the same file says that it is.

## Proofs

`IndexingQueueProofs`, for every set of processes, workers, jobs and repositories:

* `TypeCorrect`, then `OneRunning`, `DrainKept` and `Unresurrected` from it: each is inductive
  together with the types.
* `LockExclusive` from an invariant that ties `claimLock` to the worker that is in `mark` or
  `adopt` and `runningRepoKeys` to the workers between `adopt` and `Release`. The property alone
  is not inductive: `Adopt` adds a repository without looking, and only the selection under
  the lock says that it was free.
* `Serialized` and `LedgerImplemented` from an invariant that a worker past its claim owns a
  `running` row of its own repository. It needs the assumption `Undisturbed`: no job runs
  longer than `runningJobTimeoutMs`, `markJobCompleted` and its progress write do not throw,
  and no deletion runs. Each of them lets the row leave `running` under a worker that still
  executes, or settles, the job. The runs cover what the assumption leaves out as far as it
  holds there.
* `AttemptsCounted` (`AttemptsBounded`) and `ProgressKept` (`ProgressAgrees`). Neither property speaks of the
  workers, and the rows alone do not tell why they hold: `CountInv` ties the attempts of a row to what its worker
  has `seen` (equal until the claim commits, at most one more after it), gives every running row a worker,
  and every pending row an attempt that is left; `AgreeInv` says for each step of a worker what its two rows
  show, and that the tables have the same jobs. Both rest on `LockInv`: a job has one holder (`OneHolder`).
  They assume `OneProcess` (one process, no crash, no job longer than `runningJobTimeoutMs`). For two processes
  the first is false (see the divergences above). A crash leaves rows that nobody holds. `ProgressKept` also assumes `Kept`:
  no deletion, which removes waiting rows before their progress rows, and no retention, which removes the rows
  of the two tables each by its own age. Writes that throw and claims that run twice are all allowed. TLC checked
  both invariants on a process with two workers and all the events before they were proved.

`FullIndexProofs`, for every number of runs, files, chunks, workers and batches:

* `TypeCorrect` from `Shape`, which adds that `currentBatch` is finite and not full and that
  a worker past its first await has a file.
* `OnePlace` (`ChunksInOnePlace`) from `FilesApart` and `BatchesApart`: what is scheduled is
  behind `nextIndex` and never ahead of a worker on its file, and a file has one worker.
* `NothingLost` (`IndexComplete`) from `Ordered` (one run at a time, its stage fixes what is
  empty), `Covered` (while no worker has thrown, every chunk of a file that was taken is
  written, scheduled or ahead of a worker) and `Watched`. It assumes `BatchFailuresSeen`:
  batches do not fail, or the only file worker waits for each of them. Without it the theorem
  is false, as `lost_batch` shows. Files, the store and the process may fail in every way.

`CodeSearchProofs`, for every set of users, tokens, installations and repositories, and every finite set of
searches:

* `TypeCorrect`, `ReadsOnlyAccessible` (`FoundWasAccessible`) and `QuotaHolds` (`WithinLimit`) from
  one invariant of three parts. `SeenInv` says what the stage of a search already knows: what its
  `user`, `left`, `target` and `via` were read from is in `held`, which only grows. `CountInv` says
  that a usage row is the *cardinality* of the searches counted for that user and day, and that
  of those that were let through at most `Limit` are at or past the read. The properties alone are not
  inductive: the moment at which access was checked is long past when the points are read.

`StoreProofs`, for every menu of requests, number of slots, batch size and limit:

* `TypeCorrect` from `Shape`, which ties the fields of a slot to the statement it is at.
* `DeleteFinds`, `PointsBelong` and `OnPurpose` from `Core`: a point that is stored, and not in `raced`,
  has its lookup row under every directory (`ListedInv`), a delete under way has removed no row of an
  id without its point (`SweptInv`), `was` holds every path an id was listed under (`WasInv`), and a
  collection that is being dropped has no points once they have been deleted (`DimInv`).
* `DeletesComplete` (`DeletedIsGone`) and `UpsertsComplete` (`CompletedIsWhole`) from an invariant
  for what the slot has done so far: the batches, ids, chunks of paths or pages before the one at hand.
  The second assumes `DistinctIds`: a request that names an id twice keeps the later point, and which
  one that is the property does not ask.

`ServiceProofs`, for every set of users, installations, repositories, deliveries and handlers:

* `TypeCorrect` from `Shape`, which says what each field of a handler, job, sign-in and deletion is at
  each of its stages.
* `HandledOnce` (`JobsOfDeliveries`) from `HolderInv` (a reserved delivery has exactly one handler until it
  is answered) and `OnceInv` (what the handler has enqueued so far is what its event asks for).
* `SettledRows` (`Settled`) from `SettleInv`: the row of a repository that is not in `astray` is what the
  last job, or the job and the write that are under way, will leave.
* `NothingLeft` (`ErasedIsGone`) from `UserInv` and `InstallationInv`: what a deletion has already removed
  stays away, and what remains of an installation without users is still on a list of a deletion
  under way. The proof failed at first and TLC then showed why on a larger instance: `Unlink` used
  to take the installation out of `touched` whatever went on for it. A webhook may have enqueued a job for
  a repository that has no row yet, and delete-my-data lists an installation's repositories by their rows
  (`publicApi.ts:671`): the job then makes a collection that nobody deletes. `Findable` names this
  exception now.

The assumptions on constants are the conjuncts of each module's `...Assumption`: sets that stand for
different things are disjoint, `None` is in none of them, bounds are natural numbers, sets that are
counted are finite, sequences are sequences. Five further ones are hypotheses of the theorems that need
them, which are false without: `Undisturbed`, `OneProcess`, `Kept`, `BatchFailuresSeen` and `DistinctIds`.

`RepoIndexProofs` and `RepoIndexHeadProofs`, for every set of commits with any trees and settings, every
history the branch may take through them, any number of attempts, pushes, requests and errors:

* `TypeCorrect` from `Shape`, which says what the fields of a job are at each of its steps.
* `DeletionIsComplete` (`DeletedIsGone`) from `DropInv`: whatever is not in `todo` any more is gone, and a
  pull request's collection without a manifest, which `Listed` does not see, is left only by a job that
  was given up.
* `PullRequestFollowsHead` (`PullRequestIsIndexed`) from `PullRequestInv`: of the jobs that wait the last one
  is of the head, and so is the job that runs when none waits. It needs `FullInv`, which says what a full
  index has stored and listed so far.
* `ReadyNamesIndex` (`ReadyIsIndexed`) from `ReadyInv`. The row counts chunks by the manifest's list, the
  property by points: `FullTotal` says that the sizes of disjoint sets add up to that of their union.
* `HeadIsFollowed` (`IndexIsHead`), the main theorem. At rest the property says that collection and
  manifest are the index of the head; in between a push may be half applied, retried, waiting, or have
  been turned into a full index. The invariant is pointwise. A path `Pends` when the push that runs
  or one that waits changes it; `HeadInv` says that every other path holds and lists what the head has
  there, as long as no collection is being rebuilt (`Broken`) and the configuration does not pend.
  `Chain` says that the pushes that wait lead from commit to commit to the head, so that a full index of an
  older commit is caught up by those that remain. `ApplyInv` is `HeadInv` for a push under way: what it has
  applied is as in its commit. That a retry does no harm rests on trees (`NoFileBelow`: below a path
  that a push touches there is nothing it leaves alone) and on the order of a comparison (`OrderInv`:
  what is applied later does not lie above what was applied before, unless as the old name of a
  rename, which is what `rename_wipes` shows and `Wiped` excepts). `PathInv` ties each step to the
  decisions that led there: only a push that falls back every time, `Rebuilds`, ever empties the
  collection. Two things in the module were wrong or too vague for the proof: `RolledBack` was
  missing, and `Changes` took every candidate for the old name of a rename out of the list, not only the
  one that is reported.

Induction. The library's induction theorems cannot be used with operators, but induction can be
stated for a set of numbers (`Induction` in `RepoIndexProofs`, from the library's well-founded order of the
naturals): a set that holds 0 and is closed under successors holds every natural number. With the set
written out for the fact at hand this is enough for sums and unions over finite sets.

`ChunkerProofs`, for files of any number of lines, any lines, options and nodes:

* `TypeCorrect` and `EveryChunkFits` (`ChunksFit`) from `Well`: what is gathered in the buffer fits
  whenever there is something, so a flush does; a single line fits because trimming does not lengthen it
  (`TrimIs`), and a piece of a long line by its bounds (`PieceIs`).
* `ChunksNameTheirLines` (`LinesNamed`) from `Named`: the lines of the window and of the buffer come from the
  lines of the file that they are counted as. `TrimSources` says that trimming loses no ink, and no line
  when the first is not blank, which is what the preamble of a Markdown file may break.

* `TextIsKept` (`NothingLost`) from `WindowInv` and `FileInv`. The property speaks of finished files only, so it
  needs to be known all the way where a character is. `FileInv`: all that must be kept is in the chunks, in the lines
  of the call or in a section that is left, and without an overlap in one of them only; `MarkdownCovers` and
  `ParagraphsCover` establish it (the sections leave out only blank lines and share none). `WindowInv`: in
  a call the buffer holds the last lines that were read, and the chunks of the call have the ink of exactly the
  lines before it, each character once. `TrimInk` and `PiecesInk` say the same of trimming and of the pieces of a
  long line. With an overlap, or for the text between the nodes of a syntax tree, the property promises less, and
  so does the theorem.

`Length` and `Pieces` are folds. `FoldExists` constructs the function a fold evaluates, `FoldStays`
carries what each step keeps to the result, and `PiecesFold` gives the chunks before and after each piece.

Only model-checked: the liveness properties (`JobsSettle`, `DeletionEnds`, `RunsEnd`, `JobsEnd`,
`EraseEnds`, `UpsertsAnswered`), which need fairness and ENABLED and are out of the prover's reach.

## Plan

1. A driver module: refresh, cooldown, and callbacks that outlive the grace period.

## Not modelled

* The driver's refresh (`ydb/client.ts`) and the creation of the tables (`ydb/schema.ts`): what they do to
  a statement, an error or a repetition, is in every module; whether a broken driver is replaced in time
  depends on clocks.
* Progress counters and the per-job write lock of `YdbIndexingProgressStore`; the expiry of deliveries.
* Listings of the dashboard and of MCP (repositories, indexes, jobs), retrieval of points by id, scores,
  payload signatures: they read one table and change nothing.
* GitHub's tokens and check runs, the embedding service: external calls that answer or throw.
* HTTP routing, configuration, logging, start-up, and the compute pool, a wrapper of a worker-thread
  library with an inline fall-back.
