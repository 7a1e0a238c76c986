---------------------------- MODULE IndexingQueue ----------------------------
(***************************************************************************)
(* YdbIndexingQueue (src/code-indexer/stateStore.ts): the durable job queue *)
(* of the GitHub App indexer.  Indexer processes share two YDB tables, the *)
(* jobs and their progress; each process runs up to |Workers| drain        *)
(* workers that claim, run and settle jobs.  Every YDB statement is one    *)
(* step and so is the code between two awaits; a process may crash between *)
(* any two steps and keeps nothing but the tables.                         *)
(*                                                                         *)
(* A YDB call that fails while a worker claims a job or while it records a *)
(* failed attempt rejects the worker's promise: nothing handles the        *)
(* rejection and the process ends, so those failures are Crash.            *)
(***************************************************************************)
EXTENDS Naturals, FiniteSets

CONSTANTS Procs,        \* indexer processes
          Workers,      \* drain worker slots of a process: its concurrency
          Jobs,         \* job ids (jobIdForJob)
          Repos,        \* repository keys (repoLockKeyForJob)
          RepoOf,       \* the repository key of each job
          None,         \* no job, no repository, no claim
          MaxAttempts,  \* maxAttempts
          ScanLimit,    \* JOB_CLAIM_SCAN_LIMIT
          Deletable,    \* repositories whose owner may ask for deletion
          Events,       \* what the environment may do, see EventKinds
          MaxEnqueues,  \* bound: calls of enqueue
          MaxCrashes    \* bound: process crashes

EventKinds ==
  { "jobError",       \* processJob throws
    "progressError",  \* a progress write in the try block throws
    "completeError",  \* markJobCompleted throws
    "enqueueError",   \* enqueue commits and throws before it drains
    "lostReply",      \* a committed claim is executed again by withSession
    "overrun",        \* a job runs for longer than runningJobTimeoutMs
    "expiry" }        \* rows get older than retentionDays

ASSUME QueueAssumption ==
  /\ RepoOf \in [Jobs -> Repos]
  /\ None \notin Jobs /\ None \notin Repos /\ None \notin Procs \X Workers
  /\ None \notin Workers /\ Workers # {}
  /\ MaxAttempts \in Nat \ {0}
  /\ ScanLimit \in Nat \ {0}
  /\ MaxEnqueues \in Nat /\ MaxCrashes \in Nat
  /\ Deletable \subseteq Repos
  /\ Events \subseteq EventKinds

VARIABLES
  \* the tables
  jobs,             \* jobs[j]: the row of job j
  before,           \* <<j, k>>: the row of j was created before the row of k
  progress,         \* progress[j]: the status of job j's progress row
  \* memory of each process
  worker,           \* worker[p][w]: what drain worker w of p is doing
  claimLock,        \* claimLock[p]: the worker that holds the claim lock
  runningRepoKeys,  \* runningRepoKeys[p]: repositories p is working on
  drainRequested,   \* drainRequested[p]
  enqueuing,        \* enqueuing[p]: jobs committed whose drain() is to come
  deletion,         \* deletion[p]: p's call of deleteRepositoryJobs
  house,            \* house[p]: start-up and retention cleanup of p
  \* bounds
  enqueues, crashes

tables == <<jobs, before, progress>>
memory == <<worker, claimLock, runningRepoKeys, drainRequested, enqueuing,
            deletion, house>>
vars == <<jobs, before, progress, worker, claimLock, runningRepoKeys,
          drainRequested, enqueuing, deletion, house, enqueues, crashes>>

-----------------------------------------------------------------------------
(* The tables.                                                             *)

JobStatus == {"absent", "pending", "running", "completed", "failed"}

Row == [status : JobStatus, attempts : Nat,
        claim : (Procs \X Workers) \cup {None}, old : BOOLEAN]

NoRow  == [status |-> "absent", attempts |-> 0, claim |-> None, old |-> FALSE]
NewRow == [NoRow EXCEPT !.status = "pending"]

Stored  == {j \in Jobs : jobs[j].status # "absent"}
Pending == {j \in Jobs : jobs[j].status = "pending"}
RunningOf(r) == {j \in Jobs : RepoOf[j] = r /\ jobs[j].status = "running"}

\* Both INSERTs of enqueueStoredJobWithProgress, each only if the row is not there.
InsertJob(j) ==
  /\ IF jobs[j].status = "absent"
     THEN /\ jobs' = [jobs EXCEPT ![j] = NewRow]
          /\ before' = before \cup {<<k, j>> : k \in Stored}
     ELSE UNCHANGED <<jobs, before>>
  /\ progress' = IF progress[j] = "absent"
                 THEN [progress EXCEPT ![j] = "pending"] ELSE progress

\* Mutant: an UPSERT where the code has an UPDATE.
SettledByUpsert(j, s) ==
  [jobs EXCEPT ![j] = [@ EXCEPT !.status = s, !.claim = None, !.old = FALSE]]

\* UPDATE ... SET status = s, claim_id = NULL WHERE job_id = j.
Settled(j, s) ==
  IF jobs[j].status = "absent" THEN jobs
  ELSE [jobs EXCEPT ![j] = [@ EXCEPT !.status = s, !.claim = None, !.old = FALSE]]

DeleteJobs(S) ==
  /\ jobs' = [j \in Jobs |-> IF j \in S THEN NoRow ELSE jobs[j]]
  /\ before' = {e \in before : e[1] \notin S /\ e[2] \notin S}

\* Mutant: the phase is written to the status column.
ProgressPhaseSet(j, s) ==
  IF progress[j] = "absent" THEN progress ELSE [progress EXCEPT ![j] = "queued"]

\* updateJobProgress: UPDATE of an existing row.
ProgressSet(j, s) ==
  IF progress[j] = "absent" THEN progress ELSE [progress EXCEPT ![j] = s]

\* One page of selectPendingJobRows: the pending rows by created_at.
Rank(j) == Cardinality({k \in Pending : <<k, j>> \in before})
Page(offset) == {j \in Pending : offset <= Rank(j) /\ Rank(j) < offset + ScanLimit}

-----------------------------------------------------------------------------
(* The memory of a process.                                                *)

\* A worker is "off" (a free slot), "claim"ing under the claim lock ("mark",
\* "adopt": the claim is sent, committed), in processStoredJob ("start" to
\* "failed"), or "done" (its promise resolved, its finally handler to come).
FreeSteps == {"off", "claim", "done"}
BusySteps == {"mark", "adopt", "start", "run", "report", "requeue", "requeued",
              "fail", "failed"}

\* job: the job selected; seen: its attempts as selected; offset: of the scan.
FreeWorker == [pc : FreeSteps, job : {None}, seen : {0}, offset : Nat]
BusyWorker == [pc : BusySteps, job : Jobs, seen : Nat, offset : {0}]
WorkerState == FreeWorker \cup BusyWorker

At(step)  == [pc |-> step, job |-> None, seen |-> 0, offset |-> 0]
Off       == At("off")
Claiming  == At("claim")
Done      == At("done")

DeletionSteps == {"idle", "purge", "await", "waiting", "check", "wipe", "test"}
NoDeletion == [pc |-> "idle", repo |-> None, busy |-> FALSE]

HouseSteps == {"down", "reset", "clean", "idle"}

Alive(p) == house[p] # "down"

\* The job row that worker w of p works on, whatever the row says.
JobOf(p, w) == worker[p][w].job
Held(j) == \E p \in Procs, w \in Workers : JobOf(p, w) = j

Goto(p, w, step) == worker' = [worker EXCEPT ![p][w].pc = step]

\* Mutant: a drain() that finds no free slot is forgotten.
DrainForgets(p, ws) ==
  /\ worker' = [worker EXCEPT ![p] =
                  [w \in Workers |-> IF ws[w].pc = "off" THEN Claiming ELSE ws[w]]]
  /\ drainRequested' = [drainRequested EXCEPT ![p] = FALSE]

\* drain(): fill every free slot of ws, or remember that there was none.
Drain(p, ws) ==
  IF \A w \in Workers : ws[w].pc # "off"
  THEN /\ worker' = [worker EXCEPT ![p] = ws]
       /\ drainRequested' = [drainRequested EXCEPT ![p] = TRUE]
  ELSE /\ worker' = [worker EXCEPT ![p] =
                       [w \in Workers |-> IF ws[w].pc = "off" THEN Claiming ELSE ws[w]]]
       /\ drainRequested' = [drainRequested EXCEPT ![p] = FALSE]

-----------------------------------------------------------------------------
Init ==
  /\ jobs = [j \in Jobs |-> NoRow]
  /\ before = {}
  /\ progress = [j \in Jobs |-> "absent"]
  /\ worker = [p \in Procs |-> [w \in Workers |-> Off]]
  /\ claimLock = [p \in Procs |-> None]
  /\ runningRepoKeys = [p \in Procs |-> {}]
  /\ drainRequested = [p \in Procs |-> FALSE]
  /\ enqueuing = [p \in Procs |-> {}]
  /\ deletion = [p \in Procs |-> NoDeletion]
  /\ house = [p \in Procs |-> "reset"]
  /\ enqueues = 0
  /\ crashes = 0

-----------------------------------------------------------------------------
(* enqueue.                                                                *)

\* The insert commits; its caller's drain() comes with the reply.
Enqueue(p, j) ==
  /\ Alive(p)
  /\ enqueues < MaxEnqueues
  /\ enqueues' = enqueues + 1
  /\ InsertJob(j)
  /\ enqueuing' = [enqueuing EXCEPT ![p] = @ \cup {j}]
  /\ UNCHANGED <<worker, claimLock, runningRepoKeys, drainRequested, deletion,
                 house, crashes>>

\* The insert commits but withSession throws: the caller sees an error.
EnqueueThrows(p, j) ==
  /\ "enqueueError" \in Events
  /\ Alive(p)
  /\ enqueues < MaxEnqueues
  /\ enqueues' = enqueues + 1
  /\ InsertJob(j)
  /\ UNCHANGED <<memory, crashes>>

EnqueueDrains(p, j) ==
  /\ j \in enqueuing[p]
  /\ enqueuing' = [enqueuing EXCEPT ![p] = @ \ {j}]
  /\ Drain(p, worker[p])
  /\ UNCHANGED <<tables, claimLock, runningRepoKeys, deletion, house, enqueues,
                 crashes>>

-----------------------------------------------------------------------------
(* claimNextPendingJob, under the claim lock of the process.               *)

\* Mutant: claims do not wait for each other.
NoClaimLock(p, w) == TRUE

\* The lock is a chain of promises: whoever is first in it goes on.
OwnsClaimLock(p, w) == claimLock[p] \in {None, w}

\* Mutant: the scan ignores the locked repositories.
AllOfPage(p, page) == page

\* Jobs of a page that this process may claim.
Unlocked(p, page) == {j \in page : RepoOf[j] \notin runningRepoKeys[p]}

ClaimStep(p, w) ==
  /\ worker[p][w].pc = "claim"
  /\ OwnsClaimLock(p, w)
  /\ UNCHANGED <<tables, runningRepoKeys, drainRequested, enqueuing, deletion,
                 house, enqueues, crashes>>

\* selectNextUnlockedPendingJob finds the oldest unlocked job of the page.
SelectJob(p, w) ==
  /\ ClaimStep(p, w)
  /\ LET free == Unlocked(p, Page(worker[p][w].offset)) IN
     \E j \in free :
       /\ \A k \in free \ {j} : <<j, k>> \in before
       /\ worker' = [worker EXCEPT ![p][w] =
                       [pc |-> "mark", job |-> j, seen |-> jobs[j].attempts, offset |-> 0]]
  /\ claimLock' = [claimLock EXCEPT ![p] = w]

\* Every job of a full page is locked: read the next page.
SelectNextPage(p, w) ==
  /\ ClaimStep(p, w)
  /\ LET page == Page(worker[p][w].offset) IN
       /\ Unlocked(p, page) = {}
       /\ Cardinality(page) >= ScanLimit
  /\ worker' = [worker EXCEPT ![p][w].offset = @ + ScanLimit]
  /\ claimLock' = [claimLock EXCEPT ![p] = w]

\* The last page holds nothing to claim: the worker returns.
SelectNone(p, w) ==
  /\ ClaimStep(p, w)
  /\ LET page == Page(worker[p][w].offset) IN
       /\ Unlocked(p, page) = {}
       /\ Cardinality(page) < ScanLimit
  /\ worker' = [worker EXCEPT ![p][w] = Done]
  /\ claimLock' = [claimLock EXCEPT ![p] = None]

\* Mutant: the claim does not look for a running job of the repository.
ClaimableAlone(j) == jobs[j].status = "pending"

\* The WHERE clause of markJobRunning.
Claimable(j) == jobs[j].status = "pending" /\ RunningOf(RepoOf[j]) = {}

\* Its SELECT: the row carries this claim_id.
ClaimVerified(p, w) ==
  /\ jobs[JobOf(p, w)].status = "running"
  /\ jobs[JobOf(p, w)].claim = <<p, w>>

MarkStep(p, w) ==
  /\ worker[p][w].pc = "mark"
  /\ UNCHANGED <<before, progress, runningRepoKeys, drainRequested, enqueuing,
                 deletion, house, enqueues, crashes>>

TakeRow(p, w, j) ==
  jobs' = [jobs EXCEPT ![j] = [status |-> "running", attempts |-> @.attempts + 1,
                               claim |-> <<p, w>>, old |-> FALSE]]

MarkRunning(p, w) ==
  /\ MarkStep(p, w)
  /\ \/ Claimable(JobOf(p, w)) /\ TakeRow(p, w, JobOf(p, w))
     \/ ClaimVerified(p, w) /\ UNCHANGED jobs
  /\ Goto(p, w, "adopt")
  /\ UNCHANGED claimLock

\* The claim commits, the reply is lost, withSession runs it again.
MarkRunningAgain(p, w) ==
  /\ "lostReply" \in Events
  /\ MarkStep(p, w)
  /\ Claimable(JobOf(p, w))
  /\ TakeRow(p, w, JobOf(p, w))
  /\ UNCHANGED <<worker, claimLock>>

\* Not claimed: claimNextPendingJob returns null and so does the worker.
MarkRefused(p, w) ==
  /\ MarkStep(p, w)
  /\ ~ Claimable(JobOf(p, w))
  /\ ~ ClaimVerified(p, w)
  /\ worker' = [worker EXCEPT ![p][w] = Done]
  /\ claimLock' = [claimLock EXCEPT ![p] = None]
  /\ UNCHANGED jobs

\* The reply of the claim: the repository is locked, the claim lock released.
Adopt(p, w) ==
  /\ worker[p][w].pc = "adopt"
  /\ runningRepoKeys' = [runningRepoKeys EXCEPT ![p] = @ \cup {RepoOf[JobOf(p, w)]}]
  /\ claimLock' = [claimLock EXCEPT ![p] = None]
  /\ Goto(p, w, "start")
  /\ UNCHANGED <<tables, drainRequested, enqueuing, deletion, house, enqueues,
                 crashes>>

-----------------------------------------------------------------------------
(* processStoredJob.                                                       *)

WorkStep(p, w, step) ==
  /\ worker[p][w].pc = step
  /\ UNCHANGED <<before, claimLock, drainRequested, enqueuing, house, enqueues,
                 crashes>>

InTry(p, w, step) ==
  /\ WorkStep(p, w, step)
  /\ UNCHANGED <<runningRepoKeys, deletion>>

\* Mutant: one attempt too many.
CaughtOffByOne(p, w) ==
  Goto(p, w, IF worker[p][w].seen + 1 <= MaxAttempts THEN "requeue" ELSE "fail")

\* The catch clause counts the attempts it read when it selected the job.
Caught(p, w) ==
  Goto(p, w, IF worker[p][w].seen + 1 < MaxAttempts THEN "requeue" ELSE "fail")

\* Mutant: notifyRepoIdle is not called.
ReleaseSilently(p, w) ==
  /\ runningRepoKeys' = [runningRepoKeys EXCEPT ![p] = @ \ {RepoOf[JobOf(p, w)]}]
  /\ worker' = [worker EXCEPT ![p][w] = Claiming]
  /\ UNCHANGED deletion

\* The end of an iteration of drainWorker: unlock the repository, wake the
\* deletion that waits for it, and queue for the claim lock again.
Release(p, w) ==
  LET r == RepoOf[JobOf(p, w)] IN
  /\ runningRepoKeys' = [runningRepoKeys EXCEPT ![p] = @ \ {r}]
  /\ deletion' = IF deletion[p].pc = "waiting" /\ deletion[p].repo = r
                 THEN [deletion EXCEPT ![p].pc = "check"] ELSE deletion
  /\ worker' = [worker EXCEPT ![p][w] = Claiming]

StartJob(p, w) ==
  /\ InTry(p, w, "start")
  /\ progress' = ProgressSet(JobOf(p, w), "running")
  /\ Goto(p, w, "run")
  /\ UNCHANGED jobs

StartJobThrows(p, w) ==
  /\ "progressError" \in Events
  /\ InTry(p, w, "start")
  /\ Caught(p, w)
  /\ UNCHANGED <<jobs, progress>>

JobThrows(p, w) ==
  /\ "jobError" \in Events
  /\ InTry(p, w, "run")
  /\ Caught(p, w)
  /\ UNCHANGED <<jobs, progress>>

\* processJob returns and markJobCompleted commits.
MarkCompleted(p, w) ==
  /\ InTry(p, w, "run")
  /\ jobs' = Settled(JobOf(p, w), "completed")
  /\ Goto(p, w, "report")
  /\ UNCHANGED progress

\* markJobCompleted throws, before or after its update committed.
MarkCompletedThrows(p, w) ==
  /\ "completeError" \in Events
  /\ InTry(p, w, "run")
  /\ jobs' \in {jobs, Settled(JobOf(p, w), "completed")}
  /\ Caught(p, w)
  /\ UNCHANGED progress

ReportCompleted(p, w) ==
  /\ WorkStep(p, w, "report")
  /\ progress' = ProgressSet(JobOf(p, w), "completed")
  /\ Release(p, w)
  /\ UNCHANGED jobs

ReportCompletedThrows(p, w) ==
  /\ "progressError" \in Events
  /\ InTry(p, w, "report")
  /\ Caught(p, w)
  /\ UNCHANGED <<jobs, progress>>

MarkPendingForRetry(p, w) ==
  /\ InTry(p, w, "requeue")
  /\ jobs' = Settled(JobOf(p, w), "pending")
  /\ Goto(p, w, "requeued")
  /\ UNCHANGED progress

\* Mutant: the progress row is not put back.
RetryUnreported(p, w) ==
  /\ WorkStep(p, w, "requeued")
  /\ Release(p, w)
  /\ UNCHANGED <<jobs, progress>>

\* The progress row follows, then sleep(retryBackoffMs): the repository stays
\* locked until the backoff is over.
ReportRetry(p, w) ==
  /\ WorkStep(p, w, "requeued")
  /\ progress' = ProgressSet(JobOf(p, w), "pending")
  /\ Release(p, w)
  /\ UNCHANGED jobs

MarkFailed(p, w) ==
  /\ InTry(p, w, "fail")
  /\ jobs' = Settled(JobOf(p, w), "failed")
  /\ Goto(p, w, "failed")
  /\ UNCHANGED progress

\* The progress row follows, then reportFinalFailure, whose errors are swallowed.
ReportFailed(p, w) ==
  /\ WorkStep(p, w, "failed")
  /\ progress' = ProgressSet(JobOf(p, w), "failed")
  /\ Release(p, w)
  /\ UNCHANGED jobs

\* Mutant: the worker ends without looking at drainRequested.
WorkerEndsSilently(p, w) ==
  /\ worker[p][w].pc = "done"
  /\ worker' = [worker EXCEPT ![p][w] = Off]
  /\ UNCHANGED <<tables, claimLock, runningRepoKeys, drainRequested, enqueuing,
                 deletion, house, enqueues, crashes>>

\* The finally handler of startDrainWorker.
WorkerEnds(p, w) ==
  /\ worker[p][w].pc = "done"
  /\ LET ws == [worker[p] EXCEPT ![w] = Off] IN
     IF drainRequested[p] THEN Drain(p, ws)
     ELSE worker' = [worker EXCEPT ![p] = ws] /\ UNCHANGED drainRequested
  /\ UNCHANGED <<tables, claimLock, runningRepoKeys, enqueuing, deletion, house,
                 enqueues, crashes>>

-----------------------------------------------------------------------------
(* deleteRepositoryJobs.                                                   *)

DeletionStep(p, step) ==
  /\ deletion[p].pc = step
  /\ UNCHANGED <<worker, claimLock, runningRepoKeys, drainRequested, enqueuing,
                 house, enqueues, crashes>>

DeletionGoto(p, step) == deletion' = [deletion EXCEPT ![p].pc = step]

DeleteRequested(p, r) ==
  /\ Alive(p)
  /\ r \in Deletable
  /\ DeletionStep(p, "idle")
  /\ deletion' = [deletion EXCEPT ![p] = [pc |-> "purge", repo |-> r, busy |-> FALSE]]
  /\ UNCHANGED tables

\* deleteNonRunningStoredRepositoryJobs
PurgeWaiting(p) ==
  /\ DeletionStep(p, "purge")
  /\ DeleteJobs({j \in Stored : /\ RepoOf[j] = deletion[p].repo
                                /\ jobs[j].status # "running"})
  /\ DeletionGoto(p, "await")
  /\ UNCHANGED progress

\* waitForRepoIdle
AwaitRepoIdle(p) ==
  /\ DeletionStep(p, "await")
  /\ DeletionGoto(p, IF deletion[p].repo \in runningRepoKeys[p] THEN "waiting"
                     ELSE "check")
  /\ UNCHANGED tables

\* hasRunningStoredRepositoryJob
CheckRunning(p) ==
  /\ DeletionStep(p, "check")
  /\ LET busy == RunningOf(deletion[p].repo) # {} IN
     deletion' = [deletion EXCEPT ![p] =
                    [@ EXCEPT !.pc = IF busy THEN "test" ELSE "wipe", !.busy = busy]]
  /\ UNCHANGED tables

\* deleteStoredRepositoryJobs: every job row and progress row of the repository.
WipeRows(p) ==
  /\ DeletionStep(p, "wipe")
  /\ DeleteJobs({j \in Stored : RepoOf[j] = deletion[p].repo})
  /\ progress' = [j \in Jobs |-> IF RepoOf[j] = deletion[p].repo THEN "absent"
                                 ELSE progress[j]]
  /\ DeletionGoto(p, "test")

\* The call returns.
DeleteReturns(p) ==
  /\ DeletionStep(p, "test")
  /\ deletion[p].repo \notin runningRepoKeys[p]
  /\ ~ deletion[p].busy
  /\ deletion' = [deletion EXCEPT ![p] = NoDeletion]
  /\ UNCHANGED tables

\* It sleeps for repoIdlePollMs and starts over.
DeleteRepeats(p) ==
  /\ DeletionStep(p, "test")
  /\ deletion[p].repo \in runningRepoKeys[p] \/ deletion[p].busy
  /\ DeletionGoto(p, "purge")
  /\ UNCHANGED tables

-----------------------------------------------------------------------------
(* start() and the retention cleanup.                                      *)

HouseStep(p, steps) ==
  /\ house[p] \in steps
  /\ UNCHANGED <<claimLock, runningRepoKeys, enqueuing, deletion, enqueues, crashes>>

\* resetRunningJobs: only rows older than runningJobTimeoutMs.
ResetRunningJobs(p) ==
  /\ HouseStep(p, {"reset"})
  /\ jobs' = [j \in Jobs |->
                IF jobs[j].status = "running" /\ jobs[j].old
                THEN [jobs[j] EXCEPT !.status = "pending", !.claim = None, !.old = FALSE]
                ELSE jobs[j]]
  /\ house' = [house EXCEPT ![p] = "clean"]
  /\ UNCHANGED <<before, progress, worker, drainRequested>>

\* Finished rows that retention has expired, as far as Events lets time pass.
Expired(finished) == IF "expiry" \in Events THEN SUBSET finished ELSE {{}}

\* Mutant: retention does not look at the status.
CleanupAnyState ==
  /\ \E S \in Expired(Stored) : DeleteJobs(S)
  /\ UNCHANGED progress

\* cleanupExpiredState: finished jobs and, in a statement of its own, finished
\* progress rows, each by its own updated_at.
CleanupExpiredState ==
  /\ \E S \in Expired({j \in Jobs : jobs[j].status \in {"completed", "failed"}}) :
       DeleteJobs(S)
  /\ \E S \in Expired({j \in Jobs : progress[j] \in {"completed", "failed"}}) :
       progress' = [j \in Jobs |-> IF j \in S THEN "absent" ELSE progress[j]]

\* At start-up drain() follows.
CleanupAtStart(p) ==
  /\ HouseStep(p, {"clean"})
  /\ CleanupExpiredState
  /\ house' = [house EXCEPT ![p] = "idle"]
  /\ Drain(p, worker[p])

\* The hourly timer of scheduleRetentionCleanup, set before start-up begins.
CleanupTimer(p) ==
  /\ HouseStep(p, HouseSteps \ {"down"})
  /\ CleanupExpiredState
  /\ UNCHANGED <<worker, drainRequested, house>>

-----------------------------------------------------------------------------
(* The environment.                                                        *)

\* runningJobTimeoutMs passes for a running row: one that nobody works on
\* any more, or, with "overrun", also one whose job takes that long.
RowAges(j) ==
  /\ jobs[j].status = "running" /\ ~ jobs[j].old
  /\ "overrun" \in Events \/ ~ Held(j)
  /\ jobs' = [jobs EXCEPT ![j].old = TRUE]
  /\ UNCHANGED <<before, progress, memory, enqueues, crashes>>

Crash(p) ==
  /\ Alive(p)
  /\ crashes < MaxCrashes
  /\ crashes' = crashes + 1
  /\ worker' = [worker EXCEPT ![p] = [w \in Workers |-> Off]]
  /\ claimLock' = [claimLock EXCEPT ![p] = None]
  /\ runningRepoKeys' = [runningRepoKeys EXCEPT ![p] = {}]
  /\ drainRequested' = [drainRequested EXCEPT ![p] = FALSE]
  /\ enqueuing' = [enqueuing EXCEPT ![p] = {}]
  /\ deletion' = [deletion EXCEPT ![p] = NoDeletion]
  /\ house' = [house EXCEPT ![p] = "down"]
  /\ UNCHANGED <<tables, enqueues>>

Restart(p) ==
  /\ house[p] = "down"
  /\ house' = [house EXCEPT ![p] = "reset"]
  /\ UNCHANGED <<tables, worker, claimLock, runningRepoKeys, drainRequested,
                 enqueuing, deletion, enqueues, crashes>>

-----------------------------------------------------------------------------
ClaimNext(p, w) ==
  \/ SelectJob(p, w) \/ SelectNextPage(p, w) \/ SelectNone(p, w)
  \/ MarkRunning(p, w) \/ MarkRunningAgain(p, w) \/ MarkRefused(p, w)
  \/ Adopt(p, w)

Process(p, w) ==
  \/ StartJob(p, w) \/ MarkCompleted(p, w) \/ ReportCompleted(p, w)
  \/ StartJobThrows(p, w) \/ JobThrows(p, w) \/ MarkCompletedThrows(p, w)
  \/ ReportCompletedThrows(p, w)
  \/ MarkPendingForRetry(p, w) \/ ReportRetry(p, w)
  \/ MarkFailed(p, w) \/ ReportFailed(p, w)
  \/ WorkerEnds(p, w)

DeleteNext(p) ==
  \/ PurgeWaiting(p) \/ AwaitRepoIdle(p) \/ CheckRunning(p) \/ WipeRows(p)
  \/ DeleteReturns(p) \/ DeleteRepeats(p)

HouseNext(p) == ResetRunningJobs(p) \/ CleanupAtStart(p)

Next ==
  \/ \E p \in Procs, j \in Jobs :
       Enqueue(p, j) \/ EnqueueThrows(p, j) \/ EnqueueDrains(p, j)
  \/ \E p \in Procs, w \in Workers : ClaimNext(p, w) \/ Process(p, w)
  \/ \E p \in Procs, r \in Repos : DeleteRequested(p, r)
  \/ \E p \in Procs : DeleteNext(p) \/ HouseNext(p) \/ CleanupTimer(p)
  \/ \E j \in Jobs : RowAges(j)
  \/ \E p \in Procs : Crash(p) \/ Restart(p)

Spec == Init /\ [][Next]_vars

\* Every await is answered and every job ends; the claim lock is a FIFO chain,
\* so a worker that waits for it gets it.  Nobody has to enqueue, to ask for a
\* deletion, to crash or to let a row grow old.
Fairness ==
  /\ \A p \in Procs, w \in Workers :
       /\ WF_vars(Process(p, w))
       /\ SF_vars(ClaimNext(p, w))
  /\ \A p \in Procs, j \in Jobs : WF_vars(EnqueueDrains(p, j))
  /\ \A p \in Procs : WF_vars(DeleteNext(p)) /\ WF_vars(HouseNext(p)) /\ WF_vars(Restart(p))

FairSpec == Spec /\ Fairness

-----------------------------------------------------------------------------
(* Properties.                                                             *)

\* Every variable keeps its shape.
TypeOK ==
  /\ jobs \in [Jobs -> Row]
  /\ before \subseteq Jobs \X Jobs
  /\ progress \in [Jobs -> JobStatus]
  /\ worker \in [Procs -> [Workers -> WorkerState]]
  /\ claimLock \in [Procs -> Workers \cup {None}]
  /\ runningRepoKeys \in [Procs -> SUBSET Repos]
  /\ drainRequested \in [Procs -> BOOLEAN]
  /\ enqueuing \in [Procs -> SUBSET Jobs]
  /\ deletion \in [Procs -> [pc : DeletionSteps, repo : Repos \cup {None}, busy : BOOLEAN]]
  /\ house \in [Procs -> HouseSteps]
  /\ enqueues \in 0 .. MaxEnqueues
  /\ crashes \in 0 .. MaxCrashes

\* The job of a worker runs or is about to, or its completion is being written.
Executing(p, w) == worker[p][w].pc \in {"start", "run"}

\* The worker is between Adopt and Release.
LocksRepo(p, w) ==
  worker[p][w].pc \in {"start", "run", "report", "requeue", "requeued", "fail", "failed"}

\* "Jobs for the same installation/repository stay serialized": no two
\* workers, of one process or of two, execute jobs of one repository.
RepoSerialized ==
  \A p, q \in Procs, v, w \in Workers :
    /\ Executing(p, v) /\ Executing(q, w)
    /\ RepoOf[JobOf(p, v)] = RepoOf[JobOf(q, w)]
    => p = q /\ v = w

\* The claim lock of a process makes its repository locks exclusive: from its
\* claim to the end of its backoff a worker is alone with its repository, and
\* runningRepoKeys holds exactly the repositories of such workers.
RepoLockExclusive ==
  \A p \in Procs :
    /\ runningRepoKeys[p] = {RepoOf[JobOf(p, w)] : w \in {v \in Workers : LocksRepo(p, v)}}
    /\ \A v, w \in Workers :
         LocksRepo(p, v) /\ LocksRepo(p, w) /\ v # w
           => RepoOf[JobOf(p, v)] # RepoOf[JobOf(p, w)]

\* The guard of markJobRunning: at most one row of a repository is running.
OneRunningRow ==
  \A j, k \in Jobs :
    /\ jobs[j].status = "running" /\ jobs[k].status = "running"
    /\ RepoOf[j] = RepoOf[k]
    => j = k

\* A job is attempted at most maxAttempts times, counting every claim.
AttemptsBounded == \A j \in Jobs : jobs[j].attempts <= MaxAttempts

\* Whatever throws in processStoredJob, a job that no worker holds shows in its
\* progress row as what it is.
ProgressAgrees ==
  \A j \in Jobs : ~ Held(j) => progress[j] = jobs[j].status

\* A drain() that found every slot busy is remembered by a worker that will
\* come back to it.
DrainRemembered ==
  \A p \in Procs : drainRequested[p] => \E w \in Workers : worker[p][w].pc # "off"

\* Only enqueue makes a row: no settling of a deleted job brings it back.
NoResurrection ==
  [][\A j \in Jobs :
       jobs[j].status = "absent" /\ jobs'[j].status # "absent" => enqueues' # enqueues]_vars

\* Every enqueued job ends, whatever else is queued or running: no wake-up is
\* lost between drain(), the claim scan and the end of a worker.
JobsSettle ==
  \A j \in Jobs : jobs[j].status = "pending"
                    ~> jobs[j].status \in {"completed", "failed", "absent"}

\* deleteRepositoryJobs returns.
DeletionEnds ==
  \A p \in Procs : deletion[p].pc = "purge" ~> deletion[p].pc = "idle"

\* The tables keep what JobLedger promises.
Ledger == INSTANCE JobLedger WITH ledger <- [j \in Jobs |-> jobs[j].status]
ImplementsLedger == Ledger!Spec

=============================================================================
